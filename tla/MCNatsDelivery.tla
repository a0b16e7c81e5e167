--------------------------- MODULE MCNatsDelivery ---------------------------
(* NatsDeliveryHistory on a small instance.                                *)
EXTENDS NatsDeliveryHistory, TLC

CONSTANTS m1, m2
=============================================================================
