--------------------------- MODULE DocumentsHistory --------------------------
(***************************************************************************)
(* Documents with history variables that guard no step: which rows were    *)
(* held in two copies at once, whether two requests were between their     *)
(* checks and their insert together, and whether a document was copied.    *)
(***************************************************************************)
EXTENDS Documents

VARIABLES
    raced,   \* documents whose copies did not always have the row to themselves
    crowded, \* two requests have been on their way to an insert together
    copied   \* some document was reprocessed

historyVars == <<vars, raced, crowded, copied>>

Saves(r, d) == request[r].step = "save" /\ request[r].doc = d

Held(d) == handler.doc = d \/ \E r \in Requests : Saves(r, d)

Shared(d) ==
    \/ \E p, r \in Requests : p # r /\ Saves(p, d) /\ Saves(r, d)
    \/ handler.doc = d /\ \E r \in Requests : Saves(r, d)

Inserting(r) == request[r].step \in {"number", "setup", "put", "renumber", "insert"}

HistoryInit == Init /\ raced = {} /\ crowded = FALSE /\ copied = FALSE

HistoryNext ==
    /\ Next
    /\ raced' = raced \union
          {d \in Ids : Shared(d)' \/ (Held(d)' /\ docs'[d].archived # docs[d].archived)}
    /\ crowded' = (crowded \/ \E p, r \in Requests : p # r /\ Inserting(p)' /\ Inserting(r)')
    /\ copied' = (copied \/ \E r \in Requests : request'[r].step = "renumber")

HistorySpec == HistoryInit /\ [][HistoryNext]_historyVars

-----------------------------------------------------------------------------
(* Properties                                                              *)

\* Unless two requests are between their checks and their inserts together,
\* names are numbered apart and the documents stay within the limit of the
\* session; the latter only until one is reprocessed, which checks nothing.
SerialChecksHold == ~crowded => VersionsDistinct /\ (copied \/ WithinLimit)

\* As long as no two steps hold copies of a document together, a deletion is
\* final, and a result that was acknowledged never comes back to undo the
\* user's correction.  With old copies about, the one saved last decides.
SerialWritesStand ==
    [][\A d \in Ids \ raced : DeletionStands(d) /\ CorrectionStands(d)]_vars

-----------------------------------------------------------------------------
(* What makes them inductive                                               *)

\* No step rewrites what a row says of its file.
SameFile(row, old) ==
    row.filename = old.filename /\ row.size = old.size /\ row.version = old.version

CopiesKeepTheFile ==
    /\ \A r \in Requests : request[r].step = "save" =>
          SameFile(request[r].next, docs[request[r].doc])
    /\ handler # NoDelivery => SameFile(handler.next, docs[handler.doc])

\* A copy that has its row to itself differs from it by what it was made for.
CopiesAreFresh ==
    \A d \in Ids \ raced :
        /\ ~Shared(d)
        /\ Held(d) => ~docs[d].deleted
        /\ \A r \in Requests : Saves(r, d) =>
              request[r].next \in {[docs[d] EXCEPT !.deleted = TRUE],
                                   [docs[d] EXCEPT !.text = "corrected"]}
        /\ handler.doc = d => handler.next = [docs[d] EXCEPT !.text = "extracted"]

OneInserts == \A p, r \in Requests : Inserting(p) /\ Inserting(r) => p = r

\* The number drawn for a file or a row is beyond those of its name.
Beyond(filename, version) ==
    \A d \in Ids : docs[d].filename = filename => docs[d].version < version

NumbersAreNew ==
    \A r \in Requests :
        LET q == request[r] IN
        /\ q.step \in {"setup", "put"} => Beyond(q.file.filename, q.version)
        /\ q.step = "insert" => Beyond(q.row.filename, q.row.version)

\* What was checked still fits, and nothing unchecked is under way.
RoomIsLeft ==
    /\ WithinLimit
    /\ \A r \in Requests :
          LET q == request[r] IN
          /\ q.step # "renumber"
          /\ q.step \in {"number", "setup", "put"} =>
                GetSessionDocumentBytes + q.file.size <= MaxSession
          /\ q.step = "insert" => GetSessionDocumentBytes + q.row.size <= MaxSession

SerialChecks ==
    ~crowded => OneInserts /\ NumbersAreNew /\ VersionsDistinct /\ (copied \/ RoomIsLeft)

SerialInv == CopiesKeepTheFile /\ CopiesAreFresh /\ SerialChecks
=============================================================================
