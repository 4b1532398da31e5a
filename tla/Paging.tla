-------------------------------- MODULE Paging --------------------------------
(***************************************************************************)
(* A client that fetches a whole list page by page (fetch_all_pages of the *)
(* scripts, fetchAllPages of the dashboard) while rows are inserted and    *)
(* the demo seed gives rows other times.                                   *)
(*                                                                         *)
(* Each page is a request of its own: a SELECT of the rows committed then, *)
(* newest first, with LIMIT and OFFSET.  Runs, approvals and evaluations   *)
(* are ordered by created_at alone, so rows of one created_at come in any  *)
(* order, and in another one each time.  A row's created_at is set when it *)
(* is flushed, not when it is committed: a row may appear anywhere in the  *)
(* list.  No row is ever deleted.                                          *)
(***************************************************************************)
EXTENDS Naturals, FiniteSets

CONSTANTS
    Rows,     \* rows that may be inserted
    Times,    \* values of created_at
    PageSize, \* limit of a request (100)
    MaxItems  \* bound: how far the counters of a client that never ends are followed

ASSUME ConstantsAssumption ==
    /\ IsFiniteSet(Rows)
    /\ Times \subseteq Nat \ {0}
    /\ PageSize \in Nat \ {0}
    /\ MaxItems \in Nat

VARIABLES
    created,  \* created_at of each row, 0 of one that is not there
    pc,       \* whether the client has begun and whether it has finished
    listing,  \* what the endpoint does with limit and offset
    offset,   \* offset of the next request
    items,    \* length of the list fetched so far
    seen,     \* the rows in it
    start,    \* the rows that were there when it began
    inserted, \* rows inserted since
    restamped \* whether rows were given other times since

client == <<pc, listing, offset, items, seen>>
ghosts == <<start, inserted, restamped>>
vars == <<created, client, ghosts>>

Present == {x \in Rows : created[x] # 0}

TypeOK ==
    /\ created \in [Rows -> Times \cup {0}]
    /\ pc \in {"idle", "fetch", "done"}
    /\ listing \in {"paged", "whole"}
    /\ offset \in Nat
    /\ items \in Nat
    /\ seen \subseteq Present
    /\ start \subseteq Present
    /\ inserted \in Nat
    /\ restamped \in BOOLEAN

Init ==
    /\ created \in [Rows -> Times \cup {0}]
    /\ pc = "idle"
    /\ listing = "paged"
    /\ offset = 0
    /\ items = 0
    /\ seen = {}
    /\ start = {}
    /\ inserted = 0
    /\ restamped = FALSE

-----------------------------------------------------------------------------
(* The rows.                                                               *)

Insert(x, t) ==
    /\ created[x] = 0
    /\ created' = [created EXCEPT ![x] = t]
    /\ inserted' = IF pc = "fetch" THEN inserted + 1 ELSE inserted
    /\ UNCHANGED <<client, start, restamped>>

\* Mutant: the seed deletes the rows it cannot keep.
Restamp_Reset ==
    /\ created' \in [Rows -> Times \cup {0}]
    /\ \A x \in Rows : created[x] = 0 => created'[x] = 0
    /\ restamped' = TRUE
    /\ UNCHANGED <<client, start, inserted>>

\* apply_demo_timestamps: one transaction gives rows other times.
Restamp ==
    /\ created' \in [Rows -> Times \cup {0}]
    /\ \A x \in Rows : created'[x] = 0 <=> created[x] = 0
    /\ restamped' = TRUE
    /\ UNCHANGED <<client, start, inserted>>

-----------------------------------------------------------------------------
(* The client.                                                             *)

Begin(l) ==
    /\ pc # "fetch"
    /\ pc' = "fetch"
    /\ listing' = l
    /\ offset' = 0
    /\ items' = 0
    /\ seen' = {}
    /\ start' = Present
    /\ inserted' = 0
    /\ restamped' = FALSE
    /\ UNCHANGED created

\* What may be the first n rows by created_at DESC: all if there are fewer.
Leading(n) ==
    {s \in SUBSET Present :
        /\ \A x \in s, y \in Present \ s : created[x] >= created[y]
        /\ Cardinality(s) <= n
        /\ Cardinality(s) = n \/ s = Present}

\* A page that is not full is the last one.
\* Mutants: so is one that is just full; the pages overlap by a row; the next
\* request asks for the same page.
Receive_FullIsLast(page) ==
    LET n == Cardinality(page)
    IN  /\ seen' = seen \cup page
        /\ items' = items + n
        /\ IF n <= PageSize THEN pc' = "done" /\ UNCHANGED offset
                            ELSE UNCHANGED pc /\ offset' = offset + PageSize
Receive_Overlap(page) ==
    LET n == Cardinality(page)
    IN  /\ seen' = seen \cup page
        /\ items' = items + n
        /\ IF n < PageSize THEN pc' = "done" /\ UNCHANGED offset
                           ELSE UNCHANGED pc /\ offset' = offset + PageSize - 1
Receive_SamePage(page) ==
    LET n == Cardinality(page)
    IN  /\ seen' = seen \cup page
        /\ UNCHANGED <<items, offset>>
        /\ IF n < PageSize THEN pc' = "done" ELSE UNCHANGED pc

Receive(page) ==
    LET n == Cardinality(page)
    IN  /\ seen' = seen \cup page
        /\ items' = items + n
        /\ IF n < PageSize THEN pc' = "done" /\ UNCHANGED offset
                           ELSE UNCHANGED pc /\ offset' = offset + PageSize

FetchPage ==
    /\ pc = "fetch"
    /\ listing = "paged"
    /\ \E skipped \in Leading(offset), reached \in Leading(offset + PageSize) :
          skipped \subseteq reached /\ Receive(reached \ skipped)
    /\ UNCHANGED <<created, listing, ghosts>>

\* GET /agents/{id}/deployments has no limit and no offset: every request
\* returns every event.  The counters stop at the bound.
FetchWhole ==
    /\ pc = "fetch"
    /\ listing = "whole"
    /\ IF items < MaxItems THEN Receive(Present)
       ELSE /\ seen' = seen \cup Present
            /\ pc' = IF Cardinality(Present) < PageSize THEN "done" ELSE pc
            /\ UNCHANGED <<items, offset>>
    /\ UNCHANGED <<created, listing, ghosts>>

Next ==
    \/ \E x \in Rows, t \in Times : Insert(x, t)
    \/ Restamp
    \/ \E l \in {"paged", "whole"} : Begin(l)
    \/ FetchPage
    \/ FetchWhole

Spec == Init /\ [][Next]_vars

\* The client asks for the next page as soon as it has one.
FairSpec == Spec /\ WF_vars(FetchPage) /\ WF_vars(FetchWhole)

-----------------------------------------------------------------------------
(* Properties.                                                             *)

Alone(x) == \A y \in Rows \ {x} : created[y] # created[x]

\* A row that was there when the client began is in its list, whatever was
\* inserted meanwhile, when it shares its created_at with no other row and no
\* row was given another one (_demo_support.py:104-117, pagination.ts:5-17).
NothingMissed == pc = "done" /\ ~restamped => \A x \in start : Alone(x) => x \in seen

\* A row may be in the list twice, because an insertion pushes it to the next
\* page, but not more often than rows were inserted: the totals of the dashboard,
\* which count the list, are too high by no more (dashboard.ts:89,96-101).
FewRepeats ==
    pc # "idle" /\ listing = "paged" /\ ~restamped /\ (\A x \in Present : Alone(x))
        => items <= Cardinality(seen) + inserted

\* Paging ends, but for a list of at least a page from an endpoint that ignores
\* limit and offset (_demo_support.py:113, agents.py:117-123).
Endless == listing = "whole" /\ Cardinality(Present) >= PageSize
PagingEnds == pc = "fetch" ~> (pc = "done" \/ Endless)

-----------------------------------------------------------------------------
(* The inductive invariant: NothingMissed and FewRepeats follow from it.   *)

\* A row that the client has still to come to is behind the next offset.
Newer(x) == {y \in Rows : created[y] > created[x]}
Ahead ==
    pc = "fetch" /\ listing = "paged" /\ ~restamped =>
        \A x \in start : Alone(x) => x \in seen \/ Cardinality(Newer(x)) >= offset
Tallied ==
    pc = "fetch" =>
        /\ Cardinality(Present \ start) = inserted
        /\ listing = "paged" => items = offset /\ offset <= Cardinality(Present)
IInv ==
    /\ TypeOK
    /\ Ahead
    /\ Tallied
    /\ NothingMissed
    /\ FewRepeats
=============================================================================
