----------------------------- MODULE Paging_proofs -----------------------------
(* Proofs about Paging, for any number of rows and any page size. *)
EXTENDS Paging, FiniteSetTheorems, TLAPS

USE ConstantsAssumption DEF ConstantsAssumption

LEMMA PresentFinite ==
    /\ IsFiniteSet(Present)
    /\ \A s \in SUBSET Present :
          /\ IsFiniteSet(s)
          /\ Cardinality(s) \in Nat
          /\ Cardinality(s) <= Cardinality(Present)
<1>1. Present \in SUBSET Rows
  BY DEF Present
<1>2. IsFiniteSet(Present)
  BY <1>1, FS_Subset
<1> QED
  BY <1>2, FS_Subset, FS_CardinalityType

LEMMA NewerFinite ==
    ASSUME NEW x \in Rows
    PROVE  IsFiniteSet(Newer(x)) /\ Cardinality(Newer(x)) \in Nat
<1>1. Newer(x) \in SUBSET Rows
  BY DEF Newer
<1> QED
  BY <1>1, FS_Subset, FS_CardinalityType

\* A row with more than n newer rows is not among the first n, and one with
\* fewer that is alone is.
LEMMA LeadingHolds ==
    ASSUME TypeOK, NEW n \in Nat, NEW s \in Leading(n), NEW x \in Present
    PROVE  /\ Cardinality(Newer(x)) >= n => x \notin s
           /\ Alone(x) /\ Cardinality(Newer(x)) < Cardinality(s) => x \in s
<1>0. /\ x \in Rows /\ s \in SUBSET Present /\ Present \subseteq Rows
      /\ \A y \in s, z \in Present \ s : created[y] >= created[z]
      /\ \A y \in Rows : created[y] \in Nat
      /\ Cardinality(s) <= n
  <2>1. /\ s \in SUBSET Present /\ Cardinality(s) <= n
        /\ \A y \in s, z \in Present \ s : created[y] >= created[z]
    BY DEF Leading
  <2>2. \A y \in Rows : created[y] \in Nat
    <3>1. created \in [Rows -> Times \cup {0}] /\ Times \cup {0} \subseteq Nat
      BY DEF TypeOK
    <3> QED
      BY <3>1
  <2> QED
    BY <2>1, <2>2 DEF Present
<1>f. /\ IsFiniteSet(s) /\ Cardinality(s) \in Nat
      /\ IsFiniteSet(Newer(x)) /\ Cardinality(Newer(x)) \in Nat
      /\ Newer(x) \subseteq Present
  <2>1. Newer(x) \subseteq Present
    BY <1>0 DEF Newer, Present
  <2> QED
    BY <1>0, <2>1, PresentFinite, NewerFinite
<1>1. ASSUME x \in s PROVE Cardinality(Newer(x)) < n
  <2>1. Newer(x) \subseteq s
    <3> SUFFICES ASSUME NEW y \in Newer(x), y \notin s PROVE FALSE
      OBVIOUS
    <3>1. y \in Present /\ created[y] > created[x]
      BY <1>f DEF Newer
    <3>2. created[x] >= created[y]
      BY <1>0, <1>1, <3>1
    <3> QED
      BY <1>0, <3>1, <3>2
  <2>2. x \notin Newer(x)
    BY <1>0 DEF Newer
  <2>3. Newer(x) \cup {x} \in SUBSET s
    BY <1>1, <2>1
  <2>4. Cardinality(Newer(x) \cup {x}) = Cardinality(Newer(x)) + 1
    BY <1>f, <2>2, FS_AddElement
  <2>5. Cardinality(Newer(x) \cup {x}) <= Cardinality(s)
    BY <1>f, <2>3, FS_Subset
  <2> QED
    BY <1>0, <1>f, <2>4, <2>5
<1>2. ASSUME Alone(x), x \notin s PROVE Cardinality(s) <= Cardinality(Newer(x))
  <2>1. s \in SUBSET Newer(x)
    <3> SUFFICES ASSUME NEW y \in s PROVE y \in Newer(x)
      OBVIOUS
    <3>1. y \in Rows /\ y # x /\ created[y] >= created[x] /\ created[y] # created[x]
      BY <1>0, <1>2 DEF Alone
    <3> QED
      BY <1>0, <3>1 DEF Newer
  <2> QED
    BY <1>f, <2>1, FS_Subset
<1> QED
  BY <1>0, <1>f, <1>1, <1>2

\* A page is the rows between two leading sets; one that is not full ends with
\* the last row.
LEMMA PageSizes ==
    ASSUME TypeOK, NEW skipped \in Leading(offset), NEW reached \in Leading(offset + PageSize),
           skipped \subseteq reached
    PROVE  /\ Cardinality(reached \ skipped) \in Nat
           /\ Cardinality(reached \ skipped) < PageSize => reached = Present
           /\ ~(Cardinality(reached \ skipped) < PageSize) =>
                 Cardinality(reached) = offset + PageSize
           /\ offset <= Cardinality(Present) =>
                 Cardinality(reached \ skipped) = Cardinality(reached) - offset
<1>0. /\ offset \in Nat /\ PageSize \in Nat \ {0}
      /\ skipped \in SUBSET Present /\ reached \in SUBSET Present
      /\ Cardinality(skipped) <= offset
      /\ Cardinality(skipped) = offset \/ skipped = Present
      /\ Cardinality(reached) <= offset + PageSize
      /\ Cardinality(reached) = offset + PageSize \/ reached = Present
  BY DEF Leading, TypeOK
<1>1. /\ IsFiniteSet(skipped) /\ Cardinality(skipped) \in Nat
      /\ IsFiniteSet(reached) /\ Cardinality(reached) \in Nat
  BY <1>0, PresentFinite
<1>2. /\ IsFiniteSet(reached \ skipped)
      /\ Cardinality(reached \ skipped) = Cardinality(reached) - Cardinality(reached \cap skipped)
  BY <1>1, FS_Difference
<1>3. reached \cap skipped = skipped
  OBVIOUS
<1>4. Cardinality(reached \ skipped) \in Nat
  BY <1>2, FS_CardinalityType
<1>5. Cardinality(reached \ skipped) = Cardinality(reached) - Cardinality(skipped)
  BY <1>2, <1>3
<1>p. Cardinality(Present) \in Nat /\ Cardinality(reached) <= Cardinality(Present)
  BY <1>0, PresentFinite
<1>6. CASE Cardinality(skipped) = offset
  BY <1>0, <1>1, <1>4, <1>5, <1>6, <1>p
<1>7. CASE skipped = Present
  <2>1. reached = skipped
    BY <1>0, <1>7
  <2> QED
    BY <1>0, <1>1, <1>4, <1>5, <1>7, <1>p, <2>1
<1> QED
  BY <1>0, <1>6, <1>7

LEMMA UnionBound ==
    ASSUME NEW A, NEW B, NEW C, IsFiniteSet(B), IsFiniteSet(C), A \subseteq B \cup C
    PROVE  Cardinality(A) <= Cardinality(B) + Cardinality(C)
<1>1. /\ IsFiniteSet(B \cup C)
      /\ Cardinality(B \cup C) = Cardinality(B) + Cardinality(C) - Cardinality(B \cap C)
  BY FS_Union
<1>2. IsFiniteSet(B \cap C)
  BY FS_Subset, B \cap C \in SUBSET B
<1>3. /\ Cardinality(B) \in Nat /\ Cardinality(C) \in Nat /\ Cardinality(B \cap C) \in Nat
      /\ Cardinality(B \cup C) \in Nat
  BY <1>1, <1>2, FS_CardinalityType
<1>4. IsFiniteSet(A) /\ Cardinality(A) <= Cardinality(B \cup C)
  BY <1>1, FS_Subset
<1>5. Cardinality(A) \in Nat
  BY <1>4, FS_CardinalityType
<1> QED
  BY <1>1, <1>3, <1>4, <1>5

LEMMA InitIInv == Init => IInv
<1> SUFFICES ASSUME Init PROVE IInv
  OBVIOUS
<1>1. TypeOK
  BY DEF Init, TypeOK
<1> QED
  BY <1>1 DEF Init, IInv, Ahead, Tallied, NothingMissed, FewRepeats

LEMMA FetchPageStep ==
    ASSUME IInv, FetchPage
    PROVE  IInv'
<1>0. TypeOK /\ Ahead /\ Tallied /\ start \subseteq Present /\ seen \subseteq Present
  BY DEF IInv, TypeOK
<1>1. PICK skipped \in Leading(offset), reached \in Leading(offset + PageSize) :
         skipped \subseteq reached /\ Receive(reached \ skipped)
  BY DEF FetchPage
<1> DEFINE page == reached \ skipped
<1>2. /\ pc = "fetch" /\ listing = "paged" /\ UNCHANGED <<created, listing, start, inserted, restamped>>
      /\ Present' = Present
  BY DEF FetchPage, ghosts, Present
<1>3. /\ reached \subseteq Present /\ skipped \subseteq Present
      /\ offset \in Nat /\ offset + PageSize \in Nat /\ items \in Nat
  BY <1>0 DEF Leading, TypeOK
<1>4. /\ Cardinality(page) \in Nat
      /\ Cardinality(page) < PageSize => reached = Present
      /\ ~(Cardinality(page) < PageSize) => Cardinality(reached) = offset + PageSize
  BY <1>0, <1>1, PageSizes
<1>5. /\ seen' = seen \cup page
      /\ items' = items + Cardinality(page)
      /\ Cardinality(page) < PageSize => pc' = "done" /\ UNCHANGED offset
      /\ ~(Cardinality(page) < PageSize) => UNCHANGED pc /\ offset' = offset + PageSize
  BY <1>1 DEF Receive
<1>6. TypeOK'
  <2>1. seen' \subseteq Present
    BY <1>0, <1>3, <1>5 DEF TypeOK
  <2>2. /\ pc' \in {"idle", "fetch", "done"} /\ offset' \in Nat /\ items' \in Nat
    BY <1>0, <1>3, <1>4, <1>5 DEF TypeOK
  <2> QED
    BY <1>0, <1>2, <2>1, <2>2 DEF TypeOK
\* Each row that is alone is on the page, or was seen, or is still behind it.
<1>7. ASSUME ~restamped, NEW x \in start, Alone(x), x \notin seen
      PROVE  x \in page \/ (x \notin reached /\ Cardinality(Newer(x)) >= Cardinality(reached))
  <2>1. x \in Present /\ Cardinality(Newer(x)) >= offset
    BY <1>0, <1>2, <1>7 DEF Ahead
  <2>2. x \notin skipped
    BY <1>0, <1>1, <1>3, <2>1, LeadingHolds
  <2>3. Cardinality(Newer(x)) < Cardinality(reached) => x \in reached
    BY <1>0, <1>1, <1>3, <1>7, <2>1, LeadingHolds
  <2>4. Cardinality(Newer(x)) \in Nat /\ Cardinality(reached) \in Nat
    BY <1>3, <2>1, PresentFinite, NewerFinite DEF Present
  <2> QED
    BY <2>2, <2>3, <2>4
<1>8. \A x \in Rows : (Alone(x)' <=> Alone(x)) /\ Newer(x)' = Newer(x)
  BY <1>2 DEF Alone, Newer
<1>9. Ahead'
  <2> SUFFICES ASSUME pc' = "fetch", ~restamped, NEW x \in start, Alone(x), x \notin seen'
               PROVE  Cardinality(Newer(x)) >= offset'
    BY <1>0, <1>2, <1>8 DEF Ahead, Present
  <2>1. Cardinality(reached) = offset + PageSize /\ offset' = offset + PageSize
    BY <1>4, <1>5
  <2> QED
    BY <1>5, <1>7, <2>1
<1>10. NothingMissed'
  <2> SUFFICES ASSUME pc' = "done", ~restamped, NEW x \in start, Alone(x), x \notin seen'
               PROVE  FALSE
    BY <1>0, <1>2, <1>8 DEF NothingMissed, Present
  <2>1. reached = Present
    BY <1>2, <1>4, <1>5
  <2> QED
    BY <1>0, <1>5, <1>7, <2>1
<1>11. /\ items = offset /\ offset <= Cardinality(Present)
       /\ Cardinality(Present \ start) = inserted
  BY <1>0, <1>2 DEF Tallied
<1>12. /\ Cardinality(reached) \in Nat /\ Cardinality(reached) <= Cardinality(Present)
       /\ Cardinality(Present) \in Nat /\ inserted \in Nat
  BY <1>0, <1>3, PresentFinite DEF TypeOK
<1>13. items' = Cardinality(reached)
  <2>1. Cardinality(page) = Cardinality(reached) - offset
    BY <1>1, <1>0, PageSizes, <1>11
  <2> QED
    BY <1>3, <1>5, <1>11, <1>12, <2>1
<1>14. Tallied'
  <2>1. pc' = "fetch" => items' = offset' /\ offset' <= Cardinality(Present)
    BY <1>4, <1>5, <1>12, <1>13
  <2>2. Cardinality(Present' \ start') = inserted'
    BY <1>2, <1>11
  <2>3. Cardinality(Present') = Cardinality(Present)
    BY <1>2
  <2> QED
    BY <2>1, <2>2, <2>3 DEF Tallied
<1>15. FewRepeats'
  <2> SUFFICES ASSUME ~restamped, \A x \in Present : Alone(x)
               PROVE  items' <= Cardinality(seen') + inserted
    BY <1>2, <1>8 DEF FewRepeats, Present
  <2>1. reached \subseteq seen' \cup (Present \ start)
    BY <1>0, <1>3, <1>5, <1>7
  <2>2. seen' \in SUBSET Present /\ Present \ start \in SUBSET Present
    BY <1>0, <1>3, <1>5
  <2> DEFINE new == Present \ start
  <2>3. /\ IsFiniteSet(seen') /\ Cardinality(seen') \in Nat
        /\ IsFiniteSet(new) /\ Cardinality(new) = inserted
    BY <2>2, <1>11, PresentFinite
  <2>4. Cardinality(reached) <= Cardinality(seen') + inserted
    BY <2>1, <2>3, <1>12, UnionBound
  <2> QED
    BY <1>13, <2>4
<1> QED
  BY <1>6, <1>9, <1>10, <1>14, <1>15 DEF IInv

LEMMA FetchWholeStep ==
    ASSUME IInv, FetchWhole
    PROVE  IInv'
<1>0. TypeOK /\ start \subseteq Present /\ seen \subseteq Present
  BY DEF IInv, TypeOK
<1>1. /\ listing = "whole" /\ UNCHANGED <<created, listing, start, inserted, restamped>>
      /\ Present' = Present
  BY DEF FetchWhole, ghosts, Present
<1>2. Cardinality(Present) \in Nat
  BY PresentFinite
<1>3. /\ seen' = Present
      /\ pc' \in {"fetch", "done"} /\ offset' \in Nat /\ items' \in Nat
  BY <1>0, <1>2 DEF FetchWhole, Receive, TypeOK
<1> QED
  BY <1>0, <1>1, <1>3 DEF IInv, TypeOK, Ahead, Tallied, NothingMissed, FewRepeats, FetchWhole

LEMMA InsertStep ==
    ASSUME IInv, NEW z \in Rows, NEW t \in Times, Insert(z, t)
    PROVE  IInv'
<1>0. TypeOK
  BY DEF IInv
<1>1. /\ created[z] = 0 /\ created' = [created EXCEPT ![z] = t] /\ t \in Nat \ {0}
      /\ UNCHANGED <<pc, listing, offset, items, seen, start, restamped>>
      /\ inserted' \in Nat
      /\ inserted' = IF pc = "fetch" THEN inserted + 1 ELSE inserted
  BY <1>0 DEF Insert, client, TypeOK
<1>2. /\ Present' = Present \cup {z}
      /\ \A y \in Rows : created'[y] = IF y = z THEN t ELSE created[y]
  BY <1>0, <1>1 DEF Present, TypeOK
<1>3. TypeOK'
  BY <1>0, <1>1, <1>2 DEF TypeOK
<1>4. \A x \in Present : /\ Alone(x)' => Alone(x)
                         /\ Cardinality(Newer(x)') >= Cardinality(Newer(x))
  <2> SUFFICES ASSUME NEW x \in Present
               PROVE  /\ Alone(x)' => Alone(x)
                      /\ Cardinality(Newer(x)') >= Cardinality(Newer(x))
    OBVIOUS
  <2>1. x \in Rows /\ x # z /\ created[x] # 0
    BY <1>1 DEF Present
  <2>2. Alone(x)' => Alone(x)
    BY <1>1, <1>2, <2>1 DEF Alone
  <2>3. Newer(x) \in SUBSET (Newer(x)')
    <3> SUFFICES ASSUME NEW y \in Rows, created[y] > created[x]
                 PROVE  created'[y] > created'[x]
      BY DEF Newer
    <3>1. created[x] \in Nat \ {0} /\ created'[x] = created[x]
      BY <1>0, <1>2, <2>1 DEF TypeOK
    <3>2. y # z
      BY <1>1, <3>1
    <3> QED
      BY <1>2, <3>1, <3>2
  <2>4. IsFiniteSet(Newer(x)') /\ Cardinality(Newer(x)') \in Nat /\ Cardinality(Newer(x)) \in Nat
    <3>1. Newer(x)' \in SUBSET Rows
      BY DEF Newer
    <3> QED
      BY <2>1, <3>1, FS_Subset, FS_CardinalityType, NewerFinite
  <2> QED
    BY <2>2, <2>3, <2>4, FS_Subset
<1>5. start \subseteq Present /\ offset \in Nat
  BY <1>0 DEF TypeOK
<1>6. Ahead'
  <2> SUFFICES ASSUME pc = "fetch", listing = "paged", ~restamped,
                      NEW x \in start, Alone(x)', x \notin seen
               PROVE  Cardinality(Newer(x)') >= offset
    BY <1>1 DEF Ahead
  <2>1. Cardinality(Newer(x)) >= offset /\ Cardinality(Newer(x)) \in Nat
    BY <1>4, <1>5, NewerFinite DEF IInv, Ahead, Present
  <2>2. Cardinality(Newer(x)') \in Nat /\ Cardinality(Newer(x)') >= Cardinality(Newer(x))
    <3>1. Newer(x)' \in SUBSET Rows
      BY DEF Newer
    <3> QED
      BY <1>4, <1>5, <3>1, FS_Subset, FS_CardinalityType
  <2> QED
    BY <1>5, <2>1, <2>2
<1>7. NothingMissed'
  BY <1>1, <1>4, <1>5 DEF IInv, NothingMissed
<1>8. Tallied'
  <2>1. z \notin Present /\ z \notin start
    BY <1>1, <1>5 DEF Present
  <2>2. Present' \ start' = (Present \ start) \cup {z} /\ z \notin Present \ start
    BY <1>1, <1>2, <2>1
  <2>3. Cardinality(Present' \ start') = Cardinality(Present \ start) + 1
    <3>1. IsFiniteSet(Present \ start)
      BY PresentFinite
    <3> QED
      BY <2>2, <3>1, FS_AddElement
  <2>4. Cardinality(Present') = Cardinality(Present) + 1 /\ Cardinality(Present) \in Nat
    BY <1>2, <2>1, PresentFinite, FS_AddElement
  <2> QED
    BY <1>1, <1>5, <2>3, <2>4 DEF IInv, Tallied
<1>9. FewRepeats'
  <2> SUFFICES ASSUME pc # "idle", listing = "paged", ~restamped, \A x \in Present' : Alone(x)'
               PROVE  items <= Cardinality(seen) + inserted'
    BY <1>1 DEF FewRepeats
  <2>1. \A x \in Present : Alone(x)
    BY <1>2, <1>4
  <2>2. items <= Cardinality(seen) + inserted
    BY <2>1 DEF IInv, FewRepeats
  <2>3. items \in Nat /\ inserted \in Nat /\ Cardinality(seen) \in Nat
    BY <1>0, PresentFinite DEF TypeOK
  <2> QED
    BY <1>1, <2>2, <2>3
<1> QED
  BY <1>3, <1>6, <1>7, <1>8, <1>9 DEF IInv

LEMMA IInvStep == IInv /\ [Next]_vars => IInv'
<1> SUFFICES ASSUME IInv, [Next]_vars PROVE IInv'
  OBVIOUS
<1>0. TypeOK
  BY DEF IInv
<1>1. ASSUME NEW x \in Rows, NEW t \in Times, Insert(x, t) PROVE IInv'
  BY <1>1, InsertStep
<1>2. CASE Restamp
  <2>1. Present' = Present
    BY <1>2 DEF Restamp, Present
  <2> QED
    BY <1>0, <1>2, <2>1 DEF Restamp, client, IInv, TypeOK, Ahead, Tallied, NothingMissed, FewRepeats
<1>3. ASSUME NEW l \in {"paged", "whole"}, Begin(l) PROVE IInv'
  <2>1. TypeOK'
    BY <1>0, <1>3 DEF Begin, TypeOK, Present
  <2>2. Ahead'
    <3>1. \A x \in Rows : Newer(x)' = Newer(x) /\ Cardinality(Newer(x)) >= 0
      BY <1>3, NewerFinite DEF Begin, Newer
    <3> QED
      BY <1>3, <3>1 DEF Begin, Ahead, Present
  <2>3. Tallied'
    <3>1. Present' = Present /\ start' = Present /\ Present \ Present = {}
      BY <1>3 DEF Begin, Present
    <3>2. Cardinality(Present' \ start') = 0 /\ 0 <= Cardinality(Present')
      BY <3>1, FS_EmptySet, PresentFinite
    <3> QED
      BY <1>3, <3>2 DEF Begin, Tallied
  <2>4. FewRepeats'
    BY <1>3, FS_EmptySet DEF Begin, FewRepeats
  <2> QED
    BY <1>3, <2>1, <2>2, <2>3, <2>4 DEF Begin, IInv, NothingMissed
<1>4. CASE FetchPage
  BY <1>4, FetchPageStep
<1>5. CASE FetchWhole
  BY <1>5, FetchWholeStep
<1>6. CASE UNCHANGED vars
  BY <1>6 DEF vars, client, ghosts, IInv, TypeOK, Ahead, Tallied, NothingMissed, FewRepeats,
     Present, Alone, Newer
<1> QED
  BY <1>1, <1>2, <1>3, <1>4, <1>5, <1>6 DEF Next

\* The inductive invariant: what a client has still to see is behind its offset
\* (_demo_support.py:104-117).
THEOREM InvariantHolds == Spec => []IInv
BY InitIInv, IInvStep, PTL DEF Spec

\* The types of the rows and of what the client keeps.
THEOREM TypeCorrect == Spec => []TypeOK
BY InvariantHolds, PTL DEF IInv

\* For any number of rows, any page size and any insertions: paging misses no
\* row that was there from the beginning and has a created_at of its own
\* (_demo_support.py:104-117, pagination.ts:5-17).
THEOREM NothingEverMissed == Spec => []NothingMissed
BY InvariantHolds, PTL DEF IInv

\* ... and repeats a row at most once for each row inserted meanwhile, when all
\* have times of their own (_demo_support.py:104-117, dashboard.ts:89,96-101).
THEOREM RepeatsBounded == Spec => []FewRepeats
BY InvariantHolds, PTL DEF IInv
=============================================================================
