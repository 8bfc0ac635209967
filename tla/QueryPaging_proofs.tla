-------------------------- MODULE QueryPaging_proofs --------------------------
(***************************************************************************)
(* Theorems about paging with cursors (ext/db/query.js:95-132, 168-250),   *)
(* for any number of readers, of entities and of results to a page,        *)
(* whatever is inserted, deleted or asked in between.                      *)
(***************************************************************************)
EXTENDS QueryPaging, FiniteSetTheorems, WellFoundedInduction, TLAPS

-----------------------------------------------------------------------------
(***************************************************************************)
(* The least and the greatest of some numbers.                             *)
(***************************************************************************)
Less == {p \in Nat \X Nat : p[1] < p[2]}

\* There is no infinite descent.
LEMMA LessWellFounded == IsWellFoundedOn(Less, Nat)
<1>1. Less = OpToRel(<, Nat) BY DEF Less, OpToRel
<1>2. QED BY <1>1, NatLessThanWellFounded

\* Some numbers have a least one.
LEMMA Least ==
  ASSUME NEW T \in SUBSET Nat, T # {}
  PROVE  \E m \in T : \A n \in T : m <= n
<1>1. PICK m \in T : \A n \in T : ~(<<n, m>> \in Less) BY LessWellFounded, WFMin
<1>2. ASSUME NEW n \in T PROVE m <= n
  <2>1. n \in Nat /\ m \in Nat OBVIOUS
  <2>2. <<n, m>> \in Nat \X Nat /\ <<n, m>>[1] = n /\ <<n, m>>[2] = m BY <2>1
  <2>3. ~(n < m) BY <1>1, <2>2 DEF Less
  <2>4. QED BY <2>1, <2>3
<1>3. QED BY <1>2

\* Bounded ones have a greatest: their least upper bound.
LEMMA Greatest ==
  ASSUME NEW b \in Nat, NEW T \in SUBSET (0..b), T # {}
  PROVE  \E m \in T : \A n \in T : n <= m
<1> DEFINE U == {n \in Nat : \A e \in T : e <= n}
<1>1. b \in U OBVIOUS
<1>2. PICK u \in U : \A n \in U : u <= n BY <1>1, Least
<1>3. u \in T
  <2> SUFFICES ASSUME u \notin T PROVE FALSE OBVIOUS
  <2>1. PICK e \in T : TRUE OBVIOUS
  <2>2. u - 1 \in U BY <2>1
  <2>3. QED BY <2>2, <1>2
<1>4. QED BY <1>3

-----------------------------------------------------------------------------
(***************************************************************************)
(* The first members of a set of entities.                                 *)
(***************************************************************************)

\* Sets of entities are finite.
LEMMA EntitiesFinite ==
  ASSUME NEW S \in SUBSET Entity
  PROVE  IsFiniteSet(S) /\ Cardinality(S) \in Nat /\ S \in SUBSET Nat
<1>1. IsFiniteSet(Entity) BY SizeAssumption, FS_Interval DEF Entity
<1>2. IsFiniteSet(S) BY <1>1, FS_Subset
<1>3. QED BY <1>2, FS_CardinalityType, SizeAssumption DEF Entity

\* What comes before one of the first n is among them.
LEMMA FirstIsInitial ==
  ASSUME NEW S \in SUBSET Entity, NEW n \in Nat,
         NEW m \in First(S, n), NEW e \in S, e <= m
  PROVE  e \in First(S, n)
<1> DEFINE B(x) == {f \in S : f < x}
<1>1. e \in Nat /\ m \in Nat /\ m \in S /\ \A f \in S : f \in Nat
  BY EntitiesFinite DEF First
<1>2. B(e) \subseteq B(m)
  <2> SUFFICES ASSUME NEW f \in S, f < e PROVE f < m OBVIOUS
  <2>1. f \in Nat /\ e \in Nat /\ m \in Nat BY <1>1
  <2>2. QED BY <2>1
<1>3. B(m) \in SUBSET Entity /\ B(e) \in SUBSET Entity OBVIOUS
<1>4. /\ IsFiniteSet(B(m)) /\ Cardinality(B(m)) \in Nat
      /\ IsFiniteSet(B(e)) /\ Cardinality(B(e)) \in Nat
  <2> HIDE DEF B
  <2> QED BY <1>3, EntitiesFinite
<1>5. Cardinality(B(e)) <= Cardinality(B(m))
  <2> HIDE DEF B
  <2> QED BY <1>2, <1>4, FS_Subset
<1>6. n = Unset \/ Cardinality(B(m)) < n BY DEF First
<1>7. n = Unset \/ Cardinality(B(e)) < n
  <2> HIDE DEF B
  <2> QED BY <1>4, <1>5, <1>6
<1>8. QED BY <1>7 DEF First

\* If there are fewer than n of them, they are all there are.
LEMMA FirstIsAll ==
  ASSUME NEW S \in SUBSET Entity, NEW n \in Nat, Cardinality(First(S, n)) < n
  PROVE  First(S, n) = S
<1> DEFINE rest == S \ First(S, n)
<1>1. First(S, n) \subseteq S BY DEF First
<1>2. SUFFICES ASSUME rest # {} PROVE FALSE BY <1>1
<1>3. rest \in SUBSET Nat BY EntitiesFinite
<1>4. PICK m \in rest : \A x \in rest : m <= x
  <2> HIDE DEF rest
  <2> QED BY <1>2, <1>3, Least
<1> DEFINE B == {f \in S : f < m}
<1>5. B \subseteq First(S, n)
  <2>1. ASSUME NEW f \in B, f \notin First(S, n) PROVE FALSE
    <3>1. f \in rest /\ f < m /\ f \in Nat /\ m \in Nat BY <2>1, <1>3
    <3>2. m <= f BY <3>1, <1>4
    <3>3. QED BY <3>1, <3>2
  <2>2. QED BY <2>1
<1>6. First(S, n) \in SUBSET Entity /\ B \in SUBSET Entity BY <1>1
<1>7. Cardinality(B) <= Cardinality(First(S, n)) /\ Cardinality(B) \in Nat
      /\ Cardinality(First(S, n)) \in Nat
  <2> HIDE DEF B
  <2> QED BY <1>5, <1>6, EntitiesFinite, FS_Subset
<1>8. Cardinality(B) < n
  <2> HIDE DEF B
  <2> QED BY <1>7
<1>9. m \in First(S, n) BY <1>8 DEF First
<1>10. QED BY <1>9

-----------------------------------------------------------------------------
(***************************************************************************)
(* What a query answers, and how far it gets.                              *)
(***************************************************************************)

\* The iterator never goes back, and reaches everything it has returned.
LEMMA ReachedProperties ==
  ASSUME store \in SUBSET Entity, NEW q \in Query
  PROVE  /\ Start(q) \in Place /\ Reached(q) \in Place
         /\ Start(q) <= Reached(q)
         /\ Answer(q) \subseteq Candidates(q)
         /\ Answer(q) \subseteq store
         /\ \A e \in Answer(q) : Start(q) < e /\ e <= Reached(q)
         /\ Passed(q) # {} => Reached(q) \in Passed(q)
         /\ Passed(q) = {} => Reached(q) = Start(q)
<1>1. Start(q) \in Place BY SizeAssumption DEF Start, Query, Place
<1>2. Candidates(q) \subseteq store /\ \A e \in Candidates(q) : Start(q) < e
  BY DEF Candidates
<1>3. Answer(q) \subseteq Candidates(q) BY DEF Answer, First
<1>4. Passed(q) \subseteq Candidates(q) BY <1>3 DEF Passed, Skipped, First
<1>5. CASE Passed(q) = {}
  <2>1. Reached(q) = Start(q) BY <1>5 DEF Reached
  <2>2. Answer(q) = {} BY <1>5 DEF Passed
  <2>3. QED BY <1>1, <1>3, <1>5, <2>1, <2>2 DEF Place
<1>6. CASE Passed(q) # {}
  <2>1. Passed(q) \in SUBSET (0..MaxPlace)
    <3>1. Entity \subseteq 0..MaxPlace BY SizeAssumption DEF Entity
    <3>2. QED BY <1>2, <1>4, <3>1
  <2>2. \E m \in Passed(q) : \A f \in Passed(q) : f <= m
    BY <1>6, <2>1, SizeAssumption, Greatest
  <2>3. Reached(q) = CHOOSE m \in Passed(q) : \A f \in Passed(q) : f <= m
    BY <1>6 DEF Reached
  <2>4. Reached(q) \in Passed(q) /\ \A f \in Passed(q) : f <= Reached(q) BY <2>2, <2>3
  <2>5. Answer(q) \subseteq Passed(q) BY DEF Passed
  <2>6. Reached(q) \in Place BY <2>1, <2>4 DEF Place
  <2>7. Start(q) < Reached(q) BY <1>2, <1>4, <2>4
  <2>8. QED BY <1>1, <1>2, <1>3, <1>6, <2>4, <2>5, <2>6, <2>7, SizeAssumption DEF Place
<1>7. QED BY <1>5, <1>6

\* A page misses nothing up to where it ends but what its offset passes
\* over, and a short one nothing else at all.
LEMMA PageIsComplete ==
  ASSUME store \in SUBSET Entity, NEW q \in Query, q.limit = PageSize,
         NEW e \in store, Start(q) < e,
         e <= Reached(q) \/ Cardinality(Answer(q)) < PageSize
  PROVE  e \in Answer(q) \cup Skipped(Candidates(q), q.offset)
<1> DEFINE C == Candidates(q)
           K == Skipped(C, q.offset)
           D == C \ K
<1>1. C \in SUBSET Entity /\ e \in C /\ K \subseteq C BY DEF Candidates, Skipped, First
<1>2. Answer(q) = First(D, PageSize) /\ Passed(q) = K \cup Answer(q) /\ D \in SUBSET Entity
  BY <1>1 DEF Answer, Passed
<1>3. PageSize \in Nat BY SizeAssumption
<1>4. SUFFICES ASSUME e \notin K PROVE e \in Answer(q) OBVIOUS
<1>5. e \in D BY <1>1, <1>4
<1>6. CASE Cardinality(Answer(q)) < PageSize
  <2> HIDE DEF D
  <2> QED BY <1>2, <1>3, <1>5, <1>6, FirstIsAll
<1>7. CASE e <= Reached(q)
  <2>1. e \in Nat /\ q.offset \in Option BY SizeAssumption DEF Entity, Query
  <2>2. Passed(q) # {}
    <3> SUFFICES ASSUME Passed(q) = {} PROVE FALSE OBVIOUS
    <3>1. Reached(q) = Start(q) /\ Start(q) \in Place BY ReachedProperties
    <3>2. QED BY <1>7, <2>1, <3>1, SizeAssumption DEF Place
  <2>3. Reached(q) \in K \cup First(D, PageSize) BY <1>2, <2>2, ReachedProperties
  <2>4. CASE Reached(q) \in First(D, PageSize)
    <3> HIDE DEF D
    <3> QED BY <1>2, <1>3, <1>5, <1>7, <2>4, FirstIsInitial
  <2>5. CASE Reached(q) \in K
    <3>1. q.offset \in Nat /\ Reached(q) \in First(C, q.offset)
      BY <2>1, <2>5 DEF Skipped, Option
    <3>2. e \in First(C, q.offset)
      <4> HIDE DEF C
      <4> QED BY <1>1, <1>7, <3>1, FirstIsInitial
    <3>3. QED BY <1>4, <3>1, <3>2, ArgumentAssumption DEF Skipped
  <2>6. QED BY <2>3, <2>4, <2>5
<1>8. QED BY <1>6, <1>7

-----------------------------------------------------------------------------
(***************************************************************************)
(* The invariant of one reader.  The cursor of its query is its bookmark   *)
(* once it has resumed, and nothing before it has one; what it has is      *)
(* before the bookmark; the page it has fetched lies between the bookmark  *)
(* and the position of the iterator; and nothing lasting is missing before *)
(* either but what an offset has passed over.                              *)
(***************************************************************************)
CursorIsBookmark(r) ==
  /\ bookmark[r] = Unset => query[r].cursor = Unset /\ got[r] = {} /\ pc[r] # "done"
  /\ pc[r] \in {"ready", "fetched"} => query[r].cursor = bookmark[r]

KeptIsBefore(r) == \A e \in got[r] : e <= bookmark[r]

PageIsBetween(r) ==
  pc[r] = "fetched" =>
    /\ query[r].last \in Place
    /\ bookmark[r] # Unset => bookmark[r] <= query[r].last
    /\ \A e \in results[r] : e <= query[r].last /\ Start(query[r]) < e

PageHasAll(r) ==
  pc[r] = "fetched" =>
    \A e \in lasting[r] :
      e <= query[r].last \/ Cardinality(results[r]) < PageSize =>
        e \in got[r] \cup results[r] \cup passedOver[r] \cup over[r]

KeptHasAll(r) ==
  \A e \in lasting[r] :
    pc[r] = "done" \/ (bookmark[r] # Unset /\ e <= bookmark[r]) => e \in got[r] \cup passedOver[r]

ReaderInv(r) ==
  /\ CursorIsBookmark(r) /\ KeptIsBefore(r) /\ PageIsBetween(r)
  /\ PageHasAll(r) /\ KeptHasAll(r)
  /\ lasting[r] \subseteq store

Inv == TypeOK /\ \A r \in Reader : ReaderInv(r)

-----------------------------------------------------------------------------
\* An action of one reader leaves what the others know alone.
SameFor(r) ==
  UNCHANGED <<query[r], pc[r], results[r], bookmark[r], got[r], lasting[r],
              over[r], passedOver[r]>>

\* A reader whom a step does not touch keeps its part of the invariant.
LEMMA OthersKept ==
  ASSUME Inv, UNCHANGED store, NEW r \in Reader, ReaderInv(r)', TypeOK',
         \A s \in Reader \ {r} : SameFor(s)
  PROVE  Inv'
<1>1. ASSUME NEW s \in Reader \ {r} PROVE ReaderInv(s)'
  <2>1. SameFor(s) /\ ReaderInv(s) BY DEF Inv
  <2>2. Start(query[s])' = Start(query[s]) BY <2>1 DEF SameFor, Start
  <2>3. QED BY <2>1, <2>2
    DEF SameFor, ReaderInv, CursorIsBookmark, KeptIsBefore, PageIsBetween, PageHasAll, KeptHasAll
<1>2. QED BY <1>1 DEF Inv

\* What the options of a query become.
LEMMA OptionTypes ==
  ASSUME NEW q \in Query
  PROVE  /\ \A n \in Nat : WithLimit(q, n) \in Query /\ WithOffset(q, n) \in Query
         /\ \A n \in Nat, m \in Nat : Asked(q, n, m) \in Query /\ Asked(q, n, m).cursor = q.cursor
         /\ \A n \in Nat : WithLimit(q, n).cursor = q.cursor /\ WithOffset(q, n).cursor = q.cursor
         /\ \A c \in Place \cup {Unset} : WithCursor(q, c) \in Query
<1>1. ASSUME NEW p \in Query, NEW n \in Nat
      PROVE  /\ WithLimit(p, n) \in Query /\ WithOffset(p, n) \in Query
             /\ WithLimit(p, n).cursor = p.cursor /\ WithOffset(p, n).cursor = p.cursor
  BY DEF Query, WithLimit, WithOffset, Option
<1>2. ASSUME NEW n \in Nat, NEW m \in Nat
      PROVE  Asked(q, n, m) \in Query /\ Asked(q, n, m).cursor = q.cursor
  <2>1. Asked(q, n, m) \in {q, WithLimit(q, n), WithOffset(WithLimit(q, n), m)} BY DEF Asked
  <2>2. WithLimit(q, n) \in Query /\ WithLimit(q, n).cursor = q.cursor BY <1>1
  <2>3. /\ WithOffset(WithLimit(q, n), m) \in Query
        /\ WithOffset(WithLimit(q, n), m).cursor = q.cursor
    BY <1>1, <2>2
  <2>4. QED BY <2>1, <2>2, <2>3
<1>3. ASSUME NEW c \in Place \cup {Unset} PROVE WithCursor(q, c) \in Query
  BY DEF Query, WithCursor
<1>4. QED BY <1>1, <1>2, <1>3

\* A query object that has been run.
LEMMA RunType ==
  ASSUME store \in SUBSET Entity, NEW q \in Query
  PROVE  /\ Run(q) \in Query /\ Run(q).last = Reached(q) /\ Run(q).cursor = q.cursor
         /\ Run(q).offset = q.offset /\ Start(Run(q)) = Start(q)
BY ReachedProperties DEF Run, Query, Start

-----------------------------------------------------------------------------
(***************************************************************************)
(* The steps, one lemma per action.                                        *)
(***************************************************************************)

\* new Query(M)
LEMMA ConstructInv == ASSUME Inv, NEW r \in Reader, Construct(r) PROVE Inv'
<1>1. NewObject \in Query /\ NewObject.cursor = Unset BY DEF Query, NewObject, Option
<1>2. TypeOK' BY <1>1 DEF Construct, Goto, Inv, TypeOK, Step, counters
<1>3. query'[r] = NewObject /\ pc'[r] = "built" BY DEF Construct, Goto, Inv, TypeOK
<1>4. ReaderInv(r)'
  BY <1>1, <1>3 DEF Construct, Inv, ReaderInv, CursorIsBookmark, KeptIsBefore, PageIsBetween,
     PageHasAll, KeptHasAll
<1>5. QED BY <1>2, <1>4, OthersKept DEF Construct, Goto, SameFor, Inv, TypeOK

\* query.withCursor(bookmark)
LEMMA ResumeInv == ASSUME Inv, NEW r \in Reader, Resume(r) PROVE Inv'
<1> DEFINE q == WithCursor(query[r], bookmark[r])
<1>1. query[r] \in Query /\ bookmark[r] \in Place \cup {Unset} BY DEF Inv, TypeOK
<1>2. q \in Query BY <1>1, OptionTypes
<1>3. ReaderInv(r) BY DEF Inv
<1>4. q.cursor = bookmark[r]
  BY <1>1, <1>3 DEF Resume, WithCursor, ReaderInv, CursorIsBookmark, Query
<1> HIDE DEF q
<1>5. query' = [query EXCEPT ![r] = q] BY DEF Resume, q
<1>6. query'[r] = q /\ pc'[r] = "ready" BY <1>5 DEF Resume, Goto, Inv, TypeOK
<1>7. TypeOK' BY <1>2, <1>5 DEF Resume, Goto, Inv, TypeOK, Step, counters
<1>8. ReaderInv(r)'
  BY <1>3, <1>4, <1>6 DEF Resume, ReaderInv, CursorIsBookmark, KeptIsBefore, PageIsBetween,
     PageHasAll, KeptHasAll
<1>9. QED BY <1>5, <1>7, <1>8, OthersKept DEF Resume, Goto, SameFor, Inv, TypeOK

\* page = query.fetch(PageSize)
LEMMA FetchPageInv == ASSUME Inv, NEW r \in Reader, FetchPage(r) PROVE Inv'
<1> DEFINE q == Asked(query[r], PageSize, 0)
<1>1. query[r] \in Query /\ store \in SUBSET Entity BY DEF Inv, TypeOK
<1>2. q = WithLimit(query[r], PageSize) BY SizeAssumption DEF Asked, Truthy
<1>3. ReaderInv(r) /\ pc[r] = "ready" BY DEF Inv, FetchPage
<1>4. /\ q \in Query /\ q.limit = PageSize
      /\ q.cursor = bookmark[r]
  BY <1>1, <1>2, <1>3, SizeAssumption
  DEF WithLimit, Query, Option, ReaderInv, CursorIsBookmark
<1> HIDE DEF q
<1>5. /\ results' = [results EXCEPT ![r] = Answer(q)]
      /\ query' = [query EXCEPT ![r] = Run(q)]
      /\ over' = [over EXCEPT ![r] = Skipped(Candidates(q), q.offset)]
  BY DEF FetchPage, q
<1>6. /\ Run(q) \in Query /\ Run(q).last = Reached(q) /\ Run(q).cursor = bookmark[r]
      /\ Start(Run(q)) = Start(q)
  BY <1>1, <1>4, RunType
<1>7. /\ query'[r] = Run(q) /\ results'[r] = Answer(q) /\ pc'[r] = "fetched"
      /\ over'[r] = Skipped(Candidates(q), q.offset)
  BY <1>5 DEF FetchPage, Goto, Inv, TypeOK
<1>8. /\ Start(q) \in Place /\ Reached(q) \in Place /\ Start(q) <= Reached(q)
      /\ Answer(q) \subseteq store
      /\ \A e \in Answer(q) : Start(q) < e /\ e <= Reached(q)
  BY <1>1, <1>4, ReachedProperties
<1>9. TypeOK'
  <2>1. results' \in [Reader -> SUBSET Entity] /\ query' \in [Reader -> Query]
    BY <1>1, <1>5, <1>6, <1>8 DEF Inv, TypeOK
  <2>2. Skipped(Candidates(q), q.offset) \subseteq Entity
    BY <1>1 DEF Skipped, First, Candidates
  <2>3. over' \in [Reader -> SUBSET Entity] BY <1>5, <2>2 DEF Inv, TypeOK
  <2>4. QED BY <2>1, <2>3 DEF FetchPage, Goto, Inv, TypeOK, Step, counters
<1>10. bookmark[r] # Unset => bookmark[r] = Start(q) BY <1>4 DEF Start
<1>11. UNCHANGED <<store, bookmark, got, lasting, passedOver>> BY DEF FetchPage
<1>12. CursorIsBookmark(r)' /\ KeptIsBefore(r)' /\ KeptHasAll(r)'
  BY <1>3, <1>6, <1>7, <1>11 DEF ReaderInv, CursorIsBookmark, KeptIsBefore, KeptHasAll
<1>13. PageIsBetween(r)'
  BY <1>6, <1>7, <1>8, <1>10, <1>11 DEF PageIsBetween, Start
<1>14. PageHasAll(r)'
  <2> SUFFICES ASSUME NEW e \in lasting[r],
                      e <= Reached(q) \/ Cardinality(Answer(q)) < PageSize
               PROVE  e \in got[r] \cup Answer(q) \cup passedOver[r]
                           \cup Skipped(Candidates(q), q.offset)
    BY <1>6, <1>7, <1>11 DEF PageHasAll
  <2>1. e \in store /\ e \in Entity BY <1>1, <1>3 DEF ReaderInv
  <2>2. CASE Start(q) < e BY <1>1, <1>4, <2>1, <2>2, PageIsComplete
  <2>3. CASE ~(Start(q) < e)
    <3>1. e <= Start(q) /\ 1 <= e BY <1>8, <2>1, <2>3, SizeAssumption DEF Place, Entity
    <3>2. bookmark[r] # Unset
      <4> SUFFICES ASSUME bookmark[r] = Unset PROVE FALSE OBVIOUS
      <4>1. Start(q) = 0 BY <1>4 DEF Start
      <4>2. QED BY <3>1, <4>1, <2>1 DEF Entity
    <3>3. QED BY <1>3, <1>10, <3>1, <3>2 DEF ReaderInv, KeptHasAll
  <2>4. QED BY <2>2, <2>3
<1>15. ReaderInv(r)' BY <1>3, <1>11, <1>12, <1>13, <1>14 DEF ReaderInv
<1>16. QED BY <1>5, <1>9, <1>11, <1>15, OthersKept DEF FetchPage, Goto, SameFor, Inv, TypeOK

\* bookmark = query.cursor()
LEMMA KeepInv == ASSUME Inv, NEW r \in Reader, Keep(r) PROVE Inv'
<1>1. ReaderInv(r) /\ pc[r] = "fetched" BY DEF Inv, Keep
<1>2. query[r].last \in Place /\ query[r].last # Unset
  BY <1>1, ArgumentAssumption DEF ReaderInv, PageIsBetween, Place
<1>3. /\ got'[r] = got[r] \cup results[r]
      /\ bookmark'[r] = query[r].last
      /\ passedOver'[r] = passedOver[r] \cup over[r]
      /\ UNCHANGED <<store, query, results, lasting>>
  BY DEF Keep, Inv, TypeOK
<1>4. PICK s \in {"done", "built", "idle"} :
        pc' = [pc EXCEPT ![r] = s] /\ (s = "done" => Cardinality(results[r]) < PageSize)
  BY DEF Keep, Goto
<1>5. pc'[r] = s BY <1>4 DEF Inv, TypeOK
<1>6. TypeOK'
  <2>1. got' \in [Reader -> SUBSET Entity] BY DEF Keep, Inv, TypeOK
  <2>2. bookmark' \in [Reader -> Place \cup {Unset}] BY <1>2 DEF Keep, Inv, TypeOK
  <2>3. pc' \in [Reader -> Step] BY <1>4 DEF Inv, TypeOK, Step
  <2>4. /\ passedOver' \in [Reader -> SUBSET Entity]
        /\ over' \in [Reader -> SUBSET Entity]
    BY DEF Keep, Inv, TypeOK
  <2>5. QED BY <2>1, <2>2, <2>3, <2>4 DEF Keep, Inv, TypeOK, counters
<1>7. CursorIsBookmark(r)' BY <1>2, <1>3, <1>5 DEF CursorIsBookmark
<1>8. KeptIsBefore(r)'
  <2> SUFFICES ASSUME NEW e \in got[r] \cup results[r] PROVE e <= query[r].last
    BY <1>3 DEF KeptIsBefore
  <2>1. CASE e \in results[r] BY <1>1, <2>1 DEF ReaderInv, PageIsBetween
  <2>2. CASE e \in got[r]
    <3>1. bookmark[r] # Unset BY <1>1, <2>2 DEF ReaderInv, CursorIsBookmark
    <3>2. bookmark[r] \in Place /\ e \in Entity BY <2>2, <3>1 DEF Inv, TypeOK
    <3>3. e <= bookmark[r] /\ bookmark[r] <= query[r].last
      BY <1>1, <2>2, <3>1 DEF ReaderInv, KeptIsBefore, PageIsBetween
    <3>4. QED BY <1>2, <3>2, <3>3, SizeAssumption DEF Place, Entity
  <2>3. QED BY <2>1, <2>2
<1>9. PageIsBetween(r)' /\ PageHasAll(r)' BY <1>5 DEF PageIsBetween, PageHasAll
<1>10. KeptHasAll(r)'
  BY <1>1, <1>3, <1>4, <1>5 DEF ReaderInv, PageHasAll, KeptHasAll
<1>11. ReaderInv(r)'
  BY <1>1, <1>3, <1>7, <1>8, <1>9, <1>10 DEF ReaderInv
<1>12. QED BY <1>4, <1>6, <1>11, OthersKept DEF Keep, SameFor, Inv, TypeOK

\* Losing the request, and the Query object with it, keeps the invariant.
LEMMA DieInv == ASSUME Inv, NEW r \in Reader, Die(r) PROVE Inv'
<1>1. losses' \in 0..MaxLosses BY LimitAssumption DEF Die, Inv, TypeOK
<1>2. pc'[r] = "idle" BY DEF Die, Goto, Inv, TypeOK
<1>3. TypeOK' BY <1>1 DEF Die, Goto, Inv, TypeOK, Step
<1>4. ReaderInv(r)'
  BY <1>2 DEF Die, Inv, ReaderInv, CursorIsBookmark, KeptIsBefore, PageIsBetween, PageHasAll,
     KeptHasAll
<1>5. QED BY <1>3, <1>4, OthersKept DEF Die, Goto, SameFor, Inv, TypeOK

\* Other calls on the object, whatever they return, do not touch its cursor.
LEMMA LookInv ==
  ASSUME Inv, NEW r \in Reader, Look(r),
         NEW q \in Query, q.cursor = query[r].cursor, query' = [query EXCEPT ![r] = q],
         results' \in [Reader -> SUBSET Entity],
         \A s \in Reader \ {r} : results'[s] = results[s]
  PROVE  Inv'
<1>1. query'[r] = q /\ pc'[r] = pc[r] /\ pc[r] \in {"built", "ready"} BY DEF Look, Inv, TypeOK
<1>2. looks' \in [Reader -> 0..MaxLooks]
  <2>1. looks[r] + 1 \in 0..MaxLooks BY LimitAssumption DEF Look, Inv, TypeOK
  <2>2. QED BY <2>1 DEF Look, Inv, TypeOK
<1>3. TypeOK' BY <1>2 DEF Look, Inv, TypeOK
<1>4. ReaderInv(r)'
  BY <1>1 DEF Look, Inv, ReaderInv, CursorIsBookmark, KeptIsBefore, PageIsBetween, PageHasAll,
     KeptHasAll
<1>5. QED BY <1>3, <1>4, OthersKept DEF Look, SameFor, Inv, TypeOK

\* limit(n) on the object keeps it (query.js:95-102).
LEMMA SetLimitInv == ASSUME Inv, NEW r \in Reader, NEW n \in Limits, SetLimit(r, n) PROVE Inv'
<1>1. n \in Nat /\ query[r] \in Query BY ArgumentAssumption DEF Inv, TypeOK
<1>2. WithLimit(query[r], n) \in Query /\ WithLimit(query[r], n).cursor = query[r].cursor
  BY <1>1, OptionTypes
<1>3. QED BY <1>2, LookInv DEF SetLimit, Inv, TypeOK

\* offset(n) on the object keeps it (query.js:105-109).
LEMMA SetOffsetInv == ASSUME Inv, NEW r \in Reader, NEW n \in Offsets, SetOffset(r, n) PROVE Inv'
<1>1. n \in Nat /\ query[r] \in Query BY ArgumentAssumption DEF Inv, TypeOK
<1>2. WithOffset(query[r], n) \in Query /\ WithOffset(query[r], n).cursor = query[r].cursor
  BY <1>1, OptionTypes
<1>3. QED BY <1>2, LookInv DEF SetOffset, Inv, TypeOK

\* So does a fetch with other arguments (query.js:148-282).
LEMMA FetchInv ==
  ASSUME Inv, NEW r \in Reader, NEW n \in Limits, NEW o \in Offsets, Fetch(r, n, o)
  PROVE  Inv'
<1> DEFINE q == Asked(query[r], n, o)
<1>1. n \in Nat /\ o \in Nat /\ query[r] \in Query /\ store \in SUBSET Entity
  BY ArgumentAssumption DEF Inv, TypeOK
<1>2. q \in Query /\ q.cursor = query[r].cursor BY <1>1, OptionTypes
<1>3. Answer(q) \subseteq Entity BY <1>1, <1>2, ReachedProperties
<1>4. Run(q) \in Query /\ Run(q).cursor = query[r].cursor BY <1>1, <1>2, RunType
<1>5. /\ results' = [results EXCEPT ![r] = Answer(q)]
      /\ query' = [query EXCEPT ![r] = Run(q)]
      /\ Look(r)
  BY DEF Fetch
<1> HIDE DEF q
<1>6. /\ results' \in [Reader -> SUBSET Entity]
      /\ \A s \in Reader \ {r} : results'[s] = results[s]
  BY <1>3, <1>5 DEF Inv, TypeOK
<1>7. QED BY <1>4, <1>5, <1>6, LookInv

\* What another request deletes or inserts does not last.
LEMMA WriteInv == ASSUME Inv, NEW e \in Entity, Write(e) PROVE Inv'
<1>1. store' \subseteq Entity BY DEF Write, Inv, TypeOK
<1>2. writes' \in 0..MaxWrites BY LimitAssumption DEF Write, Inv, TypeOK
<1>3. lasting' \in [Reader -> SUBSET Entity] BY <1>1 DEF Write, Inv, TypeOK
<1>4. TypeOK' BY <1>1, <1>2, <1>3 DEF Write, Inv, TypeOK
<1>5. ASSUME NEW r \in Reader PROVE ReaderInv(r)'
  <2>1. lasting'[r] = lasting[r] \cap store' BY DEF Write
  <2>2. UNCHANGED <<query, pc, results, bookmark, got, over, passedOver>> BY DEF Write
  <2>3. ReaderInv(r) BY DEF Inv
  <2>4. PageIsBetween(r)' BY <2>2, <2>3 DEF ReaderInv, PageIsBetween, Start
  <2>5. QED BY <2>1, <2>2, <2>3, <2>4
    DEF ReaderInv, CursorIsBookmark, KeptIsBefore, PageHasAll, KeptHasAll
<1>6. QED BY <1>4, <1>5 DEF Inv

\* And a step in which nothing happens.
LEMMA StutterInv == ASSUME Inv, UNCHANGED vars PROVE Inv'
BY DEF vars, counters, Inv, TypeOK, ReaderInv, CursorIsBookmark, KeptIsBefore, PageIsBetween,
   PageHasAll, KeptHasAll, Start

\* It holds before any reader has asked for anything.
LEMMA InitInv == Init => Inv
<1> SUFFICES ASSUME Init PROVE Inv OBVIOUS
<1>1. NewObject \in Query /\ NewObject.cursor = Unset BY DEF Query, NewObject, Option
<1>2. 0 \in 0..MaxWrites /\ 0 \in 0..MaxLosses /\ 0 \in 0..MaxLooks BY LimitAssumption
<1>3. TypeOK BY <1>1, <1>2 DEF Init, TypeOK, Step
<1>4. \A r \in Reader : ReaderInv(r)
  BY <1>1 DEF Init, ReaderInv, CursorIsBookmark, KeptIsBefore, PageIsBetween, PageHasAll,
     KeptHasAll
<1>5. QED BY <1>3, <1>4 DEF Inv

-----------------------------------------------------------------------------
\* The invariant holds throughout.
THEOREM PagingInv == Spec => []Inv
<1>1. Init => Inv BY InitInv
<1>2. Inv /\ [Next]_vars => Inv'
  BY ConstructInv, ResumeInv, FetchPageInv, KeepInv, DieInv, SetLimitInv,
     SetOffsetInv, FetchInv, WriteInv, StutterInv
  DEF Next, AllDone
<1>3. QED BY <1>1, <1>2, PTL DEF Spec

\* The query objects and their readers have their types (query.js:95-132).
THEOREM TypeCorrect == Spec => []TypeOK
<1>1. Inv => TypeOK BY DEF Inv
<1>2. QED BY <1>1, PagingInv, PTL

\* No entity is in two pages, and the pages are in order (query.js:236-250).
THEOREM PagesAreDisjoint == Spec => []EachOnce
<1>1. Inv => EachOnce
  <2> SUFFICES ASSUME Inv, NEW r \in Reader, pc[r] = "fetched",
                      NEW e \in results[r], NEW d \in got[r]
               PROVE  d < e
    BY DEF EachOnce
  <2>1. ReaderInv(r) BY DEF Inv
  <2>2. bookmark[r] # Unset BY <2>1 DEF ReaderInv, CursorIsBookmark
  <2>3. d <= bookmark[r] /\ Start(query[r]) < e BY <2>1 DEF ReaderInv, KeptIsBefore, PageIsBetween
  <2>4. Start(query[r]) = bookmark[r] BY <2>1, <2>2 DEF ReaderInv, CursorIsBookmark, Start
  <2>5. bookmark[r] \in Place /\ e \in Entity /\ d \in Entity BY <2>2 DEF Inv, TypeOK
  <2>6. QED BY <2>3, <2>4, <2>5, SizeAssumption DEF Place, Entity
<1>2. QED BY <1>1, PagingInv, PTL

\* Of the entities that are there from the first page to the last none is
\* missed but those an offset left on the object passed over
\* (query.js:105-108, 212-218, 239-241).
THEOREM PagesAreComplete == Spec => []NothingMissed
<1>1. Inv => NothingMissed BY DEF Inv, ReaderInv, KeptHasAll, NothingMissed
<1>2. QED BY <1>1, PagingInv, PTL

-----------------------------------------------------------------------------
(***************************************************************************)
(* What makes a scan come to its end: a full page lies between where it    *)
(* began and where the iterator stands, so they are a page apart.          *)
(***************************************************************************)

\* Entities between two places are no more than the places are apart.
LEMMA RoomBetween ==
  ASSUME NEW a \in Place, NEW b \in Place, a <= b,
         NEW S \in SUBSET Entity, \A e \in S : a < e /\ e <= b
  PROVE  Cardinality(S) <= b - a
<1>1. a \in Nat /\ b \in Nat BY SizeAssumption DEF Place
<1>2. S \subseteq (a + 1)..b BY <1>1, SizeAssumption DEF Entity
<1>3. IsFiniteSet((a + 1)..b) /\ Cardinality((a + 1)..b) <= b - a
  <2>1. (a + 1) \in Int /\ b \in Int BY <1>1
  <2>2. Cardinality((a + 1)..b) = IF a + 1 > b THEN 0 ELSE b - (a + 1) + 1
    BY <2>1, FS_Interval
  <2>3. IsFiniteSet((a + 1)..b) BY <2>1, FS_Interval
  <2>4. (IF a + 1 > b THEN 0 ELSE b - (a + 1) + 1) <= b - a BY <1>1
  <2>5. QED BY <2>2, <2>3, <2>4
<1>4. Cardinality(S) <= Cardinality((a + 1)..b) BY <1>2, <1>3, FS_Subset
<1>5. Cardinality(S) \in Nat /\ Cardinality((a + 1)..b) \in Nat
  BY <1>3, EntitiesFinite, FS_CardinalityType
<1>6. QED BY <1>1, <1>3, <1>4, <1>5

\* A page that is kept and is not short moves the bookmark by its length.
LEMMA KeepAdvances ==
  ASSUME Inv, NEW r \in Reader, Keep(r), pc'[r] # "done"
  PROVE  Bookmarked(r)' >= Bookmarked(r) + PageSize
<1>1. ReaderInv(r) /\ pc[r] = "fetched" BY DEF Inv, Keep
<1>2. /\ query[r].last \in Place /\ query[r].last # Unset
      /\ \A e \in results[r] : Start(query[r]) < e /\ e <= query[r].last
  BY <1>1, ArgumentAssumption DEF ReaderInv, PageIsBetween, Place
<1>3. Bookmarked(r)' = query[r].last BY <1>2 DEF Keep, Bookmarked, Inv, TypeOK
<1>4. Bookmarked(r) = Start(query[r])
  BY <1>1 DEF Bookmarked, Start, ReaderInv, CursorIsBookmark
<1>5. Bookmarked(r) \in Place /\ Bookmarked(r) <= query[r].last
  <2>1. CASE bookmark[r] = Unset
    BY <1>2, <2>1, SizeAssumption DEF Bookmarked, Place
  <2>2. CASE bookmark[r] # Unset
    BY <1>1, <2>2 DEF Bookmarked, ReaderInv, PageIsBetween, Inv, TypeOK
  <2>3. QED BY <2>1, <2>2
<1>6. results[r] \in SUBSET Entity BY DEF Inv, TypeOK
<1>7. Cardinality(results[r]) <= query[r].last - Bookmarked(r)
  BY <1>2, <1>4, <1>5, <1>6, RoomBetween
<1>8. Cardinality(results[r]) \in Nat /\ ~(Cardinality(results[r]) < PageSize)
  BY <1>6, EntitiesFinite DEF Keep, Goto, Inv, TypeOK
<1>9. QED BY <1>2, <1>3, <1>5, <1>7, <1>8, SizeAssumption DEF Place

\* Only keeping a page or losing it ends the wait for its cursor.
LEMMA OnlyKeepLeaves ==
  ASSUME Inv, [Next]_vars, NEW r \in Reader,
         pc[r] = "fetched", pc'[r] # "fetched", UNCHANGED losses
  PROVE  Keep(r)
<1>1. pc \in [Reader -> Step] /\ losses \in 0..MaxLosses BY DEF Inv, TypeOK
<1>2. ASSUME NEW s \in Reader, NEW t, Goto(s, t), s # r PROVE FALSE
  BY <1>1, <1>2 DEF Goto
<1>3. CASE UNCHANGED vars BY <1>3 DEF vars
<1>4. CASE \E e \in Entity : Write(e) BY <1>4 DEF Write
<1>5. CASE AllDone BY <1>5 DEF AllDone
<1>6. ASSUME NEW s \in Reader,
             \/ Construct(s) \/ Resume(s) \/ FetchPage(s) \/ Die(s) \/ Keep(s)
      PROVE  Keep(r)
  <2>1. CASE Die(s) BY <1>1, <2>1, LimitAssumption DEF Die
  <2>2. CASE s # r
    BY <1>2, <1>6, <2>1, <2>2 DEF Construct, Resume, FetchPage, Keep
  <2>3. CASE s = r
    BY <1>6, <2>1, <2>3 DEF Construct, Resume, FetchPage
  <2>4. QED BY <2>2, <2>3
<1>7. ASSUME NEW s \in Reader,
             \/ \E n \in Limits : SetLimit(s, n)
             \/ \E n \in Offsets : SetOffset(s, n)
             \/ \E n \in Limits, o \in Offsets : Fetch(s, n, o)
      PROVE  FALSE
  BY <1>7 DEF SetLimit, SetOffset, Fetch, Look
<1>8. QED BY <1>3, <1>4, <1>5, <1>6, <1>7 DEF Next

\* A page that is kept is the last or moves its reader on by a page at the
\* least (query.js:220-250).
THEOREM ScanAdvances == Spec => PagesAdvance
<1>1. Inv /\ [Next]_vars =>
        [\A r \in Reader :
           pc[r] = "fetched" /\ pc'[r] # "fetched" /\ UNCHANGED losses =>
             pc'[r] = "done" \/ Bookmarked(r)' >= Bookmarked(r) + PageSize]_vars
  BY OnlyKeepLeaves, KeepAdvances
<1>2. QED BY <1>1, PagingInv, PTL DEF Spec, PagesAdvance
=============================================================================
