---------------------------- MODULE QueryPaging ----------------------------
(***************************************************************************)
(* The Query class of src/lib/google/appengine/ext/db/query.js, used as    *)
(* its cursors are meant to be: readers go through the results of a query  *)
(* page by page, over several requests, while other requests insert and    *)
(* delete entities that match it.                                          *)
(*                                                                         *)
(*     query.withCursor(bookmark); page = query.fetch(PageSize);           *)
(*     bookmark = query.cursor();      // and page is kept with it         *)
(*                                                                         *)
(* The query object keeps the limit, the offset and the cursor of earlier  *)
(* calls in fetchOptions, and the iterator of the last run, which cursor() *)
(* asks for its position.  Entities are named by their place in the order  *)
(* of the query; a cursor is the place after which it resumes, 0 being the *)
(* beginning.  What a filter or an ordering is, and whether entities or    *)
(* keys are returned, makes no difference here.                            *)
(***************************************************************************)
EXTENDS Integers, FiniteSets

CONSTANTS
  Reader,       \* those who go through the results
  MaxPlace,     \* places of entities in the order of the query: 1..MaxPlace
  PageSize,     \* the limit readers give to fetch
  Limits,       \* other limits they use; 0 is an argument left out
  Offsets,      \* offsets they use; 0 is an argument left out
  Unset,        \* a fetch option or cursor never set
  MaxWrites,    \* bound: entities inserted or deleted
  MaxLosses,    \* bound: requests that die in the middle of a page
  MaxLooks      \* bound: calls a reader makes besides paging

ASSUME SizeAssumption == MaxPlace \in Nat /\ PageSize \in Nat \ {0}
ASSUME ArgumentAssumption == Limits \subseteq Nat /\ Offsets \subseteq Nat /\ Unset \notin Nat
ASSUME LimitAssumption == {MaxWrites, MaxLosses, MaxLooks} \subseteq Nat

VARIABLES
  store,       \* the entities that match the query
  query,       \* the Query object of each reader
  pc,          \* where each reader is
  results,     \* what its last call of fetch returned
  bookmark,    \* the cursor it keeps from one page to the next
  got,         \* the entities of the pages it has kept
  lasting,     \* the entities that have been in the store ever since it began
  over,        \* those its last page passed over, for an offset left on the object
  passedOver,  \* those the pages it has kept passed over
  writes, losses, looks

counters == <<writes, losses, looks>>
vars == <<store, query, pc, results, bookmark, got, lasting, over, passedOver, counters>>

Entity == 1..MaxPlace
Place == 0..MaxPlace
Option == Nat \cup {Unset}
Query == [limit : Option, offset : Option, cursor : Place \cup {Unset},
          last : Place \cup {Unset}]
Step == {"idle", "built", "ready", "fetched", "done"}

NewObject == [limit |-> Unset, offset |-> Unset, cursor |-> Unset, last |-> Unset]

Init ==
  /\ store \in SUBSET Entity
  /\ query = [r \in Reader |-> NewObject]
  /\ pc = [r \in Reader |-> "idle"]
  /\ results = [r \in Reader |-> {}]
  /\ bookmark = [r \in Reader |-> Unset]
  /\ got = [r \in Reader |-> {}]
  /\ lasting = [r \in Reader |-> store]
  /\ over = [r \in Reader |-> {}]
  /\ passedOver = [r \in Reader |-> {}]
  /\ writes = 0
  /\ losses = 0
  /\ looks = [r \in Reader |-> 0]

-----------------------------------------------------------------------------
\* The n first members of S, all of them when n is Unset, and the others.
First(S, n) == {e \in S : n = Unset \/ Cardinality({f \in S : f < e}) < n}
Skipped(S, n) == IF n = Unset THEN {} ELSE First(S, n)

\* What the datastore answers to run() with these options, and the place
\* its iterator has reached when the results have been read.
Start(q) == IF q.cursor = Unset THEN 0 ELSE q.cursor
Candidates(q) == {e \in store : e > Start(q)}
Answer(q) ==
  First(Candidates(q) \ Skipped(Candidates(q), q.offset), q.limit)
Passed(q) == Skipped(Candidates(q), q.offset) \cup Answer(q)
Reached(q) ==
  IF Passed(q) = {} THEN Start(q) ELSE CHOOSE e \in Passed(q) : \A f \in Passed(q) : f <= e

\* Query.prototype.limit, offset and withCursor.  offset throws when no
\* fetch options have been made; withCursor ignores an absent cursor.
Truthy(n) == n # 0
HasOptions(q) == q.limit # Unset \/ q.cursor # Unset
WithLimit(q, n) == [q EXCEPT !.limit = n]
WithOffset(q, n) == IF HasOptions(q) THEN [q EXCEPT !.offset = n] ELSE q
WithCursor(q, c) == IF c = Unset THEN q ELSE [q EXCEPT !.cursor = c]

\* fetch(limit, {offset: offset}) of query.js:212-218: the options it sets.
Asked(q, limit, offset) ==
  IF ~Truthy(limit) THEN q
  ELSE IF ~Truthy(offset) THEN WithLimit(q, limit)
  ELSE WithOffset(WithLimit(q, limit), offset)

\* Slips of Run: the iterator is remembered as it was when the run began, or
\* is remembered one result too far.
RunForgetful(q) == [q EXCEPT !.last = Start(q)]
RunTooFar(q) == [q EXCEPT !.last = Reached(q) + 1]

\* run() and the loop over its iterator (168-181, 220-231).
Run(q) == [q EXCEPT !.last = Reached(q)]

Goto(r, s) == pc' = [pc EXCEPT ![r] = s]

-----------------------------------------------------------------------------
\* new Query(M), at the beginning of a request.
Construct(r) ==
  /\ pc[r] = "idle"
  /\ query' = [query EXCEPT ![r] = NewObject]
  /\ Goto(r, "built")
  /\ UNCHANGED <<store, results, bookmark, got, lasting, over, passedOver, counters>>

\* A slip of Resume: every request starts over.
ResumeNowhere(r) ==
  /\ pc[r] = "built"
  /\ Goto(r, "ready")
  /\ UNCHANGED <<store, query, results, bookmark, got, lasting, over, passedOver, counters>>

\* query.withCursor(bookmark).  What earlier calls set on the object stays,
\* an offset among it.
Resume(r) ==
  /\ pc[r] = "built"
  /\ query' = [query EXCEPT ![r] = WithCursor(@, bookmark[r])]
  /\ Goto(r, "ready")
  /\ UNCHANGED <<store, results, bookmark, got, lasting, over, passedOver, counters>>

\* A slip of FetchPage: the results already kept are skipped by number.
FetchByOffset(r) ==
  /\ pc[r] = "ready"
  /\ LET q == [Asked(query[r], PageSize, 0) EXCEPT
                 !.cursor = Unset, !.offset = Cardinality(got[r])] IN
       /\ results' = [results EXCEPT ![r] = Answer(q)]
       /\ query' = [query EXCEPT ![r].last = Reached(q)]
  /\ over' = [over EXCEPT ![r] = Skipped(Candidates(query[r]), query[r].offset)]
  /\ Goto(r, "fetched")
  /\ UNCHANGED <<store, bookmark, got, lasting, passedOver, counters>>

\* page = query.fetch(PageSize).  An offset that is still on the object is
\* applied to the page as well, after the cursor.
FetchPage(r) ==
  /\ pc[r] = "ready"
  /\ LET q == Asked(query[r], PageSize, 0) IN
       /\ results' = [results EXCEPT ![r] = Answer(q)]
       /\ query' = [query EXCEPT ![r] = Run(q)]
       /\ over' = [over EXCEPT ![r] = Skipped(Candidates(q), q.offset)]
  /\ Goto(r, "fetched")
  /\ UNCHANGED <<store, bookmark, got, lasting, passedOver, counters>>

\* query.cursor() (246-250).  The reader keeps it and the page together, and
\* goes on with the same object or, in another request, with a new one.
Keep(r) ==
  /\ pc[r] = "fetched"
  /\ got' = [got EXCEPT ![r] = @ \cup results[r]]
  /\ bookmark' = [bookmark EXCEPT ![r] = query[r].last]
  /\ passedOver' = [passedOver EXCEPT ![r] = @ \cup over[r]]
  /\ over' = [over EXCEPT ![r] = {}]
  /\ IF Cardinality(results[r]) < PageSize THEN Goto(r, "done")
     ELSE \E s \in {"built", "idle"} : Goto(r, s)
  /\ UNCHANGED <<store, query, results, lasting, counters>>

\* Other calls a reader may make on the object before its next page, before
\* or after withCursor: limit, offset and count (95-109, 274-282), or fetch,
\* keys and forEach with arguments of their own.  count(n) does no more than
\* limit(n) to the object, and get() nothing.
Look(r) ==
  /\ pc[r] \in {"built", "ready"}
  /\ looks[r] < MaxLooks
  /\ looks' = [looks EXCEPT ![r] = @ + 1]
  /\ UNCHANGED <<store, pc, bookmark, got, lasting, over, passedOver, writes, losses>>

SetLimit(r, n) ==
  /\ Look(r)
  /\ query' = [query EXCEPT ![r] = WithLimit(@, n)]
  /\ UNCHANGED results

SetOffset(r, n) ==
  /\ Look(r)
  /\ query' = [query EXCEPT ![r] = WithOffset(@, n)]
  /\ UNCHANGED results

Fetch(r, limit, offset) ==
  /\ Look(r)
  /\ results' = [results EXCEPT ![r] = Answer(Asked(query[r], limit, offset))]
  /\ query' = [query EXCEPT ![r] = Run(Asked(query[r], limit, offset))]

\* The request dies; another begins again from the cursor that was kept.
Die(r) ==
  /\ pc[r] \in {"built", "ready", "fetched"}
  /\ losses < MaxLosses
  /\ losses' = losses + 1
  /\ over' = [over EXCEPT ![r] = {}]
  /\ Goto(r, "idle")
  /\ UNCHANGED <<store, query, results, bookmark, got, lasting, passedOver, writes, looks>>

\* Another request inserts or deletes an entity.
Write(e) ==
  /\ writes < MaxWrites
  /\ writes' = writes + 1
  /\ store' = IF e \in store THEN store \ {e} ELSE store \cup {e}
  /\ lasting' = [r \in Reader |-> lasting[r] \cap store']
  /\ UNCHANGED <<query, pc, results, bookmark, got, over, passedOver, losses, looks>>

AllDone == (\A r \in Reader : pc[r] = "done") /\ UNCHANGED vars

Next ==
  \/ \E r \in Reader :
       \/ Construct(r) \/ Resume(r) \/ FetchPage(r) \/ Keep(r) \/ Die(r)
       \/ \E n \in Limits : SetLimit(r, n)
       \/ \E n \in Offsets : SetOffset(r, n)
       \/ \E n \in Limits, o \in Offsets : Fetch(r, n, o)
  \/ \E e \in Entity : Write(e)
  \/ AllDone

\* Requests are served, and readers go on while there are results.
Fairness ==
  \A r \in Reader : WF_vars(Construct(r) \/ Resume(r) \/ FetchPage(r) \/ Keep(r))

Spec == Init /\ [][Next]_vars
FairSpec == Spec /\ Fairness

-----------------------------------------------------------------------------
\* Type invariant of the query objects and their readers (query.js:95-132).
TypeOK ==
  /\ store \subseteq Entity
  /\ query \in [Reader -> Query]
  /\ pc \in [Reader -> Step]
  /\ results \in [Reader -> SUBSET Entity]
  /\ bookmark \in [Reader -> Place \cup {Unset}]
  /\ got \in [Reader -> SUBSET Entity]
  /\ lasting \in [Reader -> SUBSET Entity]
  /\ over \in [Reader -> SUBSET Entity]
  /\ passedOver \in [Reader -> SUBSET Entity]
  /\ writes \in 0..MaxWrites
  /\ losses \in 0..MaxLosses
  /\ looks \in [Reader -> 0..MaxLooks]

\* No entity is in two pages, and the pages are in order (query.js:236-250:
\* the cursor is that of the last run), whatever is inserted or deleted in
\* between, whichever objects serve the pages and however often a request
\* dies before its page is kept.
EachOnce ==
  \A r \in Reader : pc[r] = "fetched" => \A e \in results[r], d \in got[r] : d < e

\* "A future invocation of a similar query [begins] fetching results
\* immediately after the last returned result" (query.js:239-241): of the
\* entities that are there from the first page to the last, none is missed
\* but those that an offset made a page pass over, which an earlier call on
\* the same object had left in its fetch options (105-108, 212-218).
NothingMissed ==
  \A r \in Reader : \A e \in lasting[r] :
    pc[r] = "done" \/ (bookmark[r] # Unset /\ e <= bookmark[r]) =>
      e \in got[r] \cup passedOver[r]

\* Where the next page of a reader begins.
Bookmarked(r) == IF bookmark[r] = Unset THEN 0 ELSE bookmark[r]

\* A page that is kept is the last or moves its reader on by a page at the
\* least (query.js:220-250), whatever is inserted, deleted or asked of the
\* object in between: no reader is sent round in a circle, and none keeps
\* more than MaxPlace \div PageSize + 1 pages.
PagesAdvance ==
  [][\A r \in Reader :
       pc[r] = "fetched" /\ pc'[r] # "fetched" /\ UNCHANGED losses =>
         pc'[r] = "done" \/ Bookmarked(r)' >= Bookmarked(r) + PageSize]_vars

\* Every reader comes to the end of the results (query.js:111-132, 246-250).
ScanEnds == \A r \in Reader : <>(pc[r] = "done")
=============================================================================
