# A verification development for appengine_js

appengine_js is a JavaScript port of the Python App Engine SDK. It runs on
Ringo (Rhino) and calls the Java SDK. Most of its files translate arguments
and make one service call. The logic of its own is in `ext/db`: transactions,
model instances, properties, queries and forms. That is what most modules here
model; two more are about calls whose arguments decide how requests interact,
those of the task queue and, with the namespaces that separate domains, of
memcache. Paths below are relative to `src/lib/google/appengine/`.

One request is one thread, and JavaScript runs in it without interruption.
Requests share nothing but the services, above all the datastore. The hard
behaviours are therefore those of several requests on one datastore, of calls
that fail half way or after having taken effect, and of objects (instances,
query objects, forms) used in an order their author did not think of.

## 1. Inventory

| Component | State | Operations | What makes it correct |
|---|---|---|---|
| Transactions, `ext/db.js` | the thread's stack of open transactions (in the service), the local `tx` of each call | `runInTransaction`, `get`, `put`, `remove` | every call ends its own transaction; all or nothing; no lost update; the caller is told the truth |
| Get-or-insert, `ext/db/model.js` | the caller's `data` object, the variable `obj` | `getOrInsert`, `getByKeyName` | one entity whoever comes first; nothing replaced; callers who retry are served |
| Model instances, `ext/db/model.js` | `__key__`, `_entity`, the property fields | constructor, `fromEntity`, `put`, `remove`, `key`, `isSaved`; `db.get`, `db.put`, `db.remove` on them | one key for ever; one entity; a creation date that stays |
| Properties, `ext/db/properties.js`, class `User` of `api/users.js` | the values in the instance, the remembered objects of references | `getValueForDatastore`, `makeValueFromDatastore`, `validate`, getters and setters of references | instance and entity agree; a put changes only what was assigned, under an older version of the class too |
| Queries, `ext/db/query.js` | `fetchOptions`, `prepared`, `_last_raw_query` | `limit`, `offset`, `withCursor`, `fetch`, `run`, `cursor`, `count`, ... | paging by cursor gives everything once, but what an offset skips, and ends |
| Forms, `ext/db/forms.js` | `instance`, `errors` | constructor, `validate`, `isValid`, `put`, conversions, rendering | only what was filled in changes; what is missing is reported |
| Keys and types, `api/datastore/types.js` | none, ids are handed out by the service | `Key.create`, conversions | an id is used once |
| Task queue, `api/taskqueue.js` | none (in the service) | `Task.add`, `Queue.add`, `add` | a task shares the fate of the transaction it is added in |
| Namespaces, `api/namespace-manager.js`, `ext/jsgi/namespace.js` | the namespace of the thread | the middleware, `enableRequestNamespace` | a request works in the namespace of its own domain |
| Memcache, `api/memcache.js` | none (in the service) | `get`, `add`, `remove`, `incr`, ... | what is cached is what is stored; each request counts once |
| Services: URL fetch, mail, XMPP, channel, images, blobstore, OAuth, quota, users | none | one service call each | arguments are passed on |
| Statistics kinds, kind map, errors, development tools, webapp | declarations | | |

They interact by calls: forms put instances; instances convert their values
through properties; properties follow references with `db.get`; instances,
queries and `getOrInsert` use the functions of `ext/db.js`; and these use the
service, in the transaction on top of the thread's stack if there is one. So
does `Task.add`: the queue, and later the webhook it calls, see what the
transaction has become. The namespace that the middleware sets on the thread is
used by every call of datastore and memcache after it.

`PROJECT.json` lists the hazards at the lines where they bite, with the
properties that cover them.

## 2. Modules

    Datastore            the service, external: operators only
      Datastore_proofs     lemmas about its operations
      RunInTransaction     ext/db.js, implements AtomicStore
        RunInTransaction_proofs
        TaskQueue            taskqueue.js composed with it, implements RunInTransaction
                             and AtomicOutbox
          TaskQueue_proofs
      GetOrInsert          model.js getOrInsert, implements InsertOnce
        GetOrInsert_proofs
      ModelInstance        model.js keys and saved state
        ModelInstance_proofs
    QueryPaging          query.js
      QueryPaging_proofs
    PropertyTypes        the conversions of properties.js, users.js, forms.js: operators only
      EntityValues         instances of one entity in several requests
        ModelForm            forms.js over them
          FormPages            the pages that show a form
            ModelForm_proofs     about these four
    Memcache             memcache.js, namespace-manager.js, jsgi/namespace.js,
                         implements DomainStore
      Memcache_proofs

`MC*.tla` instantiate them, one `.cfg` per run.

**Datastore** is what the code relies on in the Java SDK: a stack of
transactions per thread; a transaction works in one entity group, sees a
snapshot taken at its first operation, buffers its writes, and commits if the
group's version has not moved; a commit or rollback takes the transaction off
the stack. It has external definitions only; those of other modules are the
effect of fetch options, the ids the service allocates, what the queue does with
a task, and the application and evictions of `Memcache`.

**RunInTransaction**. `call[r]` is the sequence of local variables `tx` of the
calls of `runInTransaction` request `r` is inside; `raised[r]` says that an
exception is on its way up. `RunIn` is line 151; `Get`, `Put`, `Remove`,
`CrossGroup` are calls of `db.get`, `db.put` and `db.remove` in a function;
`PutOutside` and `RemoveOutside` those outside, whose batches may be written
in part when they throw (the bound `Batches` says which sets of keys they are
called with); `Throw` and `Catch` are application code; lines
154-157 are `RollbackAndRethrow`; line 158 is `Commit`, `CommitConflict` or
`CommitUnknown`, a timeout after which the writes may be there or not;
`Killed` ends the request anywhere. `outcome` and `reads` are history
variables. Values are the names of their writers.
**AtomicStore** has none of this: a function asks for updates, and all it has
asked for are made in one step on the current store, in which its caller may be
told that it returned, or none ever is and its caller is never told so.

**TaskQueue** adds tasks to the requests of `RunInTransaction`. `AddTask` is the
call the queue accepts, `AddFails` one that throws, which the queue may have
accepted as well. A task added in a transaction is held until the transaction
ends (`Released` follows every other step of a request, `Work`). The queue calls
a webhook, which is a request like the others, until it answers with success
(`Succeed`); a webhook that fails, is not heard (`Fail`) or is killed (`Die`) is
called again. **AtomicOutbox** extends `AtomicStore` with the tasks a function has
added, which come out in the step in which the function takes effect or never;
of held and dropped tasks it knows nothing.

**GetOrInsert** has one action for each service call of `getOrInsert`, and a
variable for the parent that the constructor deletes from the caller's data. The
content of an entity is the call that created it, so that a repeated call cannot
take the place of an earlier one unseen.
**InsertOnce** is the one-step version.

**ModelInstance**: records with `__key__`, `_entity` and one automatic date.
`Put` assigns `_entity` before it calls the service, `DbPut` never does,
`Remove` caches the key and then drops `_entity`, `Service` may fail having
acted or not. `Begin` and `End` run the request's transaction.

**QueryPaging**: the query object as a record of limit, offset, cursor and
the position of the last iterator. Entities are their places in the order of
the query, so filters and orders need not appear. Readers keep page and cursor
together, use one object or several, call other methods in between, and die. An
offset that one of those calls has left on the object is applied to the next page
as well, after the cursor; `passedOver` is what it made pages skip.

**PropertyTypes** says for each property class what a put leaves in the
instance (`Settled`), what it sends to the datastore (`ForDatastore`), what a
load makes of it (`FromDatastore`), when each throws (`CannotStore`,
`CannotLoad`), what validation says, choices and custom validators included
(`Chosen`, `Checked`), and what a form field becomes. Every property takes a
field unless it is marked otherwise, and lists, users, blobs and points, which
have no conversion, are then left with a text (`Misplaced`): a list stores its
characters, a user or a blob makes the put throw, a point is stored without
coordinates. A value is its type and a number.
**EntityValues** has requests with instances of one
entity; `_toEntity` goes through the properties in order and stops at the
first that throws, leaving the instance half settled, and when all are settled
the service may throw, having written the entity or not. A request may run an
older version of the class, which does not know the last property (`known`);
what an instance was loaded with for properties that its class does not know
stays in its entity (`rest`) and is put again. An instance made without name or
key makes an entity of its own: of those, `Makes` lets only the one considered be
made, by the first request that has to do with it. **ModelForm** adds a form
bound to the instance of a request, or to one that it makes; its constructor
fills in, validates (which follows references) or throws at the first field it
cannot convert.
**FormPages** adds the page a user is shown, a field for each property: `AsUl`
puts the texts of `getValueForForm` in it, `ObjectToForm` those of the older
rendering, and `Submit` sends it back to a later `Bind`, one field changed.
Dates are shown by the second, and a second is two ticks of the clock here.
Texts stand in the page unescaped: if one of them is `Marked`, one that HTML
takes for something else, the page may be any that a user could send.

**Memcache** has the cache and the entities of each namespace. A request gets
its namespace from `Middleware`, and then reads an entity through the cache
(`Hit`, or `Load` and `Fill`), changes one (`Lock`, `Update`) or counts itself
(`CreateCounter`, `Count`), in the two or three calls the arguments of the
library's functions are made for; the header of the module spells them out. It
may be killed between any two. `Tick` is a second: requests get older and the
locks of `remove(key, seconds)` shorter. A request older than `Deadline` is
killed, so `Tick` waits for one of that age to end or die. **DomainStore** is what
this looks like from outside: a store for each domain, and requests that are
shown what it holds.

Definitions whose comment says "a slip" are plausible bugs, used by no
specification: each property has been seen to fail when one of them takes the
place of the operator after it.

## 3. What the runs check

| Run | Bounds | Shows |
|---|---|---|
| `flat` | 2 requests, 2 transactions, no nesting; 2 keys in a group and 1 in another; batches within the first group and over both; direct writes, perhaps in part | `NoDirtyData`, `NoLostUpdate`, `CommitIsAtomic`, and that `AtomicStore` is implemented |
| `nested` | 2 requests, 3 transactions, two deep; 2 groups | `TypeOK`, `NoTransactionLeaks`, `OutcomeIsTruthful`, and `AtomicStore` again |
| `contention` | 3 users under a parent, 6 calls each, 1 failing call, 1 foreign write | `InsertsOnce`, `NeverOverwrites`, `RetriesPaidFor`, `EveryUserServed` |
| `life` | 1 instance, a name and 2 ids, 2 transactions, 1 foreign write, 2 dates | `KeysAgree`, `KeyNeverChanges`, `OneEntityPerInstance`, `OneCreationDate` |
| `scan` | 5 places, pages of 2, 2 writes, a request that dies, another call on the object, an offset among them | `EachOnce`, `NothingMissed`, `PagesAdvance`, `ScanEnds` |
| `forms` | 2 requests of 2 users, 10 kinds of two properties that have every class, option, choices and a validator, lists, users, blobs and points with fields, for two of them an older class, 2 puts, an assignment, a removed target, a form at a time | `TypeOK`, `PutsAreFaithful`, `OnlyAssignedChanges`, `FormChangesWhatWasFilledIn`, `ErrorsAreComplete` |
| `pages` | 1 user, 4 kinds of two properties, a marked text, 1 put, 1 assignment, 1 removed target, 2 dates in one second | `PagesTypeOK`, `UntouchedFieldsStay` |
| `tasks` | 2 requests, 2 transactions that may be nested, 2 tasks, 1 key | `TaskTypeOK`, `TasksFollowTransactions`, `TasksComeWithUpdates`, and that `AtomicOutbox` is implemented |
| `cached` | 2 requests, 2 domains, 1 entity each, a deadline of 1 second, locks of 3, 1 update, 2 counts | `CacheIsFresh`, `DomainsApart`, `CountsOnce`, and that `DomainStore` is implemented |

Two requests are enough for every conflict between two transactions, and the
third user of `contention` makes a call conflict more than once; its bound of 6
calls is never reached, since `RetriesPaidFor` allows no more than that. Three
transactions let one request be two deep while another commits. Five places and
pages of two give first, middle, last and short pages with room for an insertion
on either side. A kind of two properties lets one throw before or after the
other. Two tasks can be those of one transaction or of two; the transactions of
`tasks` are those of `nested`, two of them on one key. In `cached`, 3 is the
least lock that outlives two deadlines: the old value read before an update may
be added up to one deadline after it, and the update may come one deadline after
the lock. A lock of 2 seconds, which the assumption of the module forbids,
leaves a stale entry. Each constant marked "bound" only limits how often
something happens. `CHECK_DEADLOCK FALSE` is set for the runs of `ModelForm` and
`FormPages`, where the bounds end everything; the other specifications always
have a step left, or a stuttering one when everyone is done.

The runs that end in a counterexample show where code and documentation
differ:

| Run | Property | Where |
|---|---|---|
| `rollback` | `AllUpdatesRolledBack` | updates of a nested call survive the rollback of the outer one, `ext/db.js:140-142` and 151-158 |
| `reparented` | `OneEntity` | the constructor deletes `parent` from the caller's data, `ext/db/model.js:107`; a repeated `getOrInsert` makes another entity |
| `dbput` | `SavedObjectsAreSaved` | `db.put` does not keep the entity, `ext/db.js:114`, `ext/db/model.js:343-344` |

Other differences noticed, without a run.

* Transactions and models: nothing retries a conflict, although
  `api/datastore/errors.js:35-38` speaks of retries; `isSaved()` is true after a
  put that threw (`ext/db/model.js:320`); after a `remove` in a transaction that
  is rolled back it is false, and the next put dates the entity anew (337);
  `db.get` of a list of strings maps
  them to `undefined` (`ext/db.js:67`); `hasKey` reads `_key`, never set
  (`ext/db/model.js:351`).
* Properties: a stored user is rebuilt from the one signed in, domain included
  (`api/users.js:65`, `ext/db/properties.js:457-459`); a required list may be
  empty and is loaded as null (`ext/db/properties.js:73` and 307-309); defaults
  and automatic values are never validated; a `BlobProperty` gives
  `ByteString.wrap` the Java blob itself, where the code commented out above takes
  its bytes (`ext/db/properties.js:519-528`), and the next put cannot store what
  it makes of it; the property class of `BlobInfo` loses
  the key it loads and its `validate` names `BlobKey`, which is not there
  (`ext/blobstore.js:35` and 149-155).
* Queries: options stick to the query object (`ext/db/query.js:203-216`), so that
  an offset once set makes every later page skip entities, although its doc has
  the next one begin "immediately after the last returned result" (237-241); the
  rpc given after the first is ignored (149); `fetch` drops an offset given
  without limit (213); the value of a filter on an automatic property is
  replaced by the present date or user (58).
* Forms: lists, users, blobs and points take fields by default
  (`ext/db/forms.js:336`) but have no conversion (196-198); values are put into
  the page unescaped (201-225, 241, 268-299); the doc of `isValid` says the opposite of what it returns
  (`ext/db/forms.js:103`); a required field with a default, left blank, is
  reported (133); `put` does not look at the errors, against its doc (157-166);
  a form without data cannot be made, against the doc (29-31 and 337);
  `objectToForm` calls `keyToString`, which nothing exports, and throws at a
  reference with a value or a choice (310), before line 309, which takes over
  the variable of the instance, can do harm; an integer without value is shown
  as `undefined` (205).
* Task queue: `Queue.add` passes itself for the queue's name and throws
  (`api/taskqueue.js:107`); `add` returns nothing, where its doc promises the
  task (119-122); `new Task()` throws, and the payload, headers and countdown
  its doc lists are ignored.
* Memcache and namespaces: `setMulti` and `addMulti` pass `time` where the
  expiration made of it belongs (`api/memcache.js:27` and 89), `offsetMulti` an
  undefined `delta` (146); `removeAll` removes one key, which is the list (70);
  the `namespace` argument of every call is ignored; `initialValue` 0 starts no
  counter, against the doc (96-102); `add` and `incr` return nothing;
  `enableRequestNamespace` replaces a namespace already set, where its doc says
  it sets one only if there is none (`api/namespace-manager.js:45-52`).

What the code is known to get wrong is modelled, and let off by the properties
under a name of its own:

* `Unfaithful`: texts, lists and points that have a default, and blobs. A default
  text is stored as a plain string and cannot be loaded again. The defaults of
  lists and points are stored but not kept in the instance, and the one of a list
  comes back after the list has been emptied. A blob is loaded as something else.
* `Misplaced`: a text that a form has left in a list, a user, a blob or a point.
  Only the text is let off: the other properties of the instance, and what the
  put that throws on it leaves of them, are not.
* Automatic properties change by design, and users are compared by name, not by
  domain.
* `Sound`, for `ErrorsAreComplete`: what cannot be in order whatever is sent,
  defaults and automatic values that fail their own validation, required lists,
  and validators of lists and users.
* `Garbled`, for `UntouchedFieldsStay`: pages with a text that HTML takes for
  something else. The property also leaves out
  what was None when the page was made: a date is then shown as the present and
  an integer as `undefined`. It does not say that the page is up to date: one
  sent back late overwrites what others have changed, and the code promises
  nothing else. A single user is enough for it, because a request of `FormPages`
  may assign, put, remove and load between page and submission.
* `passedOver`, for `NothingMissed`: what an offset left on the query object makes
  a page skip, and nothing else.
* `loose`, for `OneEntityPerInstance` and `OneCreationDate`: instances that
  `db.put` stored before they were saved. The second says nothing across a
  removal, even one that is rolled back.

### Fairness

`FairSpec` of `GetOrInsert`: weak fairness of each user once inside the call,
because a thread that runs JavaScript goes on to the end, and of calling again
after an exception, the application's retry loop. It is not assumed that a
user ever calls. `EveryUserServed` needs `Retrying` and enough calls
(`MaxCalls`) for the conflicts and failures the others can cause: each conflict
uses up another one's commit, and `CallsBounded` proves how many there can be. `FairSpec` of `QueryPaging`: a reader goes on
while there are results. Writes, deaths and other calls are not fair.
`TaskQueue` has none: that a task is worked off in the end is the queue's
promise, not this code's. No safety property depends on fairness.

## 4. What is proved

Every safety property that a passing run checks is proved for every value of the
constants, and so are the refinements. The assumptions are those the
modules state on their constants, which TLC evaluates in the runs: each key
has a group, the markers are not values, the calls of users have transactions of
their own, defaults are values of their class (`WellMade`), locks are longer than two deadlines, bounds are natural numbers.
The bounds themselves are arbitrary, so they
restrict nothing.

### Transactions

`RunInTransaction_proofs`, for every set of requests, transactions, keys and
groups and for any depth of nesting:

| Theorem | Statement |
|---|---|
| `TypeCorrect` | `Spec => []TypeOK` |
| `NoLeaks` | `Spec => []NoTransactionLeaks` |
| `Truthful` | `Spec => []OutcomeIsTruthful` |
| `NoDirty` | `Spec => []NoDirtyData` |
| `NoUpdateLost` | `Spec => NoLostUpdate` |
| `AllOrNothing` | `Spec => CommitIsAtomic` |
| `ImplementsAtomicStore` | `Spec => RunsAtomically` |

The argument has two inductive invariants.

* `TypeInv == TypeOK /\ StackInv`. The service's stack of open transactions
  and the calls of `runInTransaction` are two sequences that the code never
  compares. `StackInv` says that they are equal, that no transaction occurs
  twice, on one stack or on two, and that the active transactions are those on
  a stack. Without the last two, rolling back `tx` could take another call's
  transaction off. `TypesAndStacks` is its theorem; `NoTransactionLeaks`
  follows at once.
* `SafeInv`, whose parts are: outcomes agree with the state of transactions;
  closed transactions write no more, and those rolled back or failed have
  written nothing that is in the store; stored values come from committed
  transactions; what a function read is in its snapshot; and, the heart of it,
  the snapshot of an active transaction is the store's content of its group as
  long as the version has not moved. The version test of `commit` then turns
  the snapshot into the current store. `Safety` is its theorem.

For the steps, `StepKinds` first sorts the actions of `Next` into the seven
things a step can do to the datastore (open, get, write, write directly,
apply, drop, expire), and each has a lemma. `NoLostUpdate` and `CommitIsAtomic`
hold of the steps that apply, by `CommittedByApplying`. For the refinement each
kind maps to one step of `AtomicStore`: applying the writes of a transaction
that has any is `Update`, and `ReadsAreCurrent` (from the snapshot part of
`SafeInv`) says that what it read is the current store; a commit without any is
`NoUpdate`; dropping and expiring are `EndInVain`; a write in a function is
`Ask`, and a direct one `WriteDirectly`; the others are stuttering.

### Get-or-insert

`GetOrInsert_proofs`: `TypeCorrect`, `NothingReplaced` (`NeverOverwrites`) and
`Implements` (`Spec => InsertsOnce`). The invariant says of each user that the
stack of its thread is its own transaction while it is in the function and
empty otherwise (`OwnTransaction`), that its snapshot is the store as long as
the version of its group has not moved (`SeesStore`), and, by the place it is
at, what it has found, or that it saw nothing where it is about to write itself
(`AsItSeems`). `VersionsTell`, which every step satisfies, is all that the
other users need: no change of a group without a change of its version. The
step of `InsertOnce` is taken by `GetByKeyName` when it finds an entity,
because the snapshot is taken then, and by the commit of an insert, even one
that throws after it has been applied.

`RetriesPaid` (`RetriesPaidFor`) is about what contention costs. An account for
each user has on one side its calls that threw, on the other the failures, the
entities that are there, and twice the writes from outside: an entity is counted
while it is there, and what removes one pays for the insert that may follow.
The invariant (`Paid`) needs one more clause, since a call pays only at its end:
a user whose snapshot is out of date (`Stale`), and who is therefore going to
conflict, has a payment in hand. Whatever made the snapshot out of date, another
user's insert or a write from outside, has just made it. `CallsBounded` follows:
a user calls at most `3 + failures + 2 * others` times, however many others call
at the same time. It is the safety half of `EveryUserServed`.

### Instances

`ModelInstance_proofs`: `TypeCorrect`, `BothKeysAgree`, `KeyForEver`,
`WritesOneEntity`, `WritesOneDate`. `KeysAgree` is not inductive alone: nothing
in it says that an instance not yet made is blank, or that a saved one has a
date. `Coherent` adds these, and that what an instance has written is what its
present key and date say unless it has gone through `db.put` unsaved. An action
concerns one instance (`OneInstance`); `EntityKeyIsKey` and `DatedProperties`
say what `_populateEntity` and `_toEntity` leave of it.

### Paging

`QueryPaging_proofs`: `TypeCorrect`, `PagesAreDisjoint` (`EachOnce`) and
`PagesAreComplete` (`NothingMissed`). `ReaderInv` ties the four things a
reader's progress consists of: once it has resumed, the cursor of its query
object is its bookmark; what it has kept is not after the
bookmark; the page it has fetched, and what an offset has passed over, lie between
the bookmark and the position of the iterator; and of what has been in the store
throughout, nothing up to either is missing from the two together. `FirstIsInitial` and `FirstIsAll` are the facts about limits: a
limited answer leaves no gap, and a short one leaves nothing. They rest on
`Least`, that numbers have a least one, which comes from the well-foundedness of
the naturals.

`ScanAdvances` (`PagesAdvance`) is the safety half of `ScanEnds`: a page that is
kept and is not the last moves the bookmark by `PageSize` or more, so that no
insertion, earlier call or lost page makes a reader keep more than
`MaxPlace \div PageSize + 1` pages. A full page lies between the bookmark and the
iterator (`ReaderInv`), and they must be as far apart as it is long
(`RoomBetween`).

### Tasks

`TaskQueue_proofs`: `TaskTypes`, `Follow` (`TasksFollowTransactions`),
`ComeTogether` (`TasksComeWithUpdates`) and `TransactionsStay`, that
`TaskSpec => Spec`: adding and working off tasks is nothing but stuttering and
steps of `RunInTransaction`, so its theorems hold with tasks as well. The
invariant adds to `TypeInv` and `SafeInv` what relates a task to the state of its
transaction (`SettledInv`): held while it is active, delivered if it committed,
dropped otherwise. `StepsOfRequests` says which steps of `Spec` the actions are;
the safety lemmas of `RunInTransaction_proofs` do the rest.

`ImplementsOutbox` (`TaskSpec => TasksComeOutAtomically`) goes through the kinds of
step of `RunInTransaction_proofs` once more: applying is `TakeEffect`, with
`UpdateStep` for the store and `SettledInv` for the tasks, which are those added
in that transaction and no others; dropping and expiring are `EndInVain`, during
which a webhook may end as well (`Again`). A read-only function has its tasks
come out too, with `NoUpdate`.

### The cache

`Memcache_proofs`: `Types`, `Fresh` (`CacheIsFresh`), `Apart` (`DomainsApart`)
and `Counted` (`CountsOnce`). `CacheIsFresh` alone is not inductive: the danger
is in requests that are half way. `Inv` says of each: one about to add a value
either holds what is stored, or finds the key locked for longer than it may
still live; one about to update has locked the key so recently that at least
`LockTime` less its age is left, which is more than any other request may live.
`TimeAssumption`, `LockTime > 2 * Deadline`, is what the second needs. A
request's namespace is empty until the middleware has run and its domain's
afterwards, which gives `DomainsApart`, and no request acts before.

`ImplementsDomainStore` (`Spec => LikeAStorePerDomain`) puts these together: a hit
shows what is stored because the cache is fresh, a load because it asks, both
those of the request's domain because of its namespace. Locks, additions,
evictions, counters and time are stuttering (`Unseen`), and `ShownInv` says that
nothing shown to a request is left when its name is used again.

### Values and forms

`ModelForm_proofs`, for every set of kinds made of the property classes, with a
field for any property of any class:

| Theorem | Statement |
|---|---|
| `TypeCorrect` | `FormSpec => []TypeOK` |
| `Faithful` | `FormSpec => []PutsAreFaithful` |
| `OnlyWhatWasAssigned` | `FormSpec => OnlyAssignedChanges` |
| `FilledInIsStored` | `FormSpec => FormChangesWhatWasFilledIn` |
| `ErrorsTell` | `FormSpec => ErrorsAreComplete` |
| `PagesTypes` | `PagesSpec => []PagesTypeOK` |
| `UntouchedStay` | `PagesSpec => UntouchedFieldsStay` |

The first part is about the conversions, class by class: `Puts`, what a put
leaves in the instance and sends to the datastore, mirror each other; `Loads`,
so do a value and what a load makes of it; `PutsAgain`, putting what mirrors
changes nothing, a text in a list or a point included; `SettledValid` and `LoadedValid`, a value that is valid stays
so. `MirrorsIs` ties this to `Same`. Then the invariant `FInv`. `RefInv`: the
object a reference remembers is that of its key, or none. `FreshInv`: what an
instance does not know is in `rest` as it is stored. `MirrorInv`: a property
that has not been assigned, or any of an instance that has not changed, mirrors
what is stored; this strengthens `PutsAreFaithful`, which says nothing of an
instance of which one property has changed, although its next put must leave the
others as they are. `FilledIn`: what a form means a property to have is what the
instance holds, and what is invalid there has an error. `ErrorsTell` follows
from `FilledIn`, since the put can make nothing invalid that was not so. For
pages, `PShown` says that a field that is not blank shows the value its page was
made from, if there was one, and `ComesBack` that such a field makes the same
value again, up to the milliseconds of a date; both for pages without marked texts.

### Only model-checked

The liveness properties `EveryUserServed` and `ScanEnds`
(fairness and ENABLED are out of the prover's reach; the bounds
they rest on are proved, `CallsBounded` and `ScanAdvances`), and the
counterexamples of section 3.

## 5. Not modelled

* Services that are one call each, and declarations (section 1): they keep no
  state and take no decision.
* Models: class extension beyond its effect on puts, `parent()`, and the
  conversions to data and JSON, which touch nothing that is stored.
* Queries: filters, orders, ancestors and `keysOnly`, which define a result set,
  and the rpc. Back-reference collections are queries.
* Forms: labels, what exactly markup makes of a text, and the limit of 100
  entities to choose from.
* The property class of `BlobInfo`, which cannot work yet (section 3), and the
  fetch of blobs.
* Memcache: `set` and `decr`, which the two idioms of `Memcache` do not use, the
  calls on several keys, most of which cannot work yet (section 3), and
  `flushAll`.
* Namespaces chosen by an application itself, or left on a thread by an earlier
  request: App Engine starts each without one.
* That the task queue works tasks off, and retries them.

## 6. Plan

Done: `RunInTransaction` with `AtomicStore`, `GetOrInsert` with `InsertOnce`,
`ModelInstance`, `QueryPaging`, `PropertyTypes` with `EntityValues`, `ModelForm`
and `FormPages`, `TaskQueue` with `AtomicOutbox`, and `Memcache` with
`DomainStore`, all with their proofs.

Next: what a function reads that updates nothing, or that fails, is of one state
of the store too, which `AtomicStore` does not say yet; values of one entity put
in transactions (`EntityValues` over `Datastore`); and `set` and `decr` in
`Memcache`, with an application that needs them.
