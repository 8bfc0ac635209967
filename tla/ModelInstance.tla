---------------------------- MODULE ModelInstance ----------------------------
(***************************************************************************)
(* The life of model instances in one request: src/lib/google/appengine/   *)
(* ext/db/model.js (the constructor 99-114, fromEntity 143-152,            *)
(* _populateEntity 259-277, key 279-293, put 319-323, remove 335-338,      *)
(* isSaved 346-348) and the db.get, db.put and db.remove of ext/db.js      *)
(* (64-137) applied to them, in and out of a transaction the request runs, *)
(* while other requests write the same keys.                               *)
(*                                                                         *)
(* An instance has two ways to know its key: the field __key__ and the     *)
(* Java entity _entity, whose presence is also what isSaved() answers.     *)
(* The model has one autoNowAdd date, "created", set by _toEntity whenever *)
(* the instance is not saved (ext/db/properties.js:235-251).               *)
(***************************************************************************)
EXTENDS Datastore

CONSTANTS
  Me,          \* the request the instances live in
  Instance,    \* the instances the request makes
  NameKey,     \* keys made from a name
  IdKey,       \* keys allocateIds hands out
  NoKey,       \* a field holding no key
  NoDate,      \* a date property without value
  Other,       \* the date in entities written by other requests
  MaxClock,    \* bound: instants at which a date may be set
  MaxOther,    \* bound: writes by other requests
  MaxVersion   \* bound: a group takes direct writes below this version

ASSUME MeAssumption == Me \in Request
ASSUME InstanceKeyAssumption == Key = NameKey \cup IdKey /\ NoKey \notin Key
ASSUME DateAssumption == 0..MaxClock \cup {Other} \subseteq Value /\ NoDate \notin Value
ASSUME InstanceBoundAssumption == {MaxClock, MaxOther, MaxVersion} \subseteq Nat

VARIABLES
  inst,        \* the instances; NoKey and NoDate are undefined fields
  made,        \* the instances constructed so far
  allocated,   \* the ids handed out
  clock,       \* the time
  raised,      \* the last operation threw
  others,      \* writes by other requests
  written,     \* the keys each instance has tried to write
  dates,       \* the creation dates it has tried to write since it was removed
  loose        \* instances passed to db.put before they were saved

instVars == <<inst, made, allocated, clock, raised, others>>
ghosts == <<written, dates, loose>>
vars == <<dsVars, instVars, ghosts>>

Object == [__key__ : Key \cup {NoKey}, _entity : Key \cup {NoKey},
           created : Value \cup {NoDate}]
Blank == [__key__ |-> NoKey, _entity |-> NoKey, created |-> NoDate]

Init ==
  /\ DatastoreInit
  /\ inst = [i \in Instance |-> Blank]
  /\ made = {}
  /\ allocated = {}
  /\ clock = 0
  /\ raised = FALSE
  /\ others = 0
  /\ written = [i \in Instance |-> {}]
  /\ dates = [i \in Instance |-> {}]
  /\ loose = {}

-----------------------------------------------------------------------------
isSaved(i) == inst[i]._entity # NoKey

\* Model.prototype.key: __key__, else that of _entity, else it throws.
KeyOf(x) == IF x.__key__ # NoKey THEN x.__key__ ELSE x._entity
HasKey(i) == KeyOf(inst[i]) # NoKey
WithKeyCached(x) == [x EXCEPT !.__key__ = KeyOf(x)]

DirectService(k, content) ==
  /\ ~InTransaction(Me)
  /\ version[GroupOf[k]] < MaxVersion
  /\ DirectWrite({k}, content)

\* The service accepts the operation on k, or throws having changed nothing
\* or, outside a transaction, having carried it out all the same.
Service(k, content) ==
  \/ /\ raised' = FALSE
     /\ \/ InTransaction(Me) /\ Accepts(CurrentTxn(Me), {k})
                             /\ TxnWrite(CurrentTxn(Me), {k}, content)
        \/ DirectService(k, content)
  \/ /\ raised' = TRUE
     /\ \/ UNCHANGED dsVars
        \/ DirectService(k, content)

\* allocateIds: any id not handed out before.
AllocateId(k) == k \in IdKey \ allocated /\ allocated' = allocated \cup {k}

\* A slip of EntityKey: __key__ is overlooked.
EntityKeyAnew(i, k) ==
  \/ isSaved(i) /\ k = inst[i]._entity /\ UNCHANGED allocated
  \/ ~isSaved(i) /\ AllocateId(k)

\* The key the entity of _populateEntity gets: that of _entity, __key__, or
\* a new id, which the instance itself does not keep.
EntityKey(i, k) ==
  \/ isSaved(i) /\ k = inst[i]._entity /\ UNCHANGED allocated
  \/ ~isSaved(i) /\ HasKey(i) /\ k = inst[i].__key__ /\ UNCHANGED allocated
  \/ ~HasKey(i) /\ AllocateId(k)

\* Slips of Dated: no date is ever set; it is set on every put.
Undated(i) == inst[i]
DatedAnew(i) == [inst[i] EXCEPT !.created = clock]

\* _toEntity: a date set on every put of an unsaved instance.
Dated(i) == IF isSaved(i) THEN inst[i] ELSE [inst[i] EXCEPT !.created = clock]

Note(i, k, content) ==
  /\ written' = [written EXCEPT ![i] = @ \cup {k}]
  /\ dates' = [dates EXCEPT ![i] = @ \cup {content}]

-----------------------------------------------------------------------------
\* new M(data): with a key or key name, with a parent only, which allocates
\* an id at once, or with neither (model.js:99-114).
Construct(i) ==
  /\ i \notin made
  /\ made' = made \cup {i}
  /\ \E k \in Key \cup {NoKey} :
       /\ inst' = [inst EXCEPT ![i].__key__ = k]
       /\ \/ k \in NameKey \cup allocated \cup {NoKey} /\ UNCHANGED allocated
          \/ AllocateId(k)
  /\ UNCHANGED <<dsVars, clock, raised, others, ghosts>>

\* db.get of one key and fromEntity: the instance has _entity, not __key__.
Load(i, k) ==
  /\ i \notin made
  /\ \/ /\ InTransaction(Me)
        /\ Accepts(CurrentTxn(Me), {k})
        /\ TxnGet(CurrentTxn(Me), k)
     \/ ~InTransaction(Me) /\ UNCHANGED dsVars
  /\ LET content == IF InTransaction(Me) THEN Seen(CurrentTxn(Me), k) ELSE store[k] IN
       /\ content # NoEntity
       /\ inst' = [inst EXCEPT ![i] = [Blank EXCEPT !._entity = k, !.created = content]]
       /\ dates' = [dates EXCEPT ![i] = {content}]
  /\ made' = made \cup {i}
  /\ UNCHANGED <<allocated, clock, raised, others, written, loose>>

\* A slip of Put: _entity is assigned once JDatastore.put has returned.
PutThenKeep(i) ==
  /\ i \in made
  /\ \E k \in Key :
       /\ EntityKey(i, k)
       /\ Service(k, Dated(i).created)
       /\ inst' = [inst EXCEPT ![i] = [Dated(i) EXCEPT !._entity = IF raised' THEN @ ELSE k]]
       /\ Note(i, k, Dated(i).created)
  /\ UNCHANGED <<made, clock, others, loose>>

\* Model.prototype.put: _entity is assigned before JDatastore.put is called.
Put(i) ==
  /\ i \in made
  /\ \E k \in Key :
       /\ EntityKey(i, k)
       /\ inst' = [inst EXCEPT ![i] = [Dated(i) EXCEPT !._entity = k]]
       /\ Service(k, Dated(i).created)
       /\ Note(i, k, Dated(i).created)
  /\ UNCHANGED <<made, clock, others, loose>>

\* db.put of the instance: the entity is not kept.
DbPut(i) ==
  /\ i \in made
  /\ \E k \in Key :
       /\ EntityKey(i, k)
       /\ inst' = [inst EXCEPT ![i] = Dated(i)]
       /\ Service(k, Dated(i).created)
       /\ Note(i, k, Dated(i).created)
  /\ loose' = IF isSaved(i) THEN loose ELSE loose \cup {i}
  /\ UNCHANGED <<made, clock, others>>

\* A slip of Remove: the key is read from _entity and not cached.
RemoveUncached(i) ==
  /\ i \in made
  /\ HasKey(i)
  /\ Service(KeyOf(inst[i]), NoEntity)
  /\ inst' = [inst EXCEPT ![i]._entity = IF raised' THEN @ ELSE NoKey]
  /\ dates' = [dates EXCEPT ![i] = IF raised' THEN @ ELSE {}]
  /\ UNCHANGED <<made, allocated, clock, others, written, loose>>

\* Model.prototype.remove: key() caches the key before _entity is dropped,
\* which a failed delete does not reach.
Remove(i) ==
  /\ i \in made
  /\ HasKey(i)
  /\ Service(KeyOf(inst[i]), NoEntity)
  /\ inst' = [inst EXCEPT ![i] = [WithKeyCached(inst[i]) EXCEPT
                                   !._entity = IF raised' THEN @ ELSE NoKey]]
  /\ dates' = [dates EXCEPT ![i] = IF raised' THEN @ ELSE {}]
  /\ UNCHANGED <<made, allocated, clock, others, written, loose>>

\* db.remove of a list with the instance: datastoreKey() caches the key.
DbRemove(i) ==
  /\ i \in made
  /\ HasKey(i)
  /\ Service(KeyOf(inst[i]), NoEntity)
  /\ inst' = [inst EXCEPT ![i] = WithKeyCached(inst[i])]
  /\ UNCHANGED <<made, allocated, clock, others, ghosts>>

\* key(), datastoreKey(), remove() and db.remove() of an instance without
\* key throw NotSavedError; key() of the others caches.
AskKey(i) ==
  /\ i \in made
  /\ inst' = [inst EXCEPT ![i] = WithKeyCached(inst[i])]
  /\ raised' = ~HasKey(i)
  /\ UNCHANGED <<dsVars, made, allocated, clock, others, ghosts>>

-----------------------------------------------------------------------------
\* The request enters and leaves runInTransaction (db.js:146-161).
Begin ==
  /\ ~InTransaction(Me)
  /\ \E t \in TxId : BeginTransaction(Me, t)
  /\ UNCHANGED <<instVars, ghosts>>

End ==
  /\ InTransaction(Me)
  /\ \/ ApplyWrites(CurrentTxn(Me)) /\ raised' = FALSE
     \/ ~UpToDate(CurrentTxn(Me)) /\ DropWrites(CurrentTxn(Me), "failed") /\ raised' = TRUE
     \/ DropWrites(CurrentTxn(Me), "rolledback") /\ raised' = TRUE
  /\ Leave(Me, CurrentTxn(Me))
  /\ UNCHANGED <<inst, made, allocated, clock, others, ghosts>>

OtherRequest(k) ==
  /\ others < MaxOther
  /\ k \in NameKey \cup allocated
  /\ \E content \in {Other, NoEntity} : DirectWrite({k}, content)
  /\ others' = others + 1
  /\ UNCHANGED <<inst, made, allocated, clock, raised, ghosts>>

Tick ==
  /\ clock < MaxClock
  /\ clock' = clock + 1
  /\ UNCHANGED <<dsVars, inst, made, allocated, raised, others, ghosts>>

Next ==
  \/ \E i \in Instance :
       \/ Construct(i) \/ Put(i) \/ DbPut(i) \/ Remove(i) \/ DbRemove(i) \/ AskKey(i)
       \/ \E k \in Key : Load(i, k)
  \/ Begin \/ End \/ Tick
  \/ \E k \in Key : OtherRequest(k)

Spec == Init /\ [][Next]_vars

-----------------------------------------------------------------------------
\* Type invariant of the instances (model.js:99-114, 259-293).
TypeOK ==
  /\ DatastoreTypeOK
  /\ inst \in [Instance -> Object]
  /\ made \subseteq Instance
  /\ allocated \subseteq IdKey
  /\ clock \in 0..MaxClock
  /\ raised \in BOOLEAN
  /\ others \in 0..MaxOther
  /\ written \in [Instance -> SUBSET Key]
  /\ dates \in [Instance -> SUBSET Value]
  /\ loose \subseteq Instance

\* Once an instance can name its key it names the same one for ever, through
\* failed puts, removals, transactions that are rolled back and further puts,
\* whether it finds it in __key__ or in _entity (model.js:262-275, 279-288,
\* 336-337).
KeyNeverChanges ==
  [][\A i \in Instance : HasKey(i) => KeyOf(inst'[i]) = KeyOf(inst[i])]_vars

\* The two places an instance keeps its key in never disagree.
KeysAgree ==
  \A i \in Instance :
    inst[i].__key__ # NoKey /\ isSaved(i) => inst[i].__key__ = inst[i]._entity

\* An instance never writes two entities, however often its puts fail and
\* are repeated, in or out of transactions, provided it was not given to
\* db.put before it was saved (model.js:262-276, 319-322).
OneEntityPerInstance ==
  \A i \in Instance \ loose : written[i] \subseteq {KeyOf(inst[i])}

\* Repeating a put never moves the creation date: between two removals an
\* instance not given to db.put unsaved writes one date, that of its first
\* attempt or of the entity it was loaded from (properties.js:238-239,
\* model.js:262, 275, 346).  A removal counts even if its transaction is rolled
\* back: _entity has gone by then, and the next put dates the entity anew.
OneCreationDate ==
  \A i \in Instance \ loose, d, e \in Value :
    d \in dates[i] /\ e \in dates[i] => d = e

\* The doc of isSaved (model.js:340-345): "Objects which are saved to or
\* loaded from the Datastore will have a True saved state."  Here: an
\* instance, not removed since, whose date is stored under a key it wrote.
SavedObjectsAreSaved ==
  \A i \in made, k \in Key :
    ~raised /\ others = 0 /\ k \in written[i] /\ store[k] \in dates[i] => isSaved(i)
=============================================================================
