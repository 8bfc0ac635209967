------------------------- MODULE ModelInstance_proofs -------------------------
(***************************************************************************)
(* Theorems about the keys and the creation dates of model instances       *)
(* (ext/db/model.js:99-152, 259-348), for every set of instances and keys  *)
(* and whatever the datastore and other requests do.                       *)
(***************************************************************************)
EXTENDS ModelInstance, Datastore_proofs, SequenceTheorems, TLAPS

(***************************************************************************)
(* The request has at most one transaction open.                           *)
(***************************************************************************)
OneTransaction ==
  /\ current \in [Request -> Seq(TxId)]
  /\ Len(current[Me]) <= 1

FieldsTypeOK ==
  /\ inst \in [Instance -> Object]
  /\ made \subseteq Instance
  /\ allocated \subseteq IdKey
  /\ clock \in 0..MaxClock
  /\ raised \in BOOLEAN
  /\ others \in 0..MaxOther
  /\ written \in [Instance -> SUBSET Key]
  /\ dates \in [Instance -> SUBSET Value]
  /\ loose \subseteq Instance

(***************************************************************************)
(* What is known of one instance.  Until it is made it is blank and has    *)
(* written nothing.  Its two keys agree.  Unless it is loose, what it has  *)
(* written is what its key and, while it is saved, its date say.           *)
(***************************************************************************)
BlankUntilMade(i) ==
  i \notin made => inst[i] = Blank /\ written[i] = {} /\ dates[i] = {}

Agrees(i) ==
  inst[i].__key__ # NoKey /\ isSaved(i) => inst[i].__key__ = inst[i]._entity

Dates(i) == IF isSaved(i) THEN {inst[i].created} ELSE {}

Coherent(i) ==
  /\ BlankUntilMade(i)
  /\ Agrees(i)
  /\ isSaved(i) => inst[i].created \in Value
  /\ i \notin loose => written[i] \subseteq {KeyOf(inst[i])} /\ dates[i] \subseteq Dates(i)

KeepsKey(i) == HasKey(i) => KeyOf(inst'[i]) = KeyOf(inst[i])

TypeInv == StoreTypeOK /\ OneTransaction /\ FieldsTypeOK
Inv == TypeInv /\ \A i \in Instance : Coherent(i)

-----------------------------------------------------------------------------
(***************************************************************************)
(* The datastore's part of a step.                                         *)
(***************************************************************************)

\* The current transaction is one, and closing it leaves none.
LEMMA TheTransaction ==
  ASSUME OneTransaction, InTransaction(Me)
  PROVE  /\ CurrentTxn(Me) \in TxId
         /\ Leave(Me, CurrentTxn(Me)) => OneTransaction'
<1> DEFINE s == current[Me]
<1>1. s \in Seq(TxId) /\ s # <<>> BY MeAssumption DEF OneTransaction, InTransaction
<1>2. CurrentTxn(Me) \in TxId BY <1>1, TopOfStack DEF CurrentTxn
<1>3. ASSUME Leave(Me, CurrentTxn(Me)) PROVE OneTransaction'
  <2> DEFINE d == Detach(s, CurrentTxn(Me))
  <2>1. Len(s) = 1
    <3>1. Len(s) \in Nat \ {0} BY <1>1, TopOfStack
    <3>2. Len(s) <= 1 BY DEF OneTransaction
    <3>3. \A n \in Nat \ {0} : n <= 1 => n = 1 OBVIOUS
    <3> HIDE DEF s
    <3>4. QED BY <3>1, <3>2, <3>3
  <2>2. d = [i \in 1..0 |-> IF \E j \in 1..i : s[j] = CurrentTxn(Me) THEN s[i + 1] ELSE s[i]]
    BY <2>1 DEF Detach
  <2>3. d \in [1..0 -> TxId] BY <2>2
  <2>4. d \in Seq(TxId) /\ Len(d) = 0
    <3> HIDE DEF d
    <3> QED BY <2>3, SeqDef, LenProperties
  <2>5. current' = [current EXCEPT ![Me] = d] BY <1>3 DEF Leave
  <2>6. QED
    <3> HIDE DEF d
    <3> QED BY <2>4, <2>5, MeAssumption DEF OneTransaction
<1>4. QED BY <1>2, <1>3

\* A call of the service, whether it throws or not.
LEMMA ServiceTypes ==
  ASSUME StoreTypeOK, OneTransaction, NEW k, NEW content \in Content, Service(k, content)
  PROVE  StoreTypeOK' /\ OneTransaction' /\ raised' \in BOOLEAN
<1>1. CASE UNCHANGED dsVars /\ raised' = TRUE
  BY <1>1 DEF dsVars, StoreTypeOK, OneTransaction
<1>2. CASE DirectWrite({k}, content) /\ raised' \in BOOLEAN
  BY <1>2, DirectTypes DEF OneTransaction
<1>3. CASE InTransaction(Me) /\ TxnWrite(CurrentTxn(Me), {k}, content) /\ raised' = FALSE
  <2>1. CurrentTxn(Me) \in TxId BY <1>3, TheTransaction
  <2>2. StoreTypeOK' BY <1>3, <2>1, WriteTypes
  <2>3. UNCHANGED current BY <1>3 DEF TxnWrite
  <2>4. QED BY <1>3, <2>2, <2>3 DEF OneTransaction
<1>4. CASE raised' = FALSE
  <2>1. \/ InTransaction(Me) /\ TxnWrite(CurrentTxn(Me), {k}, content)
        \/ DirectWrite({k}, content)
    BY <1>4 DEF Service, DirectService
  <2>2. QED BY <1>2, <1>3, <1>4, <2>1
<1>5. CASE raised' = TRUE
  <2>1. UNCHANGED dsVars \/ DirectWrite({k}, content)
    BY <1>5 DEF Service, DirectService
  <2>2. QED BY <1>1, <1>2, <1>5, <2>1
<1>6. QED BY <1>4, <1>5 DEF Service

-----------------------------------------------------------------------------
(***************************************************************************)
(* A step concerns one instance, or none.                                  *)
(***************************************************************************)
Untouched(j) ==
  /\ UNCHANGED <<inst[j], written[j], dates[j]>>
  /\ j \in made <=> j \in made'
  /\ j \in loose <=> j \in loose'

\* An instance a step does not touch stays coherent, with its key.
LEMMA UntouchedCoherent ==
  ASSUME NEW j \in Instance, Coherent(j), Untouched(j)
  PROVE  Coherent(j)' /\ KeepsKey(j)
BY DEF Coherent, Untouched, BlankUntilMade, Agrees, Dates, isSaved, KeepsKey, KeyOf

\* The key of an entity made for a put (_populateEntity) is the key of the
\* instance, if it has one.
LEMMA EntityKeyIsKey ==
  ASSUME NEW i \in Instance, NEW k \in Key, EntityKey(i, k), FieldsTypeOK, Coherent(i)
  PROVE  /\ HasKey(i) => k = KeyOf(inst[i])
         /\ inst[i].__key__ # NoKey => k = inst[i].__key__
         /\ isSaved(i) => k = inst[i]._entity
         /\ ~HasKey(i) => inst[i].__key__ = NoKey /\ ~isSaved(i)
         /\ k # NoKey
         /\ allocated' \subseteq IdKey
<1>1. k # NoKey BY InstanceKeyAssumption
<1>2. allocated' \subseteq IdKey BY DEF EntityKey, AllocateId, FieldsTypeOK
<1>3. ~HasKey(i) => inst[i].__key__ = NoKey /\ ~isSaved(i) BY DEF HasKey, KeyOf, isSaved
<1>4. QED BY <1>1, <1>2, <1>3 DEF EntityKey, HasKey, KeyOf, isSaved, Coherent, Agrees

\* The instance as _toEntity leaves it: its keys, and a date that a saved
\* one already had.
LEMMA DatedProperties ==
  ASSUME NEW i \in Instance, FieldsTypeOK, Coherent(i)
  PROVE  /\ Dated(i) \in Object
         /\ Dated(i).__key__ = inst[i].__key__ /\ Dated(i)._entity = inst[i]._entity
         /\ Dated(i).created \in Value
         /\ isSaved(i) => Dated(i).created = inst[i].created
<1>1. inst[i] \in Object BY DEF FieldsTypeOK
<1>2. clock \in Value BY DateAssumption DEF FieldsTypeOK
<1>3. CASE isSaved(i) BY <1>1, <1>3 DEF Dated, Coherent
<1>4. CASE ~isSaved(i) BY <1>1, <1>2, <1>4 DEF Dated, Object
<1>5. QED BY <1>3, <1>4

\* key() of an instance changes neither the key nor whether it is saved.
LEMMA CachedProperties ==
  ASSUME NEW x \in Object, x.__key__ # NoKey /\ x._entity # NoKey => x.__key__ = x._entity
  PROVE  LET y == WithKeyCached(x) IN
         /\ y \in Object
         /\ y.__key__ = KeyOf(x) /\ y._entity = x._entity /\ y.created = x.created
         /\ KeyOf(y) = KeyOf(x)
         /\ y.__key__ # NoKey /\ y._entity # NoKey => y.__key__ = y._entity
BY DEF Object, WithKeyCached, KeyOf

-----------------------------------------------------------------------------
(***************************************************************************)
(* Every step preserves the invariant and the keys, one step per action.   *)
(***************************************************************************)
Kept == Inv' /\ \A i \in Instance : KeepsKey(i)

\* It is enough to show it for the instance concerned.
LEMMA OneInstance ==
  ASSUME Inv, TypeInv', NEW i \in Instance, Coherent(i)', KeepsKey(i),
         \A j \in Instance \ {i} : Untouched(j)
  PROVE  Kept
BY UntouchedCoherent DEF Kept, Inv

\* A step of the datastore or the clock concerns no instance.
LEMMA NoInstance ==
  ASSUME Inv, TypeInv', UNCHANGED <<inst, made, written, dates, loose>>
  PROVE  Kept
<1>1. \A j \in Instance : Untouched(j) BY DEF Untouched
<1>2. QED BY <1>1, UntouchedCoherent DEF Kept, Inv

\* new M(data)
LEMMA ConstructKept == ASSUME Inv, NEW i \in Instance, Construct(i) PROVE Kept
<1>1. PICK k \in Key \cup {NoKey} :
        /\ inst' = [inst EXCEPT ![i].__key__ = k]
        /\ UNCHANGED allocated \/ AllocateId(k)
  BY DEF Construct
<1>2. inst[i] = Blank /\ written[i] = {} /\ dates[i] = {} BY DEF Construct, Inv, Coherent, BlankUntilMade
<1>3. inst[i] \in Object /\ inst'[i] = [Blank EXCEPT !.__key__ = k]
  BY <1>1, <1>2 DEF Inv, TypeInv, FieldsTypeOK
<1>4. inst'[i] \in Object /\ inst'[i]._entity = NoKey /\ inst'[i].__key__ = k
  BY <1>3 DEF Object, Blank
<1>5. inst' \in [Instance -> Object] BY <1>1, <1>3, <1>4 DEF Inv, TypeInv, FieldsTypeOK
<1>6. TypeInv'
  <2>1. allocated' \subseteq IdKey BY <1>1 DEF AllocateId, Inv, TypeInv, FieldsTypeOK
  <2>2. FieldsTypeOK' BY <1>5, <2>1 DEF Construct, Inv, TypeInv, FieldsTypeOK, ghosts
  <2>3. QED BY <2>2 DEF Construct, Inv, TypeInv, StoreTypeOK, OneTransaction, dsVars
<1>7. Coherent(i)'
  <2>1. written'[i] = {} /\ dates'[i] = {} /\ i \in made' BY <1>2 DEF Construct, ghosts
  <2>2. QED BY <1>4, <2>1 DEF Coherent, BlankUntilMade, Agrees, Dates, isSaved
<1>8. KeepsKey(i) BY <1>2 DEF KeepsKey, HasKey, KeyOf, Blank
<1>9. \A j \in Instance \ {i} : Untouched(j)
  BY <1>1 DEF Untouched, Construct, ghosts, Inv, TypeInv, FieldsTypeOK
<1>10. QED BY <1>6, <1>7, <1>8, <1>9, OneInstance

\* db.get and fromEntity
LEMMA LoadKept == ASSUME Inv, NEW i \in Instance, NEW k \in Key, Load(i, k) PROVE Kept
<1>1. PICK content \in Content :
        /\ content # NoEntity
        /\ inst' = [inst EXCEPT ![i] = [Blank EXCEPT !._entity = k, !.created = content]]
        /\ dates' = [dates EXCEPT ![i] = {content}]
        /\ StoreTypeOK' /\ OneTransaction'
  <2>1. CASE InTransaction(Me)
    <3>1. CurrentTxn(Me) \in TxId BY <2>1, TheTransaction DEF Inv, TypeInv
    <3>2. StoreTypeOK' /\ Seen(CurrentTxn(Me), k) \in Content
      BY <2>1, <3>1, GetTypes DEF Load, Inv, TypeInv
    <3>3. OneTransaction' BY <2>1 DEF Load, TxnGet, Inv, TypeInv, OneTransaction
    <3>4. QED BY <2>1, <3>2, <3>3 DEF Load
  <2>2. CASE ~InTransaction(Me)
    <3>1. store[k] \in Content BY DEF Inv, TypeInv, StoreTypeOK
    <3>2. StoreTypeOK' /\ OneTransaction'
      BY <2>2 DEF Load, dsVars, Inv, TypeInv, StoreTypeOK, OneTransaction
    <3>3. QED BY <2>2, <3>1, <3>2 DEF Load
  <2>3. QED BY <2>1, <2>2
<1>2. content \in Value BY <1>1 DEF Content
<1>3. inst[i] = Blank /\ written[i] = {} BY DEF Load, Inv, Coherent, BlankUntilMade
<1>4. /\ inst'[i] \in Object
      /\ inst'[i].__key__ = NoKey /\ inst'[i]._entity = k /\ inst'[i].created = content
  BY <1>1, <1>2 DEF Object, Blank, Inv, TypeInv, FieldsTypeOK
<1>5. dates'[i] = {content} BY <1>1 DEF Inv, TypeInv, FieldsTypeOK
<1>6. TypeInv'
  <2>1. inst' \in [Instance -> Object] BY <1>1, <1>4 DEF Inv, TypeInv, FieldsTypeOK
  <2>2. dates' \in [Instance -> SUBSET Value] BY <1>1, <1>2 DEF Inv, TypeInv, FieldsTypeOK
  <2>3. QED BY <1>1, <2>1, <2>2 DEF Load, Inv, TypeInv, FieldsTypeOK
<1>7. Coherent(i)'
  <2>1. written'[i] = {} /\ i \in made' BY <1>3 DEF Load
  <2>2. BlankUntilMade(i)' /\ Agrees(i)' BY <1>4, <2>1 DEF BlankUntilMade, Agrees
  <2>3. Dates(i)' = {content} /\ k # NoKey
    BY <1>4, InstanceKeyAssumption DEF Dates, isSaved
  <2>4. QED BY <1>2, <1>4, <1>5, <2>1, <2>2, <2>3 DEF Coherent
<1>8. KeepsKey(i) BY <1>3 DEF KeepsKey, HasKey, KeyOf, Blank
<1>9. \A j \in Instance \ {i} : Untouched(j)
  BY <1>1 DEF Untouched, Load, Inv, TypeInv, FieldsTypeOK
<1>10. QED BY <1>6, <1>7, <1>8, <1>9, OneInstance

\* What put and db.put share: the datastore and the history.
LEMMA WriteKept ==
  ASSUME Inv, NEW i \in Instance, NEW k \in Key, EntityKey(i, k),
         Service(k, Dated(i).created), Note(i, k, Dated(i).created),
         UNCHANGED <<made, clock, others>>, inst' \in [Instance -> Object],
         loose' \subseteq Instance
  PROVE  /\ TypeInv'
         /\ written'[i] = written[i] \cup {k}
         /\ dates'[i] = dates[i] \cup {Dated(i).created}
         /\ \A j \in Instance \ {i} : UNCHANGED <<written[j], dates[j]>>
<1>1. Coherent(i) /\ FieldsTypeOK /\ StoreTypeOK /\ OneTransaction BY DEF Inv, TypeInv
<1>2. Dated(i).created \in Value BY <1>1, DatedProperties
<1>3. StoreTypeOK' /\ OneTransaction' /\ raised' \in BOOLEAN
  BY <1>1, <1>2, ServiceTypes DEF Content
<1>4. allocated' \subseteq IdKey BY <1>1, EntityKeyIsKey
<1>5. written' \in [Instance -> SUBSET Key] /\ dates' \in [Instance -> SUBSET Value]
  BY <1>1, <1>2 DEF FieldsTypeOK, Note
<1>6. FieldsTypeOK' BY <1>1, <1>3, <1>4, <1>5 DEF FieldsTypeOK
<1>7. QED BY <1>1, <1>3, <1>6 DEF TypeInv, Note, FieldsTypeOK

\* Model.prototype.put
LEMMA PutKept == ASSUME Inv, NEW i \in Instance, Put(i) PROVE Kept
<1> DEFINE d == Dated(i)
<1>1. PICK k \in Key : /\ EntityKey(i, k)
                       /\ inst' = [inst EXCEPT ![i] = [d EXCEPT !._entity = k]]
                       /\ Service(k, d.created)
                       /\ Note(i, k, d.created)
  BY DEF Put
<1>2. Coherent(i) /\ FieldsTypeOK BY DEF Inv, TypeInv
<1>3. /\ d \in Object /\ d.__key__ = inst[i].__key__ /\ d._entity = inst[i]._entity
      /\ d.created \in Value
      /\ isSaved(i) => d.created = inst[i].created
  BY <1>2, DatedProperties
<1> HIDE DEF d
<1>4. /\ inst'[i] \in Object
      /\ inst'[i].__key__ = inst[i].__key__ /\ inst'[i]._entity = k
      /\ inst'[i].created = d.created
  BY <1>1, <1>2, <1>3 DEF Object, FieldsTypeOK
<1>5. inst' \in [Instance -> Object] BY <1>1, <1>2, <1>4 DEF FieldsTypeOK
<1>6. /\ TypeInv'
      /\ written'[i] = written[i] \cup {k}
      /\ dates'[i] = dates[i] \cup {d.created}
      /\ \A j \in Instance \ {i} : UNCHANGED <<written[j], dates[j]>>
  BY <1>1, <1>2, <1>5, WriteKept DEF Put, FieldsTypeOK, d
<1>7. /\ HasKey(i) => k = KeyOf(inst[i])
      /\ inst[i].__key__ # NoKey => k = inst[i].__key__
      /\ ~HasKey(i) => inst[i].__key__ = NoKey /\ ~isSaved(i)
      /\ k # NoKey
  BY <1>1, <1>2, EntityKeyIsKey
<1>8. KeyOf(inst'[i]) = k BY <1>4, <1>7 DEF KeyOf
<1>9. KeepsKey(i) BY <1>7, <1>8 DEF KeepsKey
<1>10. Coherent(i)'
  <2>1. BlankUntilMade(i)' BY DEF Put, BlankUntilMade
  <2>2. Agrees(i)' /\ (isSaved(i) => inst[i].created \in Value)'
    BY <1>3, <1>4, <1>7 DEF Agrees, isSaved
  <2>3. ASSUME i \notin loose
        PROVE  written'[i] \subseteq {KeyOf(inst'[i])} /\ dates'[i] \subseteq Dates(i)'
    <3>1. written[i] \subseteq {k}
      <4>1. written[i] \subseteq {KeyOf(inst[i])} /\ written[i] \subseteq Key
        BY <1>2, <2>3 DEF Coherent, FieldsTypeOK
      <4>2. CASE HasKey(i) BY <4>1, <4>2, <1>7
      <4>3. CASE ~HasKey(i) BY <4>1, <4>3, InstanceKeyAssumption DEF HasKey
      <4>4. QED BY <4>2, <4>3
    <3>2. dates[i] \subseteq {d.created} BY <1>2, <1>3, <2>3 DEF Coherent, Dates
    <3>3. Dates(i)' = {d.created} BY <1>4, <1>7 DEF Dates, isSaved
    <3>4. QED BY <1>6, <1>8, <3>1, <3>2, <3>3
  <2>4. QED BY <2>1, <2>2, <2>3 DEF Coherent, Put
<1>11. \A j \in Instance \ {i} : Untouched(j)
  BY <1>1, <1>2, <1>6 DEF Untouched, Put, FieldsTypeOK
<1>12. QED BY <1>6, <1>9, <1>10, <1>11, OneInstance

\* db.put
LEMMA DbPutKept == ASSUME Inv, NEW i \in Instance, DbPut(i) PROVE Kept
<1> DEFINE d == Dated(i)
<1>1. PICK k \in Key : /\ EntityKey(i, k)
                       /\ inst' = [inst EXCEPT ![i] = d]
                       /\ Service(k, d.created)
                       /\ Note(i, k, d.created)
  BY DEF DbPut
<1>2. Coherent(i) /\ FieldsTypeOK BY DEF Inv, TypeInv
<1>3. /\ d \in Object /\ d.__key__ = inst[i].__key__ /\ d._entity = inst[i]._entity
      /\ d.created \in Value
      /\ isSaved(i) => d.created = inst[i].created
  BY <1>2, DatedProperties
<1> HIDE DEF d
<1>4. inst'[i] = d /\ inst' \in [Instance -> Object] BY <1>1, <1>2, <1>3 DEF FieldsTypeOK
<1>5. loose' \subseteq Instance BY <1>2 DEF DbPut, FieldsTypeOK
<1>6. /\ TypeInv'
      /\ written'[i] = written[i] \cup {k}
      /\ dates'[i] = dates[i] \cup {d.created}
      /\ \A j \in Instance \ {i} : UNCHANGED <<written[j], dates[j]>>
  BY <1>1, <1>4, <1>5, WriteKept DEF DbPut, d
<1>7. KeyOf(inst'[i]) = KeyOf(inst[i]) BY <1>3, <1>4 DEF KeyOf
<1>8. KeepsKey(i) BY <1>7 DEF KeepsKey
<1>9. Coherent(i)'
  <2>1. BlankUntilMade(i)' BY DEF DbPut, BlankUntilMade
  <2>2. Agrees(i)' /\ (isSaved(i) => inst[i].created \in Value)'
    BY <1>2, <1>3, <1>4 DEF Coherent, Agrees, isSaved
  <2>3. ASSUME i \notin loose'
        PROVE  written'[i] \subseteq {KeyOf(inst'[i])} /\ dates'[i] \subseteq Dates(i)'
    <3>1. isSaved(i) /\ i \notin loose BY <2>3 DEF DbPut
    <3>2. inst[i]._entity # NoKey BY <3>1 DEF isSaved
    <3>3. HasKey(i) BY <3>2 DEF HasKey, KeyOf
    <3>4. k = KeyOf(inst[i]) BY <1>1, <1>2, <3>3, EntityKeyIsKey
    <3>5. Dates(i)' = {d.created} /\ Dates(i) = {d.created}
      BY <1>3, <1>4, <3>1 DEF Dates, isSaved
    <3>6. QED BY <1>2, <1>6, <1>7, <3>1, <3>4, <3>5 DEF Coherent
  <2>4. QED BY <2>1, <2>2, <2>3 DEF Coherent
<1>10. \A j \in Instance \ {i} : Untouched(j)
  BY <1>1, <1>2, <1>6 DEF Untouched, DbPut, FieldsTypeOK
<1>11. QED BY <1>6, <1>8, <1>9, <1>10, OneInstance

\* What remove, db.remove and key() do to an instance: they cache its key.
LEMMA CachingKept ==
  ASSUME Inv, NEW i \in made, StoreTypeOK', OneTransaction', raised' \in BOOLEAN,
         inst' = [inst EXCEPT ![i] = WithKeyCached(inst[i])],
         UNCHANGED <<made, allocated, clock, others, ghosts>>
  PROVE  Kept
<1>1. i \in Instance /\ Coherent(i) /\ FieldsTypeOK BY DEF Inv, TypeInv, FieldsTypeOK
<1> DEFINE y == WithKeyCached(inst[i])
<1>2. /\ y \in Object
      /\ y.__key__ = KeyOf(inst[i]) /\ y._entity = inst[i]._entity
      /\ y.created = inst[i].created
      /\ KeyOf(y) = KeyOf(inst[i])
      /\ y.__key__ # NoKey /\ y._entity # NoKey => y.__key__ = y._entity
  <2>1. inst[i] \in Object BY <1>1 DEF FieldsTypeOK
  <2>2. inst[i].__key__ # NoKey /\ inst[i]._entity # NoKey => inst[i].__key__ = inst[i]._entity
    BY <1>1 DEF Coherent, Agrees, isSaved
  <2>3. QED BY <2>1, <2>2, CachedProperties
<1> HIDE DEF y
<1>3. inst'[i] = y /\ inst' \in [Instance -> Object] BY <1>1, <1>2 DEF FieldsTypeOK, y
<1>4. TypeInv' BY <1>1, <1>3 DEF TypeInv, FieldsTypeOK, ghosts
<1>5. KeepsKey(i) BY <1>2, <1>3 DEF KeepsKey
<1>6. Coherent(i)'
  BY <1>1, <1>2, <1>3 DEF Coherent, BlankUntilMade, Agrees, Dates, isSaved, ghosts
<1>7. \A j \in Instance \ {i} : Untouched(j) BY <1>1 DEF Untouched, FieldsTypeOK, ghosts
<1>8. QED BY <1>1, <1>4, <1>5, <1>6, <1>7, OneInstance

\* Model.prototype.remove
LEMMA RemoveKept == ASSUME Inv, NEW i \in Instance, Remove(i) PROVE Kept
<1>1. i \in made /\ Coherent(i) /\ FieldsTypeOK BY DEF Remove, Inv, TypeInv
<1>2. StoreTypeOK' /\ OneTransaction' /\ raised' \in BOOLEAN
  BY ServiceTypes DEF Remove, Inv, TypeInv, Content
<1> DEFINE y == WithKeyCached(inst[i])
<1>3. inst[i] \in Object BY <1>1 DEF FieldsTypeOK
<1>4. /\ y \in Object
      /\ y.__key__ = KeyOf(inst[i]) /\ y._entity = inst[i]._entity
      /\ y.created = inst[i].created
      /\ KeyOf(y) = KeyOf(inst[i])
  <2>1. inst[i].__key__ # NoKey /\ inst[i]._entity # NoKey => inst[i].__key__ = inst[i]._entity
    BY <1>1 DEF Coherent, Agrees, isSaved
  <2>2. QED BY <1>3, <2>1, CachedProperties
<1>5. CASE raised'
  <2>1. inst' = [inst EXCEPT ![i] = y]
    <3>1. [y EXCEPT !._entity = @] = y BY <1>4 DEF Object
    <3>2. QED BY <1>5, <3>1 DEF Remove
  <2>2. UNCHANGED <<made, allocated, clock, others, ghosts>>
    <3>1. [dates EXCEPT ![i] = @] = dates BY <1>1 DEF FieldsTypeOK
    <3>2. QED BY <1>5, <3>1 DEF Remove, ghosts
  <2>3. QED BY <1>1, <1>2, <2>1, <2>2, CachingKept
<1>6. CASE ~raised'
  <2> HIDE DEF y
  <2>1. inst' = [inst EXCEPT ![i] = [y EXCEPT !._entity = NoKey]]
    BY <1>6 DEF Remove, y
  <2>2. dates' = [dates EXCEPT ![i] = {}] BY <1>6 DEF Remove
  <2>3. /\ inst'[i] \in Object
        /\ inst'[i].__key__ = KeyOf(inst[i]) /\ inst'[i]._entity = NoKey
    BY <1>1, <1>4, <2>1 DEF Object, FieldsTypeOK
  <2>4. HasKey(i) /\ KeyOf(inst'[i]) = KeyOf(inst[i])
    BY <2>3 DEF Remove, HasKey, KeyOf
  <2>5. inst' \in [Instance -> Object] /\ dates' \in [Instance -> SUBSET Value] /\ dates'[i] = {}
    BY <1>1, <2>1, <2>2, <2>3 DEF FieldsTypeOK
  <2>6. TypeInv' BY <1>1, <1>2, <2>5 DEF Remove, TypeInv, FieldsTypeOK
  <2>7. Coherent(i)'
    BY <1>1, <2>3, <2>4, <2>5
    DEF Remove, Coherent, BlankUntilMade, Agrees, Dates, isSaved
  <2>8. \A j \in Instance \ {i} : Untouched(j)
    BY <1>1, <2>1, <2>2 DEF Untouched, Remove, FieldsTypeOK
  <2>9. QED BY <2>4, <2>6, <2>7, <2>8, OneInstance DEF KeepsKey
<1>7. QED BY <1>5, <1>6

\* db.remove
LEMMA DbRemoveKept == ASSUME Inv, NEW i \in Instance, DbRemove(i) PROVE Kept
<1>1. StoreTypeOK' /\ OneTransaction' /\ raised' \in BOOLEAN
  BY ServiceTypes DEF DbRemove, Inv, TypeInv, Content
<1>2. QED BY <1>1, CachingKept DEF DbRemove

\* key()
LEMMA AskKeyKept == ASSUME Inv, NEW i \in Instance, AskKey(i) PROVE Kept
<1>1. StoreTypeOK' /\ OneTransaction' /\ raised' \in BOOLEAN
  BY DEF AskKey, dsVars, Inv, TypeInv, StoreTypeOK, OneTransaction
<1>2. QED BY <1>1, CachingKept DEF AskKey

\* The beginning and the end of a transaction.
LEMMA BeginKept == ASSUME Inv, Begin PROVE Kept
<1>1. PICK t \in TxId : BeginTransaction(Me, t) BY DEF Begin
<1>2. StoreTypeOK' BY <1>1, BeginTypes DEF Inv, TypeInv
<1>3. current[Me] = <<>> /\ <<>> \in Seq(TxId) /\ Len(<<>>) = 0
  BY EmptySeq DEF Begin, InTransaction
<1>4. Append(<<>>, t) \in Seq(TxId) /\ Len(Append(<<>>, t)) = 1
  BY <1>3, AppendProperties
<1>5. current' = [current EXCEPT ![Me] = Append(<<>>, t)] BY <1>1, <1>3 DEF BeginTransaction
<1>6. OneTransaction' BY <1>4, <1>5, MeAssumption DEF OneTransaction, Inv, TypeInv
<1>7. TypeInv' BY <1>2, <1>6 DEF Begin, instVars, ghosts, Inv, TypeInv, FieldsTypeOK
<1>8. QED BY <1>7, NoInstance DEF Begin, instVars, ghosts

\* The end of the transaction leaves every instance as it was.
LEMMA EndKept == ASSUME Inv, End PROVE Kept
<1> DEFINE t == CurrentTxn(Me)
<1>1. t \in TxId /\ OneTransaction' BY TheTransaction DEF End, Inv, TypeInv
<1>2. StoreTypeOK'
  <2>1. CASE ApplyWrites(t) BY <1>1, <2>1, ApplyTypes DEF Inv, TypeInv
  <2>2. CASE \E state \in {"failed", "rolledback"} : DropWrites(t, state)
    BY <1>1, <2>2, DropTypes DEF Inv, TypeInv, TxnState
  <2>3. QED BY <2>1, <2>2 DEF End
<1>3. raised' \in BOOLEAN BY DEF End
<1>4. TypeInv' BY <1>1, <1>2, <1>3 DEF End, ghosts, Inv, TypeInv, FieldsTypeOK
<1>5. QED BY <1>4, NoInstance DEF End, ghosts

\* The writes of other requests.
LEMMA OtherRequestKept == ASSUME Inv, NEW k \in Key, OtherRequest(k) PROVE Kept
<1>1. PICK content \in {Other, NoEntity} : DirectWrite({k}, content) BY DEF OtherRequest
<1>2. content \in Content BY DateAssumption DEF Content
<1>3. StoreTypeOK' /\ UNCHANGED current BY <1>1, <1>2, DirectTypes DEF Inv, TypeInv
<1>4. others' \in 0..MaxOther
  BY InstanceBoundAssumption DEF OtherRequest, Inv, TypeInv, FieldsTypeOK
<1>5. TypeInv'
  BY <1>3, <1>4 DEF OtherRequest, ghosts, Inv, TypeInv, FieldsTypeOK, OneTransaction
<1>6. QED BY <1>5, NoInstance DEF OtherRequest, ghosts

\* The clock.
LEMMA TickKept == ASSUME Inv, Tick PROVE Kept
<1>1. clock' \in 0..MaxClock BY InstanceBoundAssumption DEF Tick, Inv, TypeInv, FieldsTypeOK
<1>2. TypeInv'
  BY <1>1 DEF Tick, dsVars, ghosts, Inv, TypeInv, FieldsTypeOK, StoreTypeOK, OneTransaction
<1>3. QED BY <1>2, NoInstance DEF Tick, ghosts

\* So does a step in which nothing happens.
LEMMA StutterKept == ASSUME Inv, UNCHANGED vars PROVE Kept
<1>1. TypeInv'
  BY DEF vars, dsVars, instVars, ghosts, Inv, TypeInv, FieldsTypeOK, StoreTypeOK, OneTransaction
<1>2. QED BY <1>1, NoInstance DEF vars, instVars, ghosts

\* Every step.
LEMMA StepKept == Inv /\ [Next]_vars => Kept
BY ConstructKept, LoadKept, PutKept, DbPutKept, RemoveKept, DbRemoveKept, AskKeyKept,
   BeginKept, EndKept, OtherRequestKept, TickKept, StutterKept
DEF Next

\* The invariant holds before any instance is made.
LEMMA InitInv == Init => Inv
<1> SUFFICES ASSUME Init PROVE Inv OBVIOUS
<1>1. StoreTypeOK
  <2>1. FreshTxn \in Txn
    BY DEF FreshTxn, Txn, TxnState, NoSnapshot, Snapshot, Writes, Content
  <2>2. QED BY <2>1 DEF Init, DatastoreInit, StoreTypeOK, Content
<1>2. OneTransaction
  <2>1. <<>> \in Seq(TxId) /\ Len(<<>>) = 0 BY EmptySeq
  <2>2. QED BY <2>1, MeAssumption DEF Init, DatastoreInit, OneTransaction
<1>3. Blank \in Object BY DEF Blank, Object
<1>4. FieldsTypeOK
  <2>1. 0 \in 0..MaxClock /\ 0 \in 0..MaxOther BY InstanceBoundAssumption
  <2>2. inst \in [Instance -> Object] BY <1>3 DEF Init
  <2>3. written \in [Instance -> SUBSET Key] /\ dates \in [Instance -> SUBSET Value]
    BY DEF Init
  <2>4. made = {} /\ allocated = {} /\ clock = 0 /\ raised = FALSE /\ others = 0 /\ loose = {}
    BY DEF Init
  <2>5. QED BY <2>1, <2>2, <2>3, <2>4 DEF FieldsTypeOK
<1>5. \A i \in Instance : Coherent(i)
  BY DEF Init, Coherent, BlankUntilMade, Agrees, Dates, isSaved, Blank
<1>6. QED BY <1>1, <1>2, <1>4, <1>5 DEF Inv, TypeInv

-----------------------------------------------------------------------------
\* The invariant holds throughout (model.js:99-152, 259-348).
THEOREM InstancesCoherent == Spec => []Inv
<1>1. Init => Inv BY InitInv
<1>2. Inv /\ [Next]_vars => Inv' BY StepKept DEF Kept
<1>3. QED BY <1>1, <1>2, PTL DEF Spec

\* The fields of instances have their types, and the datastore's state too.
THEOREM TypeCorrect == Spec => []TypeOK
<1>1. Inv => TypeOK
  BY DEF Inv, TypeInv, TypeOK, StoreTypeOK, OneTransaction, FieldsTypeOK, DatastoreTypeOK
<1>2. QED BY <1>1, InstancesCoherent, PTL

\* The two places an instance keeps its key in never disagree.
THEOREM BothKeysAgree == Spec => []KeysAgree
<1>1. Inv => KeysAgree BY DEF Inv, Coherent, Agrees, KeysAgree
<1>2. QED BY <1>1, InstancesCoherent, PTL

\* An instance that can name its key names the same one for ever, through
\* failed puts, removals and transactions rolled back.
THEOREM KeyForEver == Spec => KeyNeverChanges
<1>1. Inv /\ [Next]_vars => [\A i \in Instance : HasKey(i) => KeyOf(inst'[i]) = KeyOf(inst[i])]_vars
  BY StepKept DEF Kept, KeepsKey
<1>2. QED BY <1>1, InstancesCoherent, PTL DEF Spec, KeyNeverChanges

\* An instance writes one entity, however often its puts fail and are repeated.
THEOREM WritesOneEntity == Spec => []OneEntityPerInstance
<1>1. Inv => OneEntityPerInstance BY DEF Inv, Coherent, OneEntityPerInstance
<1>2. QED BY <1>1, InstancesCoherent, PTL

\* Repeating a put never moves the creation date.
THEOREM WritesOneDate == Spec => []OneCreationDate
<1>1. Inv => OneCreationDate BY DEF Inv, Coherent, Dates, OneCreationDate
<1>2. QED BY <1>1, InstancesCoherent, PTL
=============================================================================
