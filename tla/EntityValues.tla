---------------------------- MODULE EntityValues ----------------------------
(***************************************************************************)
(* The values of the properties of one entity, as requests with instances  *)
(* of their own load it, assign to it, follow its references, put it and   *)
(* remove it: fromEntity and _loadEntityValues, _toEntity, put and remove  *)
(* of src/lib/google/appengine/ext/db/model.js (35-48, 143-152, 241-277,   *)
(* 319-338) over the property classes of PropertyTypes.  _toEntity takes   *)
(* the properties in order and stops at the first that throws.  No request *)
(* runs a transaction here.                                                *)
(***************************************************************************)
EXTENDS PropertyTypes

CONSTANTS
  Session,     \* the requests
  Width,       \* how many properties the kind has
  Kinds,       \* the kinds considered: functions from Prop to properties
  Extended,    \* those whose last property some requests have no idea of
  Users,       \* users that may be signed in
  Target,      \* entities a reference may name
  MaxTime,     \* bound: the clock
  MaxPuts,     \* bound: puts and removals that change the entity
  MaxAssigns,  \* bound: assignments the requests make
  MaxDeaths    \* bound: removals of the targets of references

\* The properties, in order.
Prop == 1..Width

\* The classes of properties.
Types == PlainTypes \cup {"text", "list", "date", "reference", "user", "blob", "geopt"}

AnyUser(type) == [is : {type}, of : Users, domain : {DomainOf[u] : u \in Users}]

Texts == [is : {"string"}, of : Nat]

\* The values of the plain classes.  A form fills booleans in with texts.
PlainValues(p) ==
  IF p.type = "number" THEN [is : {"number"}, of : Nat] \cup {NaN}
  ELSE [is : {p.type, "string"}, of : Nat]

\* What an instance may hold in a property ...
Holds(p) ==
  {None} \cup
  CASE p.type \in PlainTypes -> PlainValues(p)
    [] p.type = "text" -> Texts
    [] p.type = "list" -> [is : {"list", "chars"}, of : Nat] \cup Texts
    [] p.type = "date" -> [is : {"date"}, of : Nat] \cup {InvalidDate}
    [] p.type = "reference" -> [is : {"key"}, of : Nat]
    [] p.type = "user" -> AnyUser("user") \cup Texts
    [] p.type = "blob" -> [is : {"bytes", "wrapped"}, of : Nat] \cup Texts
    [] p.type = "geopt" -> [is : {"geopt"}, of : Nat] \cup Texts

\* ... and the entity in the datastore.
Stores(p) ==
  {None} \cup
  CASE p.type \in PlainTypes -> PlainValues(p)
    [] p.type = "text" ->
         [is : IF p.defaultValue = None THEN {"Text"} ELSE {"Text", "string"}, of : Nat]
    [] p.type = "list" -> [is : {"List", "Chars"}, of : Nat]
    [] p.type = "date" -> [is : {"Date"}, of : Nat]
    [] p.type = "reference" -> [is : {"Key"}, of : Nat]
    [] p.type = "user" -> AnyUser("User")
    [] p.type = "blob" -> [is : {"Blob"}, of : Nat]
    [] p.type = "geopt" -> [is : {"GeoPt"}, of : Nat]

Value ==
  {None, NaN, InvalidDate} \cup AnyUser("user") \cup AnyUser("User")
  \cup [is : PlainTypes \cup {"list", "chars", "date", "key", "bytes", "wrapped", "geopt", "Text",
                              "List", "Chars", "Date", "Key", "Blob", "GeoPt"}, of : Nat]

\* Defaults are values of the class.
WellMade(p) ==
  /\ p.type \in Types
  /\ p.defaultValue \in Holds(p) \ {InvalidDate}
  /\ ~Misplaced(p, p.defaultValue)

ASSUME WidthAssumption == Width \in Nat \ {0}
ASSUME KindAssumption == \A k \in Kinds, i \in Prop : WellMade(k[i])
ASSUME TargetAssumption == Target \subseteq Nat /\ 0 \notin Target
ASSUME UserAssumption == Nobody \notin Users /\ Users \subseteq Nat /\ Users # {}
ASSUME ValueBoundAssumption == {MaxTime, MaxPuts, MaxAssigns, MaxDeaths} \subseteq Nat

VARIABLES
  kind,        \* the kind of the entity
  known,       \* the properties the class of each request has
  me,          \* the user signed in in each request, or Nobody
  stored,      \* the properties of the entity in the datastore
  exists,      \* whether it is there
  keyed,       \* whether it has a key: a name, or one from its first put
  obj,         \* the properties of each request's instance
  loaded,      \* whether it has an instance
  saved,       \* whether isSaved() is true of it
  resolved,    \* the object each of its references holds, by its key, or NoObject
  rest,        \* what its _entity has of the properties its class lacks
  targets,     \* the entities references name that exist
  now, puts, assigns, deaths,
  assigned,    \* properties assigned to an instance since it was loaded or put
  fresh,       \* no one else has written the entity since
  mirror       \* the instance has not changed since it was put or loaded

entityVars == <<stored, exists, keyed, targets>>
instanceVars == <<obj, loaded, saved, resolved, rest>>
bounds == <<now, puts, assigns, deaths>>
ghosts == <<assigned, fresh, mirror>>
vars == <<kind, known, me, entityVars, instanceVars, bounds, ghosts>>

Blanks == [p \in Prop |-> None]
NoObject == 0
NoObjects == [p \in Prop |-> NoObject]

\* Time passes, entities are removed and nobody is signed in only for kinds
\* whose properties can tell.
HasA(type) == \E i \in Prop : kind[i].type = type

Init ==
  /\ kind \in Kinds
  /\ known \in [Session -> {Prop} \cup {1..(Width - 1) : k \in Extended \cap {kind}}]
  /\ \/ HasA("user") /\ me \in [Session -> Users \cup {Nobody}]
     \/ ~HasA("user") /\ me = [s \in Session |-> CHOOSE u \in Users : TRUE]
  /\ stored = Blanks /\ exists = FALSE /\ keyed \in BOOLEAN
  /\ obj = [s \in Session |-> Blanks]
  /\ loaded = [s \in Session |-> FALSE]
  /\ saved = [s \in Session |-> FALSE]
  /\ resolved = [s \in Session |-> NoObjects]
  /\ rest = [s \in Session |-> Blanks]
  /\ targets = Target
  /\ now = 0 /\ puts = 0 /\ assigns = 0 /\ deaths = 0
  /\ assigned = [s \in Session |-> {}]
  /\ fresh = [s \in Session |-> FALSE]
  /\ mirror = [s \in Session |-> FALSE]

-----------------------------------------------------------------------------
\* What an application assigns to a property.
Assignable(p) ==
  {None} \cup
  CASE p.type \in PlainTypes -> {A(p.type, 0), A(p.type, 1)}
    [] p.type = "text" -> {A("string", 0), A("string", 1)}
    [] p.type = "list" -> {A("list", 0), A("list", 1)}
    [] p.type = "date" -> {A("date", n) : n \in 0..MaxTime}
    [] p.type = "reference" -> {A("key", k) : k \in Target}
    [] p.type = "user" -> {AUser(u, DomainOf[u]) : u \in Users}
    [] p.type = "blob" -> {A("bytes", 1)}
    [] p.type = "geopt" -> {A("geopt", 1)}

\* The getter of a reference cannot find the entity (properties.js:361-371),
\* o being the values of an instance and held the objects of its references.
Lost(o, held, i) ==
  /\ kind[i].type = "reference"
  /\ o[i] # None
  /\ held[i] = NoObject
  /\ o[i].of \notin targets
Dangling(s, i) == Lost(obj[s], resolved[s], i)

Refuses(s, i) == CannotStore(kind[i], obj[s][i], saved[s], me[s], Dangling(s, i))

\* The properties _toEntity gets through, and the values it leaves in them.
Reached(s) == {i \in known[s] : \A j \in 1..i : ~Refuses(s, j)}
Settle(s, i) == Settled(kind[i], obj[s][i], saved[s], now, me[s])
SettledObj(s) == [i \in Prop |-> IF i \in Reached(s) THEN Settle(s, i) ELSE obj[s][i]]

\* Reading references keeps their objects, and a reference is stored as the
\* key of the object it holds (432-435).
IsReference(s, i) == kind[i].type = "reference" /\ obj[s][i] # None
Object(s, i) == IF resolved[s][i] = NoObject THEN obj[s][i].of ELSE resolved[s][i]
ResolvedObjects(s) ==
  [i \in Prop |-> IF i \in Reached(s) /\ IsReference(s, i) THEN Object(s, i)
                  ELSE resolved[s][i]]

\* A slip of Entity: every put makes a new JEntity.
EntityAnew(s) ==
  [i \in Prop |->
     IF i \notin known[s] THEN None
     ELSE ForDatastore(kind[i], obj[s][i],
                       IF IsReference(s, i) THEN A("key", Object(s, i)) ELSE Settle(s, i))]

\* The _entity of a saved instance is written again, with what it has of
\* properties the class does not have.
Entity(s) ==
  [i \in Prop |->
     IF i \notin known[s] THEN rest[s][i]
     ELSE ForDatastore(kind[i], obj[s][i],
                       IF IsReference(s, i) THEN A("key", Object(s, i)) ELSE Settle(s, i))]

\* Someone has written the entity: other instances are no longer fresh.
StaleBut(s) == [r \in Session |-> r = s]

-----------------------------------------------------------------------------
\* Without a name or a key, new M(...) makes an instance whose put makes an
\* entity of its own.  Of the entities made so, the one considered here is the
\* first with which anyone has to do.
Makes(s) == ~keyed /\ \A r \in Session : ~loaded[r]

\* new M({keyName: ...}), new M({key: ...}) or new M(), no property given.
Construct(s) ==
  /\ ~loaded[s]
  /\ keyed \/ Makes(s)
  /\ loaded' = [loaded EXCEPT ![s] = TRUE]
  /\ UNCHANGED <<kind, known, me, entityVars, obj, saved, resolved, rest, bounds, ghosts>>

\* M.get: the values of the entity are given to the constructor, references
\* as keys, except those of properties the class does not have.
Load(s) ==
  /\ exists
  /\ \A i \in known[s] : ~CannotLoad(kind[i], stored[i], me[s])
  /\ obj' = [obj EXCEPT ![s] =
       [i \in Prop |-> IF i \in known[s] THEN FromDatastore(kind[i], stored[i], me[s]) ELSE None]]
  /\ rest' = [rest EXCEPT ![s] = [i \in Prop |-> IF i \in known[s] THEN None ELSE stored[i]]]
  /\ loaded' = [loaded EXCEPT ![s] = TRUE]
  /\ saved' = [saved EXCEPT ![s] = TRUE]
  /\ resolved' = [resolved EXCEPT ![s] = NoObjects]
  /\ assigned' = [assigned EXCEPT ![s] = {}]
  /\ fresh' = [fresh EXCEPT ![s] = TRUE]
  /\ mirror' = [mirror EXCEPT ![s] = TRUE]
  /\ UNCHANGED <<kind, known, me, entityVars, bounds>>

\* A slip of Assign: the object of a reference is kept when its key changes.
AssignKeeping(s, i) ==
  /\ loaded[s]
  /\ assigns < MaxAssigns /\ assigns' = assigns + 1
  /\ \E v \in Assignable(kind[i]) : obj' = [obj EXCEPT ![s][i] = v]
  /\ assigned' = [assigned EXCEPT ![s] = @ \cup {i}]
  /\ mirror' = [mirror EXCEPT ![s] = FALSE]
  /\ UNCHANGED <<kind, known, me, entityVars, loaded, saved, resolved, rest, now, puts, deaths, fresh>>

\* obj.p = value.  A reference takes a key, and forgets its object, or an
\* instance, which becomes its object (properties.js:372-385).
Assign(s, i) ==
  /\ loaded[s]
  /\ assigns < MaxAssigns /\ assigns' = assigns + 1
  /\ \E v \in Assignable(kind[i]) :
       /\ obj' = [obj EXCEPT ![s][i] = v]
       /\ \/ resolved' = [resolved EXCEPT ![s][i] = NoObject]
          \/ v.is = "key" /\ resolved' = [resolved EXCEPT ![s][i] = v.of]
  /\ assigned' = [assigned EXCEPT ![s] = @ \cup {i}]
  /\ mirror' = [mirror EXCEPT ![s] = FALSE]
  /\ UNCHANGED <<kind, known, me, entityVars, loaded, saved, rest, now, puts, deaths, fresh>>

\* obj.p of a reference: the object is fetched once, or the getter throws.
Follow(s, i) ==
  /\ loaded[s]
  /\ IsReference(s, i)
  /\ ~Dangling(s, i)
  /\ resolved' = [resolved EXCEPT ![s][i] = Object(s, i)]
  /\ UNCHANGED <<kind, known, me, entityVars, obj, loaded, saved, rest, bounds, ghosts>>

Written(s) ==
  /\ stored' = Entity(s)
  /\ exists' = TRUE /\ keyed' = TRUE /\ puts' = puts + 1
  /\ fresh' = StaleBut(s)
  /\ assigned' = [assigned EXCEPT ![s] = {}]
  /\ mirror' = [r \in Session |-> r = s]

NotWritten(s) ==
  /\ mirror' = [mirror EXCEPT ![s] = @ /\ obj' = obj]
  /\ UNCHANGED <<stored, exists, keyed, puts, fresh, assigned>>

\* Model.prototype.put.  When a property throws, those before it have been
\* settled in the instance and nothing is stored.  When all are settled, the
\* instance has its _entity before JDatastore.put is called, which writes it
\* or throws (and may then have written it nevertheless; without a key it
\* has made an entity then that no one knows).
Put(s) ==
  /\ loaded[s] /\ puts < MaxPuts
  /\ obj' = [obj EXCEPT ![s] = SettledObj(s)]
  /\ resolved' = [resolved EXCEPT ![s] = ResolvedObjects(s)]
  /\ saved' = [saved EXCEPT ![s] = @ \/ Reached(s) = known[s]]
  /\ \/ Reached(s) = known[s] /\ Written(s)
     \/ NotWritten(s)
  /\ UNCHANGED <<kind, known, me, targets, loaded, rest, now, assigns, deaths>>

\* Model.prototype.remove: the instance keeps its values but not its _entity,
\* unless db.remove throws after the entity has been deleted.
Remove(s) ==
  /\ loaded[s] /\ keyed /\ puts < MaxPuts
  /\ stored' = Blanks /\ exists' = FALSE /\ puts' = puts + 1
  /\ \/ /\ saved' = [saved EXCEPT ![s] = FALSE]
        /\ rest' = [rest EXCEPT ![s] = Blanks]
     \/ UNCHANGED <<saved, rest>>
  /\ fresh' = [r \in Session |-> FALSE]
  /\ mirror' = [r \in Session |-> FALSE]
  /\ UNCHANGED <<kind, known, me, keyed, targets, obj, loaded, resolved, now, assigns, deaths, assigned>>

\* The entity a reference names is removed.
TargetRemoved(k) ==
  /\ HasA("reference") /\ k \in targets /\ deaths < MaxDeaths
  /\ targets' = targets \ {k} /\ deaths' = deaths + 1
  /\ UNCHANGED <<kind, known, me, stored, exists, keyed, instanceVars, now, puts, assigns, ghosts>>

Tick ==
  /\ HasA("date") /\ now < MaxTime /\ now' = now + 1
  /\ UNCHANGED <<kind, known, me, entityVars, instanceVars, puts, assigns, deaths, ghosts>>

ValueStep ==
  \/ \E s \in Session :
       \/ Construct(s) \/ Load(s) \/ Put(s) \/ Remove(s)
       \/ \E i \in known[s] : Assign(s, i) \/ Follow(s, i)
  \/ \E k \in Target : TargetRemoved(k)
  \/ Tick

Spec == Init /\ [][ValueStep]_vars

-----------------------------------------------------------------------------
\* Whether a value read from the datastore is the value an instance holds,
\* an empty list being none, and a user being who it is by email and id.
Same(v, w) ==
  \/ v = w
  \/ {v, w} \subseteq {None, A("list", 0)}
  \/ v.is = "user" /\ w.is = "user" /\ v.of = w.of

\* A text stored by default cannot be loaded, and becomes another class at
\* the next put; the default of a list replaces an empty list at each put;
\* the defaults of lists and points are stored but not kept in the instance.
\* A blob is loaded as something else.
Unfaithful(p) ==
  \/ p.type \in {"text", "list", "geopt"} /\ p.defaultValue # None
  \/ p.type = "blob"

\* An instance that has not changed since it was put or loaded, and that no
\* one else has overwritten, holds what a load of the entity would give
\* (properties.js:90-107, 235-259, 298-309, 432-439, 476-494, 614-621),
\* automatic values, defaults, references and puts that failed half way
\* included.  Blobs, and texts, lists and points with a default, are known
\* not to, and so are lists and points that hold a text, left by a form.
PutsAreFaithful ==
  \A s \in Session : \A i \in known[s] :
    (/\ fresh[s] /\ mirror[s] /\ me[s] # Nobody
     /\ ~Unfaithful(kind[i]) /\ ~Misplaced(kind[i], obj[s][i]))
      => Same(FromDatastore(kind[i], stored[i], me[s]), obj[s][i])

\* A put changes no property behind the application's back: one that was
\* not assigned since the instance was loaded or put keeps its stored value,
\* unless it is automatic or gets its default for the first time, and as
\* long as no one else has written the entity in between (model.js:241-257).
\* So do properties that only newer classes know (35-48, 259-272).  The
\* domain of a user is not compared: it is that of the user signed in.
OnlyAssignedChanges ==
  [][\A s \in Session, i \in Prop :
       (/\ fresh[s] /\ fresh'[s] /\ i \notin assigned[s]
        /\ puts' # puts /\ exists' /\ stored[i] # None /\ kind[i].auto # "always"
        /\ ~Unfaithful(kind[i]))
         => /\ stored'[i].is = stored[i].is
            /\ stored'[i].of = stored[i].of]_vars
=============================================================================
