--------------------------- MODULE ModelForm_proofs ---------------------------
(***************************************************************************)
(* Theorems about the values of properties (ext/db/properties.js, model.js *)
(* 35-48 and 241-338, forms.js 66-342), for every set of requests, every   *)
(* kind and whatever users send.                                           *)
(***************************************************************************)
EXTENDS FormPages, TLAPS

(***************************************************************************)
(* Values.  x, in the entity, is what a put of v leaves there, a text that *)
(* a form has left in a list or a point included.                          *)
(***************************************************************************)
Mirrors(p, x, v) ==
  IF Misplaced(p, v) THEN p.type \in {"list", "geopt"} /\ x = ForDatastore(p, v, v)
  ELSE /\ x.of = v.of
       /\ p.type \in PlainTypes => x = v
       /\ p.type = "list" => (x.is = "Chars" <=> v.is = "chars")
       /\ v = None => x = None \/ p.type = "list"
       /\ x = None => v = None
       /\ v # InvalidDate

\* Values of a class are records that know what they are.
LEMMA HoldsIs ==
  ASSUME NEW p, p.type \in Types, NEW v \in Holds(p), v # None
  PROVE  /\ v \in Value
         /\ v.of \in Nat
         /\ p.type = "text" => v = A("string", v.of)
         /\ p.type = "list" => v \in {A("list", v.of), A("chars", v.of), A("string", v.of)}
         /\ p.type = "date" => v = InvalidDate \/ v = A("date", v.of)
         /\ p.type = "reference" => v = A("key", v.of)
         /\ p.type = "user" => v \in AnyUser("user") \/ v.is = "string"
         /\ p.type = "geopt" => v = A("geopt", v.of) \/ v.is = "string"
<1>1. CASE p.type \in PlainTypes
  BY <1>1 DEF Holds, PlainValues, Value, PlainTypes, NaN, A
<1>2. CASE p.type = "text"
  BY <1>2 DEF Holds, Texts, Value, PlainTypes, A
<1>3. CASE p.type = "list"
  BY <1>3 DEF Holds, Texts, Value, PlainTypes, A
<1>4. CASE p.type = "date"
  <2>1. CASE v = InvalidDate
    BY <1>4, <2>1 DEF Value, InvalidDate, A
  <2>2. CASE v # InvalidDate
    BY <1>4, <2>2 DEF Holds, Value, PlainTypes, A
  <2>3. QED BY <2>1, <2>2
<1>5. CASE p.type = "reference"
  BY <1>5 DEF Holds, Value, PlainTypes, A
<1>6. CASE p.type = "user"
  BY <1>6, UserAssumption DEF Holds, Texts, Value, PlainTypes, AnyUser
<1>7. CASE p.type = "blob"
  BY <1>7 DEF Holds, Texts, Value, PlainTypes, A
<1>8. CASE p.type = "geopt"
  BY <1>8 DEF Holds, Texts, Value, PlainTypes, A
<1>9. QED BY <1>1, <1>2, <1>3, <1>4, <1>5, <1>6, <1>7, <1>8 DEF Types

LEMMA StoresIs ==
  ASSUME NEW p, p.type \in Types, NEW x \in Stores(p), x # None
  PROVE  /\ x \in Value
         /\ x.of \in Nat
         /\ p.type = "text" => x = A("Text", x.of) \/ (p.defaultValue # None /\ x.is = "string")
         /\ p.type = "list" => x \in {A("List", x.of), A("Chars", x.of)}
         /\ p.type = "date" => x = A("Date", x.of)
         /\ p.type = "reference" => x = A("Key", x.of)
         /\ p.type = "user" => x \in AnyUser("User")
         /\ p.type = "blob" => x = A("Blob", x.of)
         /\ p.type = "geopt" => x = A("GeoPt", x.of)
<1>1. CASE p.type \in PlainTypes
  BY <1>1 DEF Stores, PlainValues, Value, PlainTypes, NaN, A
<1>2. CASE p.type = "text"
  BY <1>2 DEF Stores, Value, PlainTypes, A
<1>3. CASE p.type = "list"
  BY <1>3 DEF Stores, Value, PlainTypes, A
<1>4. CASE p.type = "date"
  BY <1>4 DEF Stores, Value, PlainTypes, A
<1>5. CASE p.type = "reference"
  BY <1>5 DEF Stores, Value, PlainTypes, A
<1>6. CASE p.type = "user"
  BY <1>6, UserAssumption DEF Stores, Value, PlainTypes, AnyUser
<1>7. CASE p.type = "blob"
  BY <1>7 DEF Stores, Value, PlainTypes, A
<1>8. CASE p.type = "geopt"
  BY <1>8 DEF Stores, Value, PlainTypes, A
<1>9. QED BY <1>1, <1>2, <1>3, <1>4, <1>5, <1>6, <1>7, <1>8 DEF Types

LEMMA OnlyDatesInvalid ==
  ASSUME NEW p, p.type \in Types, p.type # "date", NEW v \in Holds(p)
  PROVE  v # InvalidDate
<1>1. InvalidDate.is = "invalid date" BY DEF InvalidDate, A
<1>2. NaN.is = "NaN" /\ None.is = "none" BY DEF NaN, None, A
<1>3. v.is # "invalid date"
  BY <1>2 DEF Holds, PlainValues, Texts, AnyUser, PlainTypes, Types
<1>4. QED BY <1>1, <1>3

\* What a put leaves in the instance and sends to the datastore, class by
\* class (getValueForDatastore, properties.js:90-617).
LEMMA Puts ==
  ASSUME NEW p, WellMade(p), NEW v \in Holds(p), NEW sv \in BOOLEAN, NEW t \in Nat,
         NEW m \in Users \cup {Nobody}, NEW d \in BOOLEAN, ~CannotStore(p, v, sv, m, d),
         NEW w, w = Settled(p, v, sv, t, m), NEW x, x = ForDatastore(p, v, w)
  PROVE  /\ w \in Holds(p)
         /\ x \in Stores(p)
         /\ ~Unfaithful(p) => Mirrors(p, x, w)
<1>1. /\ p.type \in Types /\ p.defaultValue \in Holds(p) /\ p.defaultValue # InvalidDate
      /\ ~Misplaced(p, p.defaultValue)
  BY DEF WellMade
<1>2. CASE p.type \in PlainTypes
  <2>1. w \in Holds(p) /\ x = w
    BY <1>1, <1>2 DEF Settled, ForDatastore, PlainTypes
  <2>2. x \in Stores(p) BY <1>2, <2>1 DEF Holds, Stores, PlainTypes
  <2>3. w # InvalidDate BY <1>1, <1>2, <2>1, OnlyDatesInvalid DEF PlainTypes
  <2>4. QED BY <1>2, <2>1, <2>2, <2>3 DEF Mirrors, Misplaced, Unconverted, PlainTypes
<1>3. CASE p.type = "text"
  <2>1. w = IF v = None THEN p.defaultValue ELSE v
    BY <1>3 DEF Settled, PlainTypes
  <2>2. x = IF v = None THEN w ELSE A("Text", v.of)
    BY <1>3 DEF ForDatastore, IfAny, PlainTypes
  <2>3. w \in Holds(p) BY <1>1, <2>1
  <2>4. x \in Stores(p)
    <3>1. CASE v = None
      BY <1>3, <2>1, <2>2, <3>1, <1>1 DEF Holds, Texts, Stores, PlainTypes
    <3>2. CASE v # None
      <4>1. v.of \in Nat BY <1>1, <3>2, HoldsIs
      <4>2. QED BY <1>3, <2>2, <3>2, <4>1 DEF Stores, PlainTypes, A
    <3>3. QED BY <3>1, <3>2
  <2>5. w # InvalidDate BY <1>1, <1>3, <2>3, OnlyDatesInvalid DEF PlainTypes
  <2>6. ~Unfaithful(p) => Mirrors(p, x, w)
    BY <1>3, <2>1, <2>2, <2>5
    DEF Mirrors, Unfaithful, Misplaced, Unconverted, PlainTypes, A, None
  <2>7. QED BY <2>3, <2>4, <2>6
<1>4. CASE p.type \in {"list", "geopt"}
  <2>1. w = v BY <1>4 DEF Settled, PlainTypes
  <2> DEFINE y == Or(v, p.defaultValue)
  <2>2. x = IF p.type = "list" THEN Items(y) ELSE Point(y) BY <1>4 DEF ForDatastore, PlainTypes
  <2>3. y \in {v, p.defaultValue} BY DEF Or
  <2>4. y.of \in Nat
    <3>1. None.of = 0 BY DEF None
    <3>2. v.of \in Nat /\ p.defaultValue.of \in Nat BY <1>1, <3>1, HoldsIs
    <3>3. QED BY <2>3, <3>2
  <2>5. x # None /\ x \in Stores(p)
    <3>1. \/ p.type = "list" /\ x.is \in {"List", "Chars"} /\ x = A(x.is, y.of)
          \/ p.type = "geopt" /\ x \in {A("GeoPt", 0), A("GeoPt", y.of)}
      BY <1>4, <2>2 DEF Items, Point, A
    <3>2. QED BY <2>4, <3>1 DEF Stores, PlainTypes, A, None
  <2>6. w # InvalidDate BY <1>1, <1>4, <2>1, OnlyDatesInvalid
  <2>7. ASSUME p.defaultValue = None, ~Misplaced(p, v)
        PROVE  y = v /\ v.is # "string"
    <3>1. v.is # "string" BY <1>4, <2>7 DEF Misplaced, Unconverted
    <3>2. v # None => Truthy(v)
      BY <1>1, <1>4, <3>1, HoldsIs DEF Truthy, Falsy, NaN, A, PlainTypes
    <3>3. QED BY <2>7, <3>1, <3>2 DEF Or, Truthy, Falsy
  <2>8. p.type = "geopt" => y # None BY DEF CannotStore
  <2>9. ASSUME p.defaultValue = None, ~Misplaced(p, v) PROVE Mirrors(p, x, w)
    <3>1. y = v /\ v.is # "string" BY <2>7, <2>9
    <3>2. x.of = v.of BY <2>2, <3>1 DEF Items, Point, A
    <3>3. p.type = "list" => (x.is = "Chars" <=> v.is = "chars")
      BY <2>2, <3>1 DEF Items, A
    <3>4. v = None => p.type = "list" BY <1>4, <2>8, <3>1
    <3>5. QED BY <1>4, <2>1, <2>5, <2>6, <2>9, <3>2, <3>3, <3>4 DEF Mirrors, PlainTypes
  <2>10. CASE Misplaced(p, v) BY <1>4, <2>1, <2>5, <2>10 DEF Mirrors
  <2> HIDE DEF y
  <2>11. QED BY <1>1, <1>4, <2>1, <2>5, <2>9, <2>10 DEF Unfaithful
<1>5. CASE p.type = "user"
  <2>1. w = IF FillsIn(p, sv) THEN AUser(m, DomainOf[m]) ELSE v BY <1>5 DEF Settled, PlainTypes
  <2>2. FillsIn(p, sv) => m \in Users BY <1>5 DEF CannotStore
  <2>3. w # None => w \in AnyUser("user")
    <3>1. CASE FillsIn(p, sv) BY <2>1, <2>2, <3>1 DEF AnyUser, AUser
    <3>2. CASE ~FillsIn(p, sv)
      <4>1. v.is # "string" BY <1>5, <3>2 DEF CannotStore, Misplaced, Unconverted
      <4>2. QED BY <1>1, <1>5, <2>1, <3>2, <4>1, HoldsIs
    <3>3. QED BY <3>1, <3>2
  <2>4. ~Misplaced(p, w) BY <2>3 DEF Misplaced, AnyUser, None
  <2>5. w \in Holds(p) BY <1>5, <2>3 DEF Holds, PlainTypes
  <2>6. x = IF w = None THEN None ELSE ToJavaUser(w) BY <1>5 DEF ForDatastore, IfAny, PlainTypes
  <2>7. w # InvalidDate BY <1>1, <1>5, <2>5, OnlyDatesInvalid DEF PlainTypes
  <2>8. CASE w = None
    <3>1. x \in Stores(p) BY <1>5, <2>6, <2>8 DEF Stores, PlainTypes
    <3>2. QED BY <1>5, <2>5, <2>6, <2>7, <2>8, <2>4, <3>1 DEF Mirrors, PlainTypes
  <2>9. CASE w # None
    <3>1. w \in AnyUser("user") BY <2>9, <2>3
    <3>2. x \in AnyUser("User") /\ x.of = w.of BY <2>6, <2>9, <3>1 DEF ToJavaUser, AnyUser
    <3>3. x # None BY <3>2 DEF AnyUser, None
    <3>4. x \in Stores(p) BY <1>5, <3>2 DEF Stores, PlainTypes
    <3>5. QED BY <1>5, <2>5, <2>7, <2>9, <2>4, <3>2, <3>3, <3>4 DEF Mirrors, PlainTypes
  <2>10. QED BY <2>8, <2>9
<1>6. CASE p.type = "date"
  <2>1. w = IF FillsIn(p, sv) THEN A("date", t) ELSE IF v = None THEN p.defaultValue ELSE v
    BY <1>6 DEF Settled, PlainTypes
  <2>2. A("date", t) \in Holds(p) BY <1>6 DEF Holds, A, PlainTypes
  <2>3. w \in Holds(p) BY <1>1, <2>1, <2>2
  <2>4. w # InvalidDate
    <3>1. A("date", t) # InvalidDate BY DEF InvalidDate, A
    <3>2. ~FillsIn(p, sv) => v # InvalidDate BY <1>6 DEF CannotStore
    <3>3. QED BY <1>1, <2>1, <3>1, <3>2
  <2>5. x = IF w = None THEN None ELSE A("Date", w.of) BY <1>6 DEF ForDatastore, IfAny, PlainTypes
  <2>6. x \in Stores(p) /\ x.of = w.of /\ (x = None <=> w = None)
    <3>1. CASE w = None BY <1>6, <2>5, <3>1 DEF Stores, PlainTypes
    <3>2. CASE w # None
      <4>1. w.of \in Nat BY <1>1, <2>3, <3>2, HoldsIs
      <4>2. QED BY <1>6, <2>5, <3>2, <4>1 DEF Stores, A, None, PlainTypes
    <3>3. QED BY <3>1, <3>2
  <2>7. QED BY <1>6, <2>3, <2>4, <2>6 DEF Mirrors, Misplaced, Unconverted, PlainTypes
<1>7. CASE p.type \in {"reference", "blob"}
  <2>1. w = v BY <1>7 DEF Settled, PlainTypes
  <2>2. \/ x = None /\ w = None
        \/ x = A("Key", w.of) /\ p.type = "reference" /\ w # None
        \/ x = A("Blob", w.of) /\ p.type = "blob" /\ w # None
    BY <1>7 DEF ForDatastore, IfAny, PlainTypes
  <2>3. x \in Stores(p) /\ x.of = w.of /\ (x = None <=> w = None)
    <3>1. CASE w = None BY <1>7, <2>2, <3>1 DEF Stores, PlainTypes
    <3>2. CASE w # None
      <4>1. w.of \in Nat BY <1>1, <2>1, <3>2, HoldsIs
      <4>2. QED BY <1>7, <2>2, <3>2, <4>1 DEF Stores, A, None, PlainTypes
    <3>3. QED BY <3>1, <3>2
  <2>4. w # InvalidDate BY <1>1, <1>7, <2>1, OnlyDatesInvalid DEF PlainTypes
  <2>5. QED BY <1>7, <2>1, <2>3, <2>4
    DEF Mirrors, Unfaithful, Misplaced, Unconverted, PlainTypes
<1>8. QED BY <1>1, <1>2, <1>3, <1>4, <1>5, <1>6, <1>7 DEF Types

\* What a load makes of an entity (makeValueFromDatastore, 104-621).
LEMMA Loads ==
  ASSUME NEW p, WellMade(p), NEW x \in Stores(p), NEW m \in Users \cup {Nobody},
         ~CannotLoad(p, x, m), NEW v, v = FromDatastore(p, x, m)
  PROVE  /\ v \in Holds(p)
         /\ ~Unfaithful(p) => Mirrors(p, x, v)
<1>1. p.type \in Types BY DEF WellMade
<1>2. CASE x = None
  <2>1. v = None BY <1>2 DEF FromDatastore, IfAny
  <2>2. None # InvalidDate BY DEF None, InvalidDate, A
  <2>3. None.is = "none" BY DEF None
  <2>4. QED BY <1>2, <2>1, <2>2, <2>3 DEF Holds, Mirrors, Misplaced
<1>3. CASE x # None /\ p.type \in PlainTypes
  <2>1. v = x BY <1>3 DEF FromDatastore, IfAny, PlainTypes
  <2>2. v \in Holds(p) BY <1>3, <2>1 DEF Stores, Holds, PlainTypes
  <2>3. v # InvalidDate BY <1>1, <1>3, <2>2, OnlyDatesInvalid DEF PlainTypes
  <2>4. QED BY <1>3, <2>1, <2>2, <2>3 DEF Mirrors, Misplaced, Unconverted, PlainTypes
<1>4. CASE x # None /\ p.type = "user"
  <2>1. x \in AnyUser("User") /\ m \in Users BY <1>1, <1>4, StoresIs DEF CannotLoad
  <2>2. v = AUser(x.of, DomainOf[m])
    BY <1>4 DEF FromDatastore, IfAny, FromJavaUser, PlainTypes
  <2>3. v \in AnyUser("user") /\ v.of = x.of /\ v.is = "user" BY <2>1, <2>2 DEF AnyUser, AUser
  <2>4. v \in Holds(p) BY <1>4, <2>3 DEF Holds, PlainTypes
  <2>5. v # InvalidDate BY <1>1, <1>4, <2>4, OnlyDatesInvalid
  <2>6. v # None BY <2>3 DEF None, AnyUser
  <2>7. QED BY <1>4, <2>3, <2>4, <2>5, <2>6 DEF Mirrors, Misplaced, PlainTypes
<1>5. CASE x # None /\ p.type = "list"
  <2>1. x.of \in Nat BY <1>1, <1>5, StoresIs
  <2>2. v = Elements(x) BY <1>5 DEF FromDatastore, IfAny, PlainTypes
  <2>3. v \in Holds(p) BY <1>5, <2>1, <2>2 DEF Holds, Elements, PlainTypes, A
  <2>4. v.of = x.of /\ v.is # "string" /\ (x.is = "Chars" <=> v.is = "chars")
    BY <2>2 DEF Elements, A, None
  <2>5. v # InvalidDate BY <1>1, <1>5, <2>3, OnlyDatesInvalid
  <2>6. QED BY <1>5, <2>3, <2>4, <2>5 DEF Mirrors, Misplaced, PlainTypes
<1>6. CASE x # None /\ p.type \in {"text", "date", "reference", "blob", "geopt"}
  <2>1. x.of \in Nat BY <1>1, <1>6, StoresIs
  <2>2. \/ v = A("string", x.of) /\ p.type = "text"
        \/ v = A("date", x.of) /\ p.type = "date"
        \/ v = A("key", x.of) /\ p.type = "reference"
        \/ v = A("wrapped", x.of) /\ p.type = "blob"
        \/ v = A("geopt", x.of) /\ p.type = "geopt"
    BY <1>6 DEF FromDatastore, IfAny, PlainTypes
  <2>3. v \in Holds(p) BY <2>1, <2>2 DEF Holds, Texts, PlainTypes, A
  <2>4. v.of = x.of /\ v # None BY <2>2 DEF A, None
  <2>5. v # InvalidDate
    <3>1. A("date", x.of) # InvalidDate BY DEF A, InvalidDate
    <3>2. QED BY <1>1, <2>2, <2>3, <3>1, OnlyDatesInvalid
  <2>6. ~Misplaced(p, v) BY <2>2 DEF Misplaced, Unconverted, A
  <2>7. QED BY <1>6, <2>3, <2>4, <2>5, <2>6 DEF Mirrors, PlainTypes
<1>7. QED BY <1>1, <1>2, <1>3, <1>4, <1>5, <1>6 DEF Types

\* An instance that mirrors the entity has what a load would give, an empty
\* list and the domain of a user apart.
LEMMA MirrorsIs ==
  ASSUME NEW p, WellMade(p), p.type \notin {"list", "user", "blob"}, NEW x \in Stores(p),
         NEW v \in Holds(p), Mirrors(p, x, v), ~Misplaced(p, v), NEW m
  PROVE  FromDatastore(p, x, m) = v
<1>1. p.type \in Types BY DEF WellMade
<1>2. CASE x = None
  BY <1>2 DEF FromDatastore, IfAny, Mirrors
<1>3. CASE x # None /\ p.type \in PlainTypes
  BY <1>3 DEF FromDatastore, IfAny, PlainTypes, Mirrors
<1>4. CASE x # None /\ p.type \in {"text", "date", "reference", "geopt"}
  <2>1. v # None /\ v # InvalidDate /\ v.of = x.of BY <1>4 DEF Mirrors
  <2>2. p.type = "geopt" => v.is # "string" BY DEF Misplaced, Unconverted
  <2>3. \/ FromDatastore(p, x, m) = A("string", x.of) /\ p.type = "text"
        \/ FromDatastore(p, x, m) = A("date", x.of) /\ p.type = "date"
        \/ FromDatastore(p, x, m) = A("key", x.of) /\ p.type = "reference"
        \/ FromDatastore(p, x, m) = A("geopt", x.of) /\ p.type = "geopt"
    BY <1>4 DEF FromDatastore, IfAny, PlainTypes
  <2>4. QED BY <1>1, <2>1, <2>3, <2>2, HoldsIs
<1>5. QED BY <1>1, <1>2, <1>3, <1>4 DEF Types

LEMMA MirrorsList ==
  ASSUME NEW p, WellMade(p), p.type = "list", NEW x \in Stores(p),
         NEW v \in Holds(p), Mirrors(p, x, v), ~Misplaced(p, v), NEW m
  PROVE  \/ FromDatastore(p, x, m) = v
         \/ FromDatastore(p, x, m) = None /\ v \in {None, A("list", 0)}
<1>1. p.type \in Types BY DEF WellMade
<1>2. CASE x = None BY <1>2 DEF FromDatastore, IfAny, Mirrors
<1>3. CASE x # None
  <2>1. FromDatastore(p, x, m) = Elements(x) BY <1>3 DEF FromDatastore, IfAny, PlainTypes
  <2>2. x.of = v.of /\ (x.is = "Chars" <=> v.is = "chars") BY DEF Mirrors
  <2>3. v.is # "string" BY DEF Misplaced, Unconverted
  <2>4. v = None \/ v = A("list", x.of) \/ v = A("chars", x.of)
    <3>1. A("string", v.of).is = "string" BY DEF A
    <3>2. QED BY <1>1, <2>2, <2>3, <3>1, HoldsIs
  <2>5. CASE v = A("chars", x.of) BY <2>1, <2>2, <2>5 DEF Elements, A
  <2>6. CASE v = A("list", x.of) BY <2>1, <2>2, <2>6 DEF Elements, A
  <2>7. CASE v = None BY <2>1, <2>2, <2>7 DEF Elements, None
  <2>8. QED BY <2>4, <2>5, <2>6, <2>7
<1>4. QED BY <1>2, <1>3

LEMMA MirrorsUser ==
  ASSUME NEW p, WellMade(p), p.type = "user", NEW x \in Stores(p),
         NEW v \in Holds(p), Mirrors(p, x, v), ~Misplaced(p, v), NEW m
  PROVE  LET l == FromDatastore(p, x, m) IN
           \/ l = None /\ v = None
           \/ l # None /\ v # None /\ l.is = "user" /\ v.is = "user" /\ l.of = v.of
<1>1. p.type \in Types BY DEF WellMade
<1>2. CASE x = None BY <1>2 DEF FromDatastore, IfAny, Mirrors
<1>3. CASE x # None
  <2>1. v.is # "string" BY DEF Misplaced, Unconverted
  <2>2. v # None /\ v \in AnyUser("user") BY <1>1, <1>3, <2>1, HoldsIs DEF Mirrors
  <2>3. FromDatastore(p, x, m) = AUser(x.of, DomainOf[m])
    BY <1>3 DEF FromDatastore, IfAny, FromJavaUser, PlainTypes
  <2>4. AUser(x.of, DomainOf[m]) # None BY DEF AUser, None
  <2>5. QED BY <2>2, <2>3, <2>4 DEF Mirrors, AUser, AnyUser
<1>4. QED BY <1>2, <1>3

LEMMA MirrorsSame ==
  ASSUME NEW p, WellMade(p), ~Unfaithful(p), NEW x \in Stores(p), NEW v \in Holds(p),
         Mirrors(p, x, v), ~Misplaced(p, v), NEW m
  PROVE  Same(FromDatastore(p, x, m), v)
<1>1. CASE p.type = "list" BY <1>1, MirrorsList DEF Same
<1>2. CASE p.type = "user" BY <1>2, MirrorsUser DEF Same
<1>3. CASE p.type \notin {"list", "user"} BY <1>3, MirrorsIs DEF Same, Unfaithful
<1>4. QED BY <1>1, <1>2, <1>3

\* Neither putting nor loading makes a valid value invalid (validate, 51-71).
LEMMA SettledValid ==
  ASSUME NEW p, WellMade(p), Sound(p), NEW v, NEW sv, NEW t, NEW m,
         Invalid(p, Settled(p, v, sv, t, m))
  PROVE  Invalid(p, v)
<1>1. p.type \in Types BY DEF WellMade
<1>2. \/ Settled(p, v, sv, t, m) = v
      \/ v = None /\ Settled(p, v, sv, t, m) = p.defaultValue
      \/ /\ FillsIn(p, sv)
         /\ \/ p.type = "date" /\ Settled(p, v, sv, t, m) = A("date", t)
            \/ p.type = "user" /\ Settled(p, v, sv, t, m) = AUser(m, DomainOf[m])
  BY <1>1 DEF Settled, Types, PlainTypes
<1>3. CASE Settled(p, v, sv, t, m) = v BY <1>3
<1>4. CASE v = None /\ Settled(p, v, sv, t, m) = p.defaultValue
  BY <1>4 DEF Sound
<1>5. CASE /\ FillsIn(p, sv)
           /\ \/ p.type = "date" /\ Settled(p, v, sv, t, m) = A("date", t)
              \/ p.type = "user" /\ Settled(p, v, sv, t, m) = AUser(m, DomainOf[m])
  <2>1. p.choices = {} /\ p.rejected = {} BY <1>5 DEF FillsIn, Sound
  <2>2. A("date", t) # None /\ AUser(m, DomainOf[m]) # None BY DEF A, AUser, None
  <2>3. ~Empty(p, Settled(p, v, sv, t, m)) BY <1>5, <2>2 DEF Empty
  <2>4. QED BY <2>1, <2>3 DEF Invalid, Chosen
<1>6. QED BY <1>2, <1>3, <1>4, <1>5

LEMMA LoadedValid ==
  ASSUME NEW p, WellMade(p), Sound(p), ~Unfaithful(p), NEW x \in Stores(p),
         NEW v \in Holds(p), Mirrors(p, x, v), ~Misplaced(p, v), NEW m, Invalid(p, FromDatastore(p, x, m))
  PROVE  Invalid(p, v)
<1>1. CASE p.type = "list"
  <2>1. ~Invalid(p, None) BY <1>1 DEF Sound, Invalid, Empty
  <2>2. QED BY <1>1, <2>1, MirrorsList
<1>2. CASE p.type = "user"
  <2>1. CASE FromDatastore(p, x, m) = v BY <2>1
  <2>2. CASE FromDatastore(p, x, m) # v
    <3>1. FromDatastore(p, x, m) # None /\ v # None /\ v.is = "user"
      BY <1>2, <2>2, MirrorsUser
    <3>2. p.rejected = {} BY <1>2 DEF Sound
    <3>3. p.choices # {} BY <1>2, <3>1, <3>2 DEF Invalid, Empty, Chosen
    <3>4. QED BY <1>2, <3>1, <3>3 DEF Invalid, Empty, Chosen, PlainTypes
  <2>3. QED BY <2>1, <2>2
<1>3. CASE p.type \notin {"list", "user"} BY <1>3, MirrorsIs DEF Unfaithful
<1>4. QED BY <1>1, <1>2, <1>3

\* A put of an instance that mirrors the entity changes nothing, automatic
\* values apart.
LEMMA PutsAgain ==
  ASSUME NEW p, WellMade(p), ~Unfaithful(p), NEW x \in Stores(p), x # None,
         NEW v \in Holds(p), Mirrors(p, x, v)
  PROVE  /\ ForDatastore(p, v, v).is = x.is
         /\ ForDatastore(p, v, v).of = x.of
<1>1. p.type \in Types BY DEF WellMade
<1>2. CASE Misplaced(p, v) BY <1>2 DEF Mirrors
<1>3. CASE ~Misplaced(p, v)
  <2>1. p.type = "list" \/ v # None BY <1>3 DEF Mirrors
  <2>2. x.of = v.of BY <1>3 DEF Mirrors
  <2>3. CASE p.type \in PlainTypes
    BY <1>3, <2>3 DEF ForDatastore, PlainTypes, Mirrors
  <2>4. CASE p.type = "text"
    <3>1. x = A("Text", x.of) BY <1>1, <2>4, StoresIs DEF Unfaithful
    <3>2. ForDatastore(p, v, v) = A("Text", v.of) BY <2>1, <2>4 DEF ForDatastore, PlainTypes
    <3>3. QED BY <2>2, <3>1, <3>2 DEF A
  <2>5. CASE p.type \in {"list", "geopt"}
    <3>1. p.defaultValue = None BY <2>5 DEF Unfaithful
    <3>2. v.is # "string" BY <1>3, <2>5 DEF Misplaced, Unconverted
    <3>3. v # None => Truthy(v)
      BY <1>1, <2>5, <3>2, HoldsIs DEF Truthy, Falsy, NaN, A, PlainTypes
    <3>4. Or(v, p.defaultValue) = v BY <3>1, <3>3 DEF Or, Truthy, Falsy
    <3>5. CASE p.type = "list"
      <4>1. ForDatastore(p, v, v) = Items(v) BY <3>4, <3>5 DEF ForDatastore, PlainTypes
      <4>2. x.is = "Chars" <=> v.is = "chars" BY <1>3, <3>5 DEF Mirrors
      <4>3. x.is \in {"List", "Chars"}
        <5>1. A("List", x.of).is = "List" /\ A("Chars", x.of).is = "Chars" BY DEF A
        <5>2. QED BY <1>1, <3>5, <5>1, StoresIs
      <4>4. QED BY <2>2, <3>2, <4>1, <4>2, <4>3 DEF Items, A
    <3>6. CASE p.type = "geopt"
      <4>1. ForDatastore(p, v, v) = A("GeoPt", v.of)
        BY <3>2, <3>4, <3>6 DEF ForDatastore, Point, PlainTypes
      <4>2. x = A("GeoPt", x.of) BY <1>1, <3>6, StoresIs
      <4>3. QED BY <2>2, <4>1, <4>2
    <3>7. QED BY <2>5, <3>5, <3>6
  <2>6. CASE p.type = "user"
    <3>1. v.is # "string" BY <1>3, <2>6 DEF Misplaced, Unconverted
    <3>2. v \in AnyUser("user") /\ x \in AnyUser("User")
      BY <1>1, <2>1, <2>6, <3>1, HoldsIs, StoresIs
    <3>3. ForDatastore(p, v, v) = ToJavaUser(v)
      BY <2>1, <2>6 DEF ForDatastore, IfAny, PlainTypes
    <3>4. QED BY <2>2, <3>2, <3>3 DEF ToJavaUser, AnyUser
  <2>7. CASE p.type \in {"date", "reference"}
    <3>1. \/ x = A("Date", x.of) /\ ForDatastore(p, v, v) = A("Date", v.of)
          \/ x = A("Key", x.of) /\ ForDatastore(p, v, v) = A("Key", v.of)
      BY <1>1, <2>1, <2>7, StoresIs DEF ForDatastore, IfAny, PlainTypes
    <3>2. QED BY <2>2, <3>1
  <2>8. QED BY <1>1, <2>3, <2>4, <2>5, <2>6, <2>7 DEF Types, Unfaithful
<1>4. QED BY <1>2, <1>3

\* What is taken from a form is a value of the property (forms.js:196-238).
LEMMA FormGives ==
  ASSUME NEW p, WellMade(p), NEW input \in Field, input # Blank,
         ~CannotConvert(p, input)
  PROVE  FromForm(p, input) \in Holds(p) /\ FromForm(p, input) # None
<1>1. input.of \in Nat BY DEF Field, Blank, Garbage, A
<1>2. p.type \in Types BY DEF WellMade
<1>3. \/ p.type = "number" /\ FromForm(p, input) \in {NaN, A("number", input.of)}
      \/ p.type = "date" /\ FromForm(p, input) \in {InvalidDate, A("date", input.of)}
      \/ p.type = "reference" /\ FromForm(p, input) = A("key", input.of)
      \/ p.type \in {"string", "boolean", "text", "list", "user", "blob", "geopt"}
           /\ FromForm(p, input) \in {A("string", 9), A("string", input.of)}
  BY <1>2 DEF FromForm, Types, PlainTypes
<1>4. /\ NaN # None /\ InvalidDate # None
      /\ \A t, n : t # "none" => A(t, n) # None
  BY DEF NaN, InvalidDate, A, None
<1>5. FromForm(p, input) # None BY <1>3, <1>4
<1>6. FromForm(p, input) \in Holds(p) BY <1>1, <1>3 DEF Holds, PlainValues, Texts, PlainTypes, A
<1>7. QED BY <1>5, <1>6

-----------------------------------------------------------------------------
(***************************************************************************)
(* The invariant of the instances.                                         *)
(***************************************************************************)
VTypes ==
  /\ kind \in Kinds
  /\ known \in [Session -> SUBSET Prop]
  /\ me \in [Session -> Users \cup {Nobody}]
  /\ stored \in Entities
  /\ exists \in BOOLEAN
  /\ keyed \in BOOLEAN
  /\ obj \in [Session -> Instances]
  /\ resolved \in [Session -> [Prop -> Target \cup {NoObject}]]
  /\ rest \in [Session -> Entities]
  /\ targets \subseteq Target
  /\ now \in 0..MaxTime
  /\ loaded \in [Session -> BOOLEAN]
  /\ saved \in [Session -> BOOLEAN]
  /\ fresh \in [Session -> BOOLEAN]
  /\ mirror \in [Session -> BOOLEAN]
  /\ assigned \in [Session -> SUBSET Prop]

\* The object a reference holds is that of its key.
RefInv(s) ==
  \A i \in Prop :
    kind[i].type = "reference" => resolved[s][i] = NoObject \/ resolved[s][i] = obj[s][i].of

\* An instance that no one has overwritten is saved, and its _entity has what
\* the class does not know.
FreshInv(s) ==
  fresh[s] => saved[s] /\ \A i \in Prop \ known[s] : rest[s][i] = stored[i]

\* It mirrors the entity if it has not changed, and where nothing has been
\* assigned in any case.
MirrorInv(s) ==
  \A i \in known[s] :
    (/\ fresh[s] /\ ~Unfaithful(kind[i])
     /\ mirror[s] \/ (i \notin assigned[s] /\ stored[i] # None /\ kind[i].auto # "always"))
      => Mirrors(kind[i], stored[i], obj[s][i])

SessionInv(s) == RefInv(s) /\ FreshInv(s) /\ MirrorInv(s)
VInv == VTypes /\ \A s \in Session : SessionInv(s)

\* The types, property by property.
LEMMA Parts ==
  ASSUME VTypes, NEW s \in Session, NEW i \in Prop
  PROVE  /\ WellMade(kind[i])
         /\ stored[i] \in Stores(kind[i])
         /\ rest[s][i] \in Stores(kind[i])
         /\ obj[s][i] \in Holds(kind[i])
         /\ obj[s] \in [Prop -> Value]
<1>1. WellMade(kind[i]) BY KindAssumption DEF VTypes
<1>2. obj[s] \in Instances /\ rest[s] \in Entities BY DEF VTypes
<1>3. QED BY <1>1, <1>2 DEF VTypes, Instances, Entities

\* Values of the right classes make an instance, and an entity.
LEMMA Whole ==
  ASSUME VTypes, NEW f, f = [i \in Prop |-> f[i]]
  PROVE  /\ (\A i \in Prop : f[i] \in Holds(kind[i])) => f \in Instances
         /\ (\A i \in Prop : f[i] \in Stores(kind[i])) => f \in Entities
<1>1. \A i \in Prop : kind[i].type \in Types BY KindAssumption DEF VTypes, WellMade
<1>2. \A i \in Prop : Holds(kind[i]) \subseteq Value
  BY <1>1, HoldsIs DEF Value
<1>3. \A i \in Prop : Stores(kind[i]) \subseteq Value
  BY <1>1, StoresIs DEF Value
<1>4. QED BY <1>2, <1>3 DEF Instances, Entities

\* A step that leaves an instance alone keeps what is said of it, if it is
\* no longer fresh, or the entity is the same.
LEMMA OthersKept ==
  ASSUME VTypes, NEW s \in Session, SessionInv(s), UNCHANGED <<kind, known>>,
         obj'[s] = obj[s], resolved'[s] = resolved[s], rest'[s] = rest[s],
         fresh'[s] => /\ fresh[s] /\ saved'[s] = saved[s] /\ stored' = stored
                      /\ mirror'[s] => mirror[s]
                      /\ assigned[s] \subseteq assigned'[s]
  PROVE  SessionInv(s)'
<1>1. RefInv(s)' BY DEF SessionInv, RefInv
<1>2. FreshInv(s)' BY DEF SessionInv, FreshInv
<1>3. MirrorInv(s)'
  BY DEF SessionInv, MirrorInv
<1>4. QED BY <1>1, <1>2, <1>3 DEF SessionInv

\* new M(), the removal of a target, the clock: nothing that matters.
LEMMA IdleV ==
  ASSUME VInv,
         (\E s \in Session : Construct(s)) \/ (\E k \in Target : TargetRemoved(k)) \/ Tick
  PROVE  VInv'
<1>1. UNCHANGED <<kind, known, me, stored, exists, keyed, obj, resolved, rest, saved, fresh, mirror,
                  assigned>>
  BY DEF Construct, TargetRemoved, Tick, entityVars, instanceVars, ghosts, bounds
<1>2. loaded' \in [Session -> BOOLEAN]
  BY DEF Construct, TargetRemoved, Tick, instanceVars, VInv, VTypes
<1>3. targets' \subseteq Target
  BY DEF Construct, TargetRemoved, Tick, entityVars, VInv, VTypes
<1>4. now' \in 0..MaxTime
  BY ValueBoundAssumption DEF Construct, TargetRemoved, Tick, bounds, VInv, VTypes
<1>5. resolved' \in [Session -> [Prop -> Target \cup {NoObject}]]
  BY <1>1 DEF VInv, VTypes
<1>6. VTypes' BY <1>1, <1>2, <1>3, <1>4, <1>5 DEF VInv, VTypes, Instances, Entities
<1>7. QED BY <1>1, <1>6, OthersKept DEF VInv

\* What _toEntity gets through can be put.
LEMMA ReachedPuts ==
  ASSUME VInv, NEW s \in Session, NEW i \in Reached(s)
  PROVE  /\ i \in Prop /\ ~Refuses(s, i)
         /\ Settle(s, i) \in Holds(kind[i])
         /\ ForDatastore(kind[i], obj[s][i], Settle(s, i)) \in Stores(kind[i])
         /\ ~Unfaithful(kind[i]) =>
              Mirrors(kind[i], ForDatastore(kind[i], obj[s][i], Settle(s, i)), Settle(s, i))
<1>1. i \in Prop BY DEF Reached, VInv, VTypes
<1>2. ~Refuses(s, i)
  <2>1. i \in 1..i BY <1>1, WidthAssumption DEF Prop
  <2>2. QED BY <2>1 DEF Reached
<1>3. now \in Nat /\ saved[s] \in BOOLEAN /\ me[s] \in Users \cup {Nobody}
  BY ValueBoundAssumption DEF VInv, VTypes
<1>4. Dangling(s, i) \in BOOLEAN BY DEF Dangling, Lost
<1>5. WellMade(kind[i]) /\ obj[s][i] \in Holds(kind[i]) BY <1>1, Parts DEF VInv
<1>6. ~CannotStore(kind[i], obj[s][i], saved[s], me[s], Dangling(s, i)) BY <1>2 DEF Refuses
<1>7. QED BY <1>1, <1>2, <1>3, <1>4, <1>5, <1>6, Puts DEF Settle

\* A reference that can be read holds the object of its key.
LEMMA ObjectIs ==
  ASSUME VInv, NEW s \in Session, NEW i \in Prop, IsReference(s, i), ~Dangling(s, i)
  PROVE  /\ Object(s, i) = obj[s][i].of
         /\ Object(s, i) \in Target
<1>1. kind[i].type = "reference" BY DEF IsReference
<1>2. resolved[s][i] = NoObject \/ resolved[s][i] = obj[s][i].of
  BY <1>1 DEF VInv, SessionInv, RefInv
<1>3. Object(s, i) = obj[s][i].of BY <1>2 DEF Object
<1>4. CASE resolved[s][i] = NoObject
  BY <1>3, <1>4 DEF Dangling, Lost, IsReference, VInv, VTypes
<1>5. CASE resolved[s][i] # NoObject
  BY <1>2, <1>3, <1>5 DEF VInv, VTypes
<1>6. QED BY <1>3, <1>4, <1>5

\* So a put stores what _toEntity makes of the values, references included.
LEMMA EntityIs ==
  ASSUME VInv, NEW s \in Session, NEW i \in Reached(s)
  PROVE  Entity(s)[i] = ForDatastore(kind[i], obj[s][i], Settle(s, i))
<1>1. i \in Prop /\ i \in known[s] /\ ~Refuses(s, i)
  BY ReachedPuts DEF Reached
<1>2. CASE ~IsReference(s, i) BY <1>1, <1>2 DEF Entity
<1>3. CASE IsReference(s, i)
  <2>1. kind[i].type = "reference" /\ obj[s][i] # None BY <1>3 DEF IsReference
  <2>2. ~Dangling(s, i) BY <1>1, <2>1 DEF Refuses, CannotStore
  <2>3. kind[i].type \in Types /\ obj[s][i] \in Holds(kind[i])
    BY <1>1, Parts DEF VInv, WellMade
  <2>4. obj[s][i] = A("key", obj[s][i].of) BY <2>1, <2>3, HoldsIs
  <2>5. Settle(s, i) = obj[s][i] BY <2>1 DEF Settle, Settled, PlainTypes
  <2>6. A("key", Object(s, i)) = Settle(s, i) BY <1>1, <1>3, <2>2, <2>4, <2>5, ObjectIs
  <2>7. QED BY <1>1, <1>3, <2>6 DEF Entity
<1>4. QED BY <1>2, <1>3

LEMMA LoadV ==
  ASSUME VInv, NEW s \in Session, Load(s)
  PROVE  VInv'
<1> DEFINE o == [i \in Prop |-> IF i \in known[s] THEN FromDatastore(kind[i], stored[i], me[s]) ELSE None]
           r == [i \in Prop |-> IF i \in known[s] THEN None ELSE stored[i]]
<1>1. \A i \in known[s] : /\ o[i] \in Holds(kind[i])
                          /\ ~Unfaithful(kind[i]) => Mirrors(kind[i], stored[i], o[i])
  <2> TAKE i \in known[s]
  <2>1. i \in Prop /\ me[s] \in Users \cup {Nobody} BY DEF VInv, VTypes
  <2>2. WellMade(kind[i]) /\ stored[i] \in Stores(kind[i]) BY <2>1, Parts DEF VInv
  <2>3. ~CannotLoad(kind[i], stored[i], me[s]) BY DEF Load
  <2>4. o[i] = FromDatastore(kind[i], stored[i], me[s]) BY <2>1
  <2>5. QED BY <2>1, <2>2, <2>3, <2>4, Loads
<1>2. o \in Instances
  <2>1. \A i \in Prop : o[i] \in Holds(kind[i]) BY <1>1 DEF Holds
  <2>2. o = [i \in Prop |-> o[i]] OBVIOUS
  <2>3. QED BY <2>1, <2>2, Whole DEF VInv
<1>3. r \in Entities
  <2>1. \A i \in Prop : stored[i] \in Stores(kind[i]) BY Parts DEF VInv
  <2>2. \A i \in Prop : r[i] \in Stores(kind[i]) BY <2>1 DEF Stores
  <2>3. r = [i \in Prop |-> r[i]] OBVIOUS
  <2>4. QED BY <2>2, <2>3, Whole DEF VInv
<1>4. /\ obj' = [obj EXCEPT ![s] = o] /\ rest' = [rest EXCEPT ![s] = r]
      /\ saved' = [saved EXCEPT ![s] = TRUE] /\ loaded' = [loaded EXCEPT ![s] = TRUE]
      /\ fresh' = [fresh EXCEPT ![s] = TRUE] /\ mirror' = [mirror EXCEPT ![s] = TRUE]
      /\ assigned' = [assigned EXCEPT ![s] = {}] /\ resolved' = [resolved EXCEPT ![s] = NoObjects]
      /\ UNCHANGED <<kind, known, me, stored, exists, keyed, targets, now>>
  BY DEF Load, entityVars, bounds
<1> HIDE DEF o, r
<1>5. VTypes'
  <2>1. NoObjects \in [Prop -> Target \cup {NoObject}] BY DEF NoObjects
  <2>2. UNCHANGED <<Instances, Entities>> BY <1>4 DEF Instances, Entities
  <2>3. /\ obj' \in [Session -> Instances] /\ rest' \in [Session -> Entities]
        /\ resolved' \in [Session -> [Prop -> Target \cup {NoObject}]]
    BY <1>2, <1>3, <1>4, <2>1 DEF VInv, VTypes
  <2>4. /\ saved' \in [Session -> BOOLEAN] /\ loaded' \in [Session -> BOOLEAN]
        /\ fresh' \in [Session -> BOOLEAN] /\ mirror' \in [Session -> BOOLEAN]
        /\ assigned' \in [Session -> SUBSET Prop]
    BY <1>4 DEF VInv, VTypes
  <2>5. QED BY <1>4, <2>2, <2>3, <2>4 DEF VInv, VTypes
<1>6. SessionInv(s)'
  <2>1. /\ obj'[s] = o /\ rest'[s] = r /\ saved'[s] /\ resolved'[s] = NoObjects
    BY <1>4 DEF VInv, VTypes
  <2>2. RefInv(s)' BY <2>1 DEF RefInv, NoObjects
  <2>3. FreshInv(s)' BY <1>4, <2>1 DEF FreshInv, r
  <2>4. MirrorInv(s)' BY <1>1, <1>4, <2>1 DEF MirrorInv
  <2>5. QED BY <2>2, <2>3, <2>4 DEF SessionInv
<1>7. \A q \in Session \ {s} : SessionInv(q)'
  <2> TAKE q \in Session \ {s}
  <2>1. /\ obj'[q] = obj[q] /\ rest'[q] = rest[q] /\ saved'[q] = saved[q]
        /\ resolved'[q] = resolved[q] /\ fresh'[q] = fresh[q] /\ mirror'[q] = mirror[q]
        /\ assigned'[q] = assigned[q]
    BY <1>4 DEF VInv, VTypes
  <2>2. QED BY <1>4, <2>1, OthersKept DEF VInv
<1>8. QED BY <1>5, <1>6, <1>7 DEF VInv

LEMMA AssignV ==
  ASSUME VInv, NEW s \in Session, NEW i \in known[s], Assign(s, i)
  PROVE  VInv'
<1>1. i \in Prop /\ WellMade(kind[i]) BY Parts DEF VInv, VTypes
<1>2. PICK v \in Assignable(kind[i]) :
        /\ obj' = [obj EXCEPT ![s][i] = v]
        /\ \/ resolved' = [resolved EXCEPT ![s][i] = NoObject]
           \/ v.is = "key" /\ resolved' = [resolved EXCEPT ![s][i] = v.of]
  BY DEF Assign
<1>3. /\ UNCHANGED <<kind, known, me, stored, exists, keyed, targets, loaded, saved, rest, now, fresh>>
      /\ assigned' = [assigned EXCEPT ![s] = @ \cup {i}]
      /\ mirror' = [mirror EXCEPT ![s] = FALSE]
  BY DEF Assign, entityVars
<1>4. v \in Holds(kind[i]) /\ (v.is = "key" => v.of \in Target)
  <2>1. \/ v = None
        \/ kind[i].type \in PlainTypes /\ v \in {A(kind[i].type, 0), A(kind[i].type, 1)}
        \/ kind[i].type = "text" /\ v \in {A("string", 0), A("string", 1)}
        \/ kind[i].type = "list" /\ v \in {A("list", 0), A("list", 1)}
        \/ kind[i].type = "date" /\ v \in {A("date", n) : n \in 0..MaxTime}
        \/ kind[i].type = "reference" /\ v \in {A("key", k) : k \in Target}
        \/ kind[i].type = "user" /\ v \in {AUser(u, DomainOf[u]) : u \in Users}
        \/ kind[i].type = "blob" /\ v = A("bytes", 1)
        \/ kind[i].type = "geopt" /\ v = A("geopt", 1)
    BY <1>1 DEF Assignable, WellMade, Types, PlainTypes
  <2>2. v.is = "key" => v.of \in Target
    BY <2>1 DEF None, A, AUser, PlainTypes
  <2>3. CASE v = None BY <2>2, <2>3 DEF Holds
  <2>4. CASE v # None /\ kind[i].type \in PlainTypes
    BY <2>1, <2>4 DEF Holds, PlainValues, A, PlainTypes
  <2>5. CASE v # None /\ kind[i].type = "date"
    BY <2>1, <2>5 DEF Holds, A, PlainTypes
  <2>6. CASE v # None /\ kind[i].type = "reference"
    BY <2>1, <2>6, TargetAssumption DEF Holds, A, PlainTypes
  <2>7. CASE v # None /\ kind[i].type = "user"
    BY <2>1, <2>7 DEF Holds, AUser, AnyUser, PlainTypes
  <2>8. CASE v # None /\ kind[i].type \in {"text", "list", "blob", "geopt"}
    BY <2>1, <2>8 DEF Holds, Texts, A, PlainTypes
  <2>9. kind[i].type \in PlainTypes \/ kind[i].type = "date" \/ kind[i].type = "reference"
          \/ kind[i].type = "user" \/ kind[i].type \in {"text", "list", "blob", "geopt"}
    BY <1>1 DEF WellMade, Types
  <2>10. QED BY <2>3, <2>4, <2>5, <2>6, <2>7, <2>8, <2>9
<1>5. VTypes'
  <2>1. obj'[s] \in Instances
    <3>1. obj'[s] = [obj[s] EXCEPT ![i] = v] BY <1>2 DEF VInv, VTypes
    <3>2. obj[s] \in [Prop -> Value] /\ \A j \in Prop : obj[s][j] \in Holds(kind[j])
      BY <1>1, Parts DEF VInv
    <3>3. \A j \in Prop : obj'[s][j] \in Holds(kind[j]) BY <1>4, <3>1, <3>2
    <3>4. obj'[s] = [j \in Prop |-> obj'[s][j]] BY <3>1, <3>2
    <3>5. QED BY <3>3, <3>4, Whole DEF VInv
  <2>2. obj' \in [Session -> Instances] BY <1>2, <2>1 DEF VInv, VTypes
  <2>3. resolved' \in [Session -> [Prop -> Target \cup {NoObject}]]
    <3>1. PICK k \in Target \cup {NoObject} : resolved' = [resolved EXCEPT ![s][i] = k]
      BY <1>2, <1>4
    <3>2. resolved \in [Session -> [Prop -> Target \cup {NoObject}]] BY DEF VInv, VTypes
    <3>3. QED BY <1>1, <3>1, <3>2
  <2>4. UNCHANGED <<Instances, Entities>> BY <1>3 DEF Instances, Entities
  <2>5. assigned' \in [Session -> SUBSET Prop] BY <1>1, <1>3 DEF VInv, VTypes
  <2>6. mirror' \in [Session -> BOOLEAN] BY <1>3 DEF VInv, VTypes
  <2>7. QED BY <1>3, <2>2, <2>3, <2>4, <2>5, <2>6 DEF VInv, VTypes
<1>6. SessionInv(s)'
  <2>1. /\ obj'[s] = [obj[s] EXCEPT ![i] = v] /\ ~mirror'[s] /\ i \in assigned'[s]
        /\ assigned[s] \subseteq assigned'[s]
        /\ resolved'[s] \in {[resolved[s] EXCEPT ![i] = NoObject], [resolved[s] EXCEPT ![i] = v.of]}
    BY <1>2, <1>3 DEF VInv, VTypes
  <2>2. obj[s] \in [Prop -> Value] /\ resolved[s] \in [Prop -> Target \cup {NoObject}]
    BY <1>1, Parts DEF VInv, VTypes
  <2>3. \A j \in Prop \ {i} : obj'[s][j] = obj[s][j] /\ resolved'[s][j] = resolved[s][j]
    BY <1>1, <2>1, <2>2
  <2>4. obj'[s][i] = v /\ resolved'[s][i] \in {NoObject, v.of} BY <1>1, <2>1, <2>2
  <2>5. RefInv(s)' BY <1>3, <2>3, <2>4 DEF RefInv, VInv, SessionInv
  <2>6. FreshInv(s)' BY <1>3 DEF FreshInv, VInv, SessionInv
  <2>7. known[s] \subseteq Prop BY DEF VInv, VTypes
  <2>8. MirrorInv(s)' BY <1>3, <2>1, <2>3, <2>7 DEF MirrorInv, VInv, SessionInv
  <2>9. QED BY <2>5, <2>6, <2>8 DEF SessionInv
<1>7. \A q \in Session \ {s} : SessionInv(q)'
  <2> TAKE q \in Session \ {s}
  <2>1. /\ obj'[q] = obj[q] /\ resolved'[q] = resolved[q] /\ mirror'[q] = mirror[q]
        /\ assigned'[q] = assigned[q]
    BY <1>2, <1>3 DEF VInv, VTypes
  <2>2. QED BY <1>3, <2>1, OthersKept DEF VInv
<1>8. QED BY <1>5, <1>6, <1>7 DEF VInv

LEMMA FollowV ==
  ASSUME VInv, NEW s \in Session, NEW i \in known[s], Follow(s, i)
  PROVE  VInv'
<1>1. i \in Prop BY DEF VInv, VTypes
<1>2. IsReference(s, i) /\ ~Dangling(s, i) /\ resolved' = [resolved EXCEPT ![s][i] = Object(s, i)]
  BY DEF Follow
<1>3. UNCHANGED <<kind, known, me, stored, exists, keyed, targets, obj, loaded, saved, rest, now,
                  assigned, fresh, mirror>>
  BY DEF Follow, entityVars, bounds, ghosts
<1>4. Object(s, i) = obj[s][i].of /\ Object(s, i) \in Target BY <1>1, <1>2, ObjectIs
<1>5. VTypes'
  <2>1. resolved' \in [Session -> [Prop -> Target \cup {NoObject}]]
    BY <1>1, <1>2, <1>4 DEF VInv, VTypes
  <2>2. QED BY <1>3, <2>1 DEF VInv, VTypes, Instances, Entities
<1>6. \A q \in Session : SessionInv(q)'
  <2> TAKE q \in Session
  <2>1. RefInv(q)'
    <3>1. \A j \in Prop : resolved'[q][j] \in {resolved[q][j], obj[q][j].of}
      BY <1>1, <1>2, <1>4 DEF VInv, VTypes
    <3>2. QED BY <1>3, <3>1 DEF RefInv, VInv, SessionInv
  <2>2. FreshInv(q)' /\ MirrorInv(q)' BY <1>3 DEF FreshInv, MirrorInv, VInv, SessionInv
  <2>3. QED BY <2>1, <2>2 DEF SessionInv
<1>7. QED BY <1>5, <1>6 DEF VInv

LEMMA RemoveV ==
  ASSUME VInv, NEW s \in Session, Remove(s)
  PROVE  VInv'
<1>1. /\ UNCHANGED <<kind, known, me, keyed, targets, obj, loaded, resolved, now, assigned>>
      /\ stored' = Blanks /\ exists' = FALSE
      /\ \/ saved' = [saved EXCEPT ![s] = FALSE] /\ rest' = [rest EXCEPT ![s] = Blanks]
         \/ UNCHANGED <<saved, rest>>
      /\ fresh' = [r \in Session |-> FALSE] /\ mirror' = [r \in Session |-> FALSE]
  BY DEF Remove
<1>2. Blanks \in Entities
  <2>1. \A i \in Prop : Blanks[i] \in Stores(kind[i]) BY DEF Blanks, Stores
  <2>2. Blanks = [i \in Prop |-> Blanks[i]] BY DEF Blanks
  <2>3. QED BY <2>1, <2>2, Whole DEF VInv
<1>3. VTypes'
  <2>1. rest' \in [Session -> Entities] BY <1>1, <1>2 DEF VInv, VTypes
  <2>2. UNCHANGED <<Instances, Entities>> BY <1>1 DEF Instances, Entities
  <2>3. saved' \in [Session -> BOOLEAN] BY <1>1 DEF VInv, VTypes
  <2>4. QED BY <1>1, <1>2, <2>1, <2>2, <2>3 DEF VInv, VTypes
<1>4. \A q \in Session : SessionInv(q)'
  BY <1>1 DEF VInv, SessionInv, RefInv, FreshInv, MirrorInv
<1>5. QED BY <1>3, <1>4 DEF VInv

\* The values and objects a put leaves in the instance.
LEMMA SettledIs ==
  ASSUME VInv, NEW s \in Session
  PROVE  /\ SettledObj(s) \in Instances
         /\ ResolvedObjects(s) \in [Prop -> Target \cup {NoObject}]
         /\ \A i \in Prop : kind[i].type = "reference" =>
              /\ SettledObj(s)[i] = obj[s][i]
              /\ ResolvedObjects(s)[i] \in {NoObject, obj[s][i].of}
<1>1. SettledObj(s) \in Instances
  <2>1. \A i \in Prop : SettledObj(s)[i] \in Holds(kind[i])
    BY Parts, ReachedPuts DEF SettledObj, VInv
  <2>2. SettledObj(s) = [i \in Prop |-> SettledObj(s)[i]] BY DEF SettledObj
  <2>3. QED BY <2>1, <2>2, Whole DEF VInv
<1>2. \A i \in Prop : /\ ResolvedObjects(s)[i] \in Target \cup {NoObject}
                      /\ kind[i].type = "reference" =>
                           ResolvedObjects(s)[i] \in {NoObject, obj[s][i].of}
  <2> TAKE i \in Prop
  <2>1. CASE i \in Reached(s) /\ IsReference(s, i)
    <3>1. ~Dangling(s, i)
      BY <2>1, ReachedPuts DEF Refuses, CannotStore, IsReference
    <3>2. QED BY <2>1, <3>1, ObjectIs DEF ResolvedObjects
  <2>2. CASE ~(i \in Reached(s) /\ IsReference(s, i))
    <3>1. ResolvedObjects(s)[i] = resolved[s][i] BY <2>2 DEF ResolvedObjects
    <3>2. QED BY <3>1 DEF VInv, VTypes, SessionInv, RefInv
  <2>3. QED BY <2>1, <2>2
<1>3. ResolvedObjects(s) \in [Prop -> Target \cup {NoObject}] BY <1>2 DEF ResolvedObjects
<1>4. \A i \in Prop : kind[i].type = "reference" => SettledObj(s)[i] = obj[s][i]
  BY DEF SettledObj, Settle, Settled, PlainTypes
<1>5. QED BY <1>1, <1>2, <1>3, <1>4

\* A put that gets through writes the entity.
LEMMA PutIs ==
  ASSUME VInv, NEW s \in Session, Put(s)
  PROVE  /\ obj' = [obj EXCEPT ![s] = SettledObj(s)]
         /\ resolved' = [resolved EXCEPT ![s] = ResolvedObjects(s)]
         /\ UNCHANGED <<kind, known, me, targets, loaded, rest, now>>
         /\ saved' = [saved EXCEPT ![s] = @ \/ Reached(s) = known[s]]
         /\ (Reached(s) = known[s] /\ Written(s)) \/ NotWritten(s)
BY DEF Put

LEMMA PutTypes ==
  ASSUME VInv, NEW s \in Session, Put(s)
  PROVE  VTypes'
<1>1. /\ obj' = [obj EXCEPT ![s] = SettledObj(s)]
      /\ resolved' = [resolved EXCEPT ![s] = ResolvedObjects(s)]
      /\ UNCHANGED <<kind, known, me, targets, loaded, rest, now>>
      /\ saved' = [saved EXCEPT ![s] = @ \/ Reached(s) = known[s]]
  BY PutIs
<1>2. saved' \in [Session -> BOOLEAN]
  <2>1. \A r \in Session : saved'[r] \in BOOLEAN BY <1>1 DEF VInv, VTypes
  <2>2. saved' = [r \in Session |-> saved'[r]] BY <1>1 DEF VInv, VTypes
  <2>3. QED BY <2>1, <2>2
<1>3. obj' \in [Session -> Instances] BY <1>1, SettledIs DEF VInv, VTypes
<1>4. resolved' \in [Session -> [Prop -> Target \cup {NoObject}]]
  BY <1>1, SettledIs DEF VInv, VTypes
<1>5. UNCHANGED <<Instances, Entities>> BY <1>1 DEF Instances, Entities
<1>6. CASE Reached(s) = known[s] /\ Written(s)
  <2>1. Entity(s) \in Entities
    <3>1. \A i \in Prop \ known[s] : Entity(s)[i] = rest[s][i] BY DEF Entity
    <3>2. \A i \in Prop : Entity(s)[i] \in Stores(kind[i])
      <4> TAKE i \in Prop
      <4>1. CASE i \in known[s] BY <1>6, <4>1, EntityIs, ReachedPuts
      <4>2. CASE i \notin known[s] BY <3>1, <4>2, Parts DEF VInv
      <4>3. QED BY <4>1, <4>2
    <3>3. Entity(s) = [i \in Prop |-> Entity(s)[i]] BY DEF Entity
    <3>4. QED BY <3>2, <3>3, Whole DEF VInv
  <2>2. /\ fresh' \in [Session -> BOOLEAN]
        /\ assigned' \in [Session -> SUBSET Prop] /\ mirror' \in [Session -> BOOLEAN]
    BY <1>6 DEF Written, StaleBut, VInv, VTypes
  <2>3. stored' = Entity(s) /\ exists' = TRUE /\ keyed' = TRUE BY <1>6 DEF Written
  <2>4. QED BY <1>1, <1>3, <1>4, <1>5, <1>2, <2>1, <2>2, <2>3 DEF VInv, VTypes
<1>7. CASE NotWritten(s)
  <2>1. /\ mirror' = [mirror EXCEPT ![s] = @ /\ obj' = obj]
        /\ UNCHANGED <<stored, exists, keyed, fresh, assigned>>
    BY <1>7 DEF NotWritten
  <2>2. mirror' \in [Session -> BOOLEAN]
    <3>1. \A r \in Session : mirror'[r] \in BOOLEAN BY <2>1 DEF VInv, VTypes
    <3>2. mirror' = [r \in Session |-> mirror'[r]] BY <2>1 DEF VInv, VTypes
    <3>3. QED BY <3>1, <3>2
  <2>3. QED BY <1>1, <1>3, <1>4, <1>5, <1>2, <2>2, <2>1 DEF VInv, VTypes
<1>8. QED BY <1>6, <1>7, PutIs

\* What a property that has not been assigned holds is what a put leaves there.
LEMMA Unassigned ==
  ASSUME VInv, NEW s \in Session, fresh[s], NEW i \in Reached(s), i \in known[s],
         ~Unfaithful(kind[i]),
         i \notin assigned[s], stored[i] # None, kind[i].auto # "always"
  PROVE  /\ Settle(s, i) = obj[s][i]
         /\ Mirrors(kind[i], stored[i], obj[s][i])
         /\ Entity(s)[i].is = stored[i].is
         /\ Entity(s)[i].of = stored[i].of
<1>1. i \in Prop /\ ~Refuses(s, i) BY ReachedPuts
<1>2. saved[s] = TRUE BY DEF VInv, VTypes, SessionInv, FreshInv
<1>3. Mirrors(kind[i], stored[i], obj[s][i]) BY DEF VInv, SessionInv, MirrorInv
<1>4. /\ WellMade(kind[i]) /\ stored[i] \in Stores(kind[i]) /\ obj[s][i] \in Holds(kind[i])
  BY <1>1, Parts DEF VInv
<1>5. Settle(s, i) = obj[s][i]
  <2>1. ~FillsIn(kind[i], saved[s]) BY <1>2 DEF FillsIn
  <2>2. kind[i].type = "list" \/ obj[s][i] # None
    <3>1. None.is # "string" BY DEF None
    <3>2. QED BY <1>3, <3>1 DEF Mirrors, Misplaced
  <2>3. QED BY <1>4, <2>1, <2>2 DEF Settle, Settled, WellMade, Types, PlainTypes
<1>6. /\ ForDatastore(kind[i], obj[s][i], obj[s][i]).is = stored[i].is
      /\ ForDatastore(kind[i], obj[s][i], obj[s][i]).of = stored[i].of
  <2> DEFINE p == kind[i]
             v == obj[s][i]
             x == stored[i]
  <2>1. WellMade(p) /\ ~Unfaithful(p) /\ x \in Stores(p) /\ x # None /\ v \in Holds(p)
        /\ Mirrors(p, x, v)
    BY <1>3, <1>4
  <2> HIDE DEF p, v, x
  <2>2. ForDatastore(p, v, v).is = x.is /\ ForDatastore(p, v, v).of = x.of
    BY <2>1, PutsAgain, Zenon
  <2>3. QED BY <2>2 DEF p, v, x
<1>7. QED BY <1>3, <1>5, <1>6, EntityIs

LEMMA PutV ==
  ASSUME VInv, NEW s \in Session, Put(s)
  PROVE  VInv'
<1>1. /\ obj' = [obj EXCEPT ![s] = SettledObj(s)]
      /\ resolved' = [resolved EXCEPT ![s] = ResolvedObjects(s)]
      /\ UNCHANGED <<kind, known, me, targets, loaded, rest, now>>
      /\ saved' = [saved EXCEPT ![s] = @ \/ Reached(s) = known[s]]
  BY PutIs
<1>2. /\ obj'[s] = SettledObj(s) /\ resolved'[s] = ResolvedObjects(s)
      /\ \A q \in Session \ {s} : obj'[q] = obj[q] /\ resolved'[q] = resolved[q]
  BY <1>1 DEF VInv, VTypes
<1>3. RefInv(s)' BY <1>1, <1>2, SettledIs DEF RefInv
<1>4. /\ saved[s] \/ Reached(s) = known[s] => saved'[s]
      /\ \A q \in Session \ {s} : saved'[q] = saved[q]
  BY <1>1 DEF VInv, VTypes
<1>5. CASE Reached(s) = known[s] /\ Written(s)
  <2>1. stored' = Entity(s) /\ fresh' = StaleBut(s) BY <1>5 DEF Written
  <2>2. \A i \in Prop \ known[s] : Entity(s)[i] = rest[s][i] BY DEF Entity
  <2>3. saved'[s] BY <1>5, <1>4
  <2>4. FreshInv(s)' BY <1>1, <2>2, <2>3, <2>1 DEF FreshInv
  <2>5. \A i \in known[s] : ~Unfaithful(kind[i]) => Mirrors(kind[i], Entity(s)[i], SettledObj(s)[i])
    <3> TAKE i \in known[s]
    <3>1. i \in Prop /\ SettledObj(s)[i] = Settle(s, i) BY <1>5, ReachedPuts DEF SettledObj
    <3>2. QED BY <1>5, <3>1, EntityIs, ReachedPuts
  <2>6. MirrorInv(s)' BY <1>1, <1>2, <2>5, <2>1 DEF MirrorInv
  <2>7. \A q \in Session \ {s} : SessionInv(q)'
    <3> TAKE q \in Session \ {s}
    <3>1. ~fresh'[q] BY <2>1 DEF StaleBut
    <3>2. QED BY <1>1, <1>2, <3>1, OthersKept DEF VInv
  <2>8. QED BY <1>3, <2>4, <2>6, <2>7, PutTypes DEF VInv, SessionInv
<1>6. CASE NotWritten(s)
  <2>1. /\ mirror' = [mirror EXCEPT ![s] = @ /\ obj' = obj]
        /\ UNCHANGED <<stored, fresh, assigned>>
    BY <1>6 DEF NotWritten
  <2>2. FreshInv(s)' BY <1>1, <1>4, <2>1 DEF FreshInv, VInv, SessionInv
  <2>3. mirror'[s] => mirror[s] /\ obj' = obj BY <2>1 DEF VInv, VTypes
  <2>4. \A q \in Session \ {s} : mirror'[q] = mirror[q] BY <2>1 DEF VInv, VTypes
  <2>5. MirrorInv(s)'
    <3> SUFFICES ASSUME NEW i \in known[s], fresh[s], ~Unfaithful(kind[i]),
                        \/ mirror'[s]
                        \/ i \notin assigned[s] /\ stored[i] # None /\ kind[i].auto # "always"
                 PROVE  Mirrors(kind[i], stored[i], obj'[s][i])
      BY <1>1, <2>1 DEF MirrorInv
    <3>1. i \in Prop BY DEF VInv, VTypes
    <3>2. Mirrors(kind[i], stored[i], obj[s][i])
      BY <2>3 DEF VInv, SessionInv, MirrorInv
    <3>3. CASE mirror'[s] BY <2>3, <3>2, <3>3
    <3>4. CASE i \notin Reached(s) BY <1>2, <3>1, <3>2, <3>4 DEF SettledObj
    <3>5. CASE ~mirror'[s] /\ i \in Reached(s)
      <4>1. obj'[s][i] = Settle(s, i) BY <1>2, <3>1, <3>5 DEF SettledObj
      <4>2. QED BY <3>2, <3>5, <4>1, Unassigned
    <3>6. QED BY <3>3, <3>4, <3>5
  <2>6. \A q \in Session \ {s} : SessionInv(q)'
    <3> TAKE q \in Session \ {s}
    <3>1. QED BY <1>1, <1>2, <1>4, <2>4, <2>1, OthersKept DEF VInv
  <2>7. QED BY <1>3, <2>2, <2>5, <2>6, PutTypes DEF VInv, SessionInv
<1>7. QED BY <1>5, <1>6, PutIs

LEMMA ValueStepV ==
  ASSUME VInv, ValueStep
  PROVE  VInv'
BY IdleV, LoadV, PutV, RemoveV, AssignV, FollowV DEF ValueStep

-----------------------------------------------------------------------------
(***************************************************************************)
(* Forms.                                                                  *)
(***************************************************************************)
\* Values from a form, or anywhere: what has not changed is as good as before.
LEMMA FillV ==
  ASSUME VInv, NEW s \in Session, NEW o \in Instances,
         NEW held \in [Prop -> Target \cup {NoObject}], NEW assigning \in SUBSET Prop,
         \A i \in Prop : kind[i].type = "reference" => held[i] = NoObject \/ held[i] = o[i].of,
         \A i \in Prop \ assigning : o[i] = obj[s][i],
         Fill(s, o, held, assigning)
  PROVE  VInv'
<1>1. /\ obj' = [obj EXCEPT ![s] = o]
      /\ resolved' = [resolved EXCEPT ![s] = held]
      /\ loaded' = [loaded EXCEPT ![s] = TRUE]
      /\ assigned' = [assigned EXCEPT ![s] = @ \cup assigning]
      /\ mirror' = [mirror EXCEPT ![s] = @ /\ obj' = obj]
      /\ UNCHANGED <<kind, known, me, stored, exists, keyed, targets, saved, rest, now, fresh>>
  BY DEF Fill, entityVars, bounds
<1>2. VTypes'
  <2>1. obj' \in [Session -> Instances] /\ resolved' \in [Session -> [Prop -> Target \cup {NoObject}]]
    BY <1>1 DEF VInv, VTypes
  <2>2. UNCHANGED <<Instances, Entities>> BY <1>1 DEF Instances, Entities
  <2>3. loaded' \in [Session -> BOOLEAN] /\ assigned' \in [Session -> SUBSET Prop]
    BY <1>1 DEF VInv, VTypes
  <2>4. mirror' \in [Session -> BOOLEAN]
    <3>1. \A r \in Session : mirror'[r] \in BOOLEAN BY <1>1 DEF VInv, VTypes
    <3>2. mirror' = [r \in Session |-> mirror'[r]] BY <1>1 DEF VInv, VTypes
    <3>3. QED BY <3>1, <3>2
  <2>5. QED BY <1>1, <2>1, <2>2, <2>3, <2>4 DEF VInv, VTypes
<1>3. SessionInv(s)'
  <2>1. /\ obj'[s] = o /\ resolved'[s] = held /\ assigned'[s] = assigned[s] \cup assigning
        /\ mirror'[s] => mirror[s] /\ obj' = obj
    BY <1>1 DEF VInv, VTypes
  <2>2. RefInv(s)' BY <1>1, <2>1 DEF RefInv
  <2>3. FreshInv(s)' BY <1>1 DEF FreshInv, VInv, SessionInv
  <2>4. MirrorInv(s)'
    <3> SUFFICES ASSUME NEW i \in known[s], fresh[s], ~Unfaithful(kind[i]),
                        \/ mirror'[s]
                        \/ i \notin assigned'[s] /\ stored[i] # None /\ kind[i].auto # "always"
                 PROVE  Mirrors(kind[i], stored[i], obj'[s][i])
      BY <1>1 DEF MirrorInv
    <3>1. i \in Prop BY DEF VInv, VTypes
    <3>2. obj'[s][i] = obj[s][i] BY <2>1, <3>1
    <3>3. Mirrors(kind[i], stored[i], obj[s][i]) BY <2>1 DEF VInv, SessionInv, MirrorInv
    <3>4. QED BY <3>2, <3>3
  <2>5. QED BY <2>2, <2>3, <2>4 DEF SessionInv
<1>4. \A q \in Session \ {s} : SessionInv(q)'
  <2> TAKE q \in Session \ {s}
  <2>1. /\ obj'[q] = obj[q] /\ resolved'[q] = resolved[q] /\ mirror'[q] = mirror[q]
        /\ assigned'[q] = assigned[q]
    BY <1>1 DEF VInv, VTypes
  <2>2. QED BY <1>1, <2>1, OthersKept DEF VInv
<1>5. QED BY <1>2, <1>3, <1>4 DEF VInv

\* The instance the constructor of a form leaves, and the objects its
\* references hold, whether they have been read or not.
LEMMA FormObjectIs ==
  ASSUME VInv, NEW s \in Session, NEW d \in [Prop -> Field], NEW held,
         held \in {Kept(s, d), Read(FormToObject(s, d), Kept(s, d))}
  PROVE  /\ FormToObject(s, d) \in Instances
         /\ Assigns(s, d) \subseteq Prop
         /\ held \in [Prop -> Target \cup {NoObject}]
         /\ \A i \in Prop : kind[i].type = "reference" =>
              held[i] = NoObject \/ held[i] = FormToObject(s, d)[i].of
         /\ \A i \in Prop \ Assigns(s, d) : FormToObject(s, d)[i] = obj[s][i]
<1> DEFINE o == FormToObject(s, d)
           kept == Kept(s, d)
<1>1. Assigns(s, d) \subseteq Prop BY DEF Assigns, Taken, VInv, VTypes
<1>2. \A i \in Prop : o[i] \in Holds(kind[i])
  <2> TAKE i \in Prop
  <2>1. WellMade(kind[i]) /\ obj[s][i] \in Holds(kind[i]) BY Parts DEF VInv
  <2>2. CASE i \in Assigns(s, d)
    <3>1. i \in Taken(s, d) /\ i \notin Failing(s, d)
      <4>1. ~(i < i) BY DEF Prop
      <4>2. QED BY <2>2, <4>1 DEF Assigns
    <3>2. d[i] # Blank /\ ~CannotConvert(kind[i], d[i])
      BY <3>1 DEF Taken, Failing, TakesInput
    <3>3. FromForm(kind[i], d[i]) \in Holds(kind[i]) BY <2>1, <3>2, FormGives
    <3>4. QED BY <2>2, <3>3 DEF FormToObject
  <2>3. CASE i \notin Assigns(s, d) BY <2>1, <2>3 DEF FormToObject
  <2>4. QED BY <2>2, <2>3
<1>3. o \in Instances
  <2>1. o = [i \in Prop |-> o[i]] BY DEF FormToObject
  <2>2. QED BY <1>2, <2>1, Whole DEF VInv
<1>4. \A i \in Prop \ Assigns(s, d) : o[i] = obj[s][i] BY DEF FormToObject
<1>5. \A i \in Prop : /\ kept[i] \in Target \cup {NoObject}
                      /\ kind[i].type = "reference" => kept[i] = NoObject \/ kept[i] = o[i].of
  BY DEF Kept, FormToObject, VInv, VTypes, SessionInv, RefInv
<1>6. CASE held = kept
  <2>1. held \in [Prop -> Target \cup {NoObject}] BY <1>5, <1>6 DEF Kept
  <2>2. QED BY <1>1, <1>3, <1>4, <1>5, <1>6, <2>1
<1>7. CASE held = Read(o, kept)
  <2>1. \A i \in Prop :
          \/ held[i] = kept[i]
          \/ kind[i].type = "reference" /\ held[i] = o[i].of /\ held[i] \in Target
    BY <1>7 DEF Read, Lost, VInv, VTypes
  <2>2. \A i \in Prop : held[i] \in Target \cup {NoObject} BY <1>5, <2>1
  <2>3. held = [i \in Prop |-> held[i]] BY <1>7 DEF Read
  <2>4. held \in [Prop -> Target \cup {NoObject}] BY <2>2, <2>3
  <2>5. QED BY <1>1, <1>3, <1>4, <1>5, <2>1, <2>4
<1>8. QED BY <1>6, <1>7

LEMMA SentIs == Sent \subseteq [Prop -> Field]
BY InputAssumption DEF Sent

LEMMA BindV ==
  ASSUME VInv, NEW s \in Session, NEW d \in [Prop -> Field], Bind(s, d)
  PROVE  VInv'
<1>1. PICK held \in {Kept(s, d), Read(FormToObject(s, d), Kept(s, d))} :
        Fill(s, FormToObject(s, d), held, Assigns(s, d))
  BY DEF Bind
<1> DEFINE Fits(h) ==
             /\ FormToObject(s, d) \in Instances
             /\ Assigns(s, d) \subseteq Prop
             /\ h \in [Prop -> Target \cup {NoObject}]
             /\ \A i \in Prop : kind[i].type = "reference" =>
                  h[i] = NoObject \/ h[i] = FormToObject(s, d)[i].of
             /\ \A i \in Prop \ Assigns(s, d) : FormToObject(s, d)[i] = obj[s][i]
<1>2. Fits(held)
  <2>1. \A h \in {Kept(s, d), Read(FormToObject(s, d), Kept(s, d))} : Fits(h)
    <3> TAKE h \in {Kept(s, d), Read(FormToObject(s, d), Kept(s, d))}
    <3> QED BY FormObjectIs
  <2>2. QED BY <1>1, <2>1
<1>3. QED BY <1>1, <1>2, FillV

LEMMA StepV ==
  ASSUME VInv, [FormNext]_allVars
  PROVE  VInv'
<1>1. CASE UNCHANGED allVars
  <2>1. UNCHANGED <<kind, known, me, stored, exists, keyed, targets, obj, loaded, saved, resolved,
                    rest, now, assigned, fresh, mirror>>
    BY <1>1 DEF allVars, vars, entityVars, instanceVars, bounds, ghosts
  <2>2. QED BY <2>1 DEF VInv, VTypes, Instances, Entities, SessionInv, RefInv, FreshInv, MirrorInv
<1>2. CASE FormNext
  BY <1>2, PutV, BindV, SentIs, ValueStepV DEF FormNext, FormPut, Otherwise
<1>3. QED BY <1>1, <1>2

LEMMA InitV ==
  ASSUME Init
  PROVE  VInv
<1>1. kind \in Kinds BY DEF Init
<1>2. /\ Blanks \in [Prop -> Value] /\ Blanks \in Entities /\ Blanks \in Instances
  BY DEF Blanks, Value, Entities, Instances, Stores, Holds
<1>3. me \in [Session -> Users \cup {Nobody}]
  <2>1. (CHOOSE u \in Users : TRUE) \in Users BY UserAssumption
  <2>2. QED BY <2>1 DEF Init
<1>4. known \in [Session -> SUBSET Prop]
  <2>1. \A x \in {Prop} \cup {1..(Width - 1) : k \in Extended \cap {kind}} : x \subseteq Prop
    BY WidthAssumption DEF Prop
  <2>2. QED BY <2>1 DEF Init
<1>5. NoObjects \in [Prop -> Target \cup {NoObject}] BY DEF NoObjects
<1>6. VTypes
  <2>1. /\ obj \in [Session -> Instances] /\ rest \in [Session -> Entities] /\ stored \in Entities
        /\ resolved \in [Session -> [Prop -> Target \cup {NoObject}]]
    BY <1>2, <1>5 DEF Init
  <2>2. /\ loaded \in [Session -> BOOLEAN] /\ saved \in [Session -> BOOLEAN]
        /\ fresh \in [Session -> BOOLEAN] /\ mirror \in [Session -> BOOLEAN]
        /\ assigned \in [Session -> SUBSET Prop]
    BY DEF Init
  <2>3. exists \in BOOLEAN /\ keyed \in BOOLEAN /\ targets \subseteq Target BY DEF Init
  <2>4. now \in 0..MaxTime BY ValueBoundAssumption DEF Init
  <2>5. QED BY <1>1, <1>3, <1>4, <2>1, <2>2, <2>3, <2>4 DEF VTypes
<1>7. \A s \in Session : SessionInv(s)
  BY DEF Init, SessionInv, RefInv, FreshInv, MirrorInv, NoObjects
<1>8. QED BY <1>6, <1>7 DEF VInv

-----------------------------------------------------------------------------
(***************************************************************************)
(* What a form was given stays what the instance holds.                    *)
(***************************************************************************)
FTypes ==
  /\ bound \in [Session -> BOOLEAN]
  /\ data \in [Session -> [Prop -> Field]]
  /\ errors \in [Session -> SUBSET Prop]
  /\ before \in [Session -> Instances]

\* No default and no automatic value takes its place.
Lasting(s, i) == kind[i].auto = "no" /\ ~(before[s][i] = None /\ kind[i].defaultValue # None)

FilledIn(s) ==
  bound[s] => \A i \in known[s] :
    /\ TakesInput(kind[i], data[s][i]) => ~CannotConvert(kind[i], data[s][i])
    /\ Lasting(s, i) => obj[s][i] = Meant(s, i)
    /\ Sound(kind[i]) /\ Invalid(kind[i], obj[s][i]) => i \in errors[s]

FInv == VInv /\ FTypes /\ \A s \in Session : FilledIn(s)

\* No step changes the kind or what a class knows, and few make an instance
\* other than it was.
LEMMA KindKept ==
  ASSUME FormNext
  PROVE  UNCHANGED <<kind, known>>
BY DEF FormNext, FormPut, Bind, Fill, Otherwise, ValueStep, Construct, Load, Put, Remove, Assign,
       Follow, TargetRemoved, Tick

\* A put settles nothing where the form has had its say.
LEMMA LastingPut ==
  ASSUME FInv, NEW s \in Session, bound[s], NEW i \in Reached(s), i \in known[s], Lasting(s, i)
  PROVE  Settle(s, i) = obj[s][i]
<1>1. i \in Prop /\ WellMade(kind[i]) BY ReachedPuts, Parts DEF FInv, VInv
<1>2. obj[s][i] = Meant(s, i) BY DEF FInv, FilledIn
<1>3. obj[s][i] # None \/ kind[i].defaultValue = None
  <2>1. CASE TakesInput(kind[i], data[s][i])
    <3>1. ~CannotConvert(kind[i], data[s][i]) BY <2>1 DEF FInv, FilledIn
    <3>2. kind[i].editable /\ data[s][i] # Blank BY <2>1 DEF TakesInput
    <3>3. data[s][i] \in Field BY <1>1 DEF FInv, FTypes
    <3>4. QED BY <1>1, <1>2, <3>1, <3>2, <3>3, FormGives DEF Meant
  <2>2. CASE ~TakesInput(kind[i], data[s][i])
    BY <1>2, <2>2 DEF Meant, Lasting, TakesInput
  <2>3. QED BY <2>1, <2>2
<1>4. kind[i].auto = "no" BY DEF Lasting
<1>5. QED
  BY <1>1, <1>3, <1>4 DEF Settle, Settled, FillsIn, WellMade, Types, PlainTypes

LEMMA FormPutF ==
  ASSUME FInv, NEW s \in Session, FormPut(s)
  PROVE  FInv'
<1>1. Put(s) /\ UNCHANGED <<bound, data, errors, before>> /\ bound[s]
  BY DEF FormPut, formVars
<1>2. VInv' BY <1>1, PutV DEF FInv
<1>3. UNCHANGED <<kind, known>> BY <1>1 DEF Put
<1>4. FTypes' BY <1>1, <1>3 DEF FInv, FTypes, Instances
<1>5. obj' = [obj EXCEPT ![s] = SettledObj(s)] BY <1>1 DEF Put
<1>6. \A q \in Session : FilledIn(q)'
  <2> SUFFICES ASSUME NEW q \in Session, bound[q], NEW i \in known[q]
               PROVE  /\ TakesInput(kind[i], data[q][i]) => ~CannotConvert(kind[i], data[q][i])
                      /\ Lasting(q, i) => obj'[q][i] = Meant(q, i)
                      /\ Sound(kind[i]) /\ Invalid(kind[i], obj'[q][i]) => i \in errors[q]
    BY <1>1, <1>3 DEF FilledIn, Lasting, Meant
  <2>1. i \in Prop BY DEF FInv, VInv, VTypes
  <2>2. TakesInput(kind[i], data[q][i]) => ~CannotConvert(kind[i], data[q][i])
    BY DEF FInv, FilledIn
  <2>3. Lasting(q, i) => obj[q][i] = Meant(q, i) BY DEF FInv, FilledIn
  <2>4. Lasting(q, i) => obj'[q][i] = obj[q][i]
    <3>1. CASE q # s BY <1>5, <3>1 DEF FInv, VInv, VTypes
    <3>2. CASE q = s
      <4>1. obj'[s] = SettledObj(s) BY <1>5 DEF FInv, VInv, VTypes
      <4>2. CASE i \in Reached(s)
        BY <1>1, <2>1, <3>2, <4>1, <4>2, LastingPut DEF SettledObj
      <4>3. CASE i \notin Reached(s) BY <2>1, <3>2, <4>1, <4>3 DEF SettledObj
      <4>4. QED BY <4>2, <4>3
    <3>3. QED BY <3>1, <3>2
  <2>5. ASSUME Sound(kind[i]), Invalid(kind[i], obj'[q][i])
        PROVE  Invalid(kind[i], obj[q][i])
    <3>1. CASE q # s \/ i \notin Reached(s)
      BY <1>5, <2>1, <2>5, <3>1 DEF SettledObj, FInv, VInv, VTypes
    <3>2. CASE q = s /\ i \in Reached(s)
      <4>1. obj'[q][i] = Settle(s, i) BY <1>5, <2>1, <3>2 DEF SettledObj, FInv, VInv, VTypes
      <4>2. WellMade(kind[i]) BY <2>1, Parts DEF FInv, VInv
      <4>3. QED BY <2>5, <3>2, <4>1, <4>2, SettledValid DEF Settle
    <3>3. QED BY <3>1, <3>2
  <2>6. Sound(kind[i]) /\ Invalid(kind[i], obj[q][i]) => i \in errors[q] BY DEF FInv, FilledIn
  <2>7. QED BY <2>2, <2>3, <2>4, <2>5, <2>6
<1>7. QED BY <1>2, <1>4, <1>6 DEF FInv

LEMMA BindF ==
  ASSUME FInv, NEW s \in Session, NEW d \in [Prop -> Field], Bind(s, d)
  PROVE  FInv'
<1>1. VInv' BY BindV DEF FInv
<1>2. d \in [Prop -> Field] OBVIOUS
<1>3. ~bound[s] BY DEF Bind, CanBind
<1>4. UNCHANGED <<kind, known>> BY DEF Bind, Fill
<1>5. obj' = [obj EXCEPT ![s] = FormToObject(s, d)] BY DEF Bind, Fill
<1>6. \A q \in Session \ {s} : obj'[q] = obj[q] BY <1>5 DEF FInv, VInv, VTypes
<1>7. CASE UNCHANGED formVars
  <2>1. UNCHANGED <<bound, data, errors, before>> BY <1>7 DEF formVars
  <2>2. FTypes' BY <1>4, <2>1 DEF FInv, FTypes, Instances
  <2>3. \A q \in Session : FilledIn(q)'
    BY <1>3, <1>4, <1>6, <2>1 DEF FInv, FilledIn, Lasting, Meant
  <2>4. QED BY <1>1, <2>2, <2>3 DEF FInv
<1>8. CASE /\ Failing(s, d) = {}
           /\ bound' = [bound EXCEPT ![s] = TRUE]
           /\ data' = [data EXCEPT ![s] = d]
           /\ before' = [before EXCEPT ![s] = obj[s]]
           /\ errors' = [errors EXCEPT ![s] = Errors(s, FormToObject(s, d), Kept(s, d))]
  <2>1. FTypes'
    <3>1. Errors(s, FormToObject(s, d), Kept(s, d)) \subseteq Prop
      BY DEF Errors, FInv, VInv, VTypes
    <3>2. Instances' = Instances /\ obj[s] \in Instances
      BY <1>4 DEF Instances, FInv, VInv, VTypes
    <3>3. bound' \in [Session -> BOOLEAN] BY <1>8 DEF FInv, FTypes
    <3>4. data' \in [Session -> [Prop -> Field]] BY <1>2, <1>8 DEF FInv, FTypes
    <3>5. errors' \in [Session -> SUBSET Prop] BY <1>8, <3>1 DEF FInv, FTypes
    <3>6. before' \in [Session -> Instances] BY <1>8, <3>2 DEF FInv, FTypes
    <3>7. QED BY <3>2, <3>3, <3>4, <3>5, <3>6 DEF FTypes
  <2>2. FilledIn(s)'
    <3>1. data'[s] = d /\ before'[s] = obj[s] /\ obj'[s] = FormToObject(s, d)
      BY <1>5, <1>8 DEF FInv, FTypes, VInv, VTypes
    <3>2. \A i \in known[s] :
            /\ TakesInput(kind[i], d[i]) => i \in Assigns(s, d) /\ ~CannotConvert(kind[i], d[i])
            /\ i \in Assigns(s, d) => TakesInput(kind[i], d[i])
      BY <1>8 DEF Assigns, Taken, Failing
    <3>3. \A i \in known[s] :
            FormToObject(s, d)[i] =
              IF TakesInput(kind[i], d[i]) THEN FromForm(kind[i], d[i]) ELSE obj[s][i]
      BY <3>2 DEF FormToObject, FInv, VInv, VTypes
    <3>4. errors'[s] = Errors(s, FormToObject(s, d), Kept(s, d)) BY <1>8 DEF FInv, FTypes
    <3>5. \A i \in known[s] : Invalid(kind[i], FormToObject(s, d)[i]) => i \in errors'[s]
      BY <3>4 DEF Errors
    <3>6. QED BY <1>4, <3>1, <3>2, <3>3, <3>5 DEF FilledIn, Meant, TakesInput
  <2>3. \A q \in Session \ {s} : FilledIn(q)'
    <3>1. \A q \in Session \ {s} : /\ bound'[q] = bound[q] /\ data'[q] = data[q]
                                    /\ before'[q] = before[q] /\ errors'[q] = errors[q]
      BY <1>8 DEF FInv, FTypes
    <3>2. QED BY <1>4, <1>6, <3>1 DEF FInv, FilledIn, Lasting, Meant
  <2>4. QED BY <1>1, <2>1, <2>2, <2>3 DEF FInv
<1>9. QED BY <1>7, <1>8 DEF Bind

LEMMA OtherwiseF ==
  ASSUME FInv, Otherwise
  PROVE  FInv'
<1>1. VInv' BY ValueStepV DEF Otherwise, FInv
<1>2. UNCHANGED <<kind, known>> BY KindKept DEF FormNext
<1> DEFINE left == {s \in Session : obj'[s] # obj[s]}
<1>3. /\ bound' = [s \in Session |-> IF s \in left THEN FALSE ELSE bound[s]]
      /\ data' = [s \in Session |-> IF s \in left THEN NoData ELSE data[s]]
      /\ errors' = [s \in Session |-> IF s \in left THEN {} ELSE errors[s]]
      /\ before' = [s \in Session |-> IF s \in left THEN Blanks ELSE before[s]]
  BY DEF Otherwise
<1>4. FTypes'
  <2>1. Blanks \in Instances /\ Instances' = Instances
    BY <1>2 DEF Blanks, Value, Instances, Holds
  <2>2. NoData \in [Prop -> Field] BY DEF NoData, Field
  <2>3. QED BY <1>3, <2>1, <2>2 DEF FInv, FTypes
<1>5. \A q \in Session : FilledIn(q)'
  <2> TAKE q \in Session
  <2>1. CASE q \in left BY <1>3, <2>1 DEF FilledIn
  <2>2. CASE q \notin left
    <3>1. /\ obj'[q] = obj[q] /\ bound'[q] = bound[q] /\ data'[q] = data[q]
          /\ before'[q] = before[q] /\ errors'[q] = errors[q]
      BY <1>3, <2>2
    <3>2. FilledIn(q) BY DEF FInv
    <3>3. QED BY <1>2, <3>1, <3>2 DEF FilledIn, Lasting, Meant
  <2>3. QED BY <2>1, <2>2
<1>6. QED BY <1>1, <1>4, <1>5 DEF FInv

LEMMA StepF ==
  ASSUME FInv, [FormNext]_allVars
  PROVE  FInv'
<1>1. CASE UNCHANGED allVars
  <2>1. VInv' BY <1>1, StepV DEF FInv
  <2>2. UNCHANGED <<kind, known, obj, bound, data, errors, before>>
    BY <1>1 DEF allVars, vars, instanceVars, formVars
  <2>3. QED BY <2>1, <2>2 DEF FInv, FTypes, Instances, FilledIn, Lasting, Meant
<1>2. CASE FormNext BY <1>2, FormPutF, BindF, SentIs, OtherwiseF DEF FormNext
<1>3. QED BY <1>1, <1>2

LEMMA InitF ==
  ASSUME FormInit
  PROVE  FInv
<1>1. VInv BY InitV DEF FormInit
<1>2. Blanks \in Instances BY DEF Blanks, Value, Instances, Holds
<1>3. NoData \in [Prop -> Field] BY DEF NoData, Field
<1>4. FTypes BY <1>2, <1>3 DEF FormInit, FTypes
<1>5. \A s \in Session : FilledIn(s) BY DEF FormInit, FilledIn
<1>6. QED BY <1>1, <1>4, <1>5 DEF FInv

THEOREM Inductive == FormSpec => []FInv
<1>1. FormInit => FInv BY InitF
<1>2. FInv /\ [FormNext]_allVars => FInv' BY StepF
<1>3. QED BY <1>1, <1>2, PTL DEF FormSpec

-----------------------------------------------------------------------------
\* Instances and entities only ever hold values of their classes, whatever
\* is loaded, assigned, put, or sent by users (forms.js:67-80).
THEOREM TypeCorrect == FormSpec => []TypeOK
<1>1. FInv => TypeOK BY DEF FInv, VInv, VTypes, FTypes, TypeOK
<1>2. QED BY <1>1, Inductive, PTL

\* An instance that has not changed since it was put or loaded holds what a
\* load would give (properties.js:90-107, 235-259, 298-309, 432-439,
\* 476-494, 614-621).
THEOREM Faithful == FormSpec => []PutsAreFaithful
<1>1. ASSUME FInv PROVE PutsAreFaithful
  <2> SUFFICES ASSUME NEW s \in Session, NEW i \in known[s],
                      fresh[s], mirror[s], me[s] # Nobody, ~Unfaithful(kind[i]),
                      ~Misplaced(kind[i], obj[s][i])
               PROVE  Same(FromDatastore(kind[i], stored[i], me[s]), obj[s][i])
    BY DEF PutsAreFaithful
  <2>1. i \in Prop /\ me[s] \in Users BY <1>1 DEF FInv, VInv, VTypes
  <2>2. WellMade(kind[i]) /\ stored[i] \in Stores(kind[i]) /\ obj[s][i] \in Holds(kind[i])
    BY <1>1, <2>1, Parts DEF FInv, VInv
  <2>3. Mirrors(kind[i], stored[i], obj[s][i]) BY <1>1 DEF FInv, VInv, SessionInv, MirrorInv
  <2>4. QED BY <2>1, <2>2, <2>3, MirrorsSame
<1>2. QED BY <1>1, Inductive, PTL

\* Who writes the entity: a put that gets through, and removals.
LEMMA WhoPuts ==
  ASSUME FInv, [FormNext]_allVars, puts' # puts, exists'
  PROVE  \E s \in Session : /\ Put(s) /\ Reached(s) = known[s]
                            /\ stored' = Entity(s) /\ fresh' = StaleBut(s)
<1>1. ~UNCHANGED allVars BY DEF allVars, vars, bounds
<1>2. \A s \in Session, d \in Sent : ~Bind(s, d) BY DEF Bind, Fill, bounds
<1>3. ~Tick /\ \A k \in Target : ~TargetRemoved(k) BY DEF Tick, TargetRemoved
<1>4. \A s \in Session : /\ ~Construct(s) /\ ~Load(s) /\ ~Remove(s)
                         /\ \A i \in known[s] : ~Assign(s, i) /\ ~Follow(s, i)
  BY DEF Construct, Load, Remove, Assign, Follow, bounds
<1>5. \E s \in Session : Put(s)
  BY <1>1, <1>2, <1>3, <1>4 DEF FormNext, FormPut, Otherwise, ValueStep
<1>6. QED BY <1>5, PutIs DEF FInv, Written, NotWritten

\* A put changes nothing behind the application's back (model.js:35-48,
\* 241-272).
THEOREM OnlyWhatWasAssigned == FormSpec => OnlyAssignedChanges
<1>1. ASSUME FInv, [FormNext]_allVars, NEW s \in Session, NEW i \in Prop,
             fresh[s], fresh'[s], i \notin assigned[s],
             puts' # puts, exists', stored[i] # None, kind[i].auto # "always", ~Unfaithful(kind[i])
      PROVE  stored'[i].is = stored[i].is /\ stored'[i].of = stored[i].of
  <2>1. PICK r \in Session : /\ Put(r) /\ Reached(r) = known[r]
                             /\ stored' = Entity(r) /\ fresh' = StaleBut(r)
    BY <1>1, WhoPuts
  <2>2. s = r BY <1>1, <2>1 DEF StaleBut
  <2>3. CASE i \in known[s] BY <1>1, <2>1, <2>2, <2>3, Unassigned DEF FInv
  <2>4. CASE i \notin known[s]
    <3>1. stored'[i] = rest[s][i] BY <2>1, <2>2, <2>4 DEF Entity
    <3>2. rest[s][i] = stored[i] BY <1>1, <2>4 DEF FInv, VInv, SessionInv, FreshInv
    <3>3. QED BY <3>1, <3>2
  <2>5. QED BY <2>3, <2>4
<1>2. FInv /\ [FormNext]_allVars =>
        [\A s \in Session, i \in Prop :
           (/\ fresh[s] /\ fresh'[s] /\ i \notin assigned[s]
            /\ puts' # puts /\ exists' /\ stored[i] # None /\ kind[i].auto # "always"
            /\ ~Unfaithful(kind[i]))
             => /\ stored'[i].is = stored[i].is
                /\ stored'[i].of = stored[i].of]_vars
  BY <1>1
<1>3. QED BY <1>2, Inductive, PTL DEF FormSpec, OnlyAssignedChanges

\* A form stores what the user filled in, and nothing else (forms.js:77,
\* 160-169, 331-342).
THEOREM FilledInIsStored == FormSpec => FormChangesWhatWasFilledIn
<1>1. ASSUME FInv, [FormNext]_allVars, NEW s \in Session, NEW i \in known[s],
             FormPut(s), exists', puts' # puts, me[s] # Nobody, Lasting(s, i),
             ~Unfaithful(kind[i]), ~Misplaced(kind[i], Meant(s, i))
      PROVE  Same(FromDatastore(kind[i], stored'[i], me[s]), Meant(s, i))
  <2>1. Put(s) /\ bound[s] BY <1>1 DEF FormPut
  <2>2. Reached(s) = known[s] /\ stored' = Entity(s)
    BY <1>1, <2>1, PutIs DEF FInv, Written, NotWritten
  <2>3. i \in Prop /\ me[s] \in Users BY <1>1 DEF FInv, VInv, VTypes
  <2>4. WellMade(kind[i]) /\ obj[s][i] \in Holds(kind[i]) BY <1>1, <2>3, Parts DEF FInv, VInv
  <2>5. Settle(s, i) = obj[s][i] /\ obj[s][i] = Meant(s, i)
    BY <1>1, <2>1, <2>2, LastingPut DEF FInv, FilledIn
  <2>6. stored'[i] \in Stores(kind[i]) /\ Mirrors(kind[i], stored'[i], obj[s][i])
    BY <1>1, <2>2, <2>5, EntityIs, ReachedPuts DEF FInv
  <2>7. QED BY <1>1, <2>3, <2>4, <2>5, <2>6, MirrorsSame
<1>2. FInv /\ [FormNext]_allVars =>
        [\A s \in Session : \A i \in known[s] :
           (/\ puts' # puts /\ exists' /\ me[s] # Nobody /\ FormPut(s)
            /\ ~Unfaithful(kind[i]) /\ ~Misplaced(kind[i], Meant(s, i))
            /\ kind[i].auto = "no" /\ ~(before[s][i] = None /\ kind[i].defaultValue # None))
             => Same(FromDatastore(kind[i], stored'[i], me[s]), Meant(s, i))]_allVars
  BY <1>1 DEF Lasting
<1>3. QED BY <1>2, Inductive, PTL DEF FormSpec, FormChangesWhatWasFilledIn

\* A form without errors stores an entity that is valid (forms.js:105-108,
\* 124-141).
THEOREM ErrorsTell == FormSpec => ErrorsAreComplete
<1>1. ASSUME FInv, [FormNext]_allVars, NEW s \in Session, NEW i \in known[s],
             FormPut(s), puts' # puts, exists', me[s] # Nobody, Sound(kind[i]),
             ~Unfaithful(kind[i]), ~Misplaced(kind[i], obj'[s][i]),
             Invalid(kind[i], FromDatastore(kind[i], stored'[i], me[s]))
      PROVE  i \in errors[s]
  <2>1. Put(s) /\ bound[s] BY <1>1 DEF FormPut
  <2>2. i \in Reached(s) /\ stored' = Entity(s)
    BY <1>1, <2>1, PutIs DEF FInv, Written, NotWritten
  <2>3. i \in Prop /\ WellMade(kind[i]) BY <1>1, Parts DEF FInv, VInv, VTypes
  <2>4. /\ stored'[i] \in Stores(kind[i]) /\ Settle(s, i) \in Holds(kind[i])
        /\ Mirrors(kind[i], stored'[i], Settle(s, i))
    BY <1>1, <2>2, EntityIs, ReachedPuts DEF FInv
  <2>5. obj'[s][i] = Settle(s, i)
    BY <1>1, <2>1, <2>2, <2>3, PutIs DEF SettledObj, FInv, VInv, VTypes
  <2>6. Invalid(kind[i], Settle(s, i)) BY <1>1, <2>3, <2>4, <2>5, LoadedValid
  <2>7. Invalid(kind[i], obj[s][i]) BY <1>1, <2>3, <2>6, SettledValid DEF Settle
  <2>8. QED BY <1>1, <2>1, <2>7 DEF FInv, FilledIn
<1>2. FInv /\ [FormNext]_allVars =>
        [\A s \in Session : \A i \in known[s] :
           (/\ puts' # puts /\ exists' /\ me[s] # Nobody /\ FormPut(s)
            /\ Sound(kind[i]) /\ ~Unfaithful(kind[i]) /\ ~Misplaced(kind[i], obj'[s][i])
            /\ Invalid(kind[i], FromDatastore(kind[i], stored'[i], me[s])))
             => i \in errors[s]]_allVars
  BY <1>1
<1>3. QED BY <1>2, Inductive, PTL DEF FormSpec, ErrorsAreComplete

-----------------------------------------------------------------------------
(***************************************************************************)
(* Pages.                                                                  *)
(***************************************************************************)
PTypes ==
  /\ page \in [Session -> [Prop -> Field]]
  /\ from \in [Session -> [Prop -> Value]]

PInv == FInv /\ PTypes

\* Whatever an instance holds, its page has fields that can be sent back.
LEMMA PageIs ==
  ASSUME FInv, NEW s \in Session, NEW i \in Prop
  PROVE  /\ FieldsOf(kind[i], obj[s][i]) \subseteq Field
         /\ OldField(kind[i], obj[s][i]) \in Field
<1>1. WellMade(kind[i]) /\ obj[s][i] \in Holds(kind[i]) BY Parts DEF FInv, VInv
<1>2. kind[i].type \in Types BY <1>1 DEF WellMade
<1>3. obj[s][i].of \in Nat
  <2>1. None.of \in Nat BY DEF None
  <2>2. QED BY <1>1, <1>2, <2>1, HoldsIs
<1>4. \A n \in Nat : Filled(n) \in Field BY DEF Filled, A, Field
<1>5. Blank \in Field /\ Garbage \in Field BY DEF Field
<1>6. \A n \in Nat : Second(n) \in Nat BY DEF Second
<1>7. TextOf(obj[s][i]) \in Field BY <1>3, <1>4, <1>5, <1>6 DEF TextOf
<1>8. now \in Nat BY ValueBoundAssumption DEF FInv, VInv, VTypes
<1>9. OldField(kind[i], obj[s][i]) \in {Blank, TextOf(obj[s][i]), Filled(Second(now))}
  BY DEF OldField
<1>10. FieldsOf(kind[i], obj[s][i]) \subseteq {Blank, Garbage, TextOf(obj[s][i])}
  BY DEF FieldsOf
<1>11. QED BY <1>4, <1>5, <1>6, <1>7, <1>8, <1>9, <1>10

\* The instances and their forms, after a step of the pages.
LEMMA PagesF ==
  ASSUME PInv, [PagesNext]_everything
  PROVE  FInv'
<1>1. CASE [FormNext]_allVars BY <1>1, StepF DEF PInv
<1>2. ASSUME NEW s \in Session, ObjectToForm(s) PROVE FInv'
  <2>1. UNCHANGED <<kind, known, me, obj, formVars>> /\ loaded[s] BY <1>2 DEF ObjectToForm
  <2>2. VInv'
    <3>1. CASE \E i \in known[s] : Follow(s, i) BY <3>1, FollowV DEF PInv, FInv
    <3>2. CASE UNCHANGED resolved
      <4>1. UNCHANGED allVars
        BY <1>2, <3>2 DEF ObjectToForm, allVars, vars, instanceVars
      <4>2. QED BY <4>1, StepV DEF PInv, FInv
    <3>3. QED BY <1>2, <3>1, <3>2 DEF ObjectToForm, Follow, Unshowable, Editable
  <2>3. UNCHANGED <<bound, data, errors, before>> BY <2>1 DEF formVars
  <2>4. QED BY <2>1, <2>2, <2>3 DEF PInv, FInv, FTypes, Instances, FilledIn, Lasting, Meant
<1>3. ASSUME NEW s \in Session, Finish(s) PROVE FInv'
  <2>1. /\ bound' = [bound EXCEPT ![s] = FALSE]
        /\ data' = [data EXCEPT ![s] = NoData]
        /\ errors' = [errors EXCEPT ![s] = {}]
        /\ before' = [before EXCEPT ![s] = Blanks]
        /\ UNCHANGED vars
    BY <1>3 DEF Finish
  <2>2. UNCHANGED <<kind, known, me, stored, exists, keyed, targets, obj, loaded, saved, resolved,
                    rest, now, assigned, fresh, mirror>>
    BY <2>1 DEF vars, entityVars, instanceVars, bounds, ghosts
  <2>3. VInv'
    BY <2>2 DEF PInv, FInv, VInv, VTypes, Instances, Entities, SessionInv, RefInv, FreshInv, MirrorInv
  <2>4. FTypes'
    <3>1. Blanks \in Instances /\ Instances' = Instances
      BY <2>2 DEF Blanks, Value, Instances, Holds
    <3>2. NoData \in [Prop -> Field] BY DEF NoData, Field
    <3>3. QED BY <2>1, <3>1, <3>2 DEF PInv, FInv, FTypes
  <2>5. \A q \in Session : FilledIn(q)'
    <3> TAKE q \in Session
    <3>1. CASE q = s BY <2>1, <3>1 DEF FilledIn, PInv, FInv, FTypes
    <3>2. CASE q # s
      <4>1. /\ bound'[q] = bound[q] /\ data'[q] = data[q] /\ errors'[q] = errors[q]
            /\ before'[q] = before[q]
        BY <2>1, <3>2 DEF PInv, FInv, FTypes
      <4>2. UNCHANGED <<kind, known, obj>> BY <2>2
      <4>3. FilledIn(q) BY DEF PInv, FInv
      <4>4. QED BY <4>1, <4>2, <4>3 DEF FilledIn, Lasting, Meant
    <3>3. QED BY <3>1, <3>2
  <2>6. QED BY <2>3, <2>4, <2>5 DEF FInv
<1>4. ASSUME NEW s \in Session, NEW i \in Prop, NEW input \in Inputs, Submit(s, i, input)
      PROVE  FInv'
  <2>1. [page[s] EXCEPT ![i] = input] \in [Prop -> Field]
    BY InputAssumption DEF PInv, PTypes
  <2>2. QED BY <1>4, <2>1, BindF DEF Submit, PInv
<1>5. ASSUME NEW s \in Session, AsUl(s) PROVE [FormNext]_allVars BY <1>5 DEF AsUl
<1>6. UNCHANGED everything => UNCHANGED allVars BY DEF everything
<1>7. QED BY <1>1, <1>2, <1>3, <1>4, <1>5, <1>6 DEF PagesNext

\* A step shows an instance on a page, or leaves the pages alone.
LEMMA PageStep ==
  ASSUME PInv, [PagesNext]_everything
  PROVE  \/ UNCHANGED pageVars
         \/ \E s \in Session, d \in [Prop -> Field] :
              /\ page' = [page EXCEPT ![s] = d] /\ from' = [from EXCEPT ![s] = obj[s]]
              /\ ~Garbled(obj[s], Prop) =>
                   \A j \in Prop :
                     d[j] \in {Blank, OldField(kind[j], obj[s][j])} \cup FieldsOf(kind[j], obj[s][j])
<1> DEFINE Fits(s, d) ==
             ~Garbled(obj[s], Prop) =>
               \A j \in Prop :
                 d[j] \in {Blank, OldField(kind[j], obj[s][j])} \cup FieldsOf(kind[j], obj[s][j])
           Shows(s, d) ==
             page' = [page EXCEPT ![s] = d] /\ from' = [from EXCEPT ![s] = obj[s]] /\ Fits(s, d)
<1>1. \A s \in Session, shown \in SUBSET Prop :
        Garbled(obj[s], shown) => Garbled(obj[s], Prop)
  BY DEF Garbled
<1>2. \A s \in Session : known[s] \subseteq Prop /\ Editable(s) \subseteq Prop
  BY DEF Editable, PInv, FInv, VInv, VTypes
<1>3. ASSUME NEW s \in Session, NEW d \in UlPages(s) PROVE d \in [Prop -> Field] /\ Fits(s, d)
  <2>1. CASE Garbled(obj[s], known[s])
    <3>1. d \in Sent BY <2>1 DEF UlPages
    <3>2. Garbled(obj[s], Prop) BY <1>1, <1>2, <2>1
    <3>3. QED BY <3>1, <3>2, SentIs
  <2>2. CASE ~Garbled(obj[s], known[s])
    <3>1. \A j \in Prop : d[j] \in {Blank} \cup FieldsOf(kind[j], obj[s][j])
      BY <2>2 DEF UlPages
    <3>2. \A j \in Prop : d[j] \in Field BY <3>1, PageIs DEF PInv, Field
    <3>3. d = [j \in Prop |-> d[j]] BY <2>2 DEF UlPages
    <3>4. QED BY <3>1, <3>2, <3>3
  <2>3. QED BY <2>1, <2>2
<1>4. ASSUME NEW s \in Session, NEW d \in OldPages(s) PROVE d \in [Prop -> Field] /\ Fits(s, d)
  <2>1. CASE Garbled(obj[s], Editable(s))
    <3>1. d \in Sent BY <2>1 DEF OldPages
    <3>2. Garbled(obj[s], Prop) BY <1>1, <1>2, <2>1
    <3>3. QED BY <3>1, <3>2, SentIs
  <2>2. CASE ~Garbled(obj[s], Editable(s))
    <3>1. d = [j \in Prop |-> IF j \in known[s] THEN OldField(kind[j], obj[s][j]) ELSE Blank]
      BY <2>2 DEF OldPages
    <3>2. d \in [Prop -> Field] BY <3>1, PageIs DEF PInv, Field
    <3>3. QED BY <3>1, <3>2
  <2>3. QED BY <2>1, <2>2
<1> HIDE DEF Fits
<1>5. ASSUME NEW s \in Session, AsUl(s) PROVE \E d \in [Prop -> Field] : Shows(s, d)
  BY <1>3, <1>5 DEF AsUl
<1>6. ASSUME NEW s \in Session, ObjectToForm(s)
      PROVE  UNCHANGED pageVars \/ \E d \in [Prop -> Field] : Shows(s, d)
  <2>1. UNCHANGED pageVars \/
        \E d \in OldPages(s) : page' = [page EXCEPT ![s] = d] /\ from' = [from EXCEPT ![s] = obj[s]]
    BY <1>6 DEF ObjectToForm
  <2>2. QED BY <1>4, <2>1
<1>7. UNCHANGED pageVars \/ \E s \in Session, d \in [Prop -> Field] : Shows(s, d)
  BY <1>5, <1>6 DEF PagesNext, Finish, Submit, everything
<1>8. QED BY <1>7 DEF Fits

LEMMA PagesP ==
  ASSUME PInv, [PagesNext]_everything
  PROVE  PTypes'
<1>1. CASE UNCHANGED pageVars BY <1>1 DEF pageVars, PInv, PTypes
<1>2. ASSUME NEW s \in Session, NEW d \in [Prop -> Field], page' = [page EXCEPT ![s] = d],
             from' = [from EXCEPT ![s] = obj[s]]
      PROVE  PTypes'
  <2>1. obj[s] \in [Prop -> Value] BY DEF PInv, FInv, VInv, VTypes, Instances
  <2>2. QED BY <1>2, <2>1 DEF PInv, PTypes
<1>3. QED BY <1>1, <1>2, PageStep

THEOREM PagesInv == PagesSpec => []PInv
<1>1. PagesInit => PInv
  <2> SUFFICES ASSUME PagesInit PROVE PInv OBVIOUS
  <2>1. FInv BY InitF DEF PagesInit
  <2>2. NoData \in [Prop -> Field] /\ Blanks \in [Prop -> Value]
    BY DEF NoData, Field, Blanks, Value
  <2>3. QED BY <2>1, <2>2 DEF PagesInit, PInv, PTypes
<1>2. PInv /\ [PagesNext]_everything => PInv' BY PagesF, PagesP DEF PInv
<1>3. QED BY <1>1, <1>2, PTL DEF PagesSpec

\* With pages as well, everything has its type (forms.js:110-122, 250-329).
THEOREM PagesTypes == PagesSpec => []PagesTypeOK
<1>1. PInv => PagesTypeOK
  BY DEF PInv, PTypes, FInv, VInv, VTypes, FTypes, TypeOK, PagesTypeOK
<1>2. QED BY <1>1, PagesInv, PTL

-----------------------------------------------------------------------------
\* What was shown comes back: the field made of a value makes it again.
LEMMA ComesBack ==
  ASSUME NEW p, NEW v \in Holds(p), v # None, TextOf(v) # Blank,
         p.type \in {"string", "number", "text", "date"}
  PROVE  FromForm(p, TextOf(v)) = GivenBack(v)
<1>1. CASE p.type \in {"string", "text"}
  <2>1. v = A("string", v.of) /\ v.of \in Nat
    BY <1>1 DEF Holds, Texts, PlainValues, PlainTypes, A, None
  <2>2. v.is = "string" BY <2>1 DEF A
  <2>3. TextOf(v) = Filled(v.of) BY <2>2 DEF TextOf
  <2>4. Filled(v.of) # Garbage /\ Filled(v.of).of = v.of BY DEF Filled, Garbage, A
  <2>5. GivenBack(v) = v BY <2>2 DEF GivenBack
  <2>6. FromForm(p, Filled(v.of)) = A("string", v.of) BY <1>1, <2>4 DEF FromForm
  <2>7. QED BY <2>1, <2>3, <2>5, <2>6
<1>2. CASE p.type = "number"
  <2>1. v = NaN \/ (v = A("number", v.of) /\ v.of \in Nat)
    BY <1>2 DEF Holds, PlainValues, PlainTypes, A, None
  <2>2. CASE v = NaN
    <3>1. v.is = "NaN" BY <2>2 DEF NaN, A
    <3>2. TextOf(v) = Garbage /\ GivenBack(v) = v BY <3>1 DEF TextOf, GivenBack
    <3>3. QED BY <1>2, <2>2, <3>2 DEF FromForm
  <2>3. CASE v = A("number", v.of)
    <3>1. v.is = "number" BY <2>3 DEF A
    <3>2. TextOf(v) = Filled(v.of) /\ GivenBack(v) = v BY <3>1 DEF TextOf, GivenBack
    <3>3. Filled(v.of) # Garbage /\ Filled(v.of).of = v.of BY DEF Filled, Garbage, A
    <3>4. QED BY <1>2, <2>3, <3>2, <3>3 DEF FromForm
  <2>4. QED BY <2>1, <2>2, <2>3
<1>3. CASE p.type = "date"
  <2>1. v = InvalidDate \/ (v = A("date", v.of) /\ v.of \in Nat)
    BY <1>3 DEF Holds, PlainTypes, A, None
  <2>2. CASE v = InvalidDate
    <3>1. v.is = "invalid date" BY <2>2 DEF InvalidDate, A
    <3>2. TextOf(v) = Garbage /\ GivenBack(v) = v BY <3>1 DEF TextOf, GivenBack
    <3>3. QED BY <1>3, <2>2, <3>2 DEF FromForm
  <2>3. CASE v = A("date", v.of)
    <3>1. v.is = "date" BY <2>3 DEF A
    <3>2. TextOf(v) = Filled(Second(v.of)) /\ GivenBack(v) = A("date", Second(v.of))
      BY <3>1 DEF TextOf, GivenBack
    <3>3. Filled(Second(v.of)) # Garbage /\ Filled(Second(v.of)).of = Second(v.of)
      BY DEF Filled, Garbage, A
    <3>4. QED BY <1>3, <3>2, <3>3 DEF FromForm
  <2>4. QED BY <2>1, <2>2, <2>3
<1>4. QED BY <1>1, <1>2, <1>3

\* A field shows the value its page was made from, if there was one and no
\* text is in the way.
PShown ==
  \A s \in Session, j \in Prop :
    /\ from[s][j] \in Holds(kind[j])
    /\ (~Garbled(from[s], Prop) /\ page[s][j] # Blank /\ from[s][j] # None) =>
         /\ kind[j].type \in {"string", "number", "text", "date"}
         /\ page[s][j] = TextOf(from[s][j])

LEMMA KindStays ==
  ASSUME [PagesNext]_everything
  PROVE  kind' = kind
<1>1. ASSUME NEW s \in Session, NEW d, Bind(s, d) PROVE kind' = kind BY <1>1 DEF Bind, Fill
<1>2. ASSUME NEW s \in Session, Put(s) PROVE kind' = kind BY <1>2 DEF Put
<1>3. CASE ValueStep
  BY <1>2, <1>3 DEF ValueStep, Construct, Load, Assign, Follow, Remove, TargetRemoved, Tick
<1>4. CASE FormNext BY <1>1, <1>2, <1>3, <1>4 DEF FormNext, FormPut, Otherwise
<1>5. ASSUME NEW s \in Session, AsUl(s) \/ ObjectToForm(s) \/ Finish(s) PROVE kind' = kind
  BY <1>5 DEF AsUl, ObjectToForm, Finish, allVars, vars
<1>6. CASE UNCHANGED everything BY <1>6 DEF everything, allVars, vars
<1>7. QED BY <1>1, <1>4, <1>5, <1>6 DEF PagesNext, Submit

LEMMA ShownStays ==
  ASSUME PInv, PShown, [PagesNext]_everything
  PROVE  PShown'
<1>1. kind' = kind BY KindStays
<1>2. CASE UNCHANGED pageVars BY <1>1, <1>2 DEF pageVars, PShown, Holds, Garbled
<1>3. ASSUME NEW s \in Session, NEW d \in [Prop -> Field], page' = [page EXCEPT ![s] = d],
             from' = [from EXCEPT ![s] = obj[s]],
             ~Garbled(obj[s], Prop) =>
               \A j \in Prop :
                 d[j] \in {Blank, OldField(kind[j], obj[s][j])} \cup FieldsOf(kind[j], obj[s][j])
      PROVE  PShown'
  <2> SUFFICES ASSUME NEW q \in Session, NEW j \in Prop
               PROVE  /\ from'[q][j] \in Holds(kind[j])
                      /\ (~Garbled(from'[q], Prop) /\ page'[q][j] # Blank /\ from'[q][j] # None) =>
                           /\ kind[j].type \in {"string", "number", "text", "date"}
                           /\ page'[q][j] = TextOf(from'[q][j])
    BY <1>1 DEF PShown, Holds, Garbled
  <2>1. CASE q # s
    <3>1. page'[q] = page[q] /\ from'[q] = from[q] BY <1>3, <2>1 DEF PInv, PTypes
    <3>2. QED BY <3>1 DEF PShown
  <2>2. CASE q = s
    <3>1. page'[q] = d /\ from'[q] = obj[q] BY <1>3, <2>2 DEF PInv, PTypes
    <3>2. obj[q][j] \in Holds(kind[j]) BY Parts DEF PInv, FInv, VInv
    <3>3. ASSUME d[j] # Blank, obj[q][j] # None, ~Garbled(obj[q], Prop)
          PROVE  /\ kind[j].type \in {"string", "number", "text", "date"}
                 /\ d[j] = TextOf(obj[q][j])
      <4>1. CASE d[j] = OldField(kind[j], obj[q][j]) BY <3>3, <4>1 DEF OldField
      <4>2. CASE d[j] \in FieldsOf(kind[j], obj[q][j]) BY <3>3, <4>2 DEF FieldsOf
      <4>3. QED BY <1>3, <2>2, <3>3, <4>1, <4>2
    <3>4. QED BY <3>1, <3>2, <3>3
  <2>3. QED BY <2>1, <2>2
<1>4. QED BY <1>2, <1>3, PageStep

\* What a user does not touch does no harm, however old the page
\* (forms.js:110-122, 189-191, 250-342).
THEOREM UntouchedStay == PagesSpec => UntouchedFieldsStay
<1>1. PagesInit => PShown
  <2>1. \A p : None \in Holds(p) BY DEF Holds
  <2>2. QED BY <2>1 DEF PagesInit, PShown, Blanks
<1>2. PInv /\ PShown /\ [PagesNext]_everything => PShown' BY ShownStays
<1>3. ASSUME PInv, PShown, NEW s \in Session, NEW i \in Prop, NEW j \in Prop, i # j,
             from[s][j] # None, ~Garbled(from[s], Prop), NEW input \in Inputs, Submit(s, i, input)
      PROVE  \/ Same(obj'[s][j], obj[s][j])
             \/ Same(obj'[s][j], GivenBack(from[s][j]))
  <2> DEFINE d == [page[s] EXCEPT ![i] = input]
  <2>1. d[j] = page[s][j] BY <1>3 DEF PInv, PTypes
  <2>2. obj'[s] = FormToObject(s, d)
    BY <1>3 DEF Submit, Bind, Fill, PInv, FInv, VInv, VTypes
  <2> HIDE DEF d
  <2>3. CASE j \in Assigns(s, d)
    <3>1. obj'[s][j] = FromForm(kind[j], page[s][j]) BY <2>1, <2>2, <2>3 DEF FormToObject
    <3>2. page[s][j] # Blank BY <2>1, <2>3 DEF Assigns, Taken, TakesInput
    <3>3. /\ from[s][j] \in Holds(kind[j])
          /\ kind[j].type \in {"string", "number", "text", "date"}
          /\ page[s][j] = TextOf(from[s][j])
      BY <1>3, <3>2 DEF PShown
    <3>4. obj'[s][j] = GivenBack(from[s][j]) BY <1>3, <3>1, <3>2, <3>3, ComesBack
    <3>5. QED BY <3>4 DEF Same
  <2>4. CASE j \notin Assigns(s, d)
    <3>1. obj'[s][j] = obj[s][j] BY <2>2, <2>4 DEF FormToObject
    <3>2. QED BY <3>1 DEF Same
  <2>5. QED BY <2>3, <2>4
<1>4. PInv /\ PShown /\ [PagesNext]_everything =>
        [\A s \in Session, i, j \in Prop :
           (/\ i # j /\ from[s][j] # None /\ ~Garbled(from[s], Prop)
            /\ \E input \in Inputs : Submit(s, i, input))
             => \/ Same(obj'[s][j], obj[s][j])
                \/ Same(obj'[s][j], GivenBack(from[s][j]))]_everything
  BY <1>3
<1>5. QED BY <1>1, <1>2, <1>4, PagesInv, PTL DEF PagesSpec, UntouchedFieldsStay
=============================================================================
