--------------------------- MODULE PropertyTypes ---------------------------
(***************************************************************************)
(* What the property classes of src/lib/google/appengine/ext/db/           *)
(* properties.js make of a value: on its way to the datastore              *)
(* (getValueForDatastore), back (makeValueFromDatastore), when it is       *)
(* validated, and when it comes from a form field (makeValueFromForm of    *)
(* ext/db/forms.js).  Operators only.                                      *)
(*                                                                         *)
(* A value is a record: what it is, a JavaScript type or a Java class, and *)
(* which one of them, 0 being the empty string, zero, false or the empty   *)
(* list.  The code never tells undefined from null, nor a property an      *)
(* entity lacks from one that is null: all are None.                       *)
(***************************************************************************)
EXTENDS Integers

CONSTANTS
  Nobody,      \* in place of a user when no one is signed in
  DomainOf     \* the authentication domain of each user

None == [is |-> "none", of |-> 0]
A(type, n) == [is |-> type, of |-> n]
AUser(u, d) == [is |-> "user", of |-> u, domain |-> d]
NaN == A("NaN", 0)
InvalidDate == A("invalid date", 0)

\* A property: its class, the options that matter, and whether forms show
\* it.  auto is autoNow or autoCurrentUser ("always"), autoNowAdd or
\* autoCurrentUserAdd ("first"), or neither.  choices is empty when there are
\* none, and the validator throws on the values in rejected.
Checked(type, default, auto, required, editable, choices, rejected) ==
  [type |-> type, defaultValue |-> default, auto |-> auto,
   required |-> required, editable |-> editable,
   choices |-> choices, rejected |-> rejected]
Property(type, default, auto, required, editable) ==
  Checked(type, default, auto, required, editable, {}, {})

\* The types whose code is that of StringProperty (80-219, 575-640).
PlainTypes == {"string", "number", "boolean"}

Falsy(v) == v = None \/ v = NaN \/ (v.is \in PlainTypes /\ v.of = 0)
Truthy(v) == ~Falsy(v)
Or(v, w) == IF Truthy(v) THEN v ELSE w
IfAny(v, w) == IF v = None THEN None ELSE w

\* fromJavaUser (users.js:41-70): email and id are the stored user's, the
\* rest that of the user signed in, and it throws when there is none.
FromJavaUser(x, me) == AUser(x.of, DomainOf[me])
ToJavaUser(v) == [v EXCEPT !.is = "User"]

-----------------------------------------------------------------------------
\* Whether the property fills itself in at this put.
FillsIn(p, saved) == p.auto = "always" \/ (p.auto = "first" /\ ~saved)

\* The value getValueForDatastore leaves in the instance.
Settled(p, v, saved, now, me) ==
  CASE p.type = "user" -> IF FillsIn(p, saved) THEN AUser(me, DomainOf[me]) ELSE v
    [] p.type = "date" ->
         IF FillsIn(p, saved) THEN A("date", now) ELSE IF v = None THEN p.defaultValue ELSE v
    [] p.type \in PlainTypes \cup {"text"} -> IF v = None THEN p.defaultValue ELSE v
    [] OTHER -> v

\* forms.js has no conversion for these classes, and takes their fields
\* unless editable is set to false: the instance is left with the text.
Unconverted == {"list", "user", "blob", "geopt"}
Misplaced(p, v) == p.type \in Unconverted /\ v.is = "string"

\* getValueForDatastore throws: nobody is signed in, a text has no
\* toJavaUser(), a point is missing, a Blob is not made of bytes, a date
\* cannot be converted, a reference cannot be resolved.
CannotStore(p, v, saved, me, dangling) ==
  CASE p.type = "user" -> IF FillsIn(p, saved) THEN me = Nobody ELSE Misplaced(p, v)
    [] p.type = "date" -> ~FillsIn(p, saved) /\ v = InvalidDate
    [] p.type = "geopt" -> Or(v, p.defaultValue) = None
    [] p.type = "blob" -> v.is # "bytes"
    [] p.type = "reference" -> dangling
    [] OTHER -> FALSE

\* The items of a list: a text has characters.  A text has no coordinates,
\* and makes the point 0, which has none either.
Items(v) == A(IF v.is \in {"string", "chars"} THEN "Chars" ELSE "List", v.of)
Point(v) == A("GeoPt", IF v.is = "string" THEN 0 ELSE v.of)

\* What getValueForDatastore returns, v being the value of the instance and
\* settled the one it leaves there; None removes the property.
ForDatastore(p, v, settled) ==
  CASE p.type \in PlainTypes -> settled
    [] p.type = "text" -> IF v = None THEN settled ELSE A("Text", v.of)
    [] p.type = "list" -> Items(Or(v, p.defaultValue))
    [] p.type = "geopt" -> Point(Or(v, p.defaultValue))
    [] p.type = "user" -> IfAny(settled, ToJavaUser(settled))
    [] p.type = "date" -> IfAny(settled, A("Date", settled.of))
    [] p.type = "reference" -> IfAny(settled, A("Key", settled.of))
    [] p.type = "blob" -> IfAny(settled, A("Blob", settled.of))

\* The elements of a list that was stored.  The datastore keeps an empty one
\* as null.
Elements(x) ==
  IF x.is = "Chars" THEN A("chars", x.of) ELSE IF x.of = 0 THEN None ELSE A("list", x.of)

\* makeValueFromDatastore.  For a blob, ByteString.wrap is given the Blob
\* itself, and not its bytes as in the code commented out (519-528): if it
\* does not throw, what it makes of it has no bytes.
FromDatastore(p, x, me) ==
  IfAny(x,
    CASE p.type \in PlainTypes -> x
      [] p.type = "text" -> A("string", x.of)
      [] p.type = "list" -> Elements(x)
      [] p.type = "geopt" -> A("geopt", x.of)
      [] p.type = "user" -> FromJavaUser(x, me)
      [] p.type = "date" -> A("date", x.of)
      [] p.type = "reference" -> A("key", x.of)
      [] p.type = "blob" -> A("wrapped", x.of))

\* ... throws on a user when nobody is signed in, and on a text stored as a
\* plain string, which has no getValue().
CannotLoad(p, x, me) ==
  \/ p.type = "user" /\ x # None /\ me = Nobody
  \/ p.type = "text" /\ x # None /\ x.is # "Text"

-----------------------------------------------------------------------------
\* empty and validate (51-71, 110-112, 564-566).  Choices are compared by ==,
\* which finds no object: a date, a list or a key is never one of them.
Empty(p, v) == v = None \/ (p.type \in {"string", "text"} /\ v = A("string", 0))
Chosen(p, v) == p.choices = {} \/ (v \in p.choices /\ v.is \in PlainTypes)
Invalid(p, v) ==
  \/ IF Empty(p, v) THEN p.required ELSE ~Chosen(p, v)
  \/ v \in p.rejected

\* Form fields: absent or empty, not of the type of the property, or a text
\* for the n-th value of it.
Blank == A("blank", 0)
Garbage == A("garbage", 0)
Filled(n) == A("filled", n)

\* forms.js:196-238.
CannotConvert(p, input) == p.type = "reference" /\ input = Garbage

\* A slip of FromForm: a field is taken as it was sent.
FromFormAsSent(p, input) == input

FromForm(p, input) ==
  CASE p.type = "number" -> IF input = Garbage THEN NaN ELSE A("number", input.of)
    [] p.type = "date" -> IF input = Garbage THEN InvalidDate ELSE A("date", input.of)
    [] p.type = "reference" -> A("key", input.of)
    [] OTHER -> A("string", IF input = Garbage THEN 9 ELSE input.of)
=============================================================================
