----------------------------- MODULE FormPages -----------------------------
(***************************************************************************)
(* The pages on which src/lib/google/appengine/ext/db/forms.js shows an    *)
(* instance, by asUl of a form (110-122, 182-242) or by objectToForm (250- *)
(* 329), and what becomes of them: the user sends a page back, with some   *)
(* fields changed, to a request that binds a new form of ModelForm to      *)
(* them, perhaps long after the entity has been written again.             *)
(***************************************************************************)
EXTENDS ModelForm

CONSTANT
  Marked    \* texts that HTML takes for something else: with quotes, markup,
            \* character references, or line breaks

ASSUME MarkedAssumption == Marked \subseteq Nat \ {0}

VARIABLES
  page,     \* the fields the user sees, Blank when empty or not shown
  from      \* the values of the instance it was made from

pageVars == <<page, from>>
everything == <<allVars, pageVars>>

PagesInit ==
  /\ FormInit
  /\ page = [s \in Session |-> NoData]
  /\ from = [s \in Session |-> Blanks]

-----------------------------------------------------------------------------
\* Texts are put between quotes and tags as they are (189-191, 216-226, 240-
\* 242, 268-299): a marked one may end its field, and make of the page what
\* it likes.
Garbled(o, shown) == \E i \in shown : kind[i].type \in {"string", "text"} /\ o[i].of \in Marked

\* Two ticks of the clock make a second, and the text of a date has seconds.
Second(n) == 2 * (n \div 2)

\* A slip of TextOf: values are put into the page as they are.
ValueItself(v) == v

\* A field with the text of a value.  Empty texts make empty fields.
TextOf(v) ==
  CASE v = None \/ (v.is = "string" /\ v.of = 0) -> Blank
    [] v.is \in {"NaN", "invalid date"} -> Garbage
    [] v.is = "date" -> Filled(Second(v.of))
    [] OTHER -> Filled(v.of)

\* getFormField: strings, texts and integers have a field, hidden or not.
\* Floats are numbers without one.  An integer that is None reads
\* "undefined", which browsers that know number fields empty.
FieldsOf(p, v) ==
  CASE p.type \in {"string", "text"} -> {TextOf(v)}
    [] p.type = "number" -> {Blank, IF v = None THEN Garbage ELSE TextOf(v)}
    [] OTHER -> {Blank}

\* A slip of UlPages: as with the closures commented out at 85-92, every
\* field shows the last property.
UlPagesOfLast(s) ==
  LET fields == [i \in Prop |-> FieldsOf(kind[i], obj[s][Width])]
  IN {d \in [Prop -> UNION {fields[i] : i \in Prop}] : \A i \in Prop : d[i] \in fields[i]}

UlPages(s) ==
  LET fields == [i \in Prop |-> IF i \in known[s] THEN FieldsOf(kind[i], obj[s][i]) ELSE {Blank}]
  IN IF Garbled(obj[s], known[s]) THEN Sent
     ELSE {d \in [Prop -> UNION {fields[i] : i \in Prop}] : \A i \in Prop : d[i] \in fields[i]}

\* form.asUl(), or form.field(name) of each property.
AsUl(s) ==
  /\ bound[s]
  /\ \E d \in UlPages(s) : page' = [page EXCEPT ![s] = d]
  /\ from' = [from EXCEPT ![s] = obj[s]]
  /\ UNCHANGED allVars

\* objectToForm: the editable properties of some classes.  A date that is
\* None is shown as the present.
OldField(p, v) ==
  IF ~p.editable THEN Blank
  ELSE CASE p.type \in {"string", "number", "text"} -> TextOf(v)
         [] p.type = "date" -> IF v = None THEN Filled(Second(now)) ELSE TextOf(v)
         [] OTHER -> Blank

Editable(s) == {i \in known[s] : kind[i].editable}
OldPages(s) ==
  IF Garbled(obj[s], Editable(s)) THEN Sent
  ELSE {[i \in Prop |-> IF i \in known[s] THEN OldField(kind[i], obj[s][i]) ELSE Blank]}

\* The references at which it throws: keyToString, asked for the value and
\* for each entity there is to choose from, is not exported by db.js.
Unshowable(s) ==
  {i \in Editable(s) : kind[i].type = "reference" /\ (obj[s][i] # None \/ targets # {})}

\* objectToForm(obj).  The value of the reference has been read by then.
ObjectToForm(s) ==
  /\ loaded[s]
  /\ IF Unshowable(s) # {}
     THEN /\ \E i \in Unshowable(s) :
               /\ \A j \in Unshowable(s) : i <= j
               /\ resolved' = IF IsReference(s, i) /\ ~Dangling(s, i)
                              THEN [resolved EXCEPT ![s][i] = Object(s, i)] ELSE resolved
          /\ UNCHANGED pageVars
     ELSE /\ \E d \in OldPages(s) : page' = [page EXCEPT ![s] = d]
          /\ from' = [from EXCEPT ![s] = obj[s]]
          /\ UNCHANGED resolved
  /\ UNCHANGED <<kind, known, me, entityVars, obj, loaded, saved, rest, bounds, ghosts, formVars>>

\* The request of the form is over: the user has its page.
Finish(s) ==
  /\ bound[s]
  /\ bound' = [bound EXCEPT ![s] = FALSE]
  /\ data' = [data EXCEPT ![s] = NoData]
  /\ errors' = [errors EXCEPT ![s] = {}]
  /\ before' = [before EXCEPT ![s] = Blanks]
  /\ UNCHANGED <<vars, pageVars>>

\* The user sends the page, one of its fields changed.
Submit(s, i, input) ==
  /\ page[s] # NoData
  /\ Bind(s, [page[s] EXCEPT ![i] = input])
  /\ UNCHANGED pageVars

PagesNext ==
  \/ FormNext /\ UNCHANGED pageVars
  \/ \E s \in Session :
       \/ AsUl(s) \/ ObjectToForm(s) \/ Finish(s)
       \/ \E i \in Prop, input \in Inputs : Submit(s, i, input)

PagesSpec == PagesInit /\ [][PagesNext]_everything

-----------------------------------------------------------------------------
\* Type invariant of the pages (forms.js:110-122, 250-329).
PagesTypeOK ==
  /\ TypeOK
  /\ page \in [Session -> [Prop -> Field]]
  /\ from \in [Session -> [Prop -> Value]]

\* A value as a page gives it back.
GivenBack(v) == IF v.is = "date" THEN A("date", Second(v.of)) ELSE v

\* A field the user did not touch does no harm (forms.js:110-122, 189-191,
\* 250-342): whoever sends a page back, whenever, and whatever has become of
\* the entity, the property it leaves in the instance is what was there, or
\* what the page was made from, up to the milliseconds of a date; never a
\* value nobody has given it.  Pages with a marked text are let off, which
\* may come back as anything, and properties that were None: a date is then
\* shown as the present, and an integer as "undefined".
UntouchedFieldsStay ==
  [][\A s \in Session, i, j \in Prop :
       (/\ i # j /\ from[s][j] # None /\ ~Garbled(from[s], Prop)
        /\ \E input \in Inputs : Submit(s, i, input))
         => \/ Same(obj'[s][j], obj[s][j])
            \/ Same(obj'[s][j], GivenBack(from[s][j]))]_everything
=============================================================================
