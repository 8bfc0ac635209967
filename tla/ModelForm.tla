----------------------------- MODULE ModelForm -----------------------------
(***************************************************************************)
(* ModelForm of src/lib/google/appengine/ext/db/forms.js (66-169, 331-342) *)
(* over the instances of EntityValues: a request binds a form to what the  *)
(* user sent and to an instance, which the constructor fills in and        *)
(* validates; isValid() tells whether it found errors; put() puts the      *)
(* instance.                                                               *)
(***************************************************************************)
EXTENDS EntityValues, FiniteSets

CONSTANTS
  Inputs,    \* what a user may send for a field
  MaxForms   \* bound: forms that requests have at a time

\* A field as it is sent.
Field == {Blank, Garbage} \cup [is : {"filled"}, of : Nat]

ASSUME InputAssumption == Inputs \subseteq Field

VARIABLES
  bound,     \* whether the request has a form
  data,      \* what the user sent
  errors,    \* the properties its form has errors for
  before     \* the instance as it was when the form was bound

NoData == [i \in Prop |-> Blank]

formVars == <<bound, data, errors, before>>
allVars == <<vars, formVars>>

FormInit ==
  /\ Init
  /\ bound = [s \in Session |-> FALSE]
  /\ data = [s \in Session |-> NoData]
  /\ errors = [s \in Session |-> {}]
  /\ before = [s \in Session |-> Blanks]

-----------------------------------------------------------------------------
\* A slip of TakesInput: the fields forms do not show are taken too.
TakesHidden(p, input) == input # Blank

\* formToObject (331-342) takes the fields of editable properties that are
\* not empty, in order, until one cannot be converted.
TakesInput(p, input) == p.editable /\ input # Blank
Taken(s, d) == {i \in known[s] : TakesInput(kind[i], d[i])}
Failing(s, d) == {i \in Taken(s, d) : CannotConvert(kind[i], d[i])}
Assigns(s, d) == {i \in Taken(s, d) : \A j \in Failing(s, d) : i < j}
FormToObject(s, d) ==
  [i \in Prop |-> IF i \in Assigns(s, d) THEN FromForm(kind[i], d[i]) ELSE obj[s][i]]

Kept(s, d) == [i \in Prop |-> IF i \in Assigns(s, d) THEN NoObject ELSE resolved[s][i]]

\* A slip of Errors: only the fields forms show are validated.
ErrorsShown(s, o, held) == {i \in known[s] : kind[i].editable /\ (Lost(o, held, i) \/ Invalid(kind[i], o[i]))}

\* validate (124-141): a reference that cannot be read is an error as well,
\* and one that can holds its object from now on.
Errors(s, o, held) == {i \in known[s] : Lost(o, held, i) \/ Invalid(kind[i], o[i])}
Read(o, held) ==
  [i \in Prop |-> IF /\ kind[i].type = "reference" /\ o[i] # None
                     /\ held[i] = NoObject /\ ~Lost(o, held, i)
                  THEN o[i].of ELSE held[i]]

CanBind(s) == ~bound[s] /\ Cardinality({r \in Session : bound[r]}) < MaxForms

Fill(s, o, held, assigning) ==
  /\ obj' = [obj EXCEPT ![s] = o]
  /\ resolved' = [resolved EXCEPT ![s] = held]
  /\ loaded' = [loaded EXCEPT ![s] = TRUE]
  /\ assigned' = [assigned EXCEPT ![s] = @ \cup assigning]
  /\ mirror' = [mirror EXCEPT ![s] = @ /\ obj' = obj]
  /\ UNCHANGED <<kind, known, me, entityVars, saved, rest, bounds, fresh>>

\* new MyForm(data, {instance: obj}), or new MyForm(data).  When a field
\* cannot be converted the constructor throws, the fields before it having
\* been taken, and there is no form, nor an instance if there was none.
\* Without data it throws as well, unless no property is editable, when it
\* is as if no field had been filled in.
Bind(s, d) ==
  LET o == FormToObject(s, d)
      held == Kept(s, d)
  IN /\ CanBind(s)
     /\ loaded[s] \/ Makes(s)
     /\ IF Failing(s, d) # {}
        THEN loaded[s] /\ Fill(s, o, held, Assigns(s, d)) /\ UNCHANGED formVars
        ELSE /\ Fill(s, o, Read(o, held), Assigns(s, d))
             /\ bound' = [bound EXCEPT ![s] = TRUE]
             /\ data' = [data EXCEPT ![s] = d]
             /\ before' = [before EXCEPT ![s] = obj[s]]
             /\ errors' = [errors EXCEPT ![s] = Errors(s, o, held)]

\* form.put(): the errors are not looked at (160-169).  The application may
\* have asked isValid() first.
FormPut(s) ==
  /\ bound[s]
  /\ Put(s)
  /\ UNCHANGED formVars

\* The other operations on instances.  One that gives the instance of a form
\* other values, by assigning, loading or putting it, leaves the form behind.
Otherwise ==
  /\ ValueStep
  /\ LET left == {s \in Session : obj'[s] # obj[s]}
         Without(f, none) == [s \in Session |-> IF s \in left THEN none ELSE f[s]]
     IN /\ bound' = Without(bound, FALSE)
        /\ data' = Without(data, NoData)
        /\ errors' = Without(errors, {})
        /\ before' = Without(before, Blanks)

Sent == [Prop -> Inputs]

FormNext ==
  \/ \E s \in Session : FormPut(s) \/ \E d \in Sent : Bind(s, d)
  \/ Otherwise

FormSpec == FormInit /\ [][FormNext]_allVars

-----------------------------------------------------------------------------
\* The entity and the instances, with values of the classes of the kind.
Entities == {e \in [Prop -> Value] : \A i \in Prop : e[i] \in Stores(kind[i])}
Instances == {o \in [Prop -> Value] : \A i \in Prop : o[i] \in Holds(kind[i])}

\* Type invariant of the instances and their forms (forms.js:67-80).
TypeOK ==
  /\ kind \in Kinds
  /\ known \in [Session -> SUBSET Prop]
  /\ me \in [Session -> Users \cup {Nobody}]
  /\ stored \in Entities
  /\ exists \in BOOLEAN
  /\ keyed \in BOOLEAN
  /\ obj \in [Session -> Instances]
  /\ resolved \in [Session -> [Prop -> Target \cup {NoObject}]]
  /\ rest \in [Session -> Entities]
  /\ targets \subseteq Target
  /\ now \in 0..MaxTime
  /\ loaded \in [Session -> BOOLEAN]
  /\ saved \in [Session -> BOOLEAN]
  /\ fresh \in [Session -> BOOLEAN]
  /\ mirror \in [Session -> BOOLEAN]
  /\ assigned \in [Session -> SUBSET Prop]
  /\ bound \in [Session -> BOOLEAN]
  /\ data \in [Session -> [Prop -> Field]]
  /\ errors \in [Session -> SUBSET Prop]
  /\ before \in [Session -> Instances]

\* The value a form means a property to have.
Meant(s, i) ==
  IF kind[i].editable /\ data[s][i] # Blank THEN FromForm(kind[i], data[s][i]) ELSE before[s][i]

\* What a put through a form stores is what the user filled in and, for the
\* fields left empty or not shown, what the instance held before the form
\* was bound, defaults and automatic values apart (forms.js:77, 160-169,
\* 331-342), whatever other requests have written in between.  A text sent
\* for a list or a point (196-198, 336) is known to be stored as another
\* value, and blobs are known to be loaded as another.
FormChangesWhatWasFilledIn ==
  [][\A s \in Session : \A i \in known[s] :
       (/\ puts' # puts /\ exists' /\ me[s] # Nobody /\ FormPut(s)
        /\ ~Unfaithful(kind[i]) /\ ~Misplaced(kind[i], Meant(s, i))
        /\ kind[i].auto = "no" /\ ~(before[s][i] = None /\ kind[i].defaultValue # None))
         => Same(FromDatastore(kind[i], stored'[i], me[s]), Meant(s, i))]_allVars

\* A property that fails no validation by itself: its default and automatic
\* values pass, and so does what an empty list, which the datastore forgets,
\* and a user, whose domain it forgets, become.
Sound(p) ==
  /\ p.defaultValue # None => ~Invalid(p, p.defaultValue)
  /\ p.auto # "no" => p.choices = {} /\ p.rejected = {}
  /\ p.type \in {"list", "user"} => p.rejected = {}
  /\ p.type = "list" => ~p.required

\* isValid() can be relied on (forms.js:105-108, 124-141): the entity that a
\* put through a form stores fails no validation that the form has not
\* reported, so that a form without errors never stores an entity without
\* one of its required properties, or with a value that is none of its choices.
\* Texts in lists and points, which are stored as other values, are let off.
ErrorsAreComplete ==
  [][\A s \in Session : \A i \in known[s] :
       (/\ puts' # puts /\ exists' /\ me[s] # Nobody /\ FormPut(s)
        /\ Sound(kind[i]) /\ ~Unfaithful(kind[i]) /\ ~Misplaced(kind[i], obj'[s][i])
        /\ Invalid(kind[i], FromDatastore(kind[i], stored'[i], me[s])))
         => i \in errors[s]]_allVars
=============================================================================
