---------------------------- MODULE MCFormPages ----------------------------
\* FormPages on small instances: kinds whose properties have fields on one
\* page, on the other, or on none.
EXTENDS FormPages

MCDomainOf == [u \in Users |-> u]

Shown(type) == Property(type, None, "no", FALSE, TRUE)
Hidden(type) == Property(type, None, "no", FALSE, FALSE)

MCKinds == {
  <<Shown("string"), Shown("number")>>,
  <<Hidden("string"), Shown("date")>>,
  <<Shown("text"), Shown("reference")>>,
  <<Hidden("number"), Hidden("boolean")>>}

\* A text that is not one of those filled in is marked.
MCMarked == {FromForm(Shown("string"), Garbage).of}

MCInputs == {Blank, Garbage, Filled(1)}
=============================================================================
