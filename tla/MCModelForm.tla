---------------------------- MODULE MCModelForm ----------------------------
\* ModelForm on small instances: kinds of two properties that between them
\* have every property class and option.
EXTENDS ModelForm, TLC

MCDomainOf == [u \in Users |-> u]

Plain(type) == Property(type, None, "no", FALSE, TRUE)
Hidden(type, default, auto) == Property(type, default, auto, FALSE, FALSE)

MCKinds == {
  <<Property("string", None, "no", TRUE, FALSE), Property("date", None, "first", FALSE, TRUE)>>,
  <<Property("number", A("number", 1), "no", TRUE, TRUE), Hidden("geopt", A("geopt", 1), "no")>>,
  <<Property("text", None, "no", TRUE, TRUE), Property("list", None, "no", TRUE, TRUE)>>,
  <<Plain("reference"), Property("string", A("string", 1), "no", FALSE, TRUE)>>,
  <<Checked("string", None, "no", FALSE, TRUE, {A("string", 1)}, {}),
    Checked("date", None, "no", FALSE, TRUE, {}, {A("date", 1)})>>,
  <<Hidden("boolean", A("boolean", 1), "no"), Plain("reference")>>,
  <<Property("date", None, "no", TRUE, TRUE), Hidden("geopt", None, "no")>>,
  <<Hidden("user", None, "always"), Hidden("user", None, "first")>>,
  <<Hidden("date", A("date", 0), "always"), Plain("blob")>>,
  <<Plain("user"), Plain("geopt")>>}

MCExtended == {k \in MCKinds : k[1].type = "string"}

Symmetry == Permutations(Session)

MCInputs == {Blank, Garbage, Filled(1)}
=============================================================================
