\* One user's pages, sent back after other writes.
CONSTANTS
  Session = {s1}
  Width = 2
  Kinds <- MCKinds
  Extended = {}
  Users = {1}
  Nobody = Nobody
  DomainOf <- MCDomainOf
  Target = {1}
  MaxTime = 1
  MaxPuts = 1
  MaxAssigns = 1
  MaxDeaths = 1
  Inputs <- MCInputs
  MaxForms = 1
  Marked <- MCMarked
SPECIFICATION PagesSpec
INVARIANT
  PagesTypeOK
PROPERTY
  UntouchedFieldsStay
CHECK_DEADLOCK FALSE
