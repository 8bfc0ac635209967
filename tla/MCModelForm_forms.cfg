\* Two requests, kinds of two properties, two puts.
CONSTANTS
  Session = {s1, s2}
  Width = 2
  Kinds <- MCKinds
  Extended <- MCExtended
  Users = {1, 2}
  Nobody = Nobody
  DomainOf <- MCDomainOf
  Target = {1, 2}
  MaxTime = 1
  MaxPuts = 2
  MaxAssigns = 1
  MaxDeaths = 1
  Inputs <- MCInputs
  MaxForms = 1
SYMMETRY Symmetry
SPECIFICATION FormSpec
INVARIANTS
  TypeOK
  
PROPERTIES
  OnlyAssignedChanges
  FormChangesWhatWasFilledIn
  ErrorsAreComplete
CHECK_DEADLOCK FALSE
