SPECIFICATION Spec
CONSTANTS
  n1 = n1  n2 = n2  e1 = e1  e2 = e2  r1 = r1  r2 = r2  r3 = r3
  Seed = Seed  NoName = NoName  NoEmail = NoEmail  NoAccount = NoAccount  Unset = Unset
  Names <- TwoNames
  Emails <- OneEmail
  Reqs <- ThreeReqs
SYMMETRY Alike
INVARIANTS TypeOK InStep FailedLeavesNoTrace
CHECK_DEADLOCK FALSE
