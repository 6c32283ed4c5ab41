SPECIFICATION Spec
CONSTANTS
  r1 = r1
  r2 = r2
  a1 = a1
  a2 = a2
  e1 = e1
  n1 = n1
  n2 = n2
  Regs <- MC_OneReg
  Acts <- MC_Acts
  NoReg = NoReg
  EmailOf <- MC_EmailOf
  NameOf <- MC_NameOf
  MaxRetries = 3
  Faults = {"cancel"}
INVARIANT
  FailedMailRollsBack
CHECK_DEADLOCK FALSE
