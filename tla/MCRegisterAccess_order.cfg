SPECIFICATION Spec
CONSTANTS
  Ratio = 10
  Lines = {"a", "b"}
  Words = {"lo", "hi"}
  Values = {"zero", "one"}
  Zero = "zero"
  Apart = 6
  Requests <- MCRequests
  Hasty = FALSE
  Stalls = FALSE
INVARIANT TypeOK
PROPERTY ImplementsRegisterFile
INVARIANT AccessesApart
PROPERTY EveryRequestServed
