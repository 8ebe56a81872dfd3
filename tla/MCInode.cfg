SPECIFICATION Spec
CONSTANTS
  Proc = {p1, p2}
  NInode = 3
  Name = {"a", "b"}
  Calls <- MCCalls
  Starts <- MCStarts
  MaxCalls = 3
SYMMETRY Sym
INVARIANTS TableInv TreeInv DurableLinks NoLeak NoPanic NoDeadlock
