SPECIFICATION Spec
CONSTANTS
  n1 = n1
  n2 = n2
  tick1 = tick1
  ask1 = ask1
  tick2 = tick2
  NoOwner = NoOwner
  Owners <- TwoNodes
  Calls <- ThreeCalls
  OwnerOf <- InstanceOf
  Skew <- AheadC
  MaxSkew = 1
  TTL = 1
  MaxClock = 4
  MaxFaults = 1
INVARIANTS IInv
PROPERTIES ImplementsLock
