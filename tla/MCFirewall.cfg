CONSTANTS
  setA = setA
  setB = setB
  other = other
  f1 = f1
  f2 = f2
  Alone = Alone
  Target = target
  None = None
  Sets = {setA, setB}
  Rules <- MCRules
  Contents <- MCContents
  Foreign = {f1, f2}
  MaxFaults = 2
  MaxOverlap = 2
SPECIFICATION MCSpec
INVARIANTS EndsAsPromised InspectionIsHonest
PROPERTIES FailClosed ForeignUntouched Terminates
