CONSTANTS
  Downloads = {d1}
  Objects = {o1, o2}
  Nobody = Nobody
  MaxVersion = 2
  MaxStarts = 3
SPECIFICATION Spec
INVARIANTS TypeOK WholeFile IndexFits EvictionHolds
PROPERTIES SuccessIsCurrent
