CONSTANTS
  Loaders <- Forge
  JarMods = {j1, j2}
  Versions <- TwoVersions
  MayBreak <- Forge
  MaxFaults = 1
  MaxOrder = 102
SPECIFICATION Spec
SYMMETRY JarSymmetry
INVARIANTS TypeOK ListIsOnDisk NothingComesBack LoadsUnlessDamaged
PROPERTIES OrderIsTheUsers
