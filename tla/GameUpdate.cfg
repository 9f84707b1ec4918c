CONSTANTS
  Libs = {jar, lib, xz}
  ForgeLibs = {xz}
  FmlLibs = {f1, f2}
  JarMods = {none, mods}
  NoMods = none
  Names <- ThreeNames
  Objects <- TwoObjects
  ObjectOf <- OneShared
  MaxParallel = 2
  MaxFailures = 1
  MaxUpdates = 2
  MaxCuts = 1
SPECIFICATION FairSpec
INVARIANTS TypeOK GameIsReady
PROPERTIES UpdateEnds
