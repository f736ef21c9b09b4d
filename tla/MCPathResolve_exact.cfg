SPECIFICATION Spec
CONSTANTS
  Dentries <- MCDentries
  Mounts <- MCMounts
  Namings <- MCNamings
  Parent0 <- MCParent0
  MntRoot <- MCMntRoot
  MntParent <- MCMntParent
  Mountpoint <- MCMountpoint
  Files <- MCFiles
  Roots <- MCRoots
  Moves <- MCMoves
  PathFragLen = 6
  PathCompLen = 6
  NumComp = 3
  MaxParent = 4
  MaxParentLoop = 5
  MaxCalls = 2
  MaxRenames = 2
INVARIANTS TypeOK ResolvedExact MountedRight
CHECK_DEADLOCK FALSE
