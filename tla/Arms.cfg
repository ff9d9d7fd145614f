SPECIFICATION Spec
CONSTANTS
  Remotes <- TwoRemotes
  K = 2
  N = 3
  Islands = 2
  MaxFaults = 2
INVARIANTS VerdictHonest NothingLeft
PROPERTIES Terminates
