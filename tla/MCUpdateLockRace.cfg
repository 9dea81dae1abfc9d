SPECIFICATION Spec
CONSTANTS
  d = d
  c1 = c1
  c2 = c2
  Pids <- MCPids
  Cli <- MCCli
  Daemon <- MCDaemon
  Recycled <- MCRecycled
  MaxLives = 2
  NoFile = NoFile
INVARIANT OneUpdateAtATime
CHECK_DEADLOCK FALSE
