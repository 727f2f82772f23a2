\* Two sockets in turn, two heartbeat gaps.
SPECIFICATION FairSpec
CONSTANTS
  MaxConns = 2
  MaxStalls = 2
PROPERTIES
  StatusSettles
  ShownSettles
