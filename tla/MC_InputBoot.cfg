\* Two keys and two mouse movements, at any time from sti on.
CONSTANTS
  MaxKeys = 2
  MaxMoves = 2
SPECIFICATION Spec
INVARIANT TypeOK
INVARIANT InputKnown
INVARIANT ControllerReady
INVARIANT InputInOrder
PROPERTY BootEnds
PROPERTY InputArrives
CHECK_DEADLOCK FALSE
