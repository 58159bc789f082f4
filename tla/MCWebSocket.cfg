SPECIFICATION Spec
CONSTANTS
  Streams <- MCStreams
  Grow = 2
  Raw = 2
  Greetings = 1
INVARIANTS
  OneReadPerBuffer
  StreamInOrder
  OutFramesWhole
PROPERTIES
  ImplementsChannel
  EveryFrameHandled
CHECK_DEADLOCK FALSE
