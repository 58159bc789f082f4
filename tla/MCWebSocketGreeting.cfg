SPECIFICATION Spec
CONSTANTS
  Streams <- MCStreams
  Grow = 2
  Raw = 2
  Greetings = 0
PROPERTY GreetingHandled
CHECK_DEADLOCK FALSE
