CONSTANTS
  Programs = {"tracker", "gateway"}
  UnaryCalls = {"unary"}
  Streams = {"stream"}
  H2cCalls = {"h2c"}
  HttpCalls = {"rest"}
  MaxSignals = 3
SPECIFICATION Spec
INVARIANTS TypeOK AbortedOnlyByForce BackendsThereWhileServing
PROPERTIES ShutdownEnds HealthFollows
CHECK_DEADLOCK FALSE
