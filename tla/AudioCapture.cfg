SPECIFICATION FairSpec
CONSTANTS
  Streams = {s1, s2, s3}
  NoStream = NoStream
  Main = Main
  MaxCalls = 2
  MaxAttempts = 2
INVARIANTS OwnedOnce OneProducer
PROPERTIES StreamsEnd
CHECK_DEADLOCK FALSE
