SPECIFICATION MqttSpec
CONSTANTS
  Topics = {t1, t2}
  NoTopic = NoTopic
  NumHandlers = 2
  MaxWait = 1
  MaxNested = 1
  InFlight = 1
  MaxFaults = 1
SYMMETRY AnyTopic
INVARIANTS
  TypeOK
  StateMatchesCall
  ConnectedMeansSession
  PingOnTheWire
PROPERTIES
  HandlerKept
