CONSTANTS
  MaxConns = 2
  v1 = v1
  v2 = v2
  View <- MCView
  Settings <- MCSettings
SPECIFICATION StartupSpec
INVARIANTS StartupIInv ServesRealView ReadyMeansListening CleanExitOnlyOnSignal
PROPERTIES ImplementsLifecycle SignalEnds FailureEnds BecomesReady
CHECK_DEADLOCK FALSE
