CONSTANTS
  ContextVars = {v, w}
  SocketVars = {s, t}
  Monitors = {m, n}
  Contexts = {k1, k2}
  Handles = {h1, h2, h3}
  Null = Null
  Nobody = Nobody
  MaxEvents = 1
  MaxSignals = 1
  Lingers = {"timed", "forever"}
SPECIFICATION Spec
INVARIANTS HandlesOwned ContextsTracked MonitoringHasAnEnd EventsWhole
PROPERTY CloseReturns
