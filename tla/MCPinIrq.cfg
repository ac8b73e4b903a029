SPECIFICATION Spec
CONSTANTS
  Port = {D, E}
  D = D
  E = E
  NoPort = NoPort
  Pins = 1
INVARIANT HandlerRuns
