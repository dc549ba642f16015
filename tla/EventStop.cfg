\* stop() while a receive is outstanding.
CHECK_DEADLOCK FALSE
CONSTANTS
  Events = {e1}
  Malformed = {}
  NoEvent = NoEvent
  MaxCopies = 1
  Consumers = {c1}
  Slots = {1, 2}
  Workers = {}
  Nobody = Nobody
  Handlers = 1
  MaxReceives = 2
  MaxFaults = 0
  MaxStops = 1
SPECIFICATION Spec
INVARIANT StoppedIsQuiet
