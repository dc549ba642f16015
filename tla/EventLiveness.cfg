\* No dead-letter handler: the source queue has to drain without one.
CHECK_DEADLOCK FALSE
CONSTANTS
  Events = {e1, bad}
  Malformed = {bad}
  NoEvent = NoEvent
  MaxCopies = 2
  Consumers = {c1}
  Slots = {1, 2}
  Workers = {}
  Nobody = Nobody
  Handlers = 1
  MaxReceives = 2
  MaxFaults = 1
  MaxStops = 1
SPECIFICATION FairSpec
PROPERTIES
  QueueDrains
  StopTakesEffect
