\* Every stop() and fault may be used up and the dead-letter handler never run:
\* then the model rightly stops.
CHECK_DEADLOCK FALSE
CONSTANTS
  Events = {e1, bad}
  Malformed = {bad}
  NoEvent = NoEvent
  MaxCopies = 2
  Consumers = {c1}
  Slots = {1, 2}
  Workers = {w1}
  Nobody = Nobody
  Handlers = 2
  MaxReceives = 2
  MaxFaults = 1
  MaxStops = 1
SPECIFICATION Spec
INVARIANTS
  TypeOK
  NothingLost
  HandlersInOrder
PROPERTY
  KeepsDeliveryContract
