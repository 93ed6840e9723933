\* One intent with every event a provider can make of it, and two deliveries
\* at a time.
SPECIFICATION Spec
CONSTANTS
  Intents = {i1}
  Handlers = {h1, h2}
  NoEvent = NoEvent
  Copies = {1, 2}
  MaxEvents = 4
  MaxFailures = 2
CHECK_DEADLOCK FALSE
INVARIANT AnsweredMeansProcessed
