CONSTANTS
  RemoteKeys = {"prog", "digit"}
  MaxWire = 1
  MaxDown = 2
SPECIFICATION Spec
INVARIANTS
  MenuInRange
  BiasRecomputed
  HeldIsHeld
PROPERTIES
  EventsAnswerPresses
