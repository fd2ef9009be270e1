CONSTANTS
  NoItem = NoItem
  Items <- NoteEvents
  Capacity = 3
  MaxDropped = 1
  Keys = {1, 2}
  Channel <- MCChannel
  Masks <- MCMasks
  MaxPresses = 2
  MaxOthers = 2
SPECIFICATION FairMidiSpec
INVARIANTS
  NoSlotRace
  NoStuckNote
  VoicesAreOwed
PROPERTIES
  ImplementsBoundedQueue
  PanicSilences
CHECK_DEADLOCK FALSE
