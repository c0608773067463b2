CONSTANTS
  video = video
  slot1 = slot1
  slot2 = slot2
  NoSlot = NoSlot
  Video = video
  SmallPayload = 64
  Topics <- MCTopics
  Slots <- MCSlots
  Sizes = {1, 8}
  Capacity = 8
  SmallShare = 8
  Stamps = {1, 2}
  Payloads = {0, 1}
  Budgets <- MCKeepTwo
  MaxUid = 3
  MaxChanges = 5
SPECIFICATION Spec
INVARIANTS NoGhostCache IndexMissesNothing BytesAccounted
PROPERTIES RevisionsTell
CHECK_DEADLOCK FALSE
