CONSTANTS
  video = video
  slot1 = slot1
  slot2 = slot2
  NoSlot = NoSlot
  Video = video
  SmallPayload = 64
  Topics <- MCTopics
  Slots <- MCNoSlots
  Sizes = {1}
  Capacity = 8
  SmallShare = 8
  Stamps = {1, 2}
  Payloads = {0, 1}
  Budgets <- MCKeepThree
  MaxUid = 4
  MaxChanges = 6
SPECIFICATION Spec
INVARIANTS IndexHoldsNoEvicted
CHECK_DEADLOCK FALSE
