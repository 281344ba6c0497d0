SPECIFICATION Spec
CONSTANTS
  Values = {v1, v2}
  Uninit = Uninit
  Capacity = 2
  Modulus = 4
  MaxSends = 6
INVARIANTS NoSlotRace NothingLeaked
PROPERTIES ReservationHonoured RingIsFifo
CHECK_DEADLOCK FALSE
