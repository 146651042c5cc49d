SPECIFICATION Spec
CONSTANTS
  SeqBlock = 2
  MaxSeq = 9
INVARIANTS TypeOK ReservationCovers
PROPERTY NonceFresh
CHECK_DEADLOCK FALSE
