SPECIFICATION FairSpec
CONSTANTS
  TxSize = 4
  RxSize = 4
  MaxLength = 5
  Receiving = TRUE
INVARIANTS
  NeverSleepsOnBytes
  TransmissionGoesOn
  SentWhenReturned
PROPERTY PutsReturn
CHECK_DEADLOCK FALSE
