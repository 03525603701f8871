SPECIFICATION Spec
CONSTANTS
  TxSize = 4
  RxSize = 4
  MaxLength = 5
  Receiving = FALSE
INVARIANT StringFits
CHECK_DEADLOCK FALSE
