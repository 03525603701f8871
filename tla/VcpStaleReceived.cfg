SPECIFICATION Spec
CONSTANTS
  TxSize = 4
  RxSize = 4
  MaxLength = 1
  Receiving = TRUE
INVARIANT CheckedFirst
CHECK_DEADLOCK FALSE
