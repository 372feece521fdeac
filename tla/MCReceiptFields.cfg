SPECIFICATION Spec
CONSTANTS
  CMD_LEN = 1001
  INDEX_VALUE_KEY_LEN = 51
  KeyLengths = {50, 51, 55, 56}
  CmdLengths = {1000, 1001}
  SerialNumbers <- MCSerialNumbers
  ClearanceOrders <- MCClearanceOrders
  TextExcess <- MCTextExcess
  NumberDigits = {1, 19}
CHECK_DEADLOCK FALSE
INVARIANTS
  TypeOK
  OnlyASignReachesFurther
  GenuineReceiptIsParsed
  OnlyTheSignOutgrows
