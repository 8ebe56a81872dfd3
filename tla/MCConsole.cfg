SPECIFICATION Spec
CONSTANTS
  r1 = r1
  r2 = r2
  w1 = w1
  Readers = {r1, r2}
  Writers = {w1}
  Killable = {r1}
  Reads = {2}
  Writes = {2}
  Keys = {"a", "cr", "^D", "^U", "^H"}
  INPUT_BUF = 2
  UART_TX_BUF_SIZE = 1
  WRAP = 4
  First = 3
  MaxTyped = 3
  MaxCalls = 2
CHECK_DEADLOCK FALSE
INVARIANT ConsoleInv
PROPERTIES ConsoleIsTerminal  ConsoleGoesOn
