SPECIFICATION ListSpec
CONSTANTS
  List = {A, B}
  Node = {n1, n2, n3}
  NULL = NULL
  AppendByInsert = TRUE
INVARIANTS DoublyLinked
CHECK_DEADLOCK FALSE
