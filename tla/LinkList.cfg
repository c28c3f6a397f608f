SPECIFICATION ListSpec
CONSTANTS
  List = {A, B}
  Node = {n1, n2, n3}
  NULL = NULL
  AppendByInsert = FALSE
INVARIANTS DoublyLinked
PROPERTIES ActsAsSequences
SYMMETRY Alike
