SPECIFICATION Spec
CONSTANTS
  Thread = {t1, t2, t3}
  ui_rotate_c = 1
  Found = {0, 1}
  Level = {5, 7}
  us_level_limit = 5
  MaxLines = 4
  MaxDay = 2
  MaxFails = 1
CHECK_DEADLOCK FALSE
INVARIANTS NoUseAfterClose FileBounded
PROPERTIES CallsReturn
