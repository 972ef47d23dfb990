SPECIFICATION Spec
CONSTANTS
  launcher = launcher
  tool = tool
  word = word
  other_word = other_word
INVARIANTS
  ArgumentsForwarded
CHECK_DEADLOCK FALSE
