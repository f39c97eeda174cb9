SPECIFICATION ShellSpec
CONSTANTS
  Impls = {"shellx"}
  Children = {k1, k2}
PROPERTIES NoOrphan
CHECK_DEADLOCK FALSE
