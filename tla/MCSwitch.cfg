SPECIFICATION Spec
CHECK_DEADLOCK FALSE
CONSTANTS
  Words <- SegmentWords
  KERNEL_DATA_SEGMENT = 7
  Context <- Contexts
  StackTop <- StackTops
  Entry <- Entries
  BootStack = 90
  BOOT_RETURN = 93
  Leftover = {0, 3}
INVARIANT SwitchArrives
