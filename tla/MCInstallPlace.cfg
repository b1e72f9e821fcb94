SPECIFICATION InstallSpec
CONSTANTS
  SECTOR_SIZE = 8
  DIR_ENTRY_SIZE = 4
  FAT12_CLUSTERS = 5
  LAST_CLUSTER = 5
  LAST_SECTOR = 8
  TEMPLATE <- MCTemplate
  Vbpbs <- MCVbpbs
  Reboots = 1
INVARIANT KernelWhereBootLooks
CHECK_DEADLOCK FALSE
