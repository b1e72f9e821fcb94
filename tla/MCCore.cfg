SPECIFICATION Spec
CHECK_DEADLOCK FALSE
CONSTANTS
  N = 3
  letter = letter
  digit = digit
  NL = NL
  CR = CR
  BS = BS
  NUL = NUL
  Plain <- MCPlain
  Feeds <- MCFeeds
  PollInput <- PolledKeys
  IrqInput <- IrqKeys
  MaxCount = 2
  MAX_TASKS = 5
  NoTask = NoTask
  W = 64
  Pools <- MCPools
  Requests <- MCRequests
  SECTOR_SIZE = 8
  DIR_ENTRY_SIZE = 4
  FAT12_CLUSTERS = 5
  LAST_CLUSTER = 5
  LAST_SECTOR = 8
  TEMPLATE <- MCTemplate
  Vbpbs <- MCVbpbs
  Reboots = 1
INVARIANT TtyTypeOK
INVARIANT RingConsistent
INVARIANT OnlyTyped
PROPERTY ImplementsLineQueue
PROPERTY CopyFinishes
PROPERTY PolledLineReturned
INVARIANT SchedTypeOK
INVARIANT OneRunning
PROPERTY NotPassedTwice
PROPERTY ReadyRuns
PROPERTY NoContextLost
INVARIANT MmTypeOK
INVARIANT NoOverlap
INVARIANT NoLeak
PROPERTY ImplementsHeap
INVARIANT InstallTypeOK
INVARIANT ChecksFirst
INVARIANT OnlyItsRoom
INVARIANT KernelInOrder
INVARIANT SuccessMeansCopied
 
PROPERTY ComesToAnEnd
