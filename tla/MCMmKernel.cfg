SPECIFICATION MmSpec
CONSTANTS
  W = 64
  Pools <- KernelPool
  Requests <- MCRequests
PROPERTY Releasable
CHECK_DEADLOCK FALSE
