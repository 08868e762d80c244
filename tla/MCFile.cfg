CONSTANTS
  NPROC = 2
  NFILE = 3
  NOFILE = 2
  NINODES = 2
  NBLOCKS = 5
  BSIZE = 2
  NDIRECT = 1
  NINDIRECT = 2
  BPB = 1
  MAXOPBLOCKS = 6
  WriteSizes = {1, 3}
  MaxCalls = 5
  MaxCrashes = 1
SPECIFICATION Spec
INVARIANTS FilesCounted BlocksExact ReadsBack TransactionFits
CHECK_DEADLOCK FALSE
