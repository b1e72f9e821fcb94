SPECIFICATION Spec
CONSTANTS
  SECTOR_SIZE = 2
  MAX_OPEN_FILES = 2
  current_vbpb <- MCVbpb
  DIR_ENTRY_SIZE = 2
  root_dir <- MCRootDir
  Deleted = "deleted"
  End = "end"
  fs_type = "fat12"
  fat <- MCFat
  FatErrors = FALSE
  Chain <- MCChain
  Root = ""
  Paths <- SomePaths
  Counts = {4, 5}
  Seeks <- EndSeeks
PROPERTY FatFollowed
