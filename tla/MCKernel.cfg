SPECIFICATION Spec
CONSTANTS
  WIDTH = 3
  HEIGHT = 2
  TAB = 2
  WORD = 256
  BYTE = 4
  Glyphs = {"a", " "}
  BLANK = " "
  NL = "nl"
  CR = "cr"
  BS = "bs"
  HT = "ht"
  TTY_BUF_SIZE = 6
  SHELL_CMD_BUF_SIZE = 6
  SHELL_MAX_ARGS = 2
  SHELL_CMD_NAME_MAX = 2
  SHELL_CURRENT_DIR_MAX_LEN = 5
  SPACE = " "
  RETURN = "cr"
  LINE_FEED = "nl"
  ERASE = "bs"
  SLASH = "slash"
  LS = "ls"
  CD = "cd"
  CAT = "cat"
  EXIT = "exit"
  Letters = {}
  Answers <- MCAnswers
  Packages <- MCPackages
  SECTOR_SIZE = 2
  DB_WINDOW = 11
  BLANK_CHAR = " "
  CR_CHAR = "cr"
  LF_CHAR = "nl"
  SECS = 2
  MINS = 2
  TIME_MODULUS = 1000000000
  Mornings <- MCMornings
  Raised = {0, 1, 6}
INVARIANT TypeOK
INVARIANT OnScreen
PROPERTY OneCharacter
INVARIANT LineIsCommand
INVARIANT HandlesReturned
INVARIANT CwdFits
INVARIANT ListedIsComplete
INVARIANT FoundOnce
PROPERTY TimeRead
PROPERTY DateRead
INVARIANT MktimeCounts
INVARIANT KnownVector
INVARIANT LinesFree
CHECK_DEADLOCK FALSE
