SPECIFICATION TtySpec
CHECK_DEADLOCK FALSE
CONSTANTS
  N = 3
  letter = letter
  digit = digit
  NL = NL
  CR = CR
  BS = BS
  NUL = NUL
  Plain <- MCPlain
  Feeds <- MCFeeds
  PollInput <- EnterKeys
  IrqInput <- IrqKeys
  MaxCount = 1
PROPERTY EnterWakesReader
