SPECIFICATION PathSpec
CONSTANTS
  MaxApdus <- TwoCommands
  Atrs <- ManyAtrs
  Lens = {0, 2, 5, 40, 255, 256}
  LongLe = {5}
  Ifsd = {32}
  MaxCmds = 3
  MaxResets = 2
  MaxUsb = 8
INVARIANT TypeOK
INVARIANT LoggedBeforeSent
INVARIANT LogCausal
INVARIANT RepliesMatch
INVARIANT SequenceHolds
INVARIANT AtrParsed
PROPERTY IsChannel
PROPERTY ComesDown
PROPERTY Served
\* A tunnel ends, and so does what a modem asks for.
CHECK_DEADLOCK FALSE
