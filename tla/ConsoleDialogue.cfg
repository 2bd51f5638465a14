\* One letter, both line ends, a line that can overflow, words that do, and rings
\* that fill.
SPECIFICATION FairSpec
CONSTANTS
  Letters = {"a"}
  Space = " "
  CONSOLE_LINE_BUF_SIZE = 4
  MAX_COMMAND_ARGS_COUNT = 3
  MAX_ARG_LEN = 2
  InSize = 2
  OutSize = 5
  MsgLen = 2
  MaxTyped = 4
INVARIANTS
  Accounted
  LinesRun
  Transcript
PROPERTY Answered
