SPECIFICATION TypingSpec
CONSTANTS
  Keys = {"char", "untranslatable", "continue", "break", "step", "other"}
  Commands = {"next", "step", "continue", "quit", "other", "eof"}
  MaxInterrupts = 2
  IllegalOpcodes = TRUE
INVARIANTS
  TypeOK
  OthersJoined
  OneTicker
  TerminalMode
PROPERTIES
  InterruptHalts
  BreakStops
  QuitHalts
  ContinueResumes
  StepEnds
CHECK_DEADLOCK FALSE
