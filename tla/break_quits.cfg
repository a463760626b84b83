SPECIFICATION Spec
CONSTANTS
  Keys = {"char", "untranslatable", "continue", "break", "step", "other"}
  Commands = {"next", "step", "continue", "quit", "other", "eof"}
  MaxInterrupts = 0
  IllegalOpcodes = FALSE
INVARIANTS
  EndsOnRequest
CHECK_DEADLOCK FALSE
