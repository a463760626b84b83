SPECIFICATION TypingSpec
CONSTANTS
  Keys = {"char", "untranslatable", "continue", "break", "step", "other"}
  Commands = {"next", "step", "continue", "quit", "other", "eof"}
  MaxInterrupts = 0
  IllegalOpcodes = TRUE
PROPERTIES
  CrashShutsDown
CHECK_DEADLOCK FALSE
