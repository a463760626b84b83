SPECIFICATION FairSpec
CONSTANTS
  Keys = {"char", "untranslatable", "continue", "break", "step", "other"}
  Commands = {"next", "step", "continue", "quit", "other", "eof"}
  MaxInterrupts = 1
  IllegalOpcodes = FALSE
PROPERTIES
  ReadInterrupted
CHECK_DEADLOCK FALSE
