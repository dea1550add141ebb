SPECIFICATION FairSpec
CONSTANTS
  Readers <- MixedReaders
  Tasks <- MixedTasks
  NoTask = 0
  NSlots = 2
  Posted <- MixedPosted
  Owner <- MixedOwner
  Parent <- MixedParent
  Kind <- MixedKind
  Want <- MixedWant
  Prompt <- MixedPrompt
  FailLaunch = {}
  Stream = {}
  Leavers = {"erase"}
  MaxTokens = 1
  ContBatching = TRUE
  CtxShift = FALSE
  DecodeMayFail = FALSE
PROPERTIES
  Served
