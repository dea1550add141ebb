SPECIFICATION FairSpec
CONSTANTS
  Readers <- FamilyReaders
  Tasks <- FamilyTasks
  NoTask = 0
  NSlots = 2
  Posted <- FamilyPosted
  Owner <- FamilyOwner
  Parent <- FamilyParent
  Kind <- FamilyKind
  Want <- FamilyWant
  Prompt <- FamilyPrompt
  FailLaunch = {1}
  Stream = {"family"}
  Leavers = {"family"}
  MaxTokens = 2
  ContBatching = TRUE
  CtxShift = TRUE
  DecodeMayFail = TRUE
INVARIANTS
  OnePlace
  Conservation
  FamilyTogether
  OrphansAreCancelled
  NothingLeftBehind
  NeverWaitsWhileBusy
PROPERTIES
  ImplementsService
  SlotsFreed
