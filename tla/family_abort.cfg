SPECIFICATION Spec
CONSTANTS
  Readers <- FamilyReaders
  Tasks <- FamilyTasks
  NoTask = 0
  NSlots = 2
  Posted <- FamilyPosted
  Owner <- FamilyOwner
  Parent <- FamilyParent
  Kind <- FamilyKind
  Want <- FamilyWant
  Prompt <- FamilyOK
  FailLaunch = {}
  Stream = {"family"}
  Leavers = {"family", "single"}
  MaxTokens = 2
  ContBatching = TRUE
  CtxShift = FALSE
  DecodeMayFail = FALSE
INVARIANTS
  NeverAborts
