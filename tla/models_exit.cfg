CONSTANTS
    a = a
    b = b
    r1 = r1
    r2 = r2
    None = None
    Models <- TwoModels
    Requesters <- TwoRequesters
    Preloaded <- OneModel
    ModelsMax = 1
    MaxOps = 2
    MaxTurns = 1
SPECIFICATION Spec
CHECK_DEADLOCK FALSE
PROPERTY ExitIsNoticed
