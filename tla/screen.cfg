SPECIFICATION FairSpec
CONSTANTS
    FrameSlots = 2
    RetireSlots = 2
    MaxKey = 2
    Moves = 3
    Faults = 2
    OtherPaired = TRUE
INVARIANT OneSocket
INVARIANT AuthenticatedIsSaved
INVARIANT NeverStranded
INVARIANT NoLateCommand
PROPERTY GuardSparesPairing
PROPERTY ForgottenStaysForgotten
PROPERTY Reconnects
