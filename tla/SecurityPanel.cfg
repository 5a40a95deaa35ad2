SPECIFICATION FairPanelSpec
CONSTANTS
    Fix = {password, root}
    Review = {port}
    NoFix = NoFix
    MaxSteps = 8
CHECK_DEADLOCK FALSE
INVARIANTS
    PanelTypeOK
    OfferedRollbackHasBackup
    OfferedBackupIsOfFix
    OfferedBackupUndoesFix
    ClaimIsTrue
    RollbackReportIsTrue
PROPERTIES
    RollbackUndoesOneFix
    ButtonsComeBack
