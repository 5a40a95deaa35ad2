SPECIFICATION FairFilesSpec
CONSTANTS
    MaxSession = 3
    MaxSteps = 7
    Place = {home, d, a, b}
    NoPlace = NoPlace
    Home = home
    Folder = {d}
    HomeFile = {a, b}
CHECK_DEADLOCK FALSE
INVARIANTS
    FilesTypeOK
    UndisturbedPanelsAreCurrent
    ButtonsFollowConnection
    PowerButtonIsRight
    ListingIsOfItsPath
    SelectedIsInView
    MarkIsOfTheFileShown
PROPERTIES
    SwitchingEnds
