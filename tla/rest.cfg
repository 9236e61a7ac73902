SPECIFICATION FairSpec
CONSTANTS
    g1 = g1
    g2 = g2
    None = None
    Goroutines <- MCGoroutines
    Disturbances = {"expire", "fault", "lost", "redirect", "badSession"}
    MaxDisturbances = 4
INVARIANTS
    TypeOK
    ResultsAreTrue
PROPERTIES
    OnlyRecallsEndTheProcess
    CallsReturn
