SPECIFICATION Spec
CONSTANTS
    Null = Null
    MaxJobs = 5
    Statuses = {"queued", "sent", "failed"}
    Owner <- OwnerTable
    Born <- BornTable
    Source <- SourceTable
    Cities <- TypedCities
    Start <- OldTables
    Floor = 2
    Today = 3
    Groups <- Filters
    Ranges <- Days
    PageSize = 2
    MaxMoves = 3
INVARIANT MissesAreDepartures
INVARIANT FiguresAgree
INVARIANT RepeatsAreArrivals
