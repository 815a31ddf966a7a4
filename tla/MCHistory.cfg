SPECIFICATION Spec
CONSTANTS
    Day = 3
    Begin = 10
    MaxClock = 13
    MaxRows = 3
    Zones <- MCZones
    Filters <- MCFilters
    Span <- MCSpan
    CsvPage = 2
    ScrollPage = 1
INVARIANTS
    ListingExact
    TodayIsToday
    DriftIsExplained
    TrendCovers
