SPECIFICATION Spec
CONSTANTS
    Years <- MCYears
    Moments <- MCMoments
INVARIANTS
    TypeOK
    MatchesCalendar
PROPERTY
    OrderKept
