\* Up to three runs, two statements that fail and two bookings.  The system
\* stops when its bounds are used up.
CONSTANTS
  TeamNames <- ThreeTeams
  Fixtures <- TwoGames
  Grades <- TwoGrades
  PerGrade = 2
  Nobody = Nobody
  MaxRuns = 3
  MaxFaults = 2
  MaxBookings = 2
SPECIFICATION FairSpec
INVARIANTS
  SeedInv
  SuccessMeansSeeded
PROPERTIES
  UndisturbedRunSeeds
CHECK_DEADLOCK FALSE
