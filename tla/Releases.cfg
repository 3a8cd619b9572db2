\* Two people release at once; one command fails.
CONSTANTS
  Releasers = {a, b}
  Explicit = {1, x}
  Radix = 2
  MaxVersion = 2
  MaxCommits = 5
  MaxRuns = 3
  MaxFaults = 1
  Seed = 0
  SeedTagged = TRUE
  None = None
  NoRun = NoRun
SYMMETRY AlikeReleasers
SPECIFICATION Spec
INVARIANTS TypeOK ReportsAreTrue
PROPERTIES TagCarriesItsVersion MainComesWithItsTags
