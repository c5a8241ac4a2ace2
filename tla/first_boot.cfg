SPECIFICATION FirstBootFairSpec
CONSTANTS
    MaxTrouble = 3
INVARIANTS FirstBootTypeOK BuiltHasServices MarkerMeansConfigured
PROPERTIES SetupCompletes
