SPECIFICATION Spec
CONSTANTS
    Epsilon = 1  Exact = 8  Spacing = 4
    MaxSamples = 7
    Times <- MCTimes
    Baselines <- MCBaselines
    Factors = {1, 2, 3, 4, 5}
INVARIANTS
    TimesArePaired
    PointsAreSamples
    FailsOnlyOnDisorder
    BucketsAreSound
    SavedSignalLoads
