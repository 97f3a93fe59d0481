CONSTANTS
    MaxRaw <- Largest
    Numbers <- Boundaries
SPECIFICATION Spec
INVARIANTS
    NonZero
    SystemCodeRecovered
    NothingElseIsSystem
    CustomIsUnique
