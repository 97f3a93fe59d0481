CONSTANT Targets <- AllTargets
SPECIFICATION ConfigSpec
INVARIANT OptInEverywhere
