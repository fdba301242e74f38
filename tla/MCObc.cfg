CONSTANT Cals <- MCCals
SPECIFICATION Spec
CHECK_DEADLOCK FALSE
INVARIANTS WholePatterns InStep AutoFollows
PROPERTY SlowFromBright
