SPECIFICATION MCSpec
INVARIANTS AllAlternatives
