SPECIFICATION Spec
INVARIANT PartsDetermined
