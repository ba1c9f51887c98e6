SPECIFICATION Spec
INVARIANTS DeskRepaired
CHECK_DEADLOCK FALSE
