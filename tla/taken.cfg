CONSTANT MaxPressed = 3
SPECIFICATION Spec
INVARIANT TakenIsNotRegistered
CHECK_DEADLOCK FALSE
