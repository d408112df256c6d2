\* The shortest texts for which an assertion fails have six characters.
CONSTANT MaxText = 6
SPECIFICATION MCSpec
INVARIANT AssertionsHold
CHECK_DEADLOCK FALSE
