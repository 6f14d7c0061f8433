SPECIFICATION Spec
CONSTANT Functions <- MCFunctions
INVARIANT StopsAtFour
