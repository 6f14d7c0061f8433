SPECIFICATION FairSpec
CONSTANT Functions <- MCFunctions
INVARIANTS TypeOK FunctionKept CopySound
PROPERTY Ends
