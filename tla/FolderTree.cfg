SPECIFICATION Spec
CONSTANTS
  Names = {"a", "b"}
  MaxFolders = 3
  MaxDepth = 3
INVARIANTS Inductive ResolvesToThePath FindsWhatExists
PROPERTY Terminates
CHECK_DEADLOCK FALSE
