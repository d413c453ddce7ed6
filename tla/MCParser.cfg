\* Sources of at most 8 tokens; two nodes fit before temp_asts must grow.
CONSTANTS
    MaxTokens = 8
    MaxStuck = 1
    MinTemps = 2
SPECIFICATION Spec
INVARIANT TypeOK
INVARIANT BracketsMatch
INVARIANT ListsHoldTheirKind
PROPERTY FinishedBlocksAreInitialised
PROPERTY ImplementsAstLists
PROPERTY ParseEnds
\* A parse ends.
CHECK_DEADLOCK FALSE
