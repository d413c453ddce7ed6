\* Two masks of two nibbles.
CONSTANTS
    NumMasks = 2
    Nibbles = 2
    Threads = {t1, t2}
SPECIFICATION Spec
INVARIANT ListsWhatItTook
CHECK_DEADLOCK FALSE
