\* A list that grows from 2 to 4 elements.
CONSTANTS
    Elements = {a, b}
    Unwritten = unwritten
    MinCapacity = 2
    CapacityModulus = 16
    MaxSize = 5
SPECIFICATION Spec
INVARIANT HoldsWhatWasPushed
CHECK_DEADLOCK FALSE
