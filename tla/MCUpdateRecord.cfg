SPECIFICATION Spec
CONSTANTS
    Value = {v1, v2, v3}
    NoValue = NoValue
    Bad = Bad
    MaxSeq = 6
INVARIANTS TypeOK CopiesConsecutive
PROPERTIES Atomic
