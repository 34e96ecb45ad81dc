SPECIFICATION Spec
CONSTANTS
    NPages = 6
    Reserved = 2
    MaxCount = 2
    Maps <- OneMap
    BadMap = TRUE
    Heap = {4, 5}
    Contract = TRUE
INVARIANTS HeapUntouched WithinTotal
