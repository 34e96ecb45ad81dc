SPECIFICATION Spec
CONSTANTS
    Numbers = {0, 1, 2, 3, 4, 5, 6, 15, 16, 17}
    Fds = {1, 2}
    SyscallMax = 16
INVARIANTS UserStateRestored UserSegments
