SPECIFICATION Spec
CONSTANTS
    Entries = 3
    MaxLen = 2
    Chars = {"a", "b"}
    Prompt = 2
    Columns = 3
INVARIANT CursorFollowsLine
