SPECIFICATION Spec
CONSTANTS
    Entries = 3
    MaxLen = 2
    Chars = {"a", "b"}
    Prompt = 2
    Columns = 6
INVARIANTS CursorFollowsLine
PROPERTY ImplementsEditor
