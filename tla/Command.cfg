SPECIFICATION CSpec
CONSTANTS
    Lines <- ShortLines
    MaxArgs = 3
    HexDigits = 2
    Row = 16
INVARIANTS WordsFound NumbersRoundTrip DumpExact
