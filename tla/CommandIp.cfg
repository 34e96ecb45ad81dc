SPECIFICATION CSpec
CONSTANTS
    Lines <- FewLines
    MaxArgs = 3
    HexDigits = 2
    Row = 16
INVARIANT OctetIsDecimal
