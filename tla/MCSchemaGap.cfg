CONSTANTS
    Provider = {"p1"}
    DdlClient = {"c1"}
    MaxVersion = 2
SPECIFICATION SchemaSpec
INVARIANT AckedHasAll
CHECK_DEADLOCK FALSE
