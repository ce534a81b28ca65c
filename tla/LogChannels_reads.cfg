SPECIFICATION Spec
CONSTANTS
    Group = {"g"}
    BuiltIn = {"b"}
    Custom = {"k"}
    Call = {1, 2}
    NoGroup = NoGroup
PROPERTY ReadsChangeNothing
CHECK_DEADLOCK FALSE
