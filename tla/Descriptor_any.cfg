\* Any order of calls and uses.
SPECIFICATION Spec
CONSTANTS
    Request = Request
    Tree = Tree
    Attribute = Attribute
    Timestamp = Timestamp
    Schema <- MCSchema
    Methods = {SayHello}
    MaxLoads = 2
INVARIANTS
    FaultNeedsMisuse
    MessageAsSpecified
CHECK_DEADLOCK FALSE
