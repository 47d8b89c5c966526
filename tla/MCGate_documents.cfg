SPECIFICATION DocumentsSpec
CONSTANTS
    SepXSD <- SchemaDoc
    Environments <- SomeEnvironments
    OtherXSDs <- OtherSchemaDocs
    Structs <- GoStructs
    Bindings <- GoBindings
    Attrs <- PeerAttrs
    Children <- PeerChildren
    MaxChildren = 3
    Depth = 2
    Accepts <- SomeAccepts
    maxMediaRanges = 2
    MaxCalls = 3
    Bodies <- SomeBodies
INVARIANTS ValidateExact StructCheckPrevents GateNeverDisarmed ResponseUnchanged
CHECK_DEADLOCK FALSE
