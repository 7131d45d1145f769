SPECIFICATION FairSpec
CONSTANTS
    Nodes <- MCNodes
    Output <- MCOutput
    Consumes <- MCConsumes
    Optional <- MCOptional
    Absent <- MCAbsent
    Flaky <- MCFlaky
    Procs = {"first", "second"}
    Modes = {"charge"}
    NoMode = "sunsale"
    MaxLag = 1
INVARIANTS
    GraphContained
    LastWord
PROPERTIES
    DispatchesInOrder
    CyclesEnd
