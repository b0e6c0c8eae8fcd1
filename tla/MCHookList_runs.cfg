\* Two plugins, calls two deep, three hooks ever, three addresses for them.
CONSTANTS
    Plugins = {p, q}
    Addresses = {a1, a2, a3}
    RawLine = RawLine
    line = line
    Kinds <- Hookable
    Events <- Happening
    MaxHooks = 3
    MaxDepth = 2
SPECIFICATION Spec
SYMMETRY Symmetric
INVARIANTS
    TypeOK
    RunsInOrder
    RemovedIsNotCalled
PROPERTIES
    EveryHookServed
CHECK_DEADLOCK FALSE
