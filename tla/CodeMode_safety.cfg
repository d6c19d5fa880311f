SPECIFICATION Spec
CONSTANTS
    Cap = {memory, snippets, config}
    MemoryCap = memory
    SnippetsCap = snippets
    Grants <- WithMemory
    Requirements <- WithMemory
    MaxExecs = 3
    MaxRoots = 2
    MaxVersions = 2
    MaxGen = 1
    HostCalls = 4
    Concurrent = 1
CHECK_DEADLOCK FALSE
INVARIANTS
    TypeOK
    BudgetShared
    TestIsolation
    NoEscalation
