SPECIFICATION SumSpec
CONSTANTS
    Threads = {t1, t2}
    NoThread = NoThread
    Sources = {main}
    Lines = {1}
    Conditions = {cond}
    BreakBound = 2
    ScopeBound = 2
    EventBound = 2
    m1 = m1
    s1 = s1
    s2 = s2
    r1 = r1
    HostThreads = {h1, h2}
    Modules = {m1}
    Sessions = {s1, s2}
    Runtimes = {r1}
    Debuggers = {db1}
    ModuleOf <- MCModuleOf
    NoDebugger = NoDebugger
    Free = Free
    MayNest <- MCMayNest
    CallBound = 2
    CallbackBound = 1
    k1 = k1
    k2 = k2
    k3 = k3
    Keys = {k1, k2, k3}
    Compilers = {c1, c2}
    CodeSize <- MCCodeSize
    LimitChoices <- MCLimits
    LookupBound = 3
    ConfigBound = 1
    Loops = {l1, l2}
    Dense = {d1}
    HotLoopThreshold = 1
    FallbackInvalidationThreshold = 2
    RunBound = 5
    IterationBound = 1
    AttemptBound = 1
    RegionLoops <- MCLoops
    Workspaces <- MCWorkspaces
    LoopRanges <- MCLoopRanges
    Backends = {"auto", "portable", "native"}
INVARIANTS
    ExecutionIsTold PausedEventIsCurrent
    DebuggerIsOwned CallsAreSerialized
    CacheIsConsistent
    RepeatedFallbackInvalidates
PROPERTIES
    StopPrevails PauseHonoured EvictsLeastRecent
    LoopsProveThemselves RejectionsToldOnce LoopRefinesContract
