\* a model whose child has ended while it loads is unloaded
SPECIFICATION Spec
CONSTANTS
    m1 = m1
    m2 = m2
    c1 = c1
    c2 = c2
    Models = {m1, m2}
    Callers = {c1,c2}
    Work <- PairWork
    MaxModels = 1
    Startup = {m1}
INVARIANT KillsOnlyItsChild
CHECK_DEADLOCK FALSE
