CONSTANTS
    p1 = p1
    p2 = p2
    p3 = p3
    Procs = {p1, p2, p3}
    NoProc = NoProc
    Host <- SmallHost
    MaxPolls = 2
    Configs = {"debug", "release"}
    Config <- SmallConfig
SPECIFICATION Spec
INVARIANT OneOwner
