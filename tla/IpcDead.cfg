CONSTANTS
    c1 = c1
    c2 = c2
    t1 = t1
    t2 = t2
    s1 = s1
    s2 = s2
    lle = lle
    hle = hle
    c3 = c3
    Client = {c1, c2, c3}
    Server = {t1, t2}
    Session = {s1, s2}
    Port = {lle, hle}
    HlePort = {hle}
    MaxSessions <- Limits
    None = None
SPECIFICATION Spec
INVARIANT NoDeadResumed
SYMMETRY Symmetry
