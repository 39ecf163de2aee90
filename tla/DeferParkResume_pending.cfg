\* Two parks of one session.
SPECIFICATION Spec
CONSTANTS
    p1 = p1  p2 = p2  p3 = p3
    d1 = d1  d2 = d2
    i1 = i1  i2 = i2  s1 = s1  s2 = s2
    NoPark = NoPark
    Parks = {p1, p2}
    Deliveries = {d1, d2}
    Intents = {i1, i2}
    Signals = {s1}
    Unverifiable = {}
    Quota = 2
    Caps = {3}
    Faults = {}
INVARIANT ParkedStaysPending
CHECK_DEADLOCK FALSE
