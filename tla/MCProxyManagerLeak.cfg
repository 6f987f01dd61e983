SPECIFICATION Spec
CONSTANTS
    m1 = m1
    m2 = m2
    i1 = i1
    i2 = i2
    p1 = p1
    p2 = p2
    p3 = p3
    None = None
    Modem = {m1}
    IP = {i1, i2}
    Instance = {p1, p2, p3}
INVARIANT SOCKS5ServesOnlyListed
