CONSTANTS
    a = a
    b = b
    p = p
    q = q
    r = r
    x = x
    Stages = {s1}
    People = {a, b}
    Items = {x}
    Places = {p, q, r}
    Sheets = {a, b, x, p, q}
    Tellings <- MCTellings
    Before <- MCBefore
    NumScenes = 2
    MaxTellings = 2
    MaxTears = 1
    Nil = Nil
SPECIFICATION WorldSpec
INVARIANT IntroducedIsHeldBack
CHECK_DEADLOCK FALSE
