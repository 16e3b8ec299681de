SPECIFICATION Spec
CONSTANTS
    d1 = d1
    d2 = d2
    victoria = victoria
    trams = trams
    enabled = enabled
    threshold = threshold
    on = on
    off = off
    r1 = r1
    r2 = r2
    Device = {d1, d2}
    Subscriber = {d1}
    Token = {t1, t2}
    Line = {victoria, trams}
    Field = {enabled, threshold}
    Value = {on, off}
    Request = {r1, r2}
    PutBody <- PutBodies
    PatchBody <- PatchBodies
    Null = Null
    None = None
PROPERTY
    OnlyTokenOwnerReplaced
