SPECIFICATION AuditSpec
CONSTANTS
    ann = ann
    bob = bob
    gus = gus
    c1 = c1
    p1 = p1
    p2 = p2
    b1 = b1
    e1 = e1
    inv1 = inv1
    USD = USD
    None = None
    Handlers = {h1}
    Readers = {x1}
    Actors = {ann, bob, gus}
    Cases = {c1}
    ProofIds = {p1, p2}
    BaselineIds = {b1}
    EvidenceIds = {e1}
    Records = {inv1}
    Currencies = {USD}
    Requests <- AuditRequests
    LateCommit = FALSE
    MaxClock = 1
INVARIANT
    ShownExclusionRemovesAmount
