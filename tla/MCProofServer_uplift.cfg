SPECIFICATION Spec
CONSTANTS
    ann = ann
    bob = bob
    cid = cid
    c1 = c1
    c2 = c2
    p1 = p1
    p2 = p2
    p3 = p3
    b1 = b1
    b2 = b2
    e1 = e1
    e2 = e2
    inv1 = inv1
    inv2 = inv2
    USD = USD
    EUR = EUR
    None = None
    Handlers = {h1}
    Actors = {ann, bob, cid}
    Cases = {c1}
    ProofIds = {p1, p2, p3}
    BaselineIds = {b1, b2}
    EvidenceIds = {e1, e2}
    Records = {inv1}
    Currencies = {USD, EUR}
    Requests <- UpliftRequests
    LateCommit = FALSE
    MaxClock = 0
INVARIANT
    EffectiveClaimSubstantiated
