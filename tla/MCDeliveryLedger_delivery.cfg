SPECIFICATION Spec
CONSTANTS
    m1 = m1
    m2 = m2
    claude = claude
    gpt = gpt
    owner = owner
    hello = hello
    bye = bye
    None = None
    Ids = {m1, m2}
    Parties = {claude, gpt, owner}
    Bodies = {hello, bye}
    MaxTtl = 9
    MaxAttempts = 3
    BaseWait = 1
    CapWait = 3
    MaxClock = 6
    Messages <- BothMessages
    Receipts <- AllReceipts
INVARIANTS
    TypeOK
    DeliveredByAddressee
    NothingGivenUpQuietly
PROPERTIES
    FinalStaysFinal
    ContentIsFixed
    AttemptsArePaced
