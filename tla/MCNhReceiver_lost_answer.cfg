SPECIFICATION Spec
CONSTANTS
    m1 = m1
    claude = claude
    gpt = gpt
    hello = hello
    None = None
    Malformed = Malformed
    Prose = Prose
    Quote = Quote
    Ids = {m1}
    Parties = {claude, gpt}
    Bodies = {hello}
    MaxTtl = 2
    MaxAttempts = 5
    BaseWait = 1
    CapWait = 4
    MaxApiAttempts = 3
    MaxComments = 1
    MaxClock = 0
    MaxEdits = 0
    MaxReruns = 0
    Payloads <- OneMessage
    Writes <- MixedWrites
INVARIANT
    AtMostOneReply
CHECK_DEADLOCK FALSE
