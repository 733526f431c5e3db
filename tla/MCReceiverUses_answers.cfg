SPECIFICATION UseSpec
CONSTANTS
    m1 = m1
    claude = claude
    gpt = gpt
    hello = hello
    None = None
    Malformed = Malformed
    Prose = Prose
    Quote = Quote
    Ids = {m1}
    Parties = {claude, gpt}
    Bodies = {hello}
    MaxTtl = 2
    MaxAttempts = 5
    BaseWait = 1
    CapWait = 4
    MaxApiAttempts = 2
    MaxComments = 2
    MaxClock = 2
    MaxEdits = 1
    MaxReruns = 1
    Payloads <- Exchange
    Writes <- AllWrites
INVARIANTS
    TypeOK
    AnsweredOnce
    SuccessIsAnswered
PROPERTIES
    RunsEnd
    ReplaysOneLedger
CHECK_DEADLOCK FALSE
