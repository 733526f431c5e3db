---------------------------- MODULE DeliveryLedger ----------------------------
(***************************************************************************)
(* The delivery core in use: messages are submitted to a ledger, a sender  *)
(* asks what to do next and records its attempts, and receipts arrive:     *)
(* late, twice, or from a party they should not come from.  The core       *)
(* itself neither sends nor stores; who calls it is external, and the      *)
(* ledger is the latest one returned.  There is one sender per message.    *)
(***************************************************************************)
EXTENDS Bridge

CONSTANTS
    Messages,     \* the messages that may be submitted, each any number of times
    Receipts,     \* the receipts that may arrive, each any number of times
    MaxClock      \* bound on the clock

ASSUME InputsAssumption ==
    Messages \subseteq Message /\ Receipts \subseteq Receipt /\ MaxClock \in Nat

VARIABLES
    ledger,
    now,
    due           \* messages the sender was told to send and has not recorded

vars == <<ledger, now, due>>

Recorded == {id \in Ids : ledger[id] # None}

Init == ledger = EmptyLedger /\ now = 0 /\ due = {}

Submit(m) ==
    /\ ledger' = Receive(ledger, m, now)
    /\ UNCHANGED <<now, due>>

\* The answer "send" is acted upon later; meanwhile anything may happen.
Decide(id) ==
    /\ id \in Recorded \ due
    /\ NextAction(ledger[id], now) = "send"
    /\ due' = due \cup {id}
    /\ UNCHANGED <<ledger, now>>

Attempt(id) ==
    /\ id \in due
    /\ ledger' = RecordAttempt(ledger, id, now)
    /\ due' = due \ {id}
    /\ UNCHANGED now

ReceiptArrives(r) ==
    /\ ledger' = Acknowledge(ledger, r, now)
    /\ UNCHANGED <<now, due>>

Tick ==
    /\ now < MaxClock
    /\ now' = now + 1
    /\ UNCHANGED <<ledger, due>>

Next ==
    \/ \E m \in Messages : Submit(m)
    \/ \E id \in Ids : Decide(id) \/ Attempt(id)
    \/ \E r \in Receipts : ReceiptArrives(r)
    \/ Tick

Spec == Init /\ [][Next]_vars

-----------------------------------------------------------------------------
\* The state of a message as undelivered() and acknowledge() see it.
StateOf(id) == Settle(ledger[id], now).state

\* Entries, the clock and the pending sends are of their types; only entries
\* with attempts left are pending (bridge.ts:52-60, 237-249).
TypeOK ==
    /\ ledger \in Ledger
    /\ \A id \in Recorded :
          ledger[id].state = "pending" => ledger[id].attempts < MaxAttempts
    /\ now \in Nat
    /\ due \subseteq Recorded

\* A message that is delivered, failed or expired for a reader stays so
\* whatever arrives later: terminal states stay terminal (bridge.ts:179-180).
FinalStaysFinal ==
    [][\A id \in Recorded :
         StateOf(id) # "pending" => StateOf(id)' = StateOf(id)]_vars

\* What is recorded under an id never changes, so a receipt keeps meaning
\* what it meant (bridge.ts:147-149).
ContentIsFixed ==
    [][\A id \in Recorded : ledger'[id].message = ledger[id].message]_vars

\* A delivered message carries its addressee's receipt for the same body,
\* written after the message and before it expired; the sender never
\* acknowledges its own message (bridge.ts:12-13, 188-198).
DeliveredByAddressee ==
    \A id \in Recorded :
        LET e == ledger[id]
            r == ledger[id].receipt
        IN  IF e.state = "delivered"
            THEN /\ r.id = id
                 /\ r.by = e.message.to /\ r.by # e.message.from
                 /\ r.body = e.message.body
                 /\ e.message.created <= r.at /\ r.at < e.message.expires
            ELSE r = None

\* Time enough since the last attempt: the base, doubled with each attempt after
\* the first, or at most the cap.
WaitIsOver(e) ==
    \/ now >= e.lastAttemptAt + CapWait
    \/ now >= e.lastAttemptAt + BaseWait * 2 ^ (e.attempts - 1)

\* Attempts are recorded one by one and never sooner after the last one than
\* the schedule says, however long the sender sat on its decision ("Seconds to
\* wait after attempt n (1-based)", bridge.ts:216-235).
AttemptsArePaced ==
    [][\A id \in Recorded :
         LET e == ledger[id]
         IN  ledger'[id].attempts # e.attempts =>
               /\ ledger'[id].attempts = e.attempts + 1
               /\ e.lastAttemptAt # None => WaitIsOver(e)]_vars

\* No message is quietly given up: the sender is told to stop exactly when a
\* reader sees the message delivered, failed or expired, and to wait only while
\* the schedule says so (bridge.ts:222-235).
NothingGivenUpQuietly ==
    \A id \in Recorded :
        /\ NextAction(ledger[id], now) = "none" <=> StateOf(id) # "pending"
        /\ NextAction(ledger[id], now) = "wait" => ~WaitIsOver(ledger[id])

=============================================================================
