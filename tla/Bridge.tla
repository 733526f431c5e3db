-------------------------------- MODULE Bridge --------------------------------
(***************************************************************************)
(* The delivery core of the coordination bridge: pure rules of a message,  *)
(* its receipt and its retries over an immutable ledger.  Every function   *)
(* of the code takes a ledger and a time and returns the next ledger and   *)
(* an outcome; here the two results are two operators.                     *)
(*                                                                         *)
(* A body and its SHA-256 are one model value: bodies with equal hashes    *)
(* are equal.  Records that validation refuses for their shape (unknown    *)
(* fields, malformed ids, hashes or times) are outside Message and         *)
(* Receipt: they are rejected and change nothing.                          *)
(***************************************************************************)
EXTENDS Naturals

CONSTANTS
    Ids, Parties, Bodies,
    MaxTtl,         \* MAX_TTL_SECONDS
    MaxAttempts,    \* RetryPolicy.maxAttempts
    BaseWait,       \* RetryPolicy.baseSeconds
    CapWait,        \* RetryPolicy.capSeconds
    None            \* null

Message ==
    [id : Ids, from : Parties, to : Parties, body : Bodies,
     created : Nat, expires : Nat]

Receipt == [id : Ids, body : Bodies, by : Parties, at : Nat]

DeliveryState == {"pending", "delivered", "failed", "expired"}

Entry ==
    [message : Message, state : DeliveryState, attempts : Nat,
     lastAttemptAt : Nat \cup {None}, receipt : Receipt \cup {None}]

ASSUME PolicyAssumption ==
    MaxTtl \in Nat /\ MaxAttempts \in Nat \ {0} /\ BaseWait \in Nat /\ CapWait \in Nat

ASSUME NullAssumption == None \notin Entry /\ None \notin Receipt /\ None \notin Nat

Ledger == [Ids -> Entry \cup {None}]

EmptyLedger == [id \in Ids |-> None]

-----------------------------------------------------------------------------
ValidMessage(m, t) ==
    /\ m.from # m.to
    /\ m.created <= t
    /\ m.created < m.expires
    /\ m.expires - m.created <= MaxTtl

SameContent(m, n) == m.body = n.body /\ m.from = n.from /\ m.to = n.to

NewEntry(m) ==
    [message |-> m, state |-> "pending", attempts |-> 0,
     lastAttemptAt |-> None, receipt |-> None]

ReceiveOutcome(ledger, m, t) ==
    IF ~ValidMessage(m, t) \/ t >= m.expires THEN "rejected"
    ELSE IF ledger[m.id] = None THEN "accepted"
    ELSE IF SameContent(ledger[m.id].message, m) THEN "duplicate"
    ELSE "conflict"

\* Mutant of Receive: a conflicting message takes the place of the original.
ReceiveOverwrites(ledger, m, t) ==
    IF ReceiveOutcome(ledger, m, t) \in {"accepted", "conflict"}
    THEN [ledger EXCEPT ![m.id] = NewEntry(m)]
    ELSE ledger

Receive(ledger, m, t) ==
    IF ReceiveOutcome(ledger, m, t) = "accepted"
    THEN [ledger EXCEPT ![m.id] = NewEntry(m)]
    ELSE ledger

-----------------------------------------------------------------------------
\* An entry as a reader sees it at time t.
Settle(e, t) ==
    IF e.state = "pending" /\ t >= e.message.expires
    THEN [e EXCEPT !.state = "expired"]
    ELSE e

Matches(e, r) ==
    /\ r.by # e.message.from
    /\ r.by = e.message.to
    /\ r.body = e.message.body

\* Mutant of AckOutcome: a receipt may predate the message it is for.
AckOutcomePredates(ledger, r, t) ==
    LET e == ledger[r.id]
    IN  IF r.at > t \/ e = None THEN "refused"
        ELSE IF ~Matches(e, r) THEN "refused"
        ELSE IF e.state = "delivered" THEN "already_delivered"
        ELSE IF Settle(e, t).state # "pending" THEN "refused"
        ELSE "delivered"

AckOutcome(ledger, r, t) ==
    LET e == ledger[r.id]
    IN  IF r.at > t \/ e = None THEN "refused"
        ELSE IF ~Matches(e, r) THEN "refused"
        ELSE IF e.state = "delivered" THEN "already_delivered"
        ELSE IF Settle(e, t).state # "pending" \/ r.at < e.message.created
             THEN "refused"
        ELSE "delivered"

Acknowledge(ledger, r, t) ==
    IF AckOutcome(ledger, r, t) = "delivered"
    THEN [ledger EXCEPT ![r.id].state = "delivered", ![r.id].receipt = r]
    ELSE ledger

-----------------------------------------------------------------------------
\* Mutant of BackoffSeconds: attempts are counted from zero.
BackoffSecondsFromZero(n) ==
    LET raw == BaseWait * 2 ^ (IF n > 2 THEN n - 2 ELSE 0)
    IN  IF raw < CapWait THEN raw ELSE CapWait

\* Seconds to wait after attempt n before the next one.
BackoffSeconds(n) ==
    LET raw == BaseWait * 2 ^ (IF n > 1 THEN n - 1 ELSE 0)
    IN  IF raw < CapWait THEN raw ELSE CapWait

\* Arithmetic, of which the proof system's provers know nothing when it comes to
\* powers.
ASSUME WaitAssumption == \A n \in 0 .. MaxAttempts : 2 ^ n \in Nat

NextAction(e, t) ==
    IF Settle(e, t).state # "pending" \/ e.attempts >= MaxAttempts THEN "none"
    ELSE IF e.lastAttemptAt = None THEN "send"
    ELSE IF t < e.lastAttemptAt + BackoffSeconds(e.attempts) THEN "wait"
    ELSE "send"

\* Mutant of RecordAttempt: the last attempt leaves the entry pending.
RecordAttemptQuietly(ledger, id, t) ==
    LET e == ledger[id]
    IN  IF Settle(e, t).state # "pending" THEN ledger
        ELSE [ledger EXCEPT
                ![id].attempts = e.attempts + 1,
                ![id].lastAttemptAt = t]

\* Mutant of RecordAttempt: it looks at the stored state only.
RecordAttemptUnsettled(ledger, id, t) ==
    LET e == ledger[id]
        n == e.attempts + 1
    IN  IF e.state # "pending" THEN ledger
        ELSE [ledger EXCEPT
                ![id].attempts = n,
                ![id].lastAttemptAt = t,
                ![id].state = IF n >= MaxAttempts THEN "failed" ELSE "pending"]

\* Once the attempts are used up the entry is marked failed.
RecordAttempt(ledger, id, t) ==
    LET e == ledger[id]
        n == e.attempts + 1
    IN  IF Settle(e, t).state # "pending" THEN ledger
        ELSE [ledger EXCEPT
                ![id].attempts = n,
                ![id].lastAttemptAt = t,
                ![id].state = IF n >= MaxAttempts THEN "failed" ELSE "pending"]

=============================================================================
