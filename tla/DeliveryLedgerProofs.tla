------------------------- MODULE DeliveryLedgerProofs -------------------------
(***************************************************************************)
(* Theorems about DeliveryLedger, for any messages, receipts and retry     *)
(* policy.  The functions of the core are dealt with first, each by        *)
(* a lemma that says what it may do to an entry; the steps of the ledger   *)
(* then follow from the lemmas.                                            *)
(***************************************************************************)
EXTENDS DeliveryLedger, TLAPS

USE PolicyAssumption, NullAssumption, InputsAssumption
USE DEF PolicyAssumption, NullAssumption, InputsAssumption

\* An entry a ledger may hold: typed, pending only with attempts left, with a
\* time exactly when there was an attempt, and with a receipt exactly when
\* delivered, which is the addressee's.
GoodEntry(e) ==
    /\ e \in Entry
    /\ e.state = "pending" => e.attempts < MaxAttempts
    /\ e.state # "delivered" => e.receipt = None
    /\ e.lastAttemptAt # None => e.attempts # 0

GoodReceipt(id, e) ==
    e.state = "delivered" =>
        /\ e.receipt # None /\ e.receipt.id = id
        /\ e.receipt.by = e.message.to /\ e.receipt.by # e.message.from
        /\ e.receipt.body = e.message.body
        /\ e.message.created <= e.receipt.at /\ e.receipt.at < e.message.expires

LedgerInv ==
    /\ ledger \in [Ids -> Entry \cup {None}]
    /\ \A id \in Recorded : GoodEntry(ledger[id]) /\ GoodReceipt(id, ledger[id])
    /\ now \in Nat
    /\ due \subseteq Recorded

-----------------------------------------------------------------------------
\* One entry changes from e to f between times t and u: its content stays,
\* and a state that was final at t is the same at u.
EntryKept(e, f, t, u) ==
    /\ f.message = e.message
    /\ Settle(e, t).state # "pending" => Settle(f, u).state = Settle(e, t).state

\* What settling does to the state (bridge.ts:204-209).
LEMMA SettledState ==
    ASSUME NEW e \in Entry, NEW t \in Nat
    PROVE  /\ Settle(e, t).state =
                IF e.state = "pending" /\ t >= e.message.expires THEN "expired" ELSE e.state
           /\ Settle(e, t) # None
  BY DEF Settle, Entry, DeliveryState

\* An entry left alone is kept as time passes.
LEMMA TimeKeeps ==
    ASSUME NEW e \in Entry, NEW t \in Nat, NEW u \in Nat, t <= u
    PROVE  EntryKept(e, e, t, u)
  BY SettledState DEF EntryKept, Entry, Message

\* receive writes only where nothing was recorded (bridge.ts:151-167).
LEMMA ReceiveKeeps ==
    ASSUME NEW l \in [Ids -> Entry \cup {None}], NEW m \in Message, NEW t \in Nat
    PROVE  /\ Receive(l, m, t) \in [Ids -> Entry \cup {None}]
           /\ \A id \in Ids : l[id] # None => Receive(l, m, t)[id] = l[id]
           /\ \A id \in Ids : l[id] = None /\ Receive(l, m, t)[id] # None
                => Receive(l, m, t)[id] = NewEntry(m)
  <1>1. m.id \in Ids /\ NewEntry(m) \in Entry
    BY DEF Message, NewEntry, Entry, DeliveryState
  <1>2. ReceiveOutcome(l, m, t) = "accepted" => l[m.id] = None
    BY DEF ReceiveOutcome
  <1> QED  BY <1>1, <1>2 DEF Receive

\* acknowledge delivers pending entries only, on a fitting receipt
\* (bridge.ts:182-201).
LEMMA AcknowledgeDelivers ==
    ASSUME NEW l \in [Ids -> Entry \cup {None}], NEW r \in Receipt, NEW t \in Nat
    PROVE  \/ Acknowledge(l, r, t) = l
           \/ /\ r.id \in Ids /\ l[r.id] # None
              /\ Settle(l[r.id], t).state = "pending"
              /\ Matches(l[r.id], r)
              /\ l[r.id].message.created <= r.at /\ r.at <= t
              /\ Acknowledge(l, r, t) =
                   [l EXCEPT ![r.id] = [l[r.id] EXCEPT !.state = "delivered", !.receipt = r]]
  <1> SUFFICES ASSUME AckOutcome(l, r, t) = "delivered"
               PROVE  /\ r.id \in Ids /\ l[r.id] # None
                      /\ Settle(l[r.id], t).state = "pending"
                      /\ Matches(l[r.id], r)
                      /\ l[r.id].message.created <= r.at /\ r.at <= t
                      /\ Acknowledge(l, r, t) =
                           [l EXCEPT ![r.id] = [l[r.id] EXCEPT !.state = "delivered", !.receipt = r]]
    BY DEF Acknowledge
  <1> DEFINE e == l[r.id]
  <1>1. r.id \in Ids /\ r.at \in Nat
    BY DEF Receipt
  <1>2. ~(r.at > t) /\ e # None /\ Matches(e, r)
    BY DEF AckOutcome
  <1>3. ~(Settle(e, t).state # "pending" \/ r.at < e.message.created)
    BY <1>2 DEF AckOutcome
  <1>4. e \in Entry /\ e.message.created \in Nat
    BY <1>1, <1>2 DEF Entry, Message
  <1>5. Acknowledge(l, r, t) =
          [l EXCEPT ![r.id] = [l[r.id] EXCEPT !.state = "delivered", !.receipt = r]]
    BY <1>1, <1>4 DEF Acknowledge
  <1> QED  BY <1>1, <1>2, <1>3, <1>4, <1>5

-----------------------------------------------------------------------------
LEMMA InitEstablishes == Init => LedgerInv
  BY DEF Init, EmptyLedger, LedgerInv, Recorded

\* What a step does to the entries on record.
StepKeeps ==
    /\ LedgerInv'
    /\ \A id \in Recorded :
          /\ ledger'[id] # None
          /\ EntryKept(ledger[id], ledger'[id], now, now')

LEMMA NextKeeps == ASSUME LedgerInv, [Next]_vars PROVE StepKeeps
  <1>0. ledger \in [Ids -> Entry \cup {None}] /\ now \in Nat /\ due \subseteq Recorded
        /\ (\A id \in Recorded : id \in Ids /\ ledger[id] \in Entry)
    BY DEF LedgerInv, Recorded
  <1>1. ASSUME NEW m \in Messages, Submit(m) PROVE StepKeeps
    <2> DEFINE l == Receive(ledger, m, now)
    <2>1. /\ ledger' = l /\ now' = now /\ due' = due
          /\ m \in Message
      BY <1>1 DEF Submit
    <2>2. /\ l \in [Ids -> Entry \cup {None}]
          /\ \A id \in Ids : ledger[id] # None => l[id] = ledger[id]
          /\ \A id \in Ids : ledger[id] = None /\ l[id] # None => l[id] = NewEntry(m)
      BY <1>0, <2>1, ReceiveKeeps
    <2>3. GoodEntry(NewEntry(m)) /\ \A id : GoodReceipt(id, NewEntry(m))
      BY <2>1 DEF GoodEntry, GoodReceipt, NewEntry, Entry, DeliveryState
    <2> HIDE DEF l
    <2>4. \A id \in Recorded' : GoodEntry(ledger'[id]) /\ GoodReceipt(id, ledger'[id])
      BY <1>0, <2>1, <2>2, <2>3 DEF LedgerInv, Recorded
    <2>5. \A id \in Recorded : ledger'[id] = ledger[id] /\ ledger'[id] # None
      BY <2>1, <2>2 DEF Recorded
    <2>6. \A id \in Recorded : EntryKept(ledger[id], ledger'[id], now, now')
      BY <1>0, <2>1, <2>5, TimeKeeps
    <2> QED  BY <1>0, <2>1, <2>2, <2>4, <2>5, <2>6 DEF StepKeeps, LedgerInv, Recorded
  <1>2. ASSUME NEW id \in Ids, Decide(id) PROVE StepKeeps
    <2>1. ledger' = ledger /\ now' = now /\ due' \subseteq Recorded
      BY <1>0, <1>2 DEF Decide
    <2> QED  BY <1>0, <2>1, TimeKeeps DEF StepKeeps, LedgerInv, Recorded
  <1>3. ASSUME NEW id \in Ids, Attempt(id) PROVE StepKeeps
    <2> DEFINE e == ledger[id]
               n == e.attempts + 1
               s == IF n >= MaxAttempts THEN "failed" ELSE "pending"
               f == [e EXCEPT !.attempts = n, !.lastAttemptAt = now, !.state = s]
    <2>1. now' = now /\ due' \subseteq due /\ e # None /\ e \in Entry /\ id \in Recorded
      BY <1>0, <1>3 DEF Attempt, Recorded
    <2>2. CASE ledger' = ledger
      BY <1>0, <2>1, <2>2, TimeKeeps DEF StepKeeps, LedgerInv, Recorded
    <2>3. CASE Settle(e, now).state = "pending" /\ ledger' = [ledger EXCEPT ![id] = f]
      <3>1. e.state = "pending" /\ e.receipt = None
        BY <1>0, <2>1, <2>3, SettledState DEF LedgerInv, GoodEntry
      <3>2. n \in Nat /\ n # 0 /\ s \in {"failed", "pending"} /\ (s = "pending" => n < MaxAttempts)
        BY <2>1 DEF Entry
      <3> HIDE DEF n, s
      <3>3. f \in Entry /\ f.message = e.message /\ f.receipt = None
        BY <1>0, <2>1, <3>1, <3>2 DEF Entry, DeliveryState
      <3>4. f.state = s /\ f.attempts = n
        BY <2>1 DEF Entry
      <3>5. GoodEntry(f) /\ GoodReceipt(id, f)
        BY <3>2, <3>3, <3>4 DEF GoodEntry, GoodReceipt
      <3>6. EntryKept(e, f, now, now')
        BY <2>3, <3>3 DEF EntryKept
      <3> HIDE DEF f
      <3>7. ledger'[id] = f /\ \A i \in Ids \ {id} : ledger'[i] = ledger[i]
        BY <1>0, <2>3
      <3>8. Recorded' = Recorded
        BY <1>0, <2>1, <3>3, <3>7 DEF Recorded
      <3>9. \A i \in Recorded : GoodEntry(ledger'[i]) /\ GoodReceipt(i, ledger'[i])
        BY <1>0, <3>5, <3>7 DEF LedgerInv
      <3>10. \A i \in Recorded : EntryKept(ledger[i], ledger'[i], now, now')
        BY <1>0, <2>1, <3>6, <3>7, TimeKeeps
      <3>11. ledger' \in [Ids -> Entry \cup {None}]
        BY <1>0, <2>3, <3>3
      <3> QED  BY <1>0, <2>1, <3>8, <3>9, <3>10, <3>11 DEF StepKeeps, LedgerInv, Recorded
    <2>4. ledger' = RecordAttempt(ledger, id, now)
      BY <1>3 DEF Attempt
    <2>5. \/ RecordAttempt(ledger, id, now) = ledger
          \/ /\ Settle(e, now).state = "pending"
             /\ RecordAttempt(ledger, id, now) = [ledger EXCEPT ![id] = f]
      BY <1>0, <2>1 DEF RecordAttempt, Entry
    <2> QED  BY <2>2, <2>3, <2>4, <2>5
  <1>4. ASSUME NEW r \in Receipts, ReceiptArrives(r) PROVE StepKeeps
    <2> DEFINE e == ledger[r.id]
               f == [e EXCEPT !.state = "delivered", !.receipt = r]
    <2>1. now' = now /\ due' = due /\ ledger' = Acknowledge(ledger, r, now) /\ r \in Receipt
      BY <1>4 DEF ReceiptArrives
    <2>2. CASE ledger' = ledger
      BY <1>0, <2>1, <2>2, TimeKeeps DEF StepKeeps, LedgerInv, Recorded
    <2>3. CASE /\ r.id \in Ids /\ e # None
               /\ Settle(e, now).state = "pending"
               /\ Matches(e, r)
               /\ e.message.created <= r.at /\ r.at <= now
               /\ ledger' = [ledger EXCEPT ![r.id] = f]
      <3>1. e \in Entry /\ r.at \in Nat /\ r.id \in Recorded
        BY <1>0, <2>1, <2>3 DEF Receipt, Recorded
      <3>2. e.state = "pending" /\ ~(now >= e.message.expires) /\ e.message.expires \in Nat
        BY <1>0, <2>3, <3>1, SettledState DEF Entry, Message
      <3>3. f \in Entry /\ f.message = e.message /\ f.receipt = r /\ f.state = "delivered"
            /\ f # None
        BY <1>0, <2>1, <3>1 DEF Entry, DeliveryState
      <3>4. r # None
        BY <2>1
      <3>5. GoodEntry(f) /\ GoodReceipt(r.id, f)
        <4>1. f.attempts = e.attempts /\ f.lastAttemptAt = e.lastAttemptAt
          BY <3>1 DEF Entry
        <4>2. e.lastAttemptAt # None => e.attempts # 0
          BY <3>1 DEF LedgerInv, GoodEntry
        <4>3. GoodEntry(f)
          <5> HIDE DEF f
          <5> QED  BY <3>3, <4>1, <4>2 DEF GoodEntry
        <4> QED  BY <1>0, <2>3, <3>1, <3>2, <3>3, <3>4, <4>3 DEF GoodReceipt, Matches
      <3>6. EntryKept(e, f, now, now')
        BY <2>3, <3>3 DEF EntryKept
      <3> HIDE DEF f
      <3>7. ledger'[r.id] = f /\ \A i \in Ids \ {r.id} : ledger'[i] = ledger[i]
        BY <1>0, <2>3
      <3>8. Recorded' = Recorded
        BY <1>0, <2>3, <3>3, <3>7 DEF Recorded
      <3>9. \A i \in Recorded : GoodEntry(ledger'[i]) /\ GoodReceipt(i, ledger'[i])
        BY <1>0, <3>5, <3>7 DEF LedgerInv
      <3>10. \A i \in Recorded : EntryKept(ledger[i], ledger'[i], now, now')
        BY <1>0, <2>1, <3>6, <3>7, TimeKeeps
      <3>11. ledger' \in [Ids -> Entry \cup {None}]
        BY <1>0, <2>3, <3>3
      <3> QED  BY <1>0, <2>1, <3>8, <3>9, <3>10, <3>11 DEF StepKeeps, LedgerInv, Recorded
    <2>4. \/ Acknowledge(ledger, r, now) = ledger
          \/ /\ r.id \in Ids /\ e # None
             /\ Settle(e, now).state = "pending"
             /\ Matches(e, r)
             /\ e.message.created <= r.at /\ r.at <= now
             /\ Acknowledge(ledger, r, now) = [ledger EXCEPT ![r.id] = f]
      BY <1>0, <2>1, AcknowledgeDelivers
    <2> QED  BY <2>1, <2>2, <2>3, <2>4
  <1>5. CASE Tick
    BY <1>0, <1>5, TimeKeeps DEF Tick, StepKeeps, LedgerInv, Recorded
  <1>6. CASE UNCHANGED vars
    BY <1>0, <1>6, TimeKeeps DEF vars, StepKeeps, LedgerInv, Recorded
  <1> QED  BY <1>1, <1>2, <1>3, <1>4, <1>5, <1>6 DEF Next

LEMMA Invariance == Spec => []LedgerInv
  <1>1. LedgerInv /\ [Next]_vars => LedgerInv'
    BY NextKeeps DEF StepKeeps
  <1> QED  BY InitEstablishes, <1>1, PTL DEF Spec

-----------------------------------------------------------------------------
\* Entries are of their type and pending only with attempts left
\* (bridge.ts:52-60, 237-249).
THEOREM TypeCorrect == Spec => []TypeOK
  <1>1. LedgerInv => TypeOK
    BY DEF LedgerInv, TypeOK, Ledger, GoodEntry
  <1> QED  BY Invariance, <1>1, PTL

\* A delivered message carries its addressee's timely receipt for the same
\* body, and no other message carries a receipt (bridge.ts:182-201).
THEOREM OnlyTheAddresseeDelivers == Spec => []DeliveredByAddressee
  <1>1. LedgerInv => DeliveredByAddressee
    BY DEF LedgerInv, DeliveredByAddressee, GoodEntry, GoodReceipt
  <1> QED  BY Invariance, <1>1, PTL

\* The wait of the code is the wait of the schedule (bridge.ts:216-220).
LEMMA BackoffIsTheWait ==
    ASSUME NEW e, GoodEntry(e), e.state = "pending", e.lastAttemptAt # None
    PROVE  /\ BackoffSeconds(e.attempts) \in Nat
           /\ now \in Nat =>
                now >= e.lastAttemptAt + BackoffSeconds(e.attempts) <=> WaitIsOver(e)
  <1>1. PICK n \in 1 .. MaxAttempts : n = e.attempts
    BY DEF GoodEntry, Entry
  <1>2. PICK last \in Nat : last = e.lastAttemptAt
    BY DEF GoodEntry, Entry
  <1>3. PICK power \in Nat : power = 2 ^ (n - 1)
    BY <1>1, WaitAssumption DEF WaitAssumption
  <1>4. PICK raw \in Nat : raw = BaseWait * power
    BY <1>3
  <1>5. (IF n > 1 THEN n - 1 ELSE 0) = n - 1
    BY <1>1
  <1>6. BackoffSeconds(e.attempts) = IF raw < CapWait THEN raw ELSE CapWait
    BY <1>1, <1>3, <1>4, <1>5 DEF BackoffSeconds
  <1>7. WaitIsOver(e) <=> now >= last + CapWait \/ now >= last + raw
    BY <1>1, <1>2, <1>3, <1>4 DEF WaitIsOver
  <1> QED  BY <1>2, <1>4, <1>6, <1>7

\* The sender is told to stop exactly when readers see a final state, and to wait
\* no longer than the schedule says (bridge.ts:222-235).
THEOREM NoMessageIsForgotten == Spec => []NothingGivenUpQuietly
  <1>1. LedgerInv => NothingGivenUpQuietly
    <2> SUFFICES ASSUME LedgerInv, NEW id \in Recorded
                 PROVE  /\ NextAction(ledger[id], now) = "none" <=> StateOf(id) # "pending"
                        /\ NextAction(ledger[id], now) = "wait" => ~WaitIsOver(ledger[id])
      BY DEF NothingGivenUpQuietly
    <2> DEFINE e == ledger[id]
    <2>1. e \in Entry /\ now \in Nat /\ (e.state = "pending" => e.attempts < MaxAttempts)
      BY DEF LedgerInv, GoodEntry
    <2>2. Settle(e, now).state = "pending" => e.state = "pending"
      BY <2>1, SettledState
    <2>3. e.attempts \in Nat
      BY <2>1 DEF Entry
    <2>4. NextAction(e, now) = "none" <=> StateOf(id) # "pending"
      BY <2>1, <2>2, <2>3 DEF NextAction, StateOf
    <2>5. NextAction(e, now) = "wait" =>
             /\ e.state = "pending" /\ e.lastAttemptAt # None
             /\ now < e.lastAttemptAt + BackoffSeconds(e.attempts)
      BY <2>2 DEF NextAction
    <2>6. ASSUME e.state = "pending", e.lastAttemptAt # None,
                 now < e.lastAttemptAt + BackoffSeconds(e.attempts)
          PROVE  ~WaitIsOver(e)
      <3>1. GoodEntry(e)
        BY DEF LedgerInv
      <3>2. BackoffSeconds(e.attempts) \in Nat
            /\ (now >= e.lastAttemptAt + BackoffSeconds(e.attempts) <=> WaitIsOver(e))
        BY <2>1, <2>6, <3>1, BackoffIsTheWait
      <3>3. PICK wait \in Nat : wait = BackoffSeconds(e.attempts)
        BY <3>2
      <3>4. PICK last \in Nat : last = e.lastAttemptAt
        BY <2>1, <2>6 DEF Entry
      <3> HIDE DEF e
      <3>5. now < last + wait
        BY <2>6, <3>3, <3>4
      <3> QED  BY <2>1, <3>2, <3>3, <3>4, <3>5
    <2> QED  BY <2>4, <2>5, <2>6
  <1> QED  BY Invariance, <1>1, PTL

\* Terminal states stay terminal for every reader, whatever arrives later and
\* however late (bridge.ts:177-181).
THEOREM TerminalStatesStay == Spec => FinalStaysFinal
  <1>1. LedgerInv /\ [Next]_vars =>
          [\A id \in Recorded : StateOf(id) # "pending" => StateOf(id)' = StateOf(id)]_vars
    BY NextKeeps DEF StepKeeps, EntryKept, StateOf
  <1> QED  BY Invariance, <1>1, PTL DEF Spec, FinalStaysFinal

\* What is recorded under an id is never replaced (bridge.ts:146-167).
THEOREM ContentStays == Spec => ContentIsFixed
  <1>1. LedgerInv /\ [Next]_vars =>
          [\A id \in Recorded : ledger'[id].message = ledger[id].message]_vars
    BY NextKeeps DEF StepKeeps, EntryKept
  <1> QED  BY Invariance, <1>1, PTL DEF Spec, ContentIsFixed

-----------------------------------------------------------------------------
(* The schedule.  A decision to send may be old when the attempt is        *)
(* recorded; it is still right, because only the attempt it is waiting for *)
(* changes what the schedule looks at.                                     *)

\* The wait after the last attempt is over at time t.
WaitedOut(e, t) ==
    e.state = "pending" /\ e.lastAttemptAt # None =>
        t >= e.lastAttemptAt + BackoffSeconds(e.attempts)

PacedInv == \A id \in due : WaitedOut(ledger[id], now)

\* A wait that is over stays over.
LEMMA WaitStaysOver ==
    ASSUME NEW e, GoodEntry(e), NEW t \in Nat, NEW u \in Nat, t <= u, WaitedOut(e, t)
    PROVE  WaitedOut(e, u)
  <1> SUFFICES ASSUME e.state = "pending", e.lastAttemptAt # None
               PROVE  u >= e.lastAttemptAt + BackoffSeconds(e.attempts)
    BY DEF WaitedOut
  <1> DEFINE w == BackoffSeconds(e.attempts)
             last == e.lastAttemptAt
  <1>1. last \in Nat
    BY DEF GoodEntry, Entry
  <1>2. w \in Nat /\ t >= last + w
    BY BackoffIsTheWait DEF WaitedOut
  <1> HIDE DEF w, last
  <1>3. u >= last + w
    BY <1>1, <1>2
  <1> QED  BY <1>3 DEF w, last

\* "send" is answered only once the wait is over (bridge.ts:222-235).
LEMMA SendIsDue ==
    ASSUME NEW e, GoodEntry(e), NEW t \in Nat, NextAction(e, t) = "send"
    PROVE  WaitedOut(e, t)
  <1> SUFFICES ASSUME e.state = "pending", e.lastAttemptAt # None
               PROVE  t >= e.lastAttemptAt + BackoffSeconds(e.attempts)
    BY DEF WaitedOut
  <1> DEFINE w == BackoffSeconds(e.attempts)
             last == e.lastAttemptAt
  <1>1. last \in Nat
    BY DEF GoodEntry, Entry
  <1>2. w \in Nat
    BY BackoffIsTheWait
  <1>3. ~(t < last + w)
    BY DEF NextAction
  <1> HIDE DEF w, last
  <1>4. t >= last + w
    BY <1>1, <1>2, <1>3
  <1> QED  BY <1>4 DEF w, last

\* The step of the schedule from an entry to the same entry later.
PacedStep(e, f, t) ==
    f.attempts # e.attempts =>
        /\ e.state = "pending"
        /\ f.attempts = e.attempts + 1
        /\ e.lastAttemptAt # None => t >= e.lastAttemptAt + BackoffSeconds(e.attempts)

\* An entry to send, other than the one being recorded, is due at a later time
\* as it was, unless it is no longer pending.
Unhurried(e, f) == f = e \/ (f.state # "pending" /\ f.attempts = e.attempts)

StepPaces ==
    /\ PacedInv'
    /\ \A id \in Recorded : PacedStep(ledger[id], ledger'[id], now)

LEMMA UnhurriedStep ==
    ASSUME LedgerInv, PacedInv, now' \in Nat, now <= now', due' \subseteq due,
           \A id \in Recorded : Unhurried(ledger[id], ledger'[id])
    PROVE  StepPaces
  <1>1. \A id \in Recorded : PacedStep(ledger[id], ledger'[id], now)
    BY DEF PacedStep, Unhurried
  <1>2. ASSUME NEW id \in due' PROVE WaitedOut(ledger'[id], now')
    <2>1. id \in due /\ id \in Recorded /\ GoodEntry(ledger[id]) /\ now \in Nat
      BY <1>2 DEF LedgerInv
    <2>2. WaitedOut(ledger[id], now')
      BY <2>1, WaitStaysOver DEF PacedInv
    <2> QED  BY <2>1, <2>2 DEF Unhurried, WaitedOut
  <1> QED  BY <1>1, <1>2 DEF StepPaces, PacedInv

LEMMA NextPaces == ASSUME LedgerInv, PacedInv, [Next]_vars PROVE StepPaces
  <1>0. ledger \in [Ids -> Entry \cup {None}] /\ now \in Nat /\ due \subseteq Recorded
        /\ (\A id \in Recorded : id \in Ids /\ ledger[id] # None /\ GoodEntry(ledger[id])
                                 /\ ledger[id] \in Entry)
    BY DEF LedgerInv, Recorded
  <1>1. ASSUME NEW m \in Messages, Submit(m) PROVE StepPaces
    <2>1. \A id \in Recorded : ledger'[id] = ledger[id]
      BY <1>0, <1>1, ReceiveKeeps DEF Submit
    <2> QED  BY <1>0, <1>1, <2>1, UnhurriedStep DEF Submit, Unhurried
  <1>2. ASSUME NEW id \in Ids, Decide(id) PROVE StepPaces
    <2>1. ledger' = ledger /\ now' = now /\ due' = due \cup {id}
          /\ id \in Recorded /\ NextAction(ledger[id], now) = "send"
      BY <1>2 DEF Decide
    <2>2. WaitedOut(ledger[id], now)
      BY <1>0, <2>1, SendIsDue
    <2> QED  BY <2>1, <2>2 DEF StepPaces, PacedInv, PacedStep
  <1>3. ASSUME NEW id \in Ids, Attempt(id) PROVE StepPaces
    <2> DEFINE e == ledger[id]
               n == e.attempts + 1
               s == IF n >= MaxAttempts THEN "failed" ELSE "pending"
               f == [e EXCEPT !.attempts = n, !.lastAttemptAt = now, !.state = s]
    <2>1. now' = now /\ due' = due \ {id} /\ id \in due /\ e \in Entry /\ id \in Recorded
      BY <1>0, <1>3 DEF Attempt
    <2>2. \/ ledger' = ledger
          \/ Settle(e, now).state = "pending" /\ ledger' = [ledger EXCEPT ![id] = f]
      BY <1>0, <1>3, <2>1 DEF Attempt, RecordAttempt, Entry
    <2>3. \A i \in Recorded \ {id} : ledger'[i] = ledger[i]
      BY <1>0, <2>2
    <2>4. PacedInv'
      BY <1>0, <2>1, <2>3 DEF PacedInv
    <2>5. PacedStep(e, ledger'[id], now)
      <3>1. CASE ledger' = ledger
        BY <3>1 DEF PacedStep
      <3>2. CASE Settle(e, now).state = "pending" /\ ledger' = [ledger EXCEPT ![id] = f]
        <4>1. e.state = "pending"
          BY <1>0, <2>1, <3>2, SettledState
        <4>2. WaitedOut(e, now)
          BY <2>1 DEF PacedInv
        <4> HIDE DEF n, s
        <4>3. f.attempts = n
          BY <2>1 DEF Entry
        <4> HIDE DEF f
        <4>4. ledger'[id] = f
          BY <1>0, <3>2
        <4> QED  BY <4>1, <4>2, <4>3, <4>4 DEF PacedStep, WaitedOut, n
      <3> QED  BY <2>2, <3>1, <3>2
    <2> QED  BY <2>3, <2>4, <2>5 DEF StepPaces, PacedStep
  <1>4. ASSUME NEW r \in Receipts, ReceiptArrives(r) PROVE StepPaces
    <2> DEFINE e == ledger[r.id]
               f == [e EXCEPT !.state = "delivered", !.receipt = r]
    <2>1. now' = now /\ due' = due /\ ledger' = Acknowledge(ledger, r, now) /\ r \in Receipt
      BY <1>4 DEF ReceiptArrives
    <2>2. \/ ledger' = ledger
          \/ r.id \in Recorded /\ ledger' = [ledger EXCEPT ![r.id] = f]
      BY <1>0, <2>1, AcknowledgeDelivers DEF Recorded
    <2>3. r.id \in Recorded => f.state # "pending" /\ f.attempts = e.attempts
      BY <1>0 DEF Entry
    <2> HIDE DEF f
    <2>4. \A id \in Recorded : Unhurried(ledger[id], ledger'[id])
      BY <1>0, <2>2, <2>3 DEF Unhurried
    <2> QED  BY <1>0, <2>1, <2>4, UnhurriedStep
  <1>5. CASE Tick
    BY <1>0, <1>5, UnhurriedStep DEF Tick, Unhurried
  <1>6. CASE UNCHANGED vars
    BY <1>0, <1>6, UnhurriedStep DEF vars, Unhurried
  <1> QED  BY <1>1, <1>2, <1>3, <1>4, <1>5, <1>6 DEF Next

\* Attempts are recorded one by one and never sooner than the schedule allows,
\* however old the decision to send is (bridge.ts:216-249).
THEOREM AttemptsWaitTheirTurn == Spec => AttemptsArePaced
  <1>1. Init => PacedInv
    BY DEF Init, PacedInv
  <1>2. LedgerInv /\ PacedInv /\ [Next]_vars => PacedInv'
    BY NextPaces DEF StepPaces
  <1>3. LedgerInv /\ PacedInv /\ [Next]_vars =>
          [\A id \in Recorded :
             LET e == ledger[id]
             IN  ledger'[id].attempts # e.attempts =>
                   /\ ledger'[id].attempts = e.attempts + 1
                   /\ e.lastAttemptAt # None => WaitIsOver(e)]_vars
    <2> SUFFICES ASSUME LedgerInv, PacedInv, [Next]_vars, NEW id \in Recorded,
                        ledger'[id].attempts # ledger[id].attempts
                 PROVE  /\ ledger'[id].attempts = ledger[id].attempts + 1
                        /\ ledger[id].lastAttemptAt # None => WaitIsOver(ledger[id])
      OBVIOUS
    <2>1. StepPaces /\ GoodEntry(ledger[id]) /\ now \in Nat
      BY NextPaces DEF LedgerInv
    <2>2. PacedStep(ledger[id], ledger'[id], now)
      BY <2>1 DEF StepPaces
    <2> QED  BY <2>1, <2>2, BackoffIsTheWait DEF PacedStep
  <1> QED  BY Invariance, <1>1, <1>2, <1>3, PTL DEF Spec, AttemptsArePaced

=============================================================================
