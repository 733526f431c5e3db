--------------------------- MODULE NhReceiverProofs ---------------------------
(***************************************************************************)
(* Theorems about NhReceiver: types, that only a retry of a post that      *)
(* seemed to fail ever answers a comment a second time, and that the issue *)
(* is one ledger while nobody edits.  The ledger a run recomputes plays no *)
(* part in the first two: whatever it says, who answers is decided by what *)
(* the run has seen in the issue.  For the third it is a replay of the     *)
(* comments, which says of each what it said when the comment was written. *)
(***************************************************************************)
EXTENDS NhReceiver, TLAPS, WellFoundedInduction

\* What a position of the issue holds: a comment, or none any more.
Entries == Comment \cup {None}

\* The natural numbers are well ordered.
LEMMA NatOrder == \E R : IsWellFoundedOn(R, Nat) /\ \A x, y \in Nat : x < y => <<x, y>> \in R
  <1>1. \A x, y \in Nat : x < y => <<x,y>> \in OpToRel(<, Nat)
    BY DEF OpToRel
  <1>. QED BY <1>1, NatLessThanWellFounded, Zenon

\* A set of natural numbers has a least one.
LEMMA Least == ASSUME NEW T, T \subseteq Nat, T # {} PROVE \E m \in T : \A k \in T : m <= k
  <1>1. PICK R : IsWellFoundedOn(R, Nat) /\ \A x, y \in Nat : x < y => <<x, y>> \in R
    BY NatOrder
  <1>2. IsWellFoundedOn(R, Nat)
    BY <1>1
  <1>3. PICK m \in T : \A y \in T : ~(<<y,m>> \in R)
    BY <1>2, WFMin, Zenon
  <1>4. ASSUME NEW k \in T PROVE ~(k < m)
    <2>1. k \in Nat /\ m \in Nat
      OBVIOUS
    <2>2. k < m => <<k, m>> \in R
      BY <1>1, <2>1
    <2> QED BY <1>3, <2>2
  <1>5. \A k \in T : k \in Nat
    OBVIOUS
  <1> QED BY <1>4, <1>5

\* What holds of 0 and of each successor holds of every natural number.
LEMMA NatInduces == ASSUME NEW P, 0 \in P, \A n \in Nat : n \in P => n+1 \in P PROVE Nat \subseteq P
  <1> SUFFICES ASSUME NEW x \in Nat, x \notin P PROVE FALSE
    OBVIOUS
  <1>1. PICK m \in Nat \ P : \A k \in Nat \ P : m <= k
    BY Least
  <1>2. m # 0 /\ m - 1 \in Nat
    BY <1>1
  <1>3. m - 1 \in P
    BY <1>1, <1>2
  <1> QED BY <1>1, <1>2, <1>3

\* One comment's share in a replay.
Heard(ledger, c) ==
    IF IsLedgerComment(c) THEN Told(ledger, c.content, c.created) ELSE ledger

\* f holds the ledgers of a replay of the first n comments of s.
Replays(f, s, n) ==
    f = [i \in 0..n |-> IF i = 0 THEN EmptyLedger ELSE Heard(f[i - 1], s[i])]

\* Nothing replayed is the empty ledger.
LEMMA Starts == ASSUME NEW s PROVE \E f : Replays(f, s, 0)
  <1> DEFINE f == [i \in 0..0 |-> EmptyLedger]
  <1>1. f = [i \in 0..0 |-> IF i = 0 THEN EmptyLedger ELSE Heard(f[i - 1], s[i])]
    <2> SUFFICES ASSUME NEW i \in 0..0 PROVE i = 0
      OBVIOUS
    <2> QED OBVIOUS
  <1> HIDE DEF f
  <1> QED BY <1>1 DEF Replays

\* A replay step by step.
LEMMA Replayed ==
    ASSUME NEW s, NEW n \in Nat, NEW f, Replays(f, s, n)
    PROVE  /\ DOMAIN f = 0..n /\ f[0] = EmptyLedger
           /\ \A i \in 1..n : f[i] = Heard(f[i - 1], s[i])
  <1>1. f = [i \in 0..n |-> IF i = 0 THEN EmptyLedger ELSE Heard(f[i - 1], s[i])]
    BY DEF Replays
  <1> QED  BY <1>1

\* A replay goes on by one comment.
LEMMA Extends ==
    ASSUME NEW s, NEW n \in Nat, NEW f, Replays(f, s, n)
    PROVE  \E g : Replays(g, s, n + 1)
  <1> DEFINE last == Heard(f[n], s[n + 1])
             g == [i \in 0..(n + 1) |-> IF i = n + 1 THEN last ELSE f[i]]
  <1>1. /\ DOMAIN f = 0..n /\ f[0] = EmptyLedger
        /\ \A i \in 1..n : f[i] = Heard(f[i - 1], s[i])
    BY Replayed
  <1> HIDE DEF last
  <1>2. g[0] = EmptyLedger /\ g[n + 1] = last /\ \A i \in 0..n : g[i] = f[i]
    BY <1>1
  <1>3. \A i \in 0..(n+1) : g[i] = IF i = 0 THEN EmptyLedger ELSE Heard(g[i - 1], s[i])
    <2> HIDE DEF g
    <2>1. TAKE i \in 0..(n+1)
    <2>2. CASE i = 0
      BY <1>2, <2>2
    <2>3. CASE i = n + 1
      <3>1. g[i - 1] = f[n] /\ i # 0
        BY <2>3, <1>2
      <3> QED BY <2>3, <3>1, <1>2 DEF last
    <2>4. CASE i # 0 /\ i # n + 1
      <3>1. i \in 1..n /\ i - 1 \in 0..n /\ i \in 0..n
        BY <2>4
      <3> QED BY <3>1, <1>1, <1>2
    <2> QED BY <2>2, <2>3, <2>4
  <1>4. g = [i \in 0..(n + 1) |-> g[i]]
    OBVIOUS
  <1> HIDE DEF g
  <1>5. g = [i \in 0..(n + 1) |-> IF i = 0 THEN EmptyLedger ELSE Heard(g[i - 1], s[i])]
    BY <1>3, <1>4, Zenon
  <1> QED BY <1>5 DEF Replays

\* Any number of comments has a replay.
LEMMA ReplayExists == ASSUME NEW s, NEW n \in Nat PROVE \E f : Replays(f, s, n)
  <1> DEFINE P == {k \in Nat : \E f : Replays(f, s, k)}
  <1>1. 0 \in P
    BY Starts
  <1>2. \A k \in Nat : k \in P => k + 1 \in P
    BY Extends
  <1> HIDE DEF P
  <1>3. n \in P
    BY <1>1, <1>2, NatInduces
  <1> QED BY <1>3 DEF P

\* Replays agree on the comments they share.
LEMMA ReplaysAgree ==
    ASSUME NEW s, NEW t, NEW n \in Nat, NEW m \in Nat, NEW f, NEW g,
           Replays(f, s, n), Replays(g, t, m),
           n <= m, \A i \in 1..n : s[i] = t[i]
    PROVE  \A k \in 0..n : f[k] = g[k]
  <1> DEFINE P == {j \in Nat : j <= n => f[j] = g[j]}
  <1>1. /\ f[0] = EmptyLedger /\ \A i \in 1..n : f[i] = Heard(f[i - 1], s[i])
    BY Replayed
  <1>2. /\ g[0] = EmptyLedger /\ \A i \in 1..m : g[i] = Heard(g[i - 1], t[i])
    BY Replayed
  <1>3. 0 \in P
    BY <1>1, <1>2
  <1>4. \A j \in Nat : j \in P => j + 1 \in P
    <2> SUFFICES ASSUME NEW j \in Nat, j \in P, j + 1 <= n PROVE f[j + 1] = g[j + 1]
      OBVIOUS
    <2>1. f[j] = g[j] /\ j + 1 \in 1..n /\ j + 1 \in 1..m /\ (j + 1) - 1 = j
      OBVIOUS
    <2>2. f[j + 1] = Heard(f[j], s[j + 1]) /\ g[j + 1] = Heard(g[j], t[j + 1])
      BY <1>1, <1>2, <2>1
    <2> QED BY <2>1, <2>2
  <1> HIDE DEF P
  <1>5. Nat \subseteq P
    BY <1>3, <1>4, NatInduces
  <1> QED BY <1>5 DEF P

\* What LedgerBefore reads off a replay of all comments (receiver.ts:183-200).
LedgerIsRead ==
    Len(comments) \in Nat =>
        \E f : Replays(f, comments, Len(comments)) /\ \A n : LedgerBefore(n) = f[n - 1]

\* The ledger before a comment is a replay of those before it.
LEMMA LedgerIsReplay == LedgerIsRead
  <1> SUFFICES ASSUME Len(comments) \in Nat
               PROVE  \E f : /\ Replays(f, comments, Len(comments))
                             /\ \A n : LedgerBefore(n) = f[n - 1]
    BY DEF LedgerIsRead
  <1> DEFINE IsReplay(g) == g = [i \in 0..Len(comments) |->
                     IF i = 0 THEN EmptyLedger ELSE Heard(g[i - 1], comments[i])]
             f == CHOOSE g : IsReplay(g)
  <1>1. \E g : IsReplay(g)
    BY ReplayExists DEF Replays
  <1>2. IsReplay(f)
    BY <1>1, Zenon
  <1>3. \A n : LedgerBefore(n) = f[n - 1]
    BY Zenon DEF LedgerBefore, Heard
  <1> HIDE DEF f
  <1> QED  BY <1>2, <1>3 DEF Replays

\* The same after a step.
LEMMA LedgerIsReplayNext == LedgerIsRead'
  BY LedgerIsReplay, PTL

\* A comment written last changes no ledger before it.
LEMMA LedgerGrows ==
    ASSUME comments \in Seq(Entries), NEW c \in Entries, comments' = Append(comments, c)
    PROVE  /\ \A n \in 1..(Len(comments) + 1) : LedgerBefore(n)' = LedgerBefore(n)
           /\ CurrentLedger' = Heard(CurrentLedger, c)
  <1>1. PICK len \in Nat : len = Len(comments)
    OBVIOUS
  <1>2. PICK new \in Nat : new = len + 1
    OBVIOUS
  <1>3. /\ Len(comments') = new /\ comments'[new] = c
        /\ \A i \in 1..len : comments'[i] = comments[i]
    BY <1>1, <1>2
  <1>4. PICK f : Replays(f, comments, len) /\ \A n : LedgerBefore(n) = f[n - 1]
    BY <1>1, LedgerIsReplay DEF LedgerIsRead
  <1>5. PICK g : Replays(g, comments', new) /\ \A n : LedgerBefore(n)' = g[n - 1]
    BY <1>3, LedgerIsReplayNext DEF LedgerIsRead
  <1>6. \A k \in 0..len : g[k] = f[k]
    <2>1. len <= new /\ \A i \in 1..len : comments[i] = comments'[i]
      BY <1>2, <1>3
    <2>2. Replays(f, comments, len) /\ Replays(g, comments', new)
      BY <1>4, <1>5
    <2>3. PICK s : s = comments
      OBVIOUS
    <2>4. PICK t : t = comments'
      OBVIOUS
    <2>5. Replays(f, s, len) /\ Replays(g, t, new) /\ \A i \in 1..len : s[i] = t[i]
      BY <2>1, <2>2, <2>3, <2>4
    <2>6. len \in Nat /\ new \in Nat /\ len <= new
      BY <2>1
    <2>7. \A k \in 0..len : f[k] = g[k]
      BY ONLY <2>5, <2>6, ReplaysAgree
    <2> QED  BY <2>7
  <1>7. \A n \in 1..(len + 1) : LedgerBefore(n)' = LedgerBefore(n)
    <2> SUFFICES ASSUME NEW n \in 1..(len + 1) PROVE LedgerBefore(n)' = LedgerBefore(n)
      OBVIOUS
    <2>1. n - 1 \in 0..len
      OBVIOUS
    <2> QED  BY <1>4, <1>5, <1>6, <2>1
  <1>8. g[new] = Heard(g[len], c)
    <2>1. \A i \in 1..new : g[i] = Heard(g[i - 1], comments'[i])
      BY <1>5, Replayed, Zenon
    <2>2. new \in 1..new /\ new - 1 = len
      BY <1>2
    <2> QED  BY <1>3, <2>1, <2>2
  <1>9. CurrentLedger = f[len] /\ CurrentLedger' = g[new]
    <2>1. CurrentLedger = LedgerBefore(new)
      BY <1>1, <1>2 DEF CurrentLedger
    <2>2. PICK next : next = new + 1
      OBVIOUS
    <2>3. CurrentLedger' = LedgerBefore(next)'
      BY <1>3, <2>2 DEF CurrentLedger
    <2>4. new - 1 = len /\ next - 1 = new
      BY <1>2, <2>2
    <2> QED  BY <1>4, <1>5, <2>1, <2>3, <2>4
  <1>10. g[len] = f[len]
    BY <1>6
  <1> QED  BY <1>1, <1>7, <1>8, <1>9, <1>10

USE ReceiverAssumption, NoRecordAssumption, NullAssumption
USE DEF ReceiverAssumption, NoRecordAssumption, NullAssumption

\* A run about to post names the comment it answers, and nobody has answered
\* it before, unless the run itself did without knowing: the platform runs
\* one workflow at a time.
PostIsFirst ==
    InPhase("post") =>
        /\ run.answer.of = run.comment
        /\ run.comment \notin lost => ~AlreadyAnswered(run.comment)

ReceiverInv == TypeOK /\ PostIsFirst /\ AnsweredOnce

-----------------------------------------------------------------------------
LEMMA Appended ==
    ASSUME NEW s \in Seq(Entries), NEW c \in Entries
    PROVE  /\ Append(s, c) \in Seq(Entries)
           /\ DOMAIN s = 1..Len(s) /\ Len(s) \in Nat
           /\ DOMAIN Append(s, c) = 1..(Len(s) + 1)
           /\ Append(s, c)[Len(s) + 1] = c
           /\ \A i \in DOMAIN s : Append(s, c)[i] = s[i]
  OBVIOUS

LEMMA Replaced ==
    ASSUME NEW s \in Seq(Entries), NEW n \in DOMAIN s, NEW c \in Entries
    PROVE  /\ [s EXCEPT ![n] = c] \in Seq(Entries)
           /\ DOMAIN [s EXCEPT ![n] = c] = DOMAIN s
           /\ [s EXCEPT ![n] = c][n] = c
           /\ \A i \in DOMAIN s \ {n} : [s EXCEPT ![n] = c][i] = s[i]
  OBVIOUS

\* Whatever the ledger, a comment of the protocol gets one of the kinds
\* (receiver.ts:102-112).
LEMMA VerdictIsAKind ==
    ASSUME NEW l, NEW payload, NEW t PROVE Verdict(l, payload, t) \in Kinds
  <1>1. ReceiveOutcome(l, payload, t) \in {"accepted", "duplicate", "conflict", "rejected"}
    BY DEF ReceiveOutcome
  <1>2. AckOutcome(l, payload, t) \in {"delivered", "already_delivered", "refused"}
    BY DEF AckOutcome
  <1>3. MessageKind[ReceiveOutcome(l, payload, t)] \in Kinds
    BY <1>1 DEF MessageKind, Kinds
  <1>4. AckKind[AckOutcome(l, payload, t)] \in Kinds
    BY <1>2 DEF AckKind, Kinds
  <1> QED  BY <1>3, <1>4 DEF Verdict, Kinds

\* The decision on a comment is an answer to that comment (receiver.ts:202-215).
LEMMA DecisionIsAnAnswer ==
    ASSUME TypeOK, NEW n \in DOMAIN comments, comments[n] # None, Answerable(comments[n])
    PROVE  Decide(n) \in AnswerText /\ Decide(n).of = n
  <1> DEFINE c == comments[n]
  <1>1. n \in Nat
    BY DEF TypeOK
  <1>2. c.content \in Payloads \cup {Malformed}
    BY DEF Answerable, IsProtocol
  <1>3. CASE Edited(c) \/ c.content = Malformed
    BY <1>1, <1>3 DEF Decide, LedgerReceipt, AnswerText, Kinds
  <1>4. CASE ~(Edited(c) \/ c.content = Malformed)
    <2>1. c.content.id \in Ids /\ c.content.body \in Bodies
      BY <1>2, <1>4 DEF Message, Receipt
    <2>2. Verdict(LedgerBefore(n), c.content, c.created) \in Kinds
      BY VerdictIsAKind
    <2>3. Decide(n) = LedgerReceipt(n, Verdict(LedgerBefore(n), c.content, c.created),
                                    c.content.id, c.content.body)
      BY <1>4 DEF Decide
    <2> QED  BY <1>1, <2>1, <2>2, <2>3 DEF LedgerReceipt, AnswerText
  <1> QED  BY <1>3, <1>4

-----------------------------------------------------------------------------
LEMMA InitEstablishes == Init => ReceiverInv
  BY DEF Init, ReceiverInv, TypeOK, PostIsFirst, InPhase, AnsweredOnce, Answers

\* A run that fails an attempt keeps its comment, phase and answer, or ends.
LEMMA FailedAttempt ==
    ASSUME TypeOK, run # None, AttemptFails
    PROVE  /\ UNCHANGED <<now, wanted, pending, edits, reruns>>
           /\ results' \subseteq results \cup {<<run.comment, "failed">>}
           /\ \/ run' = None
              \/ /\ run' \in RunState /\ run'.tries < MaxApiAttempts
                 /\ run'.comment = run.comment /\ run'.phase = run.phase
                 /\ run'.answer = run.answer
  <1>1. run \in RunState /\ run.tries \in Nat
    BY DEF TypeOK, RunState
  <1>2. CASE run.tries + 1 < MaxApiAttempts
    <2>1. run' = [run EXCEPT !.tries = run.tries + 1]
          /\ UNCHANGED <<now, wanted, pending, results, edits, reruns>>
      BY <1>2 DEF AttemptFails
    <2> QED  BY <1>1, <1>2, <2>1 DEF RunState
  <1>3. CASE ~(run.tries + 1 < MaxApiAttempts)
    BY <1>3 DEF AttemptFails, EndRun
  <1> QED  BY <1>2, <1>3

\* TypeOK in the pieces the proofs below use.
LEMMA TypeFacts ==
    ASSUME TypeOK
    PROVE  /\ comments \in Seq(Entries) /\ DOMAIN comments = 1..Len(comments)
           /\ Len(comments) \in Nat
           /\ run # None => run \in RunState /\ run.comment \in wanted
                            /\ run.comment \in DOMAIN comments
  BY DEF TypeOK, Entries

\* A step that revises comments in place keeps the types.
LEMMA Revised ==
    ASSUME TypeOK, comments' \in Seq(Entries), DOMAIN comments' = DOMAIN comments,
           edits' = edits + 1,
           UNCHANGED <<now, wanted, pending, run, results, lost, reruns>>
    PROVE  TypeOK'
  <1>1. edits' \in Nat
    BY DEF TypeOK
  <1>2. comments' \in Seq(Comment \cup {None})
    BY DEF Entries
  <1> QED  BY <1>1, <1>2 DEF TypeOK

\* Every step keeps the types (receiver.ts, nh-receiver.yml).
LEMMA TypeIsInductive == ASSUME TypeOK, [Next]_vars PROVE TypeOK'
  <1> USE TypeFacts
  <1>1. ASSUME NEW w \in Writes, Write(w.author, w.content) PROVE TypeOK'
    <2> DEFINE c == [author |-> w.author, content |-> w.content, created |-> now, updated |-> now]
               n == Len(comments) + 1
    <2>1. c \in Entries
      BY DEF TypeOK, Entries, Comment
    <2>2. comments' = Append(comments, c)
      BY <1>1 DEF Write
    <2> HIDE DEF c
    <2>3. comments' \in Seq(Entries) /\ DOMAIN comments' = DOMAIN comments \cup {n}
      BY <2>1, <2>2, Appended
    <2>4. wanted' \subseteq wanted \cup {n} /\ wanted \subseteq wanted'
          /\ UNCHANGED <<now, run, lost, edits, reruns>>
      BY <1>1 DEF Write
    <2>5. pending' = n
          /\ results' = results \cup (IF pending = None THEN {} ELSE {<<pending, "cancelled">>})
      BY <1>1 DEF Write, Enqueue
    <2>6. results' \subseteq (DOMAIN comments') \X Results
      BY <2>3, <2>5 DEF TypeOK, Results
    <2> QED  BY <2>3, <2>4, <2>5, <2>6 DEF TypeOK, Entries
  <1>2. ASSUME NEW n \in DOMAIN comments, Delete(n) PROVE TypeOK'
    <2>1. comments' = [comments EXCEPT ![n] = None] /\ edits' = edits + 1
          /\ UNCHANGED <<now, wanted, pending, run, results, lost, reruns>>
      BY <1>2 DEF Delete
    <2>2. comments' \in Seq(Entries) /\ DOMAIN comments' = DOMAIN comments
      BY <2>1, Replaced DEF Entries
    <2> QED  BY <2>1, <2>2, Revised
  <1>3. ASSUME NEW n \in DOMAIN comments, NEW w \in Writes, Edit(n, w.content) PROVE TypeOK'
    <2> DEFINE c == [comments[n] EXCEPT !.content = w.content, !.updated = now]
    <2>1. comments[n] \in Comment /\ comments[n].author # "bot"
      BY <1>3 DEF Edit, Revisable, Entries
    <2>2. c \in Comment
      BY <2>1 DEF Comment, TypeOK
    <2>3. comments' = [comments EXCEPT ![n] = c] /\ edits' = edits + 1
          /\ UNCHANGED <<now, wanted, pending, run, results, lost, reruns>>
      BY <1>3, <2>1 DEF Edit
    <2> HIDE DEF c
    <2>4. comments' \in Seq(Entries) /\ DOMAIN comments' = DOMAIN comments
      BY <2>2, <2>3, Replaced DEF Entries
    <2> QED  BY <2>3, <2>4, Revised
  <1>4. ASSUME NEW n \in DOMAIN comments, Rerun(n) PROVE TypeOK'
    <2>1. results' \subseteq results \cup {<<pending, "cancelled">>}
          /\ (pending = None => results' = results)
      BY <1>4 DEF Rerun, Enqueue
    <2> QED  BY <1>4, <2>1 DEF Rerun, Enqueue, TypeOK, Results
  <1>5. CASE Tick
    BY <1>5 DEF Tick, TypeOK
  <1>6. CASE StartRun
    <2>1. run' # None => run' \in RunState /\ run'.comment \in wanted
                         /\ run'.tries = 0 /\ run'.phase = "list"
      BY <1>6 DEF StartRun, RunState, TypeOK
    <2> QED  BY <1>6, <2>1 DEF StartRun, TypeOK
  <1>7. ASSUME NEW r \in Results, EndRun(r), run # None, UNCHANGED <<comments, lost>>
        PROVE  TypeOK'
    BY <1>7 DEF EndRun, TypeOK
  <1>8. ASSUME InPhase("post"), AnswerPosted
        PROVE  comments' \in Seq(Entries) /\ DOMAIN comments \subseteq DOMAIN comments'
    <2> DEFINE c == [author |-> "bot", content |-> run.answer, created |-> now, updated |-> now]
    <2>1. c \in Entries
      BY <1>8 DEF InPhase, TypeOK, Entries, Comment
    <2>2. comments' = Append(comments, c)
      BY <1>8 DEF AnswerPosted
    <2> HIDE DEF c
    <2> QED  BY <2>1, <2>2, Appended
  <1>9. ASSUME NEW r \in Results, EndRun(r), InPhase("post"), AnswerPosted, UNCHANGED lost
        PROVE  TypeOK'
    BY <1>8, <1>9 DEF EndRun, TypeOK, InPhase, Entries
  <1>10. CASE ListComments
    <2> DEFINE n == run.comment
    <2>1. run # None /\ UNCHANGED <<comments, lost>> /\ n \in DOMAIN comments
      BY <1>10 DEF ListComments, InPhase
    <2>2. CASE EndRun("failed") \/ EndRun("ignored") \/ EndRun("already_answered")
      BY <1>7, <2>1, <2>2 DEF Results
    <2>3. CASE /\ comments[n] # None /\ Answerable(comments[n])
               /\ run' = [run EXCEPT !.phase = "post", !.tries = 0, !.answer = Decide(n)]
               /\ UNCHANGED <<now, wanted, pending, results, edits, reruns>>
      <3>1. Decide(n) \in AnswerText
        BY <2>1, <2>3, DecisionIsAnAnswer
      <3>2. run' \in RunState /\ run'.comment = n /\ run'.tries = 0 /\ run'.answer = Decide(n)
        BY <2>1, <2>3, <3>1 DEF RunState
      <3>3. n \in wanted /\ UNCHANGED <<comments, now, wanted, pending, results, lost, edits, reruns>>
        BY <2>1, <2>3, TypeFacts
      <3>4. run'.comment \in wanted /\ run'.tries < MaxApiAttempts
        BY <3>2, <3>3
      <3> QED  BY <3>1, <3>2, <3>3, <3>4 DEF TypeOK
    <2> QED  BY <1>10, <2>2, <2>3 DEF ListComments
  <1>11. CASE CallFails
    BY <1>11, FailedAttempt, SMTT(30) DEF CallFails, TypeOK, Results
  <1>12. CASE PostComment
    BY <1>9, <1>12 DEF PostComment, Results
  <1>13. CASE PostLosesAnswer
    <2>1. /\ run # None /\ AttemptFails /\ InPhase("post") /\ AnswerPosted
          /\ lost' = lost \cup {run.comment}
      BY <1>13 DEF PostLosesAnswer, InPhase
    <2>2. comments' \in Seq(Entries) /\ DOMAIN comments \subseteq DOMAIN comments'
      BY <1>8, <2>1
    <2>3. run.comment \in wanted /\ run.comment \in DOMAIN comments
      BY <2>1, TypeFacts
    <2>4. /\ UNCHANGED <<now, wanted, pending, edits, reruns>>
          /\ results' \subseteq (DOMAIN comments') \X Results
          /\ lost' \subseteq wanted'
      BY <2>1, <2>2, <2>3, FailedAttempt DEF TypeOK, Results
    <2>5. run' # None =>
            /\ run' \in RunState /\ run'.comment \in wanted' /\ run'.tries < MaxApiAttempts
            /\ run'.phase = "post" => run'.answer \in AnswerText
      BY <2>1, <2>3, <2>4, FailedAttempt DEF TypeOK
    <2>6. comments' \in Seq(Comment \cup {None})
      BY <2>2 DEF Entries
    <2> QED  BY <2>2, <2>4, <2>5, <2>6 DEF TypeOK
  <1>14. CASE Killed
    <2>1. run # None /\ EndRun("failed") /\ "failed" \in Results /\ UNCHANGED lost
      BY <1>14 DEF Killed, Results
    <2>2. UNCHANGED comments \/ (InPhase("post") /\ AnswerPosted)
      BY <1>14 DEF Killed, InPhase
    <2> QED  BY <1>7, <1>9, <2>1, <2>2
  <1>15. CASE UNCHANGED vars
    BY <1>15 DEF vars, TypeOK
  <1> QED
    BY <1>1, <1>2, <1>3, <1>4, <1>5, <1>6, <1>10, <1>11, <1>12, <1>13, <1>14, <1>15
    DEF Next, RunStep

\* Comments, the queue and the run in progress are of their types
\* (receiver.ts:37-66, 259-274).
THEOREM TypesHold == Spec => []TypeOK
  <1>1. Init => TypeOK
    BY DEF Init, TypeOK
  <1> QED  BY <1>1, TypeIsInductive, PTL DEF Spec

-----------------------------------------------------------------------------
\* The answers on the issue are the same ones after the step.
SameAnswers == Answers' = Answers /\ \A i \in Answers : comments'[i] = comments[i]

\* A comment is answered by an answer on the issue.
LEMMA AnsweredMeans ==
    \A n : AlreadyAnswered(n) <=> \E i \in Answers : comments[i].content.of = n
  BY DEF AlreadyAnswered, IsAnswer, Answers

\* The same after a step.
LEMMA AnsweredMeansNext ==
    \A n : AlreadyAnswered(n)' <=> \E i \in Answers' : comments'[i].content.of = n
  BY DEF AlreadyAnswered, IsAnswer, Answers

\* A step that leaves the answers alone keeps the invariant if the run stays,
\* ends, or still lists.
LEMMA QuietStep ==
    ASSUME ReceiverInv, SameAnswers, lost' = lost,
           \/ run' = None
           \/ run' # None /\ run'.phase = "list"
           \/ /\ run # None /\ run' # None
              /\ run'.comment = run.comment /\ run'.phase = run.phase
              /\ run'.answer = run.answer
    PROVE  PostIsFirst' /\ AnsweredOnce'
  <1>1. AnsweredOnce'
    BY DEF ReceiverInv, SameAnswers, AnsweredOnce
  <1>2. \A n : AlreadyAnswered(n)' <=> AlreadyAnswered(n)
    BY AnsweredMeans, AnsweredMeansNext DEF SameAnswers
  <1>3. PostIsFirst'
    BY <1>2 DEF ReceiverInv, PostIsFirst, InPhase
  <1> QED  BY <1>1, <1>3

\* Comments of people come, change and go without touching the answers.
LEMMA PeopleKeepAnswers ==
    ASSUME TypeOK, NEW c \in Entries, c = None \/ c.author # "bot",
           \/ comments' = Append(comments, c)
           \/ \E n \in DOMAIN comments :
                 /\ comments[n] # None /\ comments[n].author # "bot"
                 /\ comments' = [comments EXCEPT ![n] = c]
    PROVE  SameAnswers
  <1>1. comments \in Seq(Entries) /\ DOMAIN comments = 1..Len(comments) /\ Len(comments) \in Nat
    BY TypeFacts
  <1>2. CASE comments' = Append(comments, c)
    <2>1. /\ DOMAIN comments' = DOMAIN comments \cup {Len(comments) + 1}
          /\ comments'[Len(comments) + 1] = c
          /\ \A i \in DOMAIN comments : comments'[i] = comments[i]
      BY <1>1, <1>2, Appended
    <2> QED  BY <2>1 DEF SameAnswers, Answers
  <1>3. ASSUME NEW n \in DOMAIN comments, comments[n] # None, comments[n].author # "bot",
               comments' = [comments EXCEPT ![n] = c]
        PROVE  SameAnswers
    <2>1. /\ DOMAIN comments' = DOMAIN comments /\ comments'[n] = c
          /\ \A i \in DOMAIN comments \ {n} : comments'[i] = comments[i]
      BY <1>1, <1>3, Replaced
    <2> QED  BY <1>3, <2>1 DEF SameAnswers, Answers
  <1> QED  BY <1>2, <1>3

\* The answer posted is the first for its comment, unless a post was lost.
LEMMA FirstAnswer ==
    ASSUME ReceiverInv, InPhase("post"), AnswerPosted, lost \subseteq lost'
    PROVE  AnsweredOnce'
  <1> DEFINE c == [author |-> "bot", content |-> run.answer, created |-> now, updated |-> now]
             n == Len(comments) + 1
  <1>1. comments \in Seq(Entries) /\ DOMAIN comments = 1..Len(comments) /\ Len(comments) \in Nat
    BY TypeFacts DEF ReceiverInv
  <1>2. c \in Comment /\ c \in Entries
    BY DEF ReceiverInv, InPhase, TypeOK, Entries, Comment
  <1>3. comments' = Append(comments, c)
    BY DEF AnswerPosted
  <1>4. c.content.of = run.comment /\ (run.comment \notin lost => ~AlreadyAnswered(run.comment))
    BY DEF ReceiverInv, PostIsFirst
  <1> HIDE DEF c
  <1>5. /\ DOMAIN comments' = DOMAIN comments \cup {n} /\ n \notin DOMAIN comments
        /\ comments'[n] = c
        /\ \A i \in DOMAIN comments : comments'[i] = comments[i]
    BY <1>1, <1>2, <1>3, Appended
  <1>6. Answers' \subseteq Answers \cup {n} /\ Answers \subseteq DOMAIN comments
    BY <1>5 DEF Answers
  <1>7. c.content.of \in lost \/ \A i \in Answers : comments'[i].content.of # c.content.of
    BY <1>4, <1>5, <1>6, AnsweredMeans
  <1>8. \A i, j \in Answers :
            comments'[i].content.of = comments'[j].content.of
            => i = j \/ comments'[i].content.of \in lost
    BY <1>5, <1>6 DEF ReceiverInv, AnsweredOnce
  <1> QED  BY <1>5, <1>6, <1>7, <1>8 DEF AnsweredOnce

\* Every step keeps the parts of the invariant that are not about types.
LEMMA AnswersAreInductive ==
    ASSUME ReceiverInv, [Next]_vars
    PROVE  PostIsFirst' /\ AnsweredOnce'
  <1>0. TypeOK /\ TypeOK'
    BY TypeIsInductive DEF ReceiverInv
  <1>1. ASSUME UNCHANGED <<comments, run, lost>> PROVE PostIsFirst' /\ AnsweredOnce'
    BY <1>1, QuietStep DEF SameAnswers, Answers
  <1>2. ASSUME NEW w \in Writes, Write(w.author, w.content) PROVE PostIsFirst' /\ AnsweredOnce'
    <2> DEFINE c == [author |-> w.author, content |-> w.content, created |-> now, updated |-> now]
    <2>1. c \in Entries /\ c.author # "bot"
      BY <1>0 DEF TypeOK, Entries, Comment
    <2>2. comments' = Append(comments, c) /\ run' = run /\ lost' = lost
      BY <1>2 DEF Write
    <2> HIDE DEF c
    <2> QED  BY <1>0, <2>1, <2>2, PeopleKeepAnswers, QuietStep
  <1>3. ASSUME NEW n \in DOMAIN comments, Delete(n) PROVE PostIsFirst' /\ AnsweredOnce'
    <2>1. comments' = [comments EXCEPT ![n] = None] /\ run' = run /\ lost' = lost
          /\ comments[n] # None /\ comments[n].author # "bot" /\ None \in Entries
      BY <1>3 DEF Delete, Revisable, Entries
    <2> QED  BY <1>0, <2>1, PeopleKeepAnswers, QuietStep
  <1>4. ASSUME NEW n \in DOMAIN comments, NEW w \in Writes, Edit(n, w.content) PROVE PostIsFirst' /\ AnsweredOnce'
    <2> DEFINE c == [comments[n] EXCEPT !.content = w.content, !.updated = now]
    <2>1. comments[n] \in Comment /\ comments[n].author # "bot" /\ comments[n] # None
      BY <1>0, <1>4, TypeFacts DEF Edit, Revisable, Entries
    <2>2. c \in Entries /\ c.author # "bot"
      BY <1>0, <2>1 DEF Comment, TypeOK, Entries
    <2>3. comments' = [comments EXCEPT ![n] = c] /\ run' = run /\ lost' = lost
      BY <1>4, <2>1 DEF Edit
    <2> HIDE DEF c
    <2> QED  BY <1>0, <2>1, <2>2, <2>3, PeopleKeepAnswers, QuietStep
  <1>5. CASE StartRun
    BY <1>5, QuietStep DEF StartRun, SameAnswers, Answers
  <1>6. ASSUME UNCHANGED <<comments, lost>>, run' = None PROVE PostIsFirst' /\ AnsweredOnce'
    BY <1>6, QuietStep DEF SameAnswers, Answers
  <1>7. ASSUME InPhase("post"), AnswerPosted, lost' = lost, run' = None
        PROVE  PostIsFirst' /\ AnsweredOnce'
    BY <1>7, FirstAnswer DEF PostIsFirst, InPhase
  <1>8. CASE ListComments
    <2> DEFINE n == run.comment
    <2>1. run # None /\ run \in RunState /\ UNCHANGED <<comments, lost>> /\ n \in DOMAIN comments
      BY <1>0, <1>8, TypeFacts DEF ListComments, InPhase
    <2>2. CASE EndRun("failed") \/ EndRun("ignored") \/ EndRun("already_answered")
      BY <1>6, <2>1, <2>2 DEF EndRun
    <2>3. CASE /\ comments[n] # None /\ Answerable(comments[n]) /\ ~AlreadyAnswered(n)
               /\ run' = [run EXCEPT !.phase = "post", !.tries = 0, !.answer = Decide(n)]
      <3>1. Decide(n).of = n
        BY <1>0, <2>1, <2>3, DecisionIsAnAnswer
      <3>2. run'.comment = n /\ run'.answer = Decide(n)
        BY <2>1, <2>3 DEF RunState
      <3>3. \A m : AlreadyAnswered(m)' <=> AlreadyAnswered(m)
        BY <2>1 DEF AlreadyAnswered, IsAnswer
      <3>4. PostIsFirst'
        BY <2>3, <3>1, <3>2, <3>3 DEF PostIsFirst
      <3>5. AnsweredOnce'
        BY <2>1 DEF ReceiverInv, AnsweredOnce, Answers
      <3> QED  BY <3>4, <3>5
    <2> QED  BY <1>8, <2>2, <2>3 DEF ListComments
  <1>9. CASE CallFails
    <2>1. run # None /\ AttemptFails /\ SameAnswers /\ lost' = lost
      BY <1>9 DEF CallFails, SameAnswers, Answers
    <2>2. \/ run' = None
          \/ /\ run' \in RunState
             /\ run'.comment = run.comment /\ run'.phase = run.phase
             /\ run'.answer = run.answer
      BY <1>0, <2>1, FailedAttempt
    <2> QED  BY <2>1, <2>2, QuietStep
  <1>10. CASE PostComment
    BY <1>7, <1>10 DEF PostComment, EndRun
  <1>11. CASE PostLosesAnswer
    <2>1. /\ run # None /\ AttemptFails /\ InPhase("post") /\ AnswerPosted
          /\ lost' = lost \cup {run.comment}
      BY <1>11 DEF PostLosesAnswer, InPhase
    <2>2. \/ run' = None
          \/ run'.comment = run.comment /\ run'.phase = run.phase /\ run'.answer = run.answer
      BY <1>0, <2>1, FailedAttempt
    <2>3. PostIsFirst'
      BY <2>1, <2>2 DEF ReceiverInv, PostIsFirst, InPhase
    <2>4. AnsweredOnce'
      BY <2>1, FirstAnswer
    <2> QED  BY <2>3, <2>4
  <1>12. CASE Killed
    BY <1>6, <1>7, <1>12 DEF Killed, EndRun, InPhase
  <1>13. ASSUME NEW n \in DOMAIN comments, Rerun(n) PROVE UNCHANGED <<comments, run, lost>>
    BY <1>13 DEF Rerun
  <1>14. Tick \/ UNCHANGED vars => UNCHANGED <<comments, run, lost>>
    BY DEF Tick, vars
  <1> QED
    BY <1>1, <1>2, <1>3, <1>4, <1>5, <1>8, <1>9, <1>10, <1>11, <1>12, <1>13, <1>14
    DEF Next, RunStep

\* Every step keeps the invariant.
LEMMA InvIsInductive == ASSUME ReceiverInv, [Next]_vars PROVE ReceiverInv'
  BY TypeIsInductive, AnswersAreInductive DEF ReceiverInv

\* Only a retry of a post that seemed to fail answers a comment twice:
\* repeated runs, killed ones, edits, deletions and anybody's quotes change
\* nothing (receiver.ts:278-298).
THEOREM OneAnswerPerComment == Spec => []AnsweredOnce
  <1>1. ReceiverInv => AnsweredOnce
    BY DEF ReceiverInv
  <1> QED  BY InitEstablishes, InvIsInductive, <1>1, PTL DEF Spec

-----------------------------------------------------------------------------
\* An answer, once posted, stays: nobody but the bot can remove it.
LEMMA PostAnswers ==
    ASSUME ReceiverInv, InPhase("post"), AnswerPosted
    PROVE  \A n : AlreadyAnswered(n) \/ n = run.comment => AlreadyAnswered(n)'
  <1> DEFINE c == [author |-> "bot", content |-> run.answer, created |-> now, updated |-> now]
             last == Len(comments) + 1
  <1>1. comments \in Seq(Entries) /\ DOMAIN comments = 1..Len(comments) /\ Len(comments) \in Nat
    BY TypeFacts DEF ReceiverInv
  <1>2. c \in Comment /\ c \in Entries /\ c # None
    BY DEF ReceiverInv, InPhase, TypeOK, Entries, Comment
  <1>3. c.author = "bot" /\ c.content.of = run.comment
    BY DEF ReceiverInv, PostIsFirst
  <1>4. comments' = Append(comments, c)
    BY DEF AnswerPosted
  <1> HIDE DEF c
  <1>5. /\ DOMAIN comments' = DOMAIN comments \cup {last}
        /\ comments'[last] = c
        /\ \A i \in DOMAIN comments : comments'[i] = comments[i]
    BY <1>1, <1>2, <1>4, Appended
  <1>6. \A n : AlreadyAnswered(n) => AlreadyAnswered(n)'
    BY <1>5 DEF AlreadyAnswered, IsAnswer
  <1>7. \E i \in DOMAIN comments' :
            comments'[i] # None /\ comments'[i].author = "bot" /\ comments'[i].content.of = run.comment
    BY <1>2, <1>3, <1>5
  <1>8. \A n : n = run.comment => AlreadyAnswered(n)'
    BY <1>7 DEF AlreadyAnswered, IsAnswer
  <1> QED  BY <1>6, <1>8

\* A step that takes no answer away and reports no success keeps what
\* successes stand for.
LEMMA NoNewSuccess ==
    ASSUME TypeOK, SuccessIsAnswered,
           \A n : AlreadyAnswered(n) => AlreadyAnswered(n)',
           \A n : \A r \in {"posted", "already_answered"} :
              <<n, r>> \in results' => <<n, r>> \in results \/ AlreadyAnswered(n)'
    PROVE  SuccessIsAnswered'
  <1> SUFFICES ASSUME NEW n \in (DOMAIN comments)',
                      <<n, "posted">> \in results' \/ <<n, "already_answered">> \in results'
               PROVE  AlreadyAnswered(n)'
    BY AnsweredMeansNext DEF SuccessIsAnswered
  <1>1. CASE AlreadyAnswered(n)'
    BY <1>1
  <1>2. CASE <<n, "posted">> \in results \/ <<n, "already_answered">> \in results
    <2>1. n \in DOMAIN comments
      BY <1>2 DEF TypeOK
    <2> QED  BY <1>2, <2>1, AnsweredMeans DEF SuccessIsAnswered
  <1> QED  BY <1>1, <1>2

\* Every step keeps what successes stand for.
LEMMA SuccessIsInductive ==
    ASSUME ReceiverInv, SuccessIsAnswered, [Next]_vars
    PROVE  SuccessIsAnswered'
  <1>0. TypeOK
    BY DEF ReceiverInv
  <1>1. ASSUME SameAnswers PROVE \A n : AlreadyAnswered(n) => AlreadyAnswered(n)'
    BY <1>1, AnsweredMeans, AnsweredMeansNext DEF SameAnswers
  <1>2. comments' = comments => SameAnswers
    BY DEF SameAnswers, Answers
  <1>3. ASSUME results' = results, SameAnswers PROVE SuccessIsAnswered'
    BY <1>0, <1>1, <1>3, NoNewSuccess
  <1>4. ASSUME NEW n, Enqueue(n), SameAnswers PROVE SuccessIsAnswered'
    <2>1. results' \subseteq results \cup {<<pending, "cancelled">>}
      BY <1>4 DEF Enqueue
    <2> QED  BY <1>0, <1>1, <1>4, <2>1, NoNewSuccess
  <1>5. ASSUME NEW w \in Writes, Write(w.author, w.content) PROVE SuccessIsAnswered'
    <2> DEFINE c == [author |-> w.author, content |-> w.content, created |-> now, updated |-> now]
    <2>1. c \in Entries /\ c.author # "bot"
      BY <1>0 DEF TypeOK, Entries, Comment
    <2>2. comments' = Append(comments, c) /\ Enqueue(Len(comments) + 1)
      BY <1>5 DEF Write
    <2> HIDE DEF c
    <2> QED  BY <1>0, <1>4, <2>1, <2>2, PeopleKeepAnswers
  <1>6. ASSUME NEW n \in DOMAIN comments, Delete(n) PROVE SuccessIsAnswered'
    <2>1. comments' = [comments EXCEPT ![n] = None] /\ results' = results
          /\ comments[n] # None /\ comments[n].author # "bot" /\ None \in Entries
      BY <1>6 DEF Delete, Revisable, Entries
    <2> QED  BY <1>0, <1>3, <2>1, PeopleKeepAnswers
  <1>7. ASSUME NEW n \in DOMAIN comments, NEW w \in Writes, Edit(n, w.content) PROVE SuccessIsAnswered'
    <2> DEFINE c == [comments[n] EXCEPT !.content = w.content, !.updated = now]
    <2>1. comments[n] \in Comment /\ comments[n].author # "bot" /\ comments[n] # None
      BY <1>0, <1>7, TypeFacts DEF Edit, Revisable, Entries
    <2>2. c \in Entries /\ c.author # "bot"
      BY <1>0, <2>1 DEF Comment, TypeOK, Entries
    <2>3. comments' = [comments EXCEPT ![n] = c] /\ results' = results
      BY <1>7, <2>1 DEF Edit
    <2> HIDE DEF c
    <2> QED  BY <1>0, <1>3, <2>1, <2>2, <2>3, PeopleKeepAnswers
  <1>8. ASSUME NEW n \in DOMAIN comments, Rerun(n) PROVE SuccessIsAnswered'
    BY <1>2, <1>4, <1>8 DEF Rerun
  <1>9. CASE Tick \/ StartRun \/ UNCHANGED vars
    BY <1>2, <1>3, <1>9 DEF Tick, StartRun, vars
  <1>10. CASE ListComments
    <2>1. comments' = comments
      BY <1>10 DEF ListComments
    <2>2. \A n : AlreadyAnswered(n) => AlreadyAnswered(n)'
      BY <1>1, <1>2, <2>1
    <2>3. \/ results' \in {results, results \cup {<<run.comment, "failed">>},
                           results \cup {<<run.comment, "ignored">>}}
          \/ /\ AlreadyAnswered(run.comment)
             /\ results' = results \cup {<<run.comment, "already_answered">>}
      BY <1>10 DEF ListComments, EndRun
    <2> QED  BY <1>0, <2>2, <2>3, NoNewSuccess
  <1>11. ASSUME \A n : AlreadyAnswered(n) => AlreadyAnswered(n)',
                results' \subseteq results \cup {<<run.comment, "failed">>}
         PROVE  SuccessIsAnswered'
    BY <1>0, <1>11, NoNewSuccess
  <1>12. CASE CallFails
    <2>1. comments' = comments /\ results' \subseteq results \cup {<<run.comment, "failed">>}
      BY <1>0, <1>12, FailedAttempt DEF CallFails
    <2> QED  BY <1>1, <1>2, <1>11, <2>1
  <1>13. CASE PostComment
    <2>1. InPhase("post") /\ AnswerPosted /\ results' = results \cup {<<run.comment, "posted">>}
      BY <1>13 DEF PostComment, EndRun
    <2>2. \A n : <<n, "posted">> \in results' => <<n, "posted">> \in results \/ n = run.comment
      BY <2>1
    <2>3. \A n : <<n, "already_answered">> \in results' => <<n, "already_answered">> \in results
      BY <2>1
    <2> QED  BY <1>0, <2>1, <2>2, <2>3, PostAnswers, NoNewSuccess
  <1>14. CASE PostLosesAnswer
    <2>1. InPhase("post") /\ AnswerPosted /\ results' \subseteq results \cup {<<run.comment, "failed">>}
      BY <1>0, <1>14, FailedAttempt DEF PostLosesAnswer, InPhase
    <2> QED  BY <1>11, <2>1, PostAnswers
  <1>15. CASE Killed
    <2>1. /\ results' = results \cup {<<run.comment, "failed">>}
          /\ comments' = comments \/ (InPhase("post") /\ AnswerPosted)
      BY <1>15 DEF Killed, EndRun, InPhase
    <2> QED  BY <1>1, <1>2, <1>11, <2>1, PostAnswers
  <1> QED
    BY <1>5, <1>6, <1>7, <1>8, <1>9, <1>10, <1>12, <1>13, <1>14, <1>15 DEF Next, RunStep

\* A run reported as a success left an answer to its comment on the issue, be it
\* its own or an earlier run's (receiver.ts:278-298).
THEOREM SuccessMeansAnswered == Spec => []SuccessIsAnswered
  <1>1. Init => SuccessIsAnswered
    BY DEF Init, SuccessIsAnswered
  <1>2. ReceiverInv /\ SuccessIsAnswered /\ [Next]_vars => ReceiverInv' /\ SuccessIsAnswered'
    BY InvIsInductive, SuccessIsInductive
  <1> QED  BY InitEstablishes, <1>1, <1>2, PTL DEF Spec

-----------------------------------------------------------------------------
(***************************************************************************)
(* The receiver implements CommentLedger while nobody edits.               *)
(***************************************************************************)
\* Without edits every comment is as it was written.
Unrevised == \A n \in DOMAIN comments : comments[n] # None /\ ~Edited(comments[n])

\* What a run is about to post is what the ledger said of the comment when it
\* was written, although the run read the issue later.
AnswersAsTold ==
    InPhase("post") =>
        run.comment \in LedgerComments /\ run.answer.kind = Told_[run.comment]

\* While nobody edits, the issue is a log and every answer is what the ledger said.
LedgerInv == now <= MaxClock /\ (edits = 0 => Unrevised /\ AnswersAsTold)

\* A comment nobody edited joins the ledger, and what was said before stands.
LEMMA CommentJoins ==
    ASSUME TypeOK, NEW c \in Comment, ~Edited(c), comments' = Append(comments, c)
    PROVE  /\ Unrevised => Unrevised'
           /\ ~IsLedgerComment(c) => UNCHANGED <<CurrentLedger, Told_>>
           /\ \A n \in LedgerComments : n \in LedgerComments' /\ Told_'[n] = Told_[n]
           /\ IsLedgerComment(c) =>
                 LET new == Len(comments) + 1
                 IN  /\ \A n \in LedgerComments : n < new
                     /\ DOMAIN Told_' = DOMAIN Told_ \cup {new}
                     /\ Told_'[new] = Verdict(CurrentLedger, c.content, c.created)
                     /\ CurrentLedger' = Told(CurrentLedger, c.content, c.created)
  <1>1. PICK new \in Nat : new = Len(comments) + 1
    BY TypeFacts
  <1>2. /\ comments \in Seq(Entries) /\ c \in Entries /\ DOMAIN comments = 1..(new - 1)
        /\ DOMAIN comments' = DOMAIN comments \cup {new}
        /\ comments'[new] = c /\ \A n \in DOMAIN comments : comments'[n] = comments[n]
    BY <1>1, TypeFacts, Appended DEF Entries
  <1>3. /\ \A n \in 1..new : LedgerBefore(n)' = LedgerBefore(n)
        /\ CurrentLedger' = Heard(CurrentLedger, c)
    BY <1>1, <1>2, LedgerGrows
  <1>4. LedgerComments' = LedgerComments \cup (IF IsLedgerComment(c) THEN {new} ELSE {})
    BY <1>2 DEF LedgerComments
  <1>5. LedgerComments \subseteq 1..(new - 1)
    BY <1>2 DEF LedgerComments
  <1>6. \A n \in LedgerComments : Told_'[n] = Told_[n]
    <2> SUFFICES ASSUME NEW n \in LedgerComments PROVE Told_'[n] = Told_[n]
      OBVIOUS
    <2>1. n \in LedgerComments' /\ comments'[n] = comments[n] /\ n \in 1..new
      BY <1>2, <1>4, <1>5
    <2>2. Told_'[n] = Verdict(LedgerBefore(n)', comments'[n].content, comments'[n].created)
      BY <2>1 DEF Told_
    <2>3. Told_[n] = Verdict(LedgerBefore(n), comments[n].content, comments[n].created)
      BY DEF Told_
    <2> QED  BY <1>3, <2>1, <2>2, <2>3
  <1>7. DOMAIN Told_ = LedgerComments /\ DOMAIN Told_' = LedgerComments'
    BY DEF Told_
  <1>8. ASSUME ~IsLedgerComment(c) PROVE UNCHANGED <<CurrentLedger, Told_>>
    <2>1. LedgerComments' = LedgerComments /\ CurrentLedger' = CurrentLedger
      BY <1>3, <1>4, <1>8 DEF Heard
    <2>2. Told_ = [n \in LedgerComments |-> Told_[n]]
          /\ Told_' = [n \in LedgerComments' |-> Told_'[n]]
      BY DEF Told_
    <2> QED  BY <1>6, <2>1, <2>2
  <1>9. ASSUME IsLedgerComment(c)
        PROVE  /\ Told_'[new] = Verdict(CurrentLedger, c.content, c.created)
               /\ CurrentLedger' = Told(CurrentLedger, c.content, c.created)
    <2>1. new \in LedgerComments' /\ new \in 1..new
      BY <1>1, <1>2, <1>4, <1>9
    <2>2. Told_'[new] = Verdict(LedgerBefore(new)', comments'[new].content, comments'[new].created)
      BY <2>1 DEF Told_
    <2>3. LedgerBefore(new)' = CurrentLedger
      BY <1>1, <1>3, <2>1 DEF CurrentLedger
    <2> QED  BY <1>2, <1>3, <1>9, <2>2, <2>3 DEF Heard
  <1>10. Unrevised => Unrevised'
    BY <1>2 DEF Unrevised
  <1> QED  BY <1>1, <1>4, <1>5, <1>6, <1>7, <1>8, <1>9, <1>10

\* The run ends, waits to list, or goes on with the answer it has.
RunGoesOn ==
    \/ run' = None
    \/ run'.phase = "list"
    \/ /\ run # None /\ run'.comment = run.comment
       /\ run'.phase = run.phase /\ run'.answer = run.answer

\* Comment c is written now.
Written(c) == comments' = Append(comments, c) /\ ~Edited(c) /\ c.created = now

\* What a step that is no edit does to the issue and to the run.
Unhurt ==
    \/ UNCHANGED comments /\ RunGoesOn
    \/ /\ UNCHANGED comments /\ run # None
       /\ LET n == run.comment
          IN  /\ comments[n] # None /\ Answerable(comments[n])
              /\ run'.comment = n /\ run'.answer = Decide(n)
    \/ RunGoesOn /\ \E c \in Comment : Written(c) /\ c.author # "bot"
    \/ /\ RunGoesOn /\ InPhase("post")
       /\ \E c \in Comment : Written(c) /\ c.author = "bot" /\ c.content = run.answer

\* A step is an edit or one of those.
LEMMA StepsWithoutEdits ==
    ASSUME TypeOK, [Next]_vars
    PROVE  edits' = edits + 1 \/ (edits' = edits /\ Unhurt)
  <1> USE TypeFacts
  <1>1. ASSUME NEW w \in Writes, Write(w.author, w.content)
        PROVE  edits' = edits /\ Unhurt
    <2> DEFINE c == [author |-> w.author, content |-> w.content, created |-> now, updated |-> now]
    <2>1. c \in Comment /\ c.author # "bot" /\ ~Edited(c) /\ c.created = now
      BY DEF TypeOK, Comment, Edited
    <2>2. comments' = Append(comments, c) /\ run' = run /\ edits' = edits
      BY <1>1 DEF Write
    <2> HIDE DEF c
    <2>3. RunGoesOn
      BY <2>2 DEF RunGoesOn
    <2> QED  BY <2>1, <2>2, <2>3 DEF Unhurt, Written
  <1>2. ASSUME NEW n \in DOMAIN comments, Delete(n) PROVE edits' = edits + 1
    BY <1>2 DEF Delete
  <1>3. ASSUME NEW n \in DOMAIN comments, NEW w \in Writes, Edit(n, w.content)
        PROVE  edits' = edits + 1
    BY <1>3 DEF Edit
  <1>4. ASSUME NEW n \in DOMAIN comments, Rerun(n) PROVE edits' = edits /\ Unhurt
    BY <1>4 DEF Rerun, Unhurt, RunGoesOn
  <1>5. CASE Tick \/ UNCHANGED vars
    BY <1>5 DEF Tick, vars, Unhurt, RunGoesOn
  <1>6. CASE StartRun
    BY <1>6 DEF StartRun, Unhurt, RunGoesOn
  <1>7. CASE ListComments
    <2>1. UNCHANGED <<comments, edits>> /\ run # None /\ run \in RunState
      BY <1>7 DEF ListComments, InPhase, EndRun
    <2>2. CASE run' = None
      BY <2>1, <2>2 DEF Unhurt, RunGoesOn
    <2>3. CASE run' # None
      BY <1>7, <2>1, <2>3 DEF ListComments, EndRun, Unhurt, RunState
    <2> QED  BY <2>2, <2>3
  <1>8. ASSUME run # None, AttemptFails PROVE edits' = edits /\ RunGoesOn
    BY <1>8, FailedAttempt DEF RunGoesOn
  <1>9. CASE CallFails
    BY <1>8, <1>9 DEF CallFails, Unhurt
  <1>10. ASSUME InPhase("post"), AnswerPosted, RunGoesOn PROVE Unhurt
    <2> DEFINE c == [author |-> "bot", content |-> run.answer, created |-> now, updated |-> now]
    <2>1. /\ c \in Comment /\ c.author = "bot" /\ ~Edited(c) /\ c.created = now
          /\ c.content = run.answer
      BY <1>10 DEF InPhase, TypeOK, Comment, Edited
    <2>2. comments' = Append(comments, c)
      BY <1>10 DEF AnswerPosted
    <2> HIDE DEF c
    <2> QED  BY <1>10, <2>1, <2>2 DEF Unhurt, Written
  <1>11. CASE PostComment
    BY <1>10, <1>11 DEF PostComment, EndRun, RunGoesOn
  <1>12. CASE PostLosesAnswer
    BY <1>8, <1>10, <1>12 DEF PostLosesAnswer, InPhase
  <1>13. CASE Killed
    <2>1. run' = None /\ edits' = edits /\ RunGoesOn
      BY <1>13 DEF Killed, EndRun, RunGoesOn
    <2>2. CASE UNCHANGED comments
      BY <2>1, <2>2 DEF Unhurt
    <2>3. CASE InPhase("post") /\ AnswerPosted
      BY <1>10, <2>1, <2>3
    <2> QED  BY <1>13, <2>1, <2>2, <2>3 DEF Killed, InPhase
  <1> QED
    BY <1>1, <1>2, <1>3, <1>4, <1>5, <1>6, <1>7, <1>9, <1>11, <1>12, <1>13
    DEF Next, RunStep

\* What a run decides is the verdict of the moment the comment was written
\* (receiver.ts:202-215).
LEMMA DecidesAsTold ==
    ASSUME TypeOK, Unrevised, NEW n \in DOMAIN comments, Answerable(comments[n])
    PROVE  n \in LedgerComments /\ Decide(n).kind = Told_[n]
  <1> DEFINE c == comments[n]
             verdict == Verdict(LedgerBefore(n), c.content, c.created)
  <1>1. c # None /\ ~Edited(c) /\ c.author = "owner" /\ IsProtocol(c.content)
    BY DEF Unrevised, Answerable
  <1>2. n \in LedgerComments
    BY <1>1 DEF LedgerComments, IsLedgerComment
  <1>3. Told_[n] = verdict
    BY <1>2 DEF Told_
  <1>4. CASE c.content = Malformed
    <2>1. verdict = "message_rejected"
      BY <1>4 DEF Verdict
    <2>2. Decide(n) = LedgerReceipt(n, "message_rejected", None, None)
      BY <1>4 DEF Decide
    <2> QED  BY <1>2, <1>3, <2>1, <2>2 DEF LedgerReceipt
  <1>5. CASE c.content # Malformed
    <2>1. Decide(n) = LedgerReceipt(n, verdict, c.content.id, c.content.body)
      BY <1>1, <1>5 DEF Decide
    <2> HIDE DEF verdict, c
    <2> QED  BY <1>2, <1>3, <2>1 DEF LedgerReceipt
  <1> QED  BY <1>4, <1>5

\* A step that writes no comment changes nothing the ledger said.
LEMMA LedgerStays == UNCHANGED comments => UNCHANGED <<CurrentLedger, Told_, LedgerComments, Given>>
  <1> SUFFICES ASSUME UNCHANGED comments
               PROVE  UNCHANGED <<CurrentLedger, Told_, LedgerComments, Given>>
    OBVIOUS
  <1>1. \A n : LedgerBefore(n)' = LedgerBefore(n)
    BY DEF LedgerBefore
  <1>2. LedgerComments' = LedgerComments /\ Given' = Given
    BY DEF LedgerComments, Given, Answers
  <1>3. CurrentLedger' = CurrentLedger
    BY DEF CurrentLedger, LedgerBefore
  <1>4. Told_' = Told_
    BY <1>1, <1>2 DEF Told_
  <1> QED  BY <1>2, <1>3, <1>4

\* Every step keeps it.
LEMMA LedgerInvIsInductive ==
    ASSUME ReceiverInv, LedgerInv, [Next]_vars
    PROVE  LedgerInv'
  <1>0. TypeOK /\ TypeOK' /\ edits \in Nat
    BY TypeIsInductive DEF ReceiverInv, TypeOK
  <1>1. now' <= MaxClock
    <2>1. now' = now \/ (now < MaxClock /\ now' = now + 1)
      BY DEF Next, vars, Write, Delete, Edit, Rerun, Tick, StartRun, RunStep,
             ListComments, CallFails, PostComment, PostLosesAnswer, Killed, EndRun, AttemptFails
    <2> QED  BY <1>0, <2>1 DEF LedgerInv, TypeOK
  <1> SUFFICES ASSUME edits' = 0 PROVE Unrevised' /\ AnswersAsTold'
    BY <1>1 DEF LedgerInv
  <1>2. edits = 0 /\ Unhurt /\ Unrevised /\ AnswersAsTold
    BY <1>0, StepsWithoutEdits DEF LedgerInv
  <1>3. ASSUME RunGoesOn,
               \A n \in LedgerComments : n \in LedgerComments' /\ Told_'[n] = Told_[n]
        PROVE  AnswersAsTold'
    BY <1>2, <1>3 DEF RunGoesOn, AnswersAsTold, InPhase
  <1>4. CASE UNCHANGED comments /\ RunGoesOn
    <2>1. AnswersAsTold'
      BY <1>3, <1>4, LedgerStays
    <2> QED  BY <1>2, <1>4, <2>1 DEF Unrevised
  <1>5. CASE /\ UNCHANGED comments /\ run # None
             /\ comments[run.comment] # None /\ Answerable(comments[run.comment])
             /\ run'.comment = run.comment /\ run'.answer = Decide(run.comment)
    <2>1. run.comment \in DOMAIN comments
      BY <1>0, <1>5, TypeFacts
    <2>2. run.comment \in LedgerComments /\ Decide(run.comment).kind = Told_[run.comment]
      BY <1>0, <1>2, <1>5, <2>1, DecidesAsTold
    <2>3. AnswersAsTold'
      BY <1>5, <2>2, LedgerStays DEF AnswersAsTold
    <2> QED  BY <1>2, <1>5, <2>3 DEF Unrevised
  <1>6. ASSUME NEW c \in Comment, Written(c), RunGoesOn PROVE Unrevised' /\ AnswersAsTold'
    BY <1>0, <1>2, <1>3, <1>6, CommentJoins DEF Written
  <1> QED  BY <1>2, <1>4, <1>5, <1>6 DEF Unhurt

\* A comment of anybody but the bot changes no answer; the bot's adds one.
LEMMA AnswersGiven ==
    ASSUME TypeOK, NEW c \in Comment, comments' = Append(comments, c)
    PROVE  Given' = Given \cup (IF c.author = "bot" THEN {<<c.content.of, c.content.kind>>} ELSE {})
  <1>1. PICK new \in Nat : new = Len(comments) + 1
    BY TypeFacts
  <1>2. /\ c \in Entries /\ c # None
        /\ DOMAIN comments' = DOMAIN comments \cup {new}
        /\ comments'[new] = c /\ \A n \in DOMAIN comments : comments'[n] = comments[n]
    BY <1>1, TypeFacts, Appended DEF Entries
  <1>3. Answers' = Answers \cup (IF c.author = "bot" THEN {new} ELSE {})
    BY <1>1, <1>2, TypeFacts DEF Answers
  <1>4. \A i \in Answers : comments'[i] = comments[i]
    BY <1>2 DEF Answers
  <1> DEFINE Said(d) == <<d.content.of, d.content.kind>>
  <1>5. Given = {Said(comments[i]) : i \in Answers}
        /\ Given' = {Said(comments'[i]) : i \in Answers'}
    BY DEF Given
  <1> HIDE DEF Said
  <1>6. Given' = Given \cup (IF c.author = "bot" THEN {Said(c)} ELSE {})
    <2>1. {Said(comments'[i]) : i \in Answers} = Given
      BY <1>4, <1>5
    <2>2. CASE c.author = "bot"
      <3>1. Answers' = Answers \cup {new}
        BY <1>3, <2>2
      <3>2. Given' = {Said(comments'[i]) : i \in Answers} \cup {Said(comments'[new])}
        BY <1>5, <3>1
      <3> QED  BY <1>2, <2>1, <2>2, <3>2
    <2>3. CASE c.author # "bot"
      BY <1>3, <1>5, <2>1, <2>3
    <2> QED  BY <2>2, <2>3
  <1> QED  BY <1>6 DEF Said

\* The promised ledger is told and asks by the same rules (bridge-core.ts).
LEMMA SameRules ==
    /\ OneLedger!EmptyLedger = EmptyLedger
    /\ \A l, payload, t : OneLedger!Verdict(l, payload, t) = Verdict(l, payload, t)
    /\ \A l, payload, t : OneLedger!Told(l, payload, t) = Told(l, payload, t)
  <1>1. \A l, m, t : OneLedger!ReceiveOutcome(l, m, t) = ReceiveOutcome(l, m, t)
    BY DEF OneLedger!ReceiveOutcome, ReceiveOutcome, OneLedger!ValidMessage, ValidMessage,
           OneLedger!SameContent, SameContent
  <1>2. \A e, t : OneLedger!Settle(e, t) = Settle(e, t)
    BY DEF OneLedger!Settle, Settle
  <1>3. \A l, r, t : OneLedger!AckOutcome(l, r, t) = AckOutcome(l, r, t)
    BY <1>2 DEF OneLedger!AckOutcome, AckOutcome, OneLedger!Matches, Matches
  <1>4. \A l, m, t : OneLedger!Receive(l, m, t) = Receive(l, m, t)
    BY <1>1 DEF OneLedger!Receive, Receive, OneLedger!NewEntry, NewEntry
  <1>5. \A l, r, t : OneLedger!Acknowledge(l, r, t) = Acknowledge(l, r, t)
    BY <1>3 DEF OneLedger!Acknowledge, Acknowledge
  <1>6. /\ OneLedger!MessageKind = MessageKind /\ OneLedger!AckKind = AckKind
        /\ \A payload : OneLedger!IsMessage(payload) = IsMessage(payload)
    BY DEF OneLedger!MessageKind, MessageKind, OneLedger!AckKind, AckKind,
           OneLedger!IsMessage, IsMessage
  <1>7. \A l, payload, t : OneLedger!Verdict(l, payload, t) = Verdict(l, payload, t)
    BY <1>1, <1>3, <1>6 DEF OneLedger!Verdict, Verdict
  <1>8. \A l, payload, t : OneLedger!Told(l, payload, t) = Told(l, payload, t)
    BY <1>4, <1>5, <1>6 DEF OneLedger!Told, Told
  <1> QED  BY <1>7, <1>8 DEF OneLedger!EmptyLedger, EmptyLedger

\* A step without an edit tells a comment, gives an answer, or changes nothing.
LEMMA StepIsTold ==
    ASSUME ReceiverInv, LedgerInv, [Next]_vars, edits' = 0
    PROVE  [OneLedger!Next]_(OneLedger!vars)
  <1>0. TypeOK /\ edits \in Nat
    BY DEF ReceiverInv, TypeOK
  <1>1. Unhurt /\ Unrevised /\ AnswersAsTold
    BY <1>0, StepsWithoutEdits DEF LedgerInv
  <1>2. CASE UNCHANGED comments
    BY <1>2, LedgerStays DEF OneLedger!vars
  <1>3. ASSUME NEW c \in Comment, Written(c), ~IsLedgerComment(c), c.author # "bot"
        PROVE  UNCHANGED OneLedger!vars
    BY <1>0, <1>3, CommentJoins, AnswersGiven DEF Written, OneLedger!vars
  <1>4. ASSUME NEW c \in Comment, Written(c), IsLedgerComment(c)
        PROVE  OneLedger!Next
    <2>1. PICK new \in Nat : new = Len(comments) + 1
      BY <1>0, TypeFacts
    <2>2. /\ \A n \in LedgerComments : n < new
          /\ DOMAIN Told_' = DOMAIN Told_ \cup {new}
          /\ \A n \in LedgerComments : Told_'[n] = Told_[n]
          /\ Told_'[new] = Verdict(CurrentLedger, c.content, c.created)
          /\ CurrentLedger' = Told(CurrentLedger, c.content, c.created)
      BY <1>0, <1>4, <2>1, CommentJoins DEF Written
    <2>3. DOMAIN Told_ = LedgerComments
      BY DEF Told_
    <2>4. c.content \in Payloads \cup {Malformed} /\ c.created \in 0..MaxClock
      BY <1>0, <1>4 DEF IsLedgerComment, IsProtocol, Written, LedgerInv, TypeOK
    <2>5. Given' = Given
      BY <1>0, <1>4, AnswersGiven DEF Written, IsLedgerComment
    <2>6. OneLedger!Tell(new)
      BY <2>2, <2>3, <2>4, <2>5, SameRules DEF OneLedger!Tell
    <2>7. new \in DOMAIN Told_'
      BY <2>2
    <2> QED  BY <2>6, <2>7 DEF OneLedger!Next
  <1>5. ASSUME NEW c \in Comment, Written(c), c.author = "bot", c.content = run.answer,
               InPhase("post")
        PROVE  OneLedger!Next
    <2>1. run.comment \in LedgerComments /\ run.answer.kind = Told_[run.comment]
      BY <1>1, <1>5 DEF AnswersAsTold
    <2>2. run.answer.of = run.comment
      BY <1>5 DEF ReceiverInv, PostIsFirst
    <2>3. UNCHANGED <<CurrentLedger, Told_>>
      BY <1>0, <1>5, CommentJoins DEF Written, IsLedgerComment
    <2>4. Given' = Given \cup {<<run.comment, Told_[run.comment]>>}
      BY <1>0, <1>5, <2>1, <2>2, AnswersGiven DEF Written
    <2>5. OneLedger!Answer(run.comment)
      BY <2>3, <2>4 DEF OneLedger!Answer
    <2>6. run.comment \in DOMAIN Told_
      BY <2>1 DEF Told_
    <2> QED  BY <2>5, <2>6 DEF OneLedger!Next
  <1> QED  BY <1>1, <1>2, <1>3, <1>4, <1>5 DEF Unhurt

\* An empty issue is an empty ledger.
LEMMA InitIsTold == Init => OneLedger!Init /\ LedgerInv
  <1> SUFFICES ASSUME Init PROVE OneLedger!Init /\ LedgerInv
    OBVIOUS
  <1>1. LedgerInv
    BY DEF Init, LedgerInv, Unrevised, AnswersAsTold, InPhase
  <1>2. Len(comments) = 0 /\ DOMAIN comments = {}
    BY DEF Init
  <1>3. PICK f : Replays(f, comments, 0) /\ \A n : LedgerBefore(n) = f[n - 1]
    BY <1>2, LedgerIsReplay DEF LedgerIsRead
  <1>4. CurrentLedger = EmptyLedger
    <2>1. f[0] = EmptyLedger
      BY <1>3, Replayed
    <2> QED  BY <1>2, <1>3, <2>1 DEF CurrentLedger
  <1>5. LedgerComments = {} /\ Given = {}
    BY <1>2 DEF LedgerComments, Given, Answers
  <1>6. Told_ = <<>>
    BY <1>5 DEF Told_
  <1> QED  BY <1>1, <1>4, <1>5, <1>6, SameRules DEF OneLedger!Init

\* While nobody edits, whatever runs are killed, repeated, overtaken or fail, the
\* issue behaves as one ledger told of each comment once, as it was written, and
\* every answer is what it said then (receiver.ts:4-5, 114, 183-215).
THEOREM ReceiverKeepsOneLedger == Spec => ReplaysOneLedger
  <1>1. Init => OneLedger!Init /\ ReceiverInv /\ LedgerInv
    BY InitIsTold, InitEstablishes
  <1>2. ReceiverInv /\ LedgerInv /\ [Next]_vars => ReceiverInv' /\ LedgerInv'
    BY InvIsInductive, LedgerInvIsInductive
  <1>3. ReceiverInv /\ LedgerInv /\ [Next]_vars
        => [edits' = 0 => OneLedger!Next]_<<OneLedger!vars, edits>>
    <2> SUFFICES ASSUME ReceiverInv, LedgerInv, [Next]_vars, edits' = 0
                 PROVE  OneLedger!Next \/ UNCHANGED <<OneLedger!vars, edits>>
      OBVIOUS
    <2>1. edits' = edits
      BY StepsWithoutEdits DEF ReceiverInv, TypeOK
    <2> QED  BY <2>1, StepIsTold
  <1> QED  BY <1>1, <1>2, <1>3, PTL DEF Spec, ReplaysOneLedger

=============================================================================
