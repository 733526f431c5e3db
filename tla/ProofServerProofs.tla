-------------------------- MODULE ProofServerProofs --------------------------
(***************************************************************************)
(* Theorems of ProofServer, for every set of handlers, requests and ids:   *)
(* what handlers have read stays true, a case counts once, revisions build *)
(* on the effective record, the counted number is frozen, and the server   *)
(* implements the counted ledger.  Then what stands behind a counted       *)
(* number: it comes with its authority, rests on outcome records of its    *)
(* own and on a baseline locked before them; and overlapping requests of   *)
(* one actor are the only way to hold two duties of a case.                *)
(*                                                                         *)
(* The handlers' own checks (chainRootExists, the reads of the original)   *)
(* play no part in the argument about the chains: it rests on the unique   *)
(* constraints and on what a handler holds when its transaction commits.   *)
(***************************************************************************)
EXTENDS ProofServer, TLAPS, FiniteSetTheorems

-----------------------------------------------------------------------------
(***************************************************************************)
(* Requests and the pure kernel.                                           *)
(***************************************************************************)

\* A request carries the fields of its operation.
LEMMA RequestFields ==
    ASSUME NEW r \in Requests
    PROVE  /\ r.op \in Ops
           /\ r.actor \in Actors
           /\ r.op \in CaseOps => r \in CaseRequest
           /\ r.op = "EstablishBaseline" => r \in BaselineRequest
           /\ r.op = "IngestEvidence" => r \in EvidenceRequest
           /\ r.op = "Approve" => r \in ApproveRequest
           /\ r.op = "Revise" => r \in ReviseRequest
           /\ r.op = "Verify" => r \in VerifyRequest
    BY RequestsAssumption
       DEF Request, CaseRequest, BaselineRequest, EvidenceRequest, ApproveRequest,
           ReviseRequest, VerifyRequest, Ops, CaseOps

\* The clamped difference of two amounts is an amount.
LEMMA ClampedDifferenceType ==
    ASSUME NEW a \in Nat, NEW b \in Nat
    PROVE  ClampedDifference(a, b) \in Nat
    BY DEF ClampedDifference

\* An approval yields a proof row of the requested case and the given snapshot.
LEMMA ApprovedProofType ==
    ASSUME NEW r \in ApproveRequest, NEW s \in BaselineSnapshot
    PROVE  CreateApprovedProof(r, s) \in Proof
    BY ClampedDifferenceType
       DEF CreateApprovedProof, ApproveRequest, BaselineSnapshot, Proof

\* A revision is a proof row of the same case and chain, one version on.
LEMMA RevisedProofType ==
    ASSUME NEW p \in Proof, NEW r \in ReviseRequest
    PROVE  /\ ReviseProof(p, r) \in Proof
           /\ ReviseProof(p, r).proofId = r.newProofId
           /\ ReviseProof(p, r).case = p.case
           /\ ReviseProof(p, r).chainId = p.chainId
           /\ ReviseProof(p, r).version = p.version + 1
           /\ ReviseProof(p, r).previous = p.proofId
           /\ ReviseProof(p, r).currency = p.currency
           /\ ReviseProof(p, r).baseline = p.baseline
           /\ ReviseProof(p, r).baselineId = p.baselineId
           /\ ReviseProof(p, r).evidenceIds = p.evidenceIds
           /\ ReviseProof(p, r).status = r.status
           /\ ReviseProof(p, r).approvedBy = r.actor
           /\ ReviseProof(p, r).returned =
                 IF r.status = "Reversed" THEN 0
                 ELSE ClampedDifference(ReviseProof(p, r).collected, p.baseline)
  <1> DEFINE reversed  == r.status = "Reversed"
             collected == IF reversed THEN 0
                          ELSE IF r.collected = None THEN p.collected ELSE r.collected
             returned  == IF reversed THEN 0 ELSE ClampedDifference(collected, p.baseline)
  <1>1. collected \in Nat
    BY DEF ReviseRequest, Proof
  <1>2. returned \in Nat
    BY <1>1, ClampedDifferenceType DEF Proof
  <1>3. ReviseProof(p, r) = [p EXCEPT !.proofId = r.newProofId, !.version = p.version + 1,
                  !.previous = p.proofId, !.status = r.status,
                  !.collected = collected, !.returned = returned,
                  !.approvedBy = r.actor]
    BY DEF ReviseProof
  <1> HIDE DEF collected, returned
  <1>4. /\ ReviseProof(p, r).collected = collected
        /\ ReviseProof(p, r).returned = returned
    BY <1>3 DEF Proof
  <1>5. ReviseProof(p, r) \in Proof
    <2> DEFINE v == p.version + 1
    <2>1. v \in Nat \ {0}
      BY DEF Proof
    <2> HIDE DEF v
    <2>2. ReviseProof(p, r) = [p EXCEPT !.proofId = r.newProofId, !.version = v,
                  !.previous = p.proofId, !.status = r.status,
                  !.collected = collected, !.returned = returned,
                  !.approvedBy = r.actor]
      BY <1>3 DEF v
    <2>3. r.newProofId \in ProofIds /\ r.actor \in Actors /\ r.status \in RevisionStatuses
      BY DEF ReviseRequest
    <2>4. p.proofId \in ProofIds
      BY DEF Proof
    <2> DEFINE new == r.newProofId  actor == r.actor  status == r.status
    <2> HIDE DEF new, actor, status
    <2>5. [p EXCEPT !.proofId = new, !.version = v, !.previous = p.proofId,
                    !.status = status, !.collected = collected,
                    !.returned = returned, !.approvedBy = actor] \in Proof
      BY <1>1, <1>2, <2>1, <2>3, <2>4 DEF Proof, new, actor, status
    <2>6. QED
      BY <2>2, <2>5 DEF new, actor, status
  <1>6. QED
    BY <1>3, <1>4, <1>5 DEF Proof, ReviseRequest, returned

-----------------------------------------------------------------------------
(***************************************************************************)
(* What a handler's local variables hold at each of its steps.  Rows are   *)
(* never deleted, so what it has read stays true.                          *)
(***************************************************************************)
HandlerOK(h) ==
    /\ pc[h] # "idle" => req[h] \in Requests
    /\ pc[h] \in {"owner", "root", "baseline", "evidence", "intervention"}
           => req[h].op = "Approve"
    /\ pc[h] = "load" => req[h].op \in {"Revise", "Verify"}
    /\ pc[h] = "reread" => req[h].op = "Revise"
    /\ \/ pc[h] \in {"evidence", "intervention"}
       \/ pc[h] \in {"write", "commit"} /\ req[h].op = "Approve"
       => snap[h] \in BaselineSnapshotsFor(req[h])
    /\ pc[h] \in {"separation", "reread", "write", "commit"} /\ req[h].op \in {"Revise", "Verify"}
       => original[h] \in proofs /\ original[h].proofId = req[h].proofId

HandlerInv == \A h \in Handlers : HandlerOK(h)

\* What no step undoes, and what a step of one handler leaves to the others.
Grows == proofs \subseteq proofs' /\ baselines \subseteq baselines'

Untouched(g) ==
    /\ pc'[g] = pc[g]
    /\ req'[g] = req[g]
    /\ snap'[g] = snap[g]
    /\ original'[g] = original[g]

\* Other handlers' steps cannot invalidate what a handler has read.
LEMMA OthersKeep ==
    ASSUME NEW g \in Handlers, HandlerOK(g), Grows, Untouched(g)
    PROVE  HandlerOK(g)'
    BY DEF HandlerOK, Grows, Untouched, BaselineSnapshotsFor

\* An answering handler is idle and holds nothing.
LEMMA AnswerKeeps ==
    ASSUME LocalsOK, HandlerInv, Grows, NEW h \in Handlers, Answer(h)
    PROVE  LocalsOK' /\ HandlerInv'
  <1>1. LocalsOK'
    BY DEF Answer, Goto, LocalsOK, Local, Steps
  <1>2. HandlerOK(h)'
    BY DEF Answer, Goto, LocalsOK, HandlerOK
  <1>3. ASSUME NEW g \in Handlers, g # h PROVE HandlerOK(g)'
    BY <1>3, OthersKeep DEF HandlerInv, Answer, Goto, LocalsOK, Local, Untouched
  <1>4. QED
    BY <1>1, <1>2, <1>3 DEF HandlerInv

\* A handler that only moves on to another step keeps every other handler's
\* locals, and keeps its own if it satisfies what that step expects.
LEMMA GotoKeeps ==
    ASSUME LocalsOK, HandlerInv, Grows, NEW h \in Handlers, NEW step \in Steps,
           Goto(h, step), UNCHANGED locals,
           HandlerOK(h)'
    PROVE  LocalsOK' /\ HandlerInv'
  <1>1. LocalsOK'
    BY DEF Goto, LocalsOK, locals
  <1>2. ASSUME NEW g \in Handlers, g # h PROVE HandlerOK(g)'
    BY <1>2, OthersKeep DEF HandlerInv, Goto, LocalsOK, locals, Untouched
  <1>3. QED
    BY <1>1, <1>2 DEF HandlerInv

-----------------------------------------------------------------------------
(***************************************************************************)
(* Type correctness, and that handlers hold what their step expects.       *)
(***************************************************************************)

\* Steps and request types a handler can reach from its operation.
LEMMA FirstStepType ==
    ASSUME NEW op \in Ops
    PROVE  /\ FirstStep(op) \in {"owner", "separation", "load", "write"}
           /\ FirstStep(op) = "owner" => op = "Approve"
           /\ FirstStep(op) = "load" => op \in {"Revise", "Verify"}
           /\ FirstStep(op) \in {"separation", "write"} => op \notin {"Approve", "Revise", "Verify"}
    BY DEF FirstStep, Ops, CaseOps

\* A handler past its separation check goes where its operation leads.
LEMMA AfterSeparationType ==
    ASSUME NEW op \in Ops
    PROVE  /\ AfterSeparation(op) \in {"root", "reread", "write"}
           /\ AfterSeparation(op) = "root" => op = "Approve"
           /\ AfterSeparation(op) = "reread" => op = "Revise"
           /\ AfterSeparation(op) = "write" => op \notin {"Approve", "Revise"}
    BY DEF AfterSeparation, Ops, CaseOps

\* The row a committing authority write inserts is of its table's type.
LEMMA EventType ==
    ASSUME TypeOK, HandlerInv, NEW h \in Handlers, pc[h] = "commit",
           req[h].op \in CaseOps \cup {"Verify", "Approve", "Revise"}
    PROVE  EventOf(h) \in AuthorityEvent
  <1>1. req[h] \in Requests /\ HandlerOK(h)
    BY DEF HandlerInv, HandlerOK
  <1>2. CaseOf(h) \in Cases
    <2>1. CASE req[h].op \in {"Revise", "Verify"}
      BY <1>1, <2>1 DEF HandlerOK, CaseOf, TypeOK, TablesOK, Proof
    <2>2. CASE req[h].op \in CaseOps \cup {"Approve"}
      BY <1>1, <2>2, RequestFields DEF CaseOf, CaseOps, CaseRequest, ApproveRequest
    <2>3. QED
      BY <2>1, <2>2
  <1>3. GovernedAction(req[h].op) \in AuthorityActions
    BY DEF GovernedAction, AuthorityActions
  <1>4. req[h].actor \in Actors /\ stamp[h] \in Nat
    BY <1>1, RequestFields DEF TypeOK, LocalsOK
  <1>5. QED
    BY <1>2, <1>3, <1>4 DEF EventOf, AuthorityEvent

\* The row a committing proof write inserts is of its table's type.
LEMMA ProofType ==
    ASSUME TypeOK, HandlerInv, NEW h \in Handlers, pc[h] = "commit",
           req[h].op \in {"Approve", "Revise"}
    PROVE  ProofOf(h) \in Proof
  <1>1. req[h] \in Requests /\ HandlerOK(h)
    BY DEF HandlerInv, HandlerOK
  <1>2. CASE req[h].op = "Approve"
    <2>1. snap[h] \in BaselineSnapshot
      BY <1>1, <1>2 DEF HandlerOK, BaselineSnapshotsFor, TypeOK, TablesOK
    <2>2. QED
      BY <1>1, <1>2, <2>1, RequestFields, ApprovedProofType DEF ProofOf
  <1>3. CASE req[h].op = "Revise"
    <2>1. original[h] \in Proof
      BY <1>1, <1>3 DEF HandlerOK, TypeOK, TablesOK
    <2>2. QED
      BY <1>1, <1>3, <2>1, RequestFields, RevisedProofType DEF ProofOf
  <1>4. QED
    BY <1>2, <1>3

\* A read that allows the next step, or makes the handler answer, is harmless
\* when the handler satisfies what the next step expects.
LEMMA ReadThenKeeps ==
    ASSUME TypeOK, HandlerInv, NEW h \in Handlers, NEW allowed \in BOOLEAN, NEW step \in Steps,
           ReadThen(h, allowed, step),
           Goto(h, step) /\ UNCHANGED locals => HandlerOK(h)'
    PROVE  TypeOK' /\ HandlerInv'
  <1>1. TablesOK' /\ Grows
    BY DEF ReadThen, TypeOK, TablesOK, tables, Grows
  <1>2. CASE Goto(h, step) /\ UNCHANGED locals
    BY <1>1, <1>2, GotoKeeps DEF TypeOK
  <1>3. CASE Answer(h)
    BY <1>1, <1>3, AnswerKeeps DEF TypeOK
  <1>4. QED
    BY <1>2, <1>3 DEF ReadThen

\* Initially the tables are empty and the handlers idle.
LEMMA InitOK == Init => TypeOK /\ HandlerInv
  <1> SUFFICES ASSUME Init PROVE TypeOK /\ HandlerInv
    OBVIOUS
  <1>1. TablesOK /\ LocalsOK
    BY DEF Init, TablesOK, LocalsOK, Local, Steps
  <1>2. HandlerInv
    BY DEF Init, HandlerInv, HandlerOK
  <1>3. QED
    BY <1>1, <1>2 DEF TypeOK

\* Every step of the server keeps rows and local variables in order.
LEMMA StepOK ==
    ASSUME TypeOK, HandlerInv, [Next]_vars
    PROVE  TypeOK' /\ HandlerInv'
  <1>1. ASSUME UNCHANGED <<tables, pc, locals>>, now' \in Nat
        PROVE  TypeOK' /\ HandlerInv'
    BY <1>1 DEF TypeOK, TablesOK, LocalsOK, HandlerInv, HandlerOK, BaselineSnapshotsFor,
                tables, locals
  <1>2. CASE UNCHANGED vars
    BY <1>1, <1>2 DEF vars, TypeOK, TablesOK
  <1>3. CASE Tick
    BY <1>1, <1>3 DEF Tick, TypeOK, TablesOK
  <1>4. ASSUME NEW h \in Handlers, Step(h)
        PROVE  TypeOK' /\ HandlerInv'
    <2>1. HandlerOK(h)
      BY DEF HandlerInv
    <2>2. pc[h] # "idle" => req[h] \in Requests /\ req[h].op \in Ops
      BY <2>1, RequestFields DEF HandlerOK
    <2>3. CASE Receive(h)
      <3>1. PICK r \in Requests : /\ req' = [req EXCEPT ![h] = r]
                                  /\ Goto(h, FirstStep(r.op))
        BY <2>3 DEF Receive
      <3>2. TablesOK' /\ Grows
        BY <2>3 DEF Receive, TypeOK, TablesOK, tables, Grows
      <3>3. /\ r.op \in Ops
            /\ FirstStep(r.op) \in {"owner", "separation", "load", "write"}
        BY RequestFields, FirstStepType
      <3>4. LocalsOK'
        BY <2>3, <3>1, <3>3 DEF Receive, Goto, TypeOK, LocalsOK, Local, Steps
      <3>5. pc'[h] = FirstStep(r.op) /\ req'[h] = r
        BY <3>1 DEF Goto, TypeOK, LocalsOK, Local
      <3>6. HandlerOK(h)'
        BY <3>3, <3>5, FirstStepType DEF HandlerOK
      <3>7. ASSUME NEW g \in Handlers, g # h PROVE HandlerOK(g)'
        BY <2>3, <3>1, <3>2, <3>7, OthersKeep
           DEF Receive, HandlerInv, Goto, TypeOK, LocalsOK, Local, Untouched
      <3>8. QED
        BY <3>2, <3>4, <3>6, <3>7 DEF TypeOK, HandlerInv
    <2>4. CASE CheckOwned(h)
      <3>1. Goto(h, "separation") /\ UNCHANGED locals => HandlerOK(h)'
        BY <2>1, <2>4 DEF CheckOwned, HandlerOK, Goto, locals, TypeOK, LocalsOK
      <3>2. (IdsFor(CaseOf(h), "Author") # {}) \in BOOLEAN /\ "separation" \in Steps
        BY DEF Steps
      <3>3. QED
        BY <2>4, <3>1, <3>2, ReadThenKeeps DEF CheckOwned
    <2>5. CASE EnforceSeparation(h)
      <3> DEFINE step == AfterSeparation(req[h].op)
      <3>1. /\ step \in {"root", "reread", "write"}
            /\ step = "root" => req[h].op = "Approve"
            /\ step = "reread" => req[h].op = "Revise"
            /\ step = "write" => req[h].op \notin {"Approve", "Revise"}
        BY <2>2, <2>5, AfterSeparationType DEF EnforceSeparation
      <3> HIDE DEF step
      <3>2. Goto(h, step) /\ UNCHANGED locals /\ UNCHANGED tables => HandlerOK(h)'
        BY <2>1, <2>5, <3>1
           DEF EnforceSeparation, HandlerOK, Goto, locals, tables, TypeOK, LocalsOK
      <3>3. /\ step \in Steps
            /\ UNCHANGED tables
        BY <2>5, <3>1 DEF EnforceSeparation, ReadThen, Steps
      <3> DEFINE allowed == SeparationAllows(CaseOf(h), req[h].actor, req[h].role,
                                             GovernedAction(req[h].op))
      <3>4. ReadThen(h, allowed, step)
        BY <2>5 DEF EnforceSeparation, step
      <3>5. allowed \in BOOLEAN
        BY DEF SeparationAllows, CanApproveProof
      <3> HIDE DEF allowed
      <3>6. QED
        BY <3>2, <3>3, <3>4, <3>5, ReadThenKeeps
    <2>6. CASE CheckRoot(h)
      <3>1. Goto(h, "baseline") /\ UNCHANGED locals => HandlerOK(h)'
        BY <2>1, <2>6 DEF CheckRoot, HandlerOK, Goto, locals, TypeOK, LocalsOK
      <3>2. (~ChainRootExists(CaseOf(h))) \in BOOLEAN /\ "baseline" \in Steps
        BY DEF Steps
      <3>3. QED
        BY <2>6, <3>1, <3>2, ReadThenKeeps DEF CheckRoot
    <2>7. CASE GetBaselineSnapshot(h)
      <3>1. TablesOK' /\ Grows
        BY <2>7 DEF GetBaselineSnapshot, TypeOK, TablesOK, tables, Grows
      <3>2. CASE Answer(h)
        BY <3>1, <3>2, AnswerKeeps DEF TypeOK
      <3>3. ASSUME NEW s \in BaselineSnapshotsFor(req[h]),
                   snap' = [snap EXCEPT ![h] = s],
                   Goto(h, "evidence"),
                   UNCHANGED <<req, cited, original, stamp>>
            PROVE  TypeOK' /\ HandlerInv'
        <4>1. s \in BaselineSnapshot
          BY DEF BaselineSnapshotsFor, TypeOK, TablesOK
        <4>2. LocalsOK'
          BY <3>3, <4>1 DEF Goto, TypeOK, LocalsOK, Local, Steps
        <4>3. HandlerOK(h)'
          BY <2>1, <2>7, <3>3
             DEF GetBaselineSnapshot, HandlerOK, Goto, TypeOK, LocalsOK, Local,
                 BaselineSnapshotsFor, tables
        <4>4. ASSUME NEW g \in Handlers, g # h PROVE HandlerOK(g)'
          BY <3>1, <3>3, <4>4, OthersKeep
             DEF HandlerInv, Goto, TypeOK, LocalsOK, Local, Untouched
        <4>5. QED
          BY <3>1, <4>2, <4>3, <4>4 DEF TypeOK, HandlerInv
      <3>4. QED
        BY <2>7, <3>2, <3>3 DEF GetBaselineSnapshot
    <2>8. CASE GetEvidenceByIds(h)
      <3> DEFINE items == EvidenceByIds(CaseOf(h), req[h].evidenceIds)
      <3>1. TablesOK' /\ Grows
        BY <2>8 DEF GetEvidenceByIds, TypeOK, TablesOK, tables, Grows
      <3>2. CASE Answer(h)
        BY <3>1, <3>2, AnswerKeeps DEF TypeOK
      <3>3. CASE /\ cited' = [cited EXCEPT ![h] = items]
                 /\ Goto(h, "intervention")
                 /\ UNCHANGED <<req, snap, original, stamp>>
        <4>1. items \in SUBSET EvidenceRecord
          BY DEF EvidenceByIds, TypeOK, TablesOK
        <4> HIDE DEF items
        <4>2. LocalsOK'
          BY <3>3, <4>1 DEF Goto, TypeOK, LocalsOK, Steps
        <4>3. HandlerOK(h)'
          BY <2>1, <2>8, <3>3
             DEF GetEvidenceByIds, HandlerOK, Goto, TypeOK, LocalsOK,
                 BaselineSnapshotsFor, tables
        <4>4. ASSUME NEW g \in Handlers, g # h PROVE HandlerOK(g)'
          BY <3>1, <3>3, <4>4, OthersKeep
             DEF HandlerInv, Goto, TypeOK, LocalsOK, Untouched
        <4>5. QED
          BY <3>1, <4>2, <4>3, <4>4 DEF TypeOK, HandlerInv
      <3>4. QED
        BY <2>8, <3>2, <3>3 DEF GetEvidenceByIds
    <2>9. CASE ReadIntervention(h)
      <3> DEFINE allowed == TrustGates(req[h], snap[h], cited[h], Interventions(CaseOf(h)))
      <3>1. Goto(h, "write") /\ UNCHANGED locals /\ UNCHANGED tables => HandlerOK(h)'
        BY <2>1, <2>9 DEF ReadIntervention, HandlerOK, Goto, locals, tables,
                          BaselineSnapshotsFor, TypeOK, LocalsOK
      <3>2. allowed \in BOOLEAN /\ "write" \in Steps
        BY DEF TrustGates, Steps
      <3>3. ReadThen(h, allowed, "write") /\ UNCHANGED tables
        BY <2>9 DEF ReadIntervention, ReadThen
      <3> HIDE DEF allowed
      <3>4. QED
        BY <3>1, <3>2, <3>3, ReadThenKeeps
    <2>10. CASE LoadProof(h)
      <3>1. TablesOK' /\ Grows
        BY <2>10 DEF LoadProof, TypeOK, TablesOK, tables, Grows
      <3>2. CASE Answer(h)
        BY <3>1, <3>2, AnswerKeeps DEF TypeOK
      <3>3. ASSUME NEW p \in proofs, p.proofId = req[h].proofId,
                   original' = [original EXCEPT ![h] = p],
                   Goto(h, "separation"),
                   UNCHANGED <<req, snap, cited, stamp>>
            PROVE  TypeOK' /\ HandlerInv'
        <4>1. p \in Proof
          BY DEF TypeOK, TablesOK
        <4>2. LocalsOK'
          BY <3>3, <4>1 DEF Goto, TypeOK, LocalsOK, Local, Steps
        <4>3. HandlerOK(h)'
          BY <2>1, <2>10, <3>1, <3>3
             DEF LoadProof, HandlerOK, Goto, TypeOK, LocalsOK, Local, Grows
        <4>4. ASSUME NEW g \in Handlers, g # h PROVE HandlerOK(g)'
          BY <3>1, <3>3, <4>4, OthersKeep
             DEF HandlerInv, Goto, TypeOK, LocalsOK, Local, Untouched
        <4>5. QED
          BY <3>1, <4>2, <4>3, <4>4 DEF TypeOK, HandlerInv
      <3>4. QED
        BY <2>10, <3>2, <3>3 DEF LoadProof
    <2>11. CASE RereadOriginal(h)
      <3>1. TablesOK' /\ Grows
        BY <2>11 DEF RereadOriginal, TypeOK, TablesOK, tables, Grows
      <3>2. CASE Answer(h)
        BY <3>1, <3>2, AnswerKeeps DEF TypeOK
      <3>3. ASSUME NEW p \in proofs, p.proofId = req[h].proofId,
                   original' = [original EXCEPT ![h] = p],
                   Goto(h, "write"),
                   UNCHANGED <<req, snap, cited, stamp>>
            PROVE  TypeOK' /\ HandlerInv'
        <4>1. p \in Proof
          BY DEF TypeOK, TablesOK
        <4>2. LocalsOK'
          BY <3>3, <4>1 DEF Goto, TypeOK, LocalsOK, Local, Steps
        <4>3. HandlerOK(h)'
          BY <2>1, <2>11, <3>1, <3>3
             DEF RereadOriginal, HandlerOK, Goto, TypeOK, LocalsOK, Local, Grows
        <4>4. ASSUME NEW g \in Handlers, g # h PROVE HandlerOK(g)'
          BY <3>1, <3>3, <4>4, OthersKeep
             DEF HandlerInv, Goto, TypeOK, LocalsOK, Local, Untouched
        <4>5. QED
          BY <3>1, <4>2, <4>3, <4>4 DEF TypeOK, HandlerInv
      <3>4. QED
        BY <2>11, <3>2, <3>3 DEF RereadOriginal
    <2>12. CASE BeginWrite(h)
      <3>1. TablesOK' /\ Grows
        BY <2>12 DEF BeginWrite, TypeOK, TablesOK, tables, Grows
      <3>2. LocalsOK'
        BY <2>12 DEF BeginWrite, Goto, TypeOK, TablesOK, LocalsOK, Steps
      <3>3. HandlerOK(h)'
        BY <2>1, <2>12
           DEF BeginWrite, HandlerOK, Goto, TypeOK, LocalsOK, BaselineSnapshotsFor, tables
      <3>4. ASSUME NEW g \in Handlers, g # h PROVE HandlerOK(g)'
        BY <2>12, <3>1, <3>4, OthersKeep
           DEF BeginWrite, HandlerInv, Goto, TypeOK, LocalsOK, Untouched
      <3>5. QED
        BY <3>1, <3>2, <3>3, <3>4 DEF TypeOK, HandlerInv
    <2>13. CASE CommitAuthority(h)
      <3>1. EventOf(h) \in AuthorityEvent
        BY <2>13, EventType DEF CommitAuthority
      <3>2. TablesOK' /\ Grows
        BY <2>13, <3>1 DEF CommitAuthority, TypeOK, TablesOK, Grows
      <3>3. QED
        BY <2>13, <3>2, AnswerKeeps DEF CommitAuthority, TypeOK
    <2>14. CASE CommitBaseline(h)
      <3>1. SnapshotOf(h) \in BaselineSnapshot
        <4>1. req[h] \in BaselineRequest /\ stamp[h] \in Nat
          BY <2>2, <2>14, RequestFields DEF CommitBaseline, TypeOK, LocalsOK
        <4>2. QED
          BY <4>1 DEF SnapshotOf, BaselineRequest, BaselineSnapshot
      <3>2. TablesOK' /\ Grows
        BY <2>14, <3>1 DEF CommitBaseline, TypeOK, TablesOK, Grows
      <3>3. QED
        BY <2>14, <3>2, AnswerKeeps DEF CommitBaseline, TypeOK
    <2>15. CASE CommitEvidence(h)
      <3>1. RecordOf(h) \in EvidenceRecord
        <4>1. req[h] \in EvidenceRequest /\ stamp[h] \in Nat
          BY <2>2, <2>15, RequestFields DEF CommitEvidence, TypeOK, LocalsOK
        <4>2. /\ IsIndependentSource(req[h].system) \in BOOLEAN
              /\ DeriveEvidenceRole(req[h].system, req[h].type) \in {"outcome", "supporting"}
          BY DEF IsIndependentSource, DeriveEvidenceRole
        <4>3. QED
          BY <4>1, <4>2 DEF RecordOf, EvidenceRequest, EvidenceRecord
      <3>2. TablesOK' /\ Grows
        BY <2>15, <3>1 DEF CommitEvidence, TypeOK, TablesOK, Grows
      <3>3. QED
        BY <2>15, <3>2, AnswerKeeps DEF CommitEvidence, TypeOK
    <2>16. CASE CommitProof(h)
      <3>1. EventOf(h) \in AuthorityEvent
        BY <2>16, EventType DEF CommitProof
      <3>2. ProofOf(h) \in Proof
        BY <2>16, ProofType DEF CommitProof
      <3>3. TablesOK' /\ Grows
        BY <2>16, <3>1, <3>2 DEF CommitProof, TypeOK, TablesOK, Grows
      <3>4. QED
        BY <2>16, <3>3, AnswerKeeps DEF CommitProof, TypeOK
    <2>17. CASE Abandon(h)
      <3>1. TablesOK' /\ Grows
        BY <2>17 DEF Abandon, TypeOK, TablesOK, tables, Grows
      <3>2. QED
        BY <2>17, <3>1, AnswerKeeps DEF Abandon, TypeOK
    <2>18. QED
      BY <1>4, <2>3, <2>4, <2>5, <2>6, <2>7, <2>8, <2>9, <2>10, <2>11, <2>12,
         <2>13, <2>14, <2>15, <2>16, <2>17 DEF Step
  <1>5. QED
    BY <1>2, <1>3, <1>4 DEF Next

\* In every reachable state rows and local variables are of their types, for any
\* number of handlers and any requests the schemas let through.
THEOREM TypeCorrect == Spec => []TypeOK
  <1>1. TypeOK /\ HandlerInv /\ [Next]_vars => TypeOK' /\ HandlerInv'
    BY StepOK
  <1>2. QED
    BY InitOK, <1>1, PTL DEF Spec

\* What a handler has read still holds when it uses it: the snapshot it locked
\* onto is on file for its case, the record it revises is in the ledger.
THEOREM ReadsStayTrue == Spec => []HandlerInv
  <1>1. TypeOK /\ HandlerInv /\ [Next]_vars => TypeOK' /\ HandlerInv'
    BY StepOK
  <1>2. QED
    BY InitOK, <1>1, PTL DEF Spec

-----------------------------------------------------------------------------
(***************************************************************************)
(* The inductive invariant of the proof chains.                            *)
(***************************************************************************)
UniqueIds == \A p, q \in proofs : p.proofId = q.proofId => p = q

OneRoot ==
    \A p, q \in proofs : p.previous = None /\ q.previous = None /\ p.case = q.case => p = q

UniqueVersions ==
    \A p, q \in proofs : p.chainId = q.chainId /\ p.version = q.version => p = q

Roots == \A p \in proofs : p.previous = None => (p.version = 1 /\ p.chainId = p.proofId)

IsSuccessor(p, q) ==
    /\ p.previous = q.proofId
    /\ p.case = q.case
    /\ p.chainId = q.chainId
    /\ p.version = q.version + 1

Linked == \A p \in proofs : p.previous # None => \E q \in proofs : IsSuccessor(p, q)

\* Every record belongs to the chain of its case's root.
Rooted ==
    \A p \in proofs : \E q \in proofs :
        q.previous = None /\ q.case = p.case /\ q.chainId = p.chainId

\* A chain has every version up to its highest.
Contiguous ==
    \A p \in proofs : \A v \in 1..p.version : \E q \in proofs :
        q.chainId = p.chainId /\ q.version = v

ChainInv ==
    /\ UniqueIds
    /\ OneRoot
    /\ UniqueVersions
    /\ Roots
    /\ Linked
    /\ Rooted
    /\ Contiguous

-----------------------------------------------------------------------------
(***************************************************************************)
(* Records of one case.                                                    *)
(***************************************************************************)

\* The records of a case form one chain.
LEMMA OneChain ==
    ASSUME ChainInv, NEW p \in proofs, NEW q \in proofs, p.case = q.case
    PROVE  p.chainId = q.chainId
    BY DEF ChainInv, OneRoot, Rooted

\* The records of a chain are of one case.
LEMMA OneCase ==
    ASSUME ChainInv, NEW p \in proofs, NEW q \in proofs, p.chainId = q.chainId
    PROVE  p.case = q.case
    BY DEF ChainInv, UniqueIds, Roots, Rooted

\* The inductive invariant is strong enough.
LEMMA ChainInvImpliesLinearChains == ChainInv => LinearChains
  <1> SUFFICES ASSUME ChainInv, NEW p \in proofs
               PROVE  /\ \A q \in proofs : p.case = q.case =>
                            p.chainId = q.chainId /\ (p.version = q.version => p = q)
                      /\ IF p.previous = None
                         THEN p.version = 1 /\ p.chainId = p.proofId
                         ELSE \E q \in proofs : /\ q.proofId = p.previous
                                                /\ q.case = p.case
                                                /\ p.version = q.version + 1
    BY DEF LinearChains
  <1>1. ASSUME NEW q \in proofs, p.case = q.case
        PROVE  p.chainId = q.chainId /\ (p.version = q.version => p = q)
    BY <1>1, OneChain DEF ChainInv, UniqueVersions
  <1>2. p.previous = None => p.version = 1 /\ p.chainId = p.proofId
    BY DEF ChainInv, Roots
  <1>3. p.previous # None => \E q \in proofs : /\ q.proofId = p.previous
                                               /\ q.case = p.case
                                               /\ p.version = q.version + 1
    BY DEF ChainInv, Linked, IsSuccessor
  <1>4. QED
    BY <1>1, <1>2, <1>3

-----------------------------------------------------------------------------
(***************************************************************************)
(* Inserting a record.                                                     *)
(***************************************************************************)
IsRoot(p) == p.previous = None /\ p.version = 1 /\ p.chainId = p.proofId

\* A record a handler may try to insert: a new root or a successor of a record.
Insertable(n) ==
    \/ IsRoot(n)
    \/ /\ n.previous # None
       /\ \E o \in proofs : IsSuccessor(n, o)

\* What a handler commits is a root or follows a record of the ledger.
LEMMA CommittedIsInsertable ==
    ASSUME TypeOK, HandlerInv, NEW h \in Handlers, pc[h] = "commit",
           req[h].op \in {"Approve", "Revise"}
    PROVE  Insertable(ProofOf(h))
  <1>1. req[h] \in Requests /\ HandlerOK(h)
    BY DEF HandlerInv, HandlerOK
  <1>2. CASE req[h].op = "Approve"
    BY <1>2 DEF ProofOf, CreateApprovedProof, Insertable, IsRoot
  <1>3. CASE req[h].op = "Revise"
    <2>1. original[h] \in proofs /\ original[h] \in Proof
      BY <1>1, <1>3 DEF HandlerOK, TypeOK, TablesOK
    <2>2. req[h] \in ReviseRequest
      BY <1>1, <1>3, RequestFields
    <2>3. IsSuccessor(ProofOf(h), original[h])
      BY <1>3, <2>1, <2>2, RevisedProofType DEF ProofOf, IsSuccessor
    <2>4. ProofOf(h).previous # None
      BY <2>1, <2>3, NoneAssumption DEF IsSuccessor, Proof
    <2>5. QED
      BY <2>1, <2>3, <2>4 DEF Insertable
  <1>4. QED
    BY <1>2, <1>3

\* The unique constraints keep the chains in order, whatever is inserted.
LEMMA InsertKeepsChains ==
    ASSUME ChainInv, proofs \subseteq Proof, NEW n \in Proof,
           ProofConstraints(n), Insertable(n), proofs' = proofs \cup {n}
    PROVE  ChainInv'
  <1>1. UniqueIds'
    BY DEF ChainInv, UniqueIds, ProofConstraints
  <1>2. OneRoot'
    BY DEF ChainInv, OneRoot, ProofConstraints
  <1>3. UniqueVersions'
    BY DEF ChainInv, UniqueVersions, ProofConstraints
  <1>4. Roots'
    BY DEF ChainInv, Roots, Insertable, IsRoot
  <1>5. Linked'
    BY DEF ChainInv, Linked, Insertable, IsRoot
  <1>6. Rooted'
    BY DEF ChainInv, Rooted, Insertable, IsRoot, IsSuccessor
  <1>7. Contiguous'
    <2> SUFFICES ASSUME NEW p \in proofs', NEW v \in 1..p.version
                 PROVE  \E q \in proofs' : q.chainId = p.chainId /\ q.version = v
      BY DEF Contiguous
    <2>1. CASE p \in proofs
      BY <2>1 DEF ChainInv, Contiguous
    <2>2. CASE p = n /\ v = n.version
      BY <2>2
    <2>3. CASE p = n /\ v # n.version
      <3>1. PICK o \in proofs : IsSuccessor(n, o)
        BY <2>3 DEF Insertable, IsRoot
      <3>2. o.version \in Nat /\ n.version = o.version + 1 /\ n.chainId = o.chainId
        BY <3>1 DEF IsSuccessor, Proof
      <3>3. v \in 1..o.version
        BY <2>3, <3>2
      <3>4. \E q \in proofs : q.chainId = o.chainId /\ q.version = v
        BY <3>3 DEF ChainInv, Contiguous
      <3>5. QED
        BY <2>3, <3>2, <3>4
    <2>4. QED
      BY <2>1, <2>2, <2>3
  <1>8. QED
    BY <1>1, <1>2, <1>3, <1>4, <1>5, <1>6, <1>7 DEF ChainInv

\* Only a commit of an approval or a revision changes the proofs.
LEMMA ProofsChangeByCommit ==
    ASSUME [Next]_vars
    PROVE  \/ proofs' = proofs
           \/ \E h \in Handlers : /\ pc[h] = "commit"
                                  /\ req[h].op \in {"Approve", "Revise"}
                                  /\ ProofConstraints(ProofOf(h))
                                  /\ proofs' = proofs \cup {ProofOf(h)}
    BY DEF Next, Step, vars, tables, Tick, Receive, CheckOwned, EnforceSeparation,
           CheckRoot, GetBaselineSnapshot, GetEvidenceByIds, ReadIntervention,
           LoadProof, RereadOriginal, BeginWrite, CommitAuthority, CommitBaseline,
           CommitEvidence, CommitProof, Abandon, ReadThen

\* Every step of the server keeps the chains in order.
LEMMA StepKeepsChains ==
    ASSUME TypeOK, HandlerInv, ChainInv, [Next]_vars
    PROVE  ChainInv'
  <1>1. CASE proofs' = proofs
    BY <1>1 DEF ChainInv, UniqueIds, OneRoot, UniqueVersions, Roots, Linked, Rooted, Contiguous
  <1>2. ASSUME NEW h \in Handlers, pc[h] = "commit", req[h].op \in {"Approve", "Revise"},
               ProofConstraints(ProofOf(h)), proofs' = proofs \cup {ProofOf(h)}
        PROVE  ChainInv'
    <2>1. ProofOf(h) \in Proof /\ Insertable(ProofOf(h))
      BY <1>2, ProofType, CommittedIsInsertable
    <2>2. proofs \subseteq Proof
      BY DEF TypeOK, TablesOK
    <2>3. QED
      BY <1>2, <2>1, <2>2, InsertKeepsChains
  <1>3. QED
    BY <1>1, <1>2, ProofsChangeByCommit

\* Initially there are no proofs.
LEMMA InitChains == Init => ChainInv
    BY DEF Init, ChainInv, UniqueIds, OneRoot, UniqueVersions, Roots, Linked, Rooted, Contiguous

\* The chains are in order in every reachable state.
LEMMA ChainsStayInOrder == Spec => [](TypeOK /\ HandlerInv /\ ChainInv)
  <1>1. Init => TypeOK /\ HandlerInv /\ ChainInv
    BY InitOK, InitChains
  <1>2. TypeOK /\ HandlerInv /\ ChainInv /\ [Next]_vars
            => (TypeOK /\ HandlerInv /\ ChainInv)'
    BY StepOK, StepKeepsChains
  <1>3. QED
    BY <1>1, <1>2, PTL DEF Spec

\* A case never counts twice: the unique indexes alone keep every case's records
\* one chain without forks, whatever approvals and revisions race.
THEOREM CaseCountsOnce == Spec => []LinearChains
    BY ChainsStayInOrder, ChainInvImpliesLinearChains, PTL

-----------------------------------------------------------------------------
(***************************************************************************)
(* Revisions build on the effective record.                                *)
(***************************************************************************)

\* A record that the constraints let follow o follows the head of o's chain: a
\* chain without gaps that went past o would hold the new record's version.
LEMMA OnlyTheHeadIsFollowed ==
    ASSUME ChainInv, proofs \subseteq Proof, NEW n \in Proof, ProofConstraints(n),
           NEW o \in proofs, IsSuccessor(n, o)
    PROVE  o \in EffectiveProofs(n.case)
  <1> SUFFICES ASSUME NEW q \in proofs, q.chainId = o.chainId
               PROVE  q.version <= o.version
    BY DEF EffectiveProofs, IsSuccessor
  <1> DEFINE v == o.version + 1
  <1>1. o.version \in Nat /\ q.version \in Nat
    BY DEF Proof
  <1>2. ~(\E r \in proofs : r.chainId = q.chainId /\ r.version = v)
    BY DEF ProofConstraints, IsSuccessor
  <1>3. v \notin 1..q.version
    BY <1>2 DEF ChainInv, Contiguous
  <1>4. QED
    BY <1>1, <1>3

\* A revision is inserted only on top of the record that is effective at that
\* moment, however long ago its handler read the original.
THEOREM RevisionsFollowTheHead == Spec => RevisionsBuildOnTheHead
  <1> DEFINE Builds == \A p \in proofs' \ proofs :
                  p.previous # None => \E q \in EffectiveProofs(p.case) : q.proofId = p.previous
  <1>1. ASSUME TypeOK, HandlerInv, ChainInv, [Next]_vars PROVE [Builds]_vars
    <2>1. CASE proofs' = proofs
      BY <2>1
    <2>2. ASSUME NEW h \in Handlers, pc[h] = "commit", req[h].op \in {"Approve", "Revise"},
                 ProofConstraints(ProofOf(h)), proofs' = proofs \cup {ProofOf(h)}
          PROVE  Builds
      <3> DEFINE n == ProofOf(h)
      <3>1. n \in Proof /\ Insertable(n)
        BY <2>2, ProofType, CommittedIsInsertable, <1>1
      <3>2. proofs \subseteq Proof
        BY <1>1 DEF TypeOK, TablesOK
      <3>3. ProofConstraints(n)
        BY <2>2
      <3> HIDE DEF n
      <3>4. n.previous # None => \E q \in EffectiveProofs(n.case) : q.proofId = n.previous
        BY <1>1, <3>1, <3>2, <3>3, OnlyTheHeadIsFollowed DEF Insertable, IsRoot, IsSuccessor
      <3>5. proofs' \ proofs \subseteq {n}
        BY <2>2 DEF n
      <3>6. QED
        BY <3>4, <3>5
    <2>3. QED
      BY <1>1, <2>1, <2>2, ProofsChangeByCommit
  <1>2. TypeOK /\ HandlerInv /\ ChainInv /\ [Next]_vars => [Builds]_vars
    BY <1>1
  <1>3. QED
    BY <1>2, ChainsStayInOrder, PTL DEF Spec, RevisionsBuildOnTheHead

-----------------------------------------------------------------------------
(***************************************************************************)
(* The counted number.                                                     *)
(***************************************************************************)

\* The snapshot and the arithmetic a proof's number must come from.
CountedWell(p) ==
    /\ \E s \in baselines : /\ s.baselineId = p.baselineId
                            /\ s.case = p.case
                            /\ s.currency = p.currency
                            /\ s.calculated = p.baseline
    /\ p.returned = IF IsEffectiveRecovery(p)
                    THEN ClampedDifference(p.collected, p.baseline) ELSE 0

\* What a handler commits is counted from a snapshot of the case.
LEMMA CommittedIsCounted ==
    ASSUME TypeOK, HandlerInv, CountedFromSnapshot, NEW h \in Handlers, pc[h] = "commit",
           req[h].op \in {"Approve", "Revise"}
    PROVE  CountedWell(ProofOf(h))
  <1>1. req[h] \in Requests /\ HandlerOK(h)
    BY DEF HandlerInv, HandlerOK
  <1>2. CASE req[h].op = "Approve"
    <2>1. snap[h] \in BaselineSnapshotsFor(req[h])
      BY <1>1, <1>2 DEF HandlerOK
    <2>2. QED
      BY <1>2, <2>1 DEF ProofOf, CreateApprovedProof, BaselineSnapshotsFor, CountedWell,
                        IsEffectiveRecovery
  <1>3. CASE req[h].op = "Revise"
    <2> DEFINE o == original[h]
               n == ReviseProof(o, req[h])
    <2>1. o \in proofs /\ o \in Proof /\ req[h] \in ReviseRequest
      BY <1>1, <1>3, RequestFields DEF HandlerOK, TypeOK, TablesOK
    <2> HIDE DEF o
    <2>2. /\ n.case = o.case
          /\ n.currency = o.currency
          /\ n.baseline = o.baseline
          /\ n.baselineId = o.baselineId
          /\ n.status = req[h].status
          /\ n.returned = IF req[h].status = "Reversed" THEN 0
                          ELSE ClampedDifference(n.collected, o.baseline)
      BY <2>1, RevisedProofType
    <2>3. ProofOf(h) = n
      BY <1>3 DEF ProofOf, o
    <2> HIDE DEF n
    <2>4. QED
      BY <2>1, <2>2, <2>3 DEF CountedFromSnapshot, CountedWell, IsEffectiveRecovery
  <1>4. QED
    BY <1>2, <1>3

\* Snapshots are never deleted.
LEMMA BaselinesGrow ==
    ASSUME [Next]_vars
    PROVE  baselines \subseteq baselines'
    BY DEF Next, Step, vars, tables, Tick, Receive, CheckOwned, EnforceSeparation,
           CheckRoot, GetBaselineSnapshot, GetEvidenceByIds, ReadIntervention,
           LoadProof, RereadOriginal, BeginWrite, CommitAuthority, CommitBaseline,
           CommitEvidence, CommitProof, Abandon, ReadThen

\* A counted number is always collected minus the amount of a snapshot locked for
\* the same case in its currency, clamped at zero, and zero once reversed.
THEOREM NumberIsFrozen == Spec => []CountedFromSnapshot
  <1>1. Init => CountedFromSnapshot
    BY DEF Init, CountedFromSnapshot
  <1>2. ASSUME TypeOK, HandlerInv, CountedFromSnapshot, [Next]_vars
        PROVE  CountedFromSnapshot'
    <2> SUFFICES ASSUME NEW p \in proofs' PROVE CountedWell(p)'
      BY DEF CountedFromSnapshot, CountedWell
    <2>1. CountedWell(p)
      <3>1. CASE p \in proofs
        BY <1>2, <3>1 DEF CountedFromSnapshot, CountedWell
      <3>2. CASE p \notin proofs
        BY <1>2, <3>2, ProofsChangeByCommit, CommittedIsCounted
      <3>3. QED
        BY <3>1, <3>2
    <2>2. baselines \subseteq baselines'
      BY <1>2, BaselinesGrow
    <2>3. QED
      BY <2>1, <2>2 DEF CountedWell
  <1>3. TypeOK /\ HandlerInv /\ CountedFromSnapshot /\ [Next]_vars => CountedFromSnapshot'
    BY <1>2
  <1>4. QED
    BY <1>1, <1>3, ChainsStayInOrder, PTL DEF Spec

-----------------------------------------------------------------------------
(***************************************************************************)
(* The concurrent server implements the counted ledger of CountedLedger.   *)
(*                                                                         *)
(* The refinement mapping is CurrentRecord, what a reader of the ledger    *)
(* sees of a case.  Only the insert of a proof changes it: an insert of a  *)
(* root is the ledger's Approve, of a successor its Revise.                *)
(***************************************************************************)
\* What the ledger shows of a proof.
EntryOf(p) == [version |-> p.version, returned |-> p.returned, status |-> p.status]

\* A proof whose number is well counted shows an entry of the ledger.
LEMMA EntryType ==
    ASSUME NEW p \in Proof
    PROVE  EntryOf(p) \in Ledger!Entry /\ EntryOf(p) # None
  <1>1. EntryOf(p) \in Ledger!Entry
    BY DEF EntryOf, Ledger!Entry, Proof, RevisionStatuses
  <1>2. QED
    BY <1>1, NoEntryAssumption

\* A case has at most one effective record.
LEMMA OneEffective ==
    ASSUME ChainInv, proofs \subseteq Proof, NEW c,
           NEW p \in EffectiveProofs(c)
    PROVE  EffectiveProofs(c) = {p}
  <1> SUFFICES ASSUME NEW q \in EffectiveProofs(c) PROVE q = p
    BY DEF EffectiveProofs
  <1>1. p \in proofs /\ q \in proofs /\ p.case = c /\ q.case = c
    BY DEF EffectiveProofs
  <1>2. p.chainId = q.chainId
    BY <1>1, OneChain
  <1>3. p.version <= q.version /\ q.version <= p.version
    BY <1>1, <1>2 DEF EffectiveProofs
  <1>4. p.version = q.version
    BY <1>1, <1>3 DEF Proof
  <1>5. QED
    BY <1>1, <1>2, <1>4 DEF ChainInv, UniqueVersions

\* The ledger shows a case's only effective record.
LEMMA ShowsEffective ==
    ASSUME NEW c \in Cases, NEW p, EffectiveProofs(c) = {p}
    PROVE  CurrentRecord[c] = EntryOf(p)
    BY DEF CurrentRecord, EntryOf

\* A case without records shows nothing.
LEMMA ShowsNothing ==
    ASSUME NEW c \in Cases, EffectiveProofs(c) = {}
    PROVE  CurrentRecord[c] = None
    BY DEF CurrentRecord

-----------------------------------------------------------------------------
\* After an insert the new record is its case's effective one, and no other case
\* is affected.
LEMMA InsertMovesOneHead ==
    ASSUME ChainInv, ChainInv', proofs \subseteq Proof, NEW n \in Proof,
           ProofConstraints(n), Insertable(n), proofs' = proofs \cup {n}
    PROVE  /\ EffectiveProofs(n.case)' = {n}
           /\ \A d \in Cases \ {n.case} : EffectiveProofs(d)' = EffectiveProofs(d)
  <1>1. ASSUME NEW q \in proofs, q.chainId = n.chainId PROVE q.case = n.case
    <2>1. q \in proofs' /\ n \in proofs'
      OBVIOUS
    <2>2. QED
      BY <1>1, <2>1 DEF ChainInv, UniqueIds, Roots, Rooted
  <1>2. ASSUME NEW q \in proofs, q.case = n.case PROVE q.version < n.version
    <2>1. CASE IsRoot(n)
      <3>1. PICK r \in proofs : r.previous = None /\ r.case = q.case
        BY DEF ChainInv, Rooted
      <3>2. r.case = n.case => r.previous # None
        BY <2>1 DEF ProofConstraints, IsRoot
      <3>3. QED
        BY <1>2, <3>1, <3>2
    <2>2. CASE /\ n.previous # None
               /\ \E o \in proofs : IsSuccessor(n, o)
      <3>1. PICK o \in proofs : IsSuccessor(n, o)
        BY <2>2
      <3>2. o \in EffectiveProofs(n.case)
        BY <3>1, OnlyTheHeadIsFollowed
      <3>3. q.chainId = o.chainId
        BY <1>2, <3>1, OneChain DEF IsSuccessor
      <3>4. q.version <= o.version
        BY <3>2, <3>3 DEF EffectiveProofs
      <3>5. n.version = o.version + 1 /\ o.version \in Nat /\ q.version \in Nat
        BY <3>1 DEF IsSuccessor, Proof
      <3>6. QED
        BY <3>4, <3>5
    <2>3. QED
      BY <2>1, <2>2 DEF Insertable
  <1>3. n \in EffectiveProofs(n.case)'
    <2>1. ASSUME NEW q \in proofs', q.chainId = n.chainId PROVE q.version <= n.version
      <3>1. q.version \in Nat /\ n.version \in Nat
        BY DEF Proof
      <3>2. QED
        BY <1>1, <1>2, <2>1, <3>1
    <2>2. QED
      BY <2>1 DEF EffectiveProofs
  <1>4. ASSUME NEW p \in proofs, p.case = n.case PROVE p \notin EffectiveProofs(n.case)'
    <2>1. p.chainId = n.chainId
      BY <1>4 DEF ChainInv, OneRoot, Rooted
    <2>2. p.version < n.version /\ p.version \in Nat /\ n.version \in Nat
      BY <1>2, <1>4 DEF Proof
    <2>3. ~(n.version <= p.version)
      BY <2>2
    <2>4. QED
      BY <2>1, <2>3 DEF EffectiveProofs
  <1>5. EffectiveProofs(n.case)' = {n}
    BY <1>3, <1>4 DEF EffectiveProofs
  <1>6. ASSUME NEW d \in Cases \ {n.case}
        PROVE  EffectiveProofs(d)' = EffectiveProofs(d)
    <2>1. \A p \in proofs : p.case = d => p.chainId # n.chainId
      BY <1>1, <1>6
    <2>2. QED
      BY <1>6, <2>1 DEF EffectiveProofs
  <1>7. QED
    BY <1>5, <1>6

\* The insert of a root approves its case, of a successor revises it.
LEMMA InsertIsLedgerStep ==
    ASSUME ChainInv, ChainInv', proofs \subseteq Proof, NEW n \in Proof,
           ProofConstraints(n), Insertable(n), proofs' = proofs \cup {n},
           IsRoot(n) => n.status = "Approved",
           ~IsRoot(n) => n.status # "Approved",
           n.status = "Reversed" => n.returned = 0
    PROVE  Ledger!Next
  <1> DEFINE c == n.case
  <1>1. c \in Cases
    BY DEF Proof
  <1>2. /\ EffectiveProofs(c)' = {n}
        /\ \A d \in Cases \ {c} : EffectiveProofs(d)' = EffectiveProofs(d)
    BY InsertMovesOneHead
  <1> HIDE DEF c
  <1>3. CurrentRecord'[c] = EntryOf(n)
    BY <1>1, <1>2 DEF CurrentRecord, EntryOf
  <1>4. \A d \in Cases \ {c} : CurrentRecord'[d] = CurrentRecord[d]
    BY <1>2 DEF CurrentRecord
  <1>5. Ledger!Changes(c)
    <2>1. CurrentRecord' = [CurrentRecord EXCEPT ![c] = CurrentRecord'[c]]
      BY <1>1, <1>4 DEF CurrentRecord
    <2>2. QED
      BY <1>3, <2>1, EntryType DEF Ledger!Changes
  <1>6. CASE IsRoot(n)
    <2>1. EffectiveProofs(c) = {}
      <3>1. ASSUME NEW q \in proofs, q.case = c PROVE FALSE
        <4>1. PICK r \in proofs : r.previous = None /\ r.case = q.case
          BY DEF ChainInv, Rooted
        <4>2. r.case = n.case => r.previous # None
          BY <1>6 DEF ProofConstraints, IsRoot
        <4>3. QED
          BY <3>1, <4>1, <4>2 DEF c
      <3>2. QED
        BY <3>1 DEF EffectiveProofs
    <2>2. CurrentRecord[c] = None
      BY <1>1, <2>1, ShowsNothing
    <2>3. Ledger!Approve(c)
      BY <1>3, <1>5, <1>6, <2>2 DEF Ledger!Approve, EntryOf, IsRoot
    <2>4. QED
      BY <1>1, <2>3 DEF Ledger!Next
  <1>7. CASE ~IsRoot(n)
    <2>1. PICK o \in proofs : IsSuccessor(n, o)
      BY <1>7 DEF Insertable
    <2>2. o \in EffectiveProofs(c)
      BY <2>1, OnlyTheHeadIsFollowed DEF c
    <2>3. CurrentRecord[c] = EntryOf(o) /\ CurrentRecord[c] # None
      BY <1>1, <2>1, <2>2, OneEffective, ShowsEffective, EntryType
    <2>4. Ledger!Revise(c)
      BY <1>3, <1>5, <1>7, <2>1, <2>3 DEF Ledger!Revise, EntryOf, IsSuccessor
    <2>5. QED
      BY <1>1, <2>4 DEF Ledger!Next
  <1>8. QED
    BY <1>6, <1>7

\* What a handler commits has the status its place in the chain calls for.
LEMMA CommittedStatus ==
    ASSUME TypeOK, HandlerInv, NEW h \in Handlers, pc[h] = "commit",
           req[h].op \in {"Approve", "Revise"}
    PROVE  /\ IsRoot(ProofOf(h)) => ProofOf(h).status = "Approved"
           /\ ~IsRoot(ProofOf(h)) => ProofOf(h).status # "Approved"
           /\ ProofOf(h).status = "Reversed" => ProofOf(h).returned = 0
  <1>1. req[h] \in Requests /\ HandlerOK(h)
    BY DEF HandlerInv, HandlerOK
  <1>2. CASE req[h].op = "Approve"
    BY <1>2 DEF ProofOf, CreateApprovedProof, IsRoot
  <1>3. CASE req[h].op = "Revise"
    <2>1. original[h] \in Proof /\ req[h] \in ReviseRequest
      BY <1>1, <1>3, RequestFields DEF HandlerOK, TypeOK, TablesOK
    <2> DEFINE n == ReviseProof(original[h], req[h])
    <2>2. /\ n.previous = original[h].proofId
          /\ n.status = req[h].status
          /\ req[h].status = "Reversed" => n.returned = 0
      BY <2>1, RevisedProofType
    <2>3. ProofOf(h) = n
      BY <1>3 DEF ProofOf
    <2> HIDE DEF n
    <2>4. n.previous # None /\ n.status # "Approved"
      BY <2>1, <2>2, NoneAssumption DEF Proof, ReviseRequest, RevisionStatuses
    <2>5. QED
      BY <2>2, <2>3, <2>4 DEF IsRoot
  <1>4. QED
    BY <1>2, <1>3

-----------------------------------------------------------------------------
\* The server implements the counted ledger: whatever requests overlap, repeat or
\* fail, a case enters the ledger once and then changes by successive versions.
THEOREM ServerImplementsLedger == Spec => ImplementsLedger
  <1>1. Init => Ledger!Init
    BY DEF Init, Ledger!Init, CurrentRecord, EffectiveProofs
  <1>2. ASSUME TypeOK, HandlerInv, ChainInv, [Next]_vars
        PROVE  [Ledger!Next]_CurrentRecord
    <2>1. CASE proofs' = proofs
      BY <2>1 DEF CurrentRecord, EffectiveProofs
    <2>2. ASSUME NEW h \in Handlers, pc[h] = "commit", req[h].op \in {"Approve", "Revise"},
                 ProofConstraints(ProofOf(h)), proofs' = proofs \cup {ProofOf(h)}
          PROVE  Ledger!Next
      <3>1. ChainInv'
        BY <1>2, StepKeepsChains
      <3>2. proofs \subseteq Proof /\ ProofOf(h) \in Proof /\ Insertable(ProofOf(h))
        BY <1>2, <2>2, ProofType, CommittedIsInsertable DEF TypeOK, TablesOK
      <3>3. QED
        BY <1>2, <2>2, <3>1, <3>2, CommittedStatus, InsertIsLedgerStep
    <2>3. QED
      BY <1>2, <2>1, <2>2, ProofsChangeByCommit
  <1>3. TypeOK /\ HandlerInv /\ ChainInv /\ [Next]_vars => [Ledger!Next]_CurrentRecord
    BY <1>2
  <1>4. QED
    BY <1>1, <1>3, ChainsStayInOrder, PTL DEF Spec, ImplementsLedger, Ledger!Spec

-----------------------------------------------------------------------------
(***************************************************************************)
(* The authority for a number.                                             *)
(***************************************************************************)
AuthorOnFile(c) == \E e \in authority : e.case = c /\ e.action = "Author"

\* An approval that has passed its first check has seen an author of its case.
OwnedOK(h) ==
    /\ pc[h] \in {"separation", "root", "baseline", "evidence", "intervention", "write", "commit"}
    /\ req[h].op = "Approve"
    => AuthorOnFile(req[h].case)

OwnedInv == \A h \in Handlers : OwnedOK(h)

\* ProofCarriesAuthority of one proof and of one event.
Authorised(p) ==
    /\ AuthorOnFile(p.case)
    /\ \E e \in authority : e.case = p.case /\ e.action = "Approve" /\ e.actor = p.approvedBy

Explained(e) ==
    e.action = "Approve" => \E p \in proofs : p.case = e.case /\ p.approvedBy = e.actor

AuthorityInv ==
    /\ \A p \in proofs : Authorised(p)
    /\ \A e \in authority : Explained(e)

LEMMA AuthorityInvMeans == AuthorityInv => ProofCarriesAuthority
    BY DEF AuthorityInv, Authorised, Explained, AuthorOnFile, ProofCarriesAuthority, IdsFor,
           AuthorityFor

\* Authority events are appended, one by one, by a handler that commits.
LEMMA AuthorityChangesByCommit ==
    ASSUME [Next]_vars
    PROVE  \/ UNCHANGED <<authority, proofs>>
           \/ \E h \in Handlers : /\ pc[h] = "commit"
                                  /\ authority' = authority \cup {EventOf(h)}
                                  /\ \/ /\ req[h].op \in CaseOps \cup {"Verify"}
                                        /\ proofs' = proofs
                                     \/ /\ req[h].op \in {"Approve", "Revise"}
                                        /\ proofs' = proofs \cup {ProofOf(h)}
    BY DEF Next, Step, vars, tables, Tick, Receive, CheckOwned, EnforceSeparation,
           CheckRoot, GetBaselineSnapshot, GetEvidenceByIds, ReadIntervention,
           LoadProof, RereadOriginal, BeginWrite, CommitAuthority, CommitBaseline,
           CommitEvidence, CommitProof, Abandon, ReadThen

\* A handler that moves on within its request keeps having seen an author.
LEMMA StepKeepsOwned ==
    ASSUME TypeOK, HandlerInv, OwnedInv, [Next]_vars
    PROVE  OwnedInv'
  <1>1. authority \subseteq authority'
    BY AuthorityChangesByCommit
  <1>2. \A c : AuthorOnFile(c) => AuthorOnFile(c)'
    BY <1>1 DEF AuthorOnFile
  <1>3. ASSUME NEW g \in Handlers, pc'[g] = pc[g], req'[g] = req[g]  PROVE OwnedOK(g)'
    BY <1>2, <1>3 DEF OwnedInv, OwnedOK
  <1>4. ASSUME NEW g \in Handlers, pc'[g] = "idle"  PROVE OwnedOK(g)'
    BY <1>4 DEF OwnedOK
  <1>5. ASSUME NEW h \in Handlers, NEW step \in Steps, Goto(h, step), req' = req,
               pc[h] \in {"separation", "root", "baseline", "evidence", "intervention", "write"}
                 \/ req[h].op # "Approve" \/ AuthorOnFile(req[h].case)
        PROVE  OwnedInv'
    <2>1. pc' = [pc EXCEPT ![h] = step]
      BY <1>5 DEF Goto
    <2>2. pc'[h] = step /\ \A g \in Handlers \ {h} : pc'[g] = pc[g]
      BY <2>1 DEF TypeOK, LocalsOK
    <2>3. OwnedOK(h)'
      BY <1>2, <1>5 DEF OwnedInv, OwnedOK
    <2> QED  BY <1>3, <1>5, <2>2, <2>3 DEF OwnedInv
  <1>6. ASSUME NEW h \in Handlers, Answer(h)  PROVE OwnedInv'
    <2>1. pc'[h] = "idle" /\ \A g \in Handlers \ {h} : pc'[g] = pc[g] /\ req'[g] = req[g]
      BY <1>6 DEF Answer, Goto, TypeOK, LocalsOK, Local
    <2> QED  BY <1>3, <1>4, <2>1 DEF OwnedInv
  <1>7. CASE UNCHANGED <<pc, req>>
    BY <1>3, <1>7 DEF OwnedInv
  <1>8. ASSUME NEW h \in Handlers, Step(h)  PROVE OwnedInv'
    <2>0. HandlerOK(h)
      BY DEF HandlerInv
    <2>1. CASE Receive(h)
      <3>1. PICK r \in Requests : req' = [req EXCEPT ![h] = r] /\ Goto(h, FirstStep(r.op))
        BY <2>1 DEF Receive
      <3>2. /\ req'[h] = r /\ pc'[h] = FirstStep(r.op)
            /\ \A g \in Handlers \ {h} : pc'[g] = pc[g] /\ req'[g] = req[g]
        BY <3>1 DEF Goto, TypeOK, LocalsOK, Local
      <3>3. OwnedOK(h)'
        BY <3>2 DEF OwnedOK, FirstStep
      <3> QED  BY <1>3, <3>2, <3>3 DEF OwnedInv
    <2>2. CASE CheckOwned(h)
      <3>1. CASE Answer(h)
        BY <1>6, <3>1
      <3>2. CASE IdsFor(CaseOf(h), "Author") # {} /\ Goto(h, "separation") /\ UNCHANGED locals
        <4>1. req[h].op = "Approve"
          BY <2>0, <2>2 DEF CheckOwned, HandlerOK
        <4>2. AuthorOnFile(req[h].case)
          BY <3>2, <4>1 DEF CaseOf, IdsFor, AuthorityFor, AuthorOnFile
        <4> QED  BY <1>5, <3>2, <4>2 DEF locals, Steps
      <3> QED  BY <2>2, <3>1, <3>2 DEF CheckOwned, ReadThen
    <2>3. CASE LoadProof(h)
      <3>1. req[h].op # "Approve"
        BY <2>0, <2>3 DEF LoadProof, HandlerOK
      <3> QED  BY <1>5, <1>6, <2>3, <3>1 DEF LoadProof, Steps
    <2>4. CASE RereadOriginal(h)
      <3>1. req[h].op # "Approve"
        BY <2>0, <2>4 DEF RereadOriginal, HandlerOK
      <3> QED  BY <1>5, <1>6, <2>4, <3>1 DEF RereadOriginal, Steps
    <2>5. CASE EnforceSeparation(h)
      <3>1. AfterSeparation(req[h].op) \in Steps
        BY <2>0, <2>5, AfterSeparationType, RequestFields DEF EnforceSeparation, HandlerOK, Steps
      <3> QED  BY <1>5, <1>6, <2>5, <3>1 DEF EnforceSeparation, ReadThen, locals
    <2>6. CASE CheckRoot(h) \/ ReadIntervention(h)
      BY <1>5, <1>6, <2>6 DEF CheckRoot, ReadIntervention, ReadThen, locals, Steps
    <2>7. CASE GetBaselineSnapshot(h) \/ GetEvidenceByIds(h) \/ BeginWrite(h)
      BY <1>5, <1>6, <2>7 DEF GetBaselineSnapshot, GetEvidenceByIds, BeginWrite, Steps
    <2>8. CASE CommitAuthority(h) \/ CommitBaseline(h) \/ CommitEvidence(h) \/ CommitProof(h)
               \/ Abandon(h)
      BY <1>6, <2>8 DEF CommitAuthority, CommitBaseline, CommitEvidence, CommitProof, Abandon
    <2> QED  BY <1>8, <2>1, <2>2, <2>3, <2>4, <2>5, <2>6, <2>7, <2>8 DEF Step
  <1> QED  BY <1>7, <1>8 DEF Next, Tick, vars, locals

\* The event and the proof of one transaction explain each other.
LEMMA CommitIsAuthorised ==
    ASSUME TypeOK, HandlerInv, OwnedInv, AuthorityInv, NEW h \in Handlers, pc[h] = "commit",
           req[h].op \in {"Approve", "Revise"}
    PROVE  /\ EventOf(h).case = ProofOf(h).case /\ EventOf(h).actor = ProofOf(h).approvedBy
           /\ EventOf(h).action = "Approve"
           /\ AuthorOnFile(ProofOf(h).case)
  <1>1. req[h] \in Requests /\ HandlerOK(h) /\ OwnedOK(h)
    BY DEF HandlerInv, HandlerOK, OwnedInv
  <1>2. CASE req[h].op = "Approve"
    BY <1>1, <1>2 DEF EventOf, CaseOf, ProofOf, CreateApprovedProof, GovernedAction, OwnedOK
  <1>3. CASE req[h].op = "Revise"
    <2> DEFINE o == original[h]
    <2>1. o \in proofs /\ o \in Proof /\ req[h] \in ReviseRequest
      BY <1>1, <1>3, RequestFields DEF HandlerOK, TypeOK, TablesOK
    <2>2. ReviseProof(o, req[h]).case = o.case /\ ReviseProof(o, req[h]).approvedBy = req[h].actor
      BY <2>1, RevisedProofType
    <2>3. AuthorOnFile(o.case)
      BY <2>1 DEF AuthorityInv, Authorised
    <2> QED  BY <1>3, <2>2, <2>3 DEF EventOf, CaseOf, ProofOf, GovernedAction
  <1> QED  BY <1>2, <1>3

LEMMA StepKeepsAuthority ==
    ASSUME TypeOK, HandlerInv, OwnedInv, AuthorityInv, [Next]_vars
    PROVE  AuthorityInv'
  <1>1. authority \subseteq authority' /\ proofs \subseteq proofs'
    BY AuthorityChangesByCommit
  <1>2. \A p \in proofs : Authorised(p)'
    BY <1>1 DEF AuthorityInv, Authorised, AuthorOnFile
  <1>3. \A e \in authority : Explained(e)'
    BY <1>1 DEF AuthorityInv, Explained
  <1>4. CASE UNCHANGED <<authority, proofs>>
    BY <1>2, <1>3, <1>4 DEF AuthorityInv
  <1>5. ASSUME NEW h \in Handlers, req[h].op \in CaseOps \cup {"Verify"},
               authority' = authority \cup {EventOf(h)}, proofs' = proofs
        PROVE  AuthorityInv'
    <2>1. EventOf(h).action # "Approve"
      BY <1>5 DEF EventOf, GovernedAction, CaseOps
    <2> QED  BY <1>2, <1>3, <1>5, <2>1 DEF AuthorityInv, Explained
  <1>6. ASSUME NEW h \in Handlers, pc[h] = "commit", req[h].op \in {"Approve", "Revise"},
               authority' = authority \cup {EventOf(h)}, proofs' = proofs \cup {ProofOf(h)}
        PROVE  AuthorityInv'
    <2> DEFINE e == EventOf(h)  p == ProofOf(h)
    <2>1. e.case = p.case /\ e.actor = p.approvedBy /\ e.action = "Approve" /\ AuthorOnFile(p.case)
      BY <1>6, CommitIsAuthorised
    <2> HIDE DEF e, p
    <2>2. e \in authority' /\ p \in proofs'
      BY <1>6 DEF e, p
    <2>3. \A q \in proofs' : q \in proofs \/ q = p
      BY <1>6 DEF p
    <2>4. \A f \in authority' : f \in authority \/ f = e
      BY <1>6 DEF e
    <2>5. \A q : q = p => Authorised(q)'
      BY <1>1, <2>1, <2>2 DEF Authorised, AuthorOnFile
    <2>6. \A f : f = e => Explained(f)'
      BY <2>1, <2>2 DEF Explained
    <2> QED  BY <1>2, <1>3, <2>3, <2>4, <2>5, <2>6 DEF AuthorityInv
  <1> QED  BY <1>4, <1>5, <1>6, AuthorityChangesByCommit

\* A stored proof and the authority for it are one fact: it has the approval of
\* its transaction and an author of its case, and no approval is on file without
\* a proof, whatever failed in between (proofService.approveProof, reviseProof).
THEOREM AuthorityIsOnFile == Spec => []ProofCarriesAuthority
  <1> DEFINE Inv == TypeOK /\ HandlerInv /\ OwnedInv /\ AuthorityInv
  <1>1. Init => Inv
    BY InitOK DEF Init, OwnedInv, OwnedOK, AuthorityInv
  <1>2. Inv /\ [Next]_vars => Inv'
    BY StepOK, StepKeepsOwned, StepKeepsAuthority
  <1>3. Inv => ProofCarriesAuthority
    BY AuthorityInvMeans
  <1>4. QED
    BY <1>1, <1>2, <1>3, PTL DEF Spec

-----------------------------------------------------------------------------
(***************************************************************************)
(* Outcome records.                                                        *)
(***************************************************************************)
\* One outcome record of a source is on file at most once.
OneIngest ==
    \A e, f \in OutcomeItems(evidence) : <<e.system, e.record>> = <<f.system, f.record>> => e = f

\* Evidence is appended by a commit that the unique index lets through.
LEMMA EvidenceChangesByCommit ==
    ASSUME [Next]_vars
    PROVE  \/ evidence' = evidence
           \/ \E h \in Handlers : /\ EvidenceConstraints(RecordOf(h))
                                  /\ evidence' = evidence \cup {RecordOf(h)}
    BY DEF Next, Step, vars, tables, Tick, Receive, CheckOwned, EnforceSeparation,
           CheckRoot, GetBaselineSnapshot, GetEvidenceByIds, ReadIntervention,
           LoadProof, RereadOriginal, BeginWrite, CommitAuthority, CommitBaseline,
           CommitEvidence, CommitProof, Abandon, ReadThen

\* One outcome record backs at most one case, also when two cases ingest it or are
\* approved on it at the same time: the single-use index decides (evidenceStore.ts).
THEOREM OutcomeBacksOneCase == Spec => []OutcomeEvidenceSingleUse
  <1>1. Init => OneIngest
    BY DEF Init, OneIngest, OutcomeItems
  <1>2. OneIngest /\ [Next]_vars => OneIngest'
    <2> SUFFICES ASSUME OneIngest, NEW h \in Handlers, EvidenceConstraints(RecordOf(h)),
                        evidence' = evidence \cup {RecordOf(h)}
                 PROVE  OneIngest'
      BY EvidenceChangesByCommit DEF OneIngest, OutcomeItems
    <2> DEFINE r == RecordOf(h)
    <2> HIDE DEF r
    <2>1. OutcomeItems(evidence)' \subseteq OutcomeItems(evidence) \cup {r}
      BY DEF OutcomeItems, r
    <2>2. r \in OutcomeItems(evidence)' =>
            \A f \in OutcomeItems(evidence) : <<f.system, f.record>> # <<r.system, r.record>>
      BY DEF EvidenceConstraints, OutcomeItems, r
    <2> QED  BY <2>1, <2>2 DEF OneIngest
  <1>3. OneIngest => OutcomeEvidenceSingleUse
    BY DEF OneIngest, OutcomeEvidenceSingleUse, EvidenceOf, EvidenceByIds, OutcomeItems
  <1>4. QED
    BY <1>1, <1>2, <1>3, PTL DEF Spec

-----------------------------------------------------------------------------
(***************************************************************************)
(* What an approval was checked against still holds of the stored proof.   *)
(***************************************************************************)
UniqueEvidence == \A e, f \in evidence : e.evidenceId = f.evidenceId => e = f

\* All evidence that ids name is on file for c.
OnFile(c, ids) ==
    \A i \in 1..Len(ids) : \E e \in evidence : e.case = c /\ e.evidenceId = ids[i]

\* As many records as ids means that every id has its record: none is unknown,
\* foreign or repeated.
LEMMA CountMeansOnFile ==
    ASSUME UniqueEvidence, NEW c, NEW ids \in Seq(EvidenceIds),
           Cardinality(EvidenceByIds(c, ids)) = Len(ids)
    PROVE  OnFile(c, ids)
  <1> DEFINE items == EvidenceByIds(c, ids)
             n == Len(ids)
             f == [e \in items |-> CHOOSE i \in 1..n : ids[i] = e.evidenceId]
  <1>0. n \in Nat
    OBVIOUS
  <1>1. IsFiniteSet(1..n) /\ Cardinality(1..n) = n
    <2> HIDE DEF n
    <2>1. 1 \in Int /\ n \in Int
      BY <1>0
    <2>2. IsFiniteSet(1..n) /\ Cardinality(1..n) = IF 1 > n THEN 0 ELSE n - 1 + 1
      BY <2>1, FS_Interval, Zenon
    <2>3. (IF 1 > n THEN 0 ELSE n - 1 + 1) = n
      BY <1>0
    <2> QED  BY <2>2, <2>3, Zenon
  <1>2. \A e \in items : e \in evidence /\ e.case = c /\ \E i \in 1..n : ids[i] = e.evidenceId
    BY DEF EvidenceByIds
  <1>3. \A e \in items : f[e] \in 1..n /\ ids[f[e]] = e.evidenceId
    BY <1>2
  <1>4. f \in Injection(items, 1..n)
    <2>1. f \in [items -> 1..n]
      BY <1>3
    <2>2. \A a, b \in items : f[a] = f[b] => a = b
      BY <1>2, <1>3 DEF UniqueEvidence
    <2> HIDE DEF f, items
    <2> QED  BY <2>1, <2>2 DEF Injection, IsInjective
  <1>5. f \in Surjection(items, 1..n)
    <2> HIDE DEF f
    <2> QED  BY <1>1, <1>4, FS_Injection
  <1>6. \A i \in 1..n : \E e \in items : f[e] = i
    <2> HIDE DEF f, items
    <2> QED  BY <1>5 DEF Surjection
  <1> HIDE DEF f, items
  <1> QED  BY <1>2, <1>3, <1>6 DEF OnFile

\* Evidence that is all on file is not added to.
LEMMA CitedStays ==
    ASSUME NEW c, NEW ids, OnFile(c, ids), evidence \subseteq evidence', UniqueEvidence'
    PROVE  OnFile(c, ids)' /\ EvidenceByIds(c, ids)' = EvidenceByIds(c, ids)
  BY DEF OnFile, EvidenceByIds, UniqueEvidence

\* Rows are told apart by their ids, and nothing was locked or stamped in the
\* future; unless transactions outlive their tick, an open one is stamped now.
TimesInv ==
    /\ UniqueEvidence
    /\ \A s, t \in baselines : s.baselineId = t.baselineId => s = t
    /\ \A s \in baselines : s.lockedAt <= now
    /\ \A h \in Handlers : pc[h] = "commit" => stamp[h] <= now /\ (~LateCommit => stamp[h] = now)

\* A step of one handler leaves the locals of the others alone.
LEMMA OthersRest ==
    ASSUME TypeOK, NEW h \in Handlers, Step(h), NEW g \in Handlers, g # h
    PROVE  /\ pc'[g] = pc[g] /\ req'[g] = req[g] /\ snap'[g] = snap[g]
           /\ cited'[g] = cited[g] /\ original'[g] = original[g] /\ stamp'[g] = stamp[g]
  <1>1. /\ DOMAIN pc = Handlers /\ DOMAIN req = Handlers /\ DOMAIN snap = Handlers
        /\ DOMAIN cited = Handlers /\ DOMAIN original = Handlers /\ DOMAIN stamp = Handlers
    BY DEF TypeOK, LocalsOK, Local
  <1>2. CASE Answer(h)
    BY <1>1, <1>2 DEF Answer, Goto
  <1>3. ASSUME NEW step, Goto(h, step), UNCHANGED locals  PROVE pc'[g] = pc[g] /\ UNCHANGED locals
    BY <1>1, <1>3 DEF Goto
  <1>4. CASE CheckOwned(h) \/ EnforceSeparation(h) \/ CheckRoot(h) \/ ReadIntervention(h)
    BY <1>2, <1>3, <1>4
       DEF CheckOwned, EnforceSeparation, CheckRoot, ReadIntervention, ReadThen, locals
  <1>5. CASE Receive(h)
    BY <1>1, <1>5 DEF Receive, Goto
  <1>6. CASE GetBaselineSnapshot(h) \/ GetEvidenceByIds(h)
    BY <1>1, <1>2, <1>6 DEF GetBaselineSnapshot, GetEvidenceByIds, Goto
  <1>7. CASE LoadProof(h) \/ RereadOriginal(h) \/ BeginWrite(h)
    BY <1>1, <1>2, <1>7 DEF LoadProof, RereadOriginal, BeginWrite, Goto
  <1>8. CASE CommitAuthority(h) \/ CommitBaseline(h) \/ CommitEvidence(h) \/ CommitProof(h)
             \/ Abandon(h)
    BY <1>2, <1>8 DEF CommitAuthority, CommitBaseline, CommitEvidence, CommitProof, Abandon
  <1> QED  BY <1>4, <1>5, <1>6, <1>7, <1>8 DEF Step

\* A snapshot is locked at the stamp of the transaction that inserts it.
LEMMA BaselinesChangeByCommit ==
    ASSUME [Next]_vars
    PROVE  \/ baselines' = baselines
           \/ \E h \in Handlers : /\ pc[h] = "commit" /\ BaselineConstraints(SnapshotOf(h))
                                  /\ baselines' = baselines \cup {SnapshotOf(h)}
    BY DEF Next, Step, vars, tables, Tick, Receive, CheckOwned, EnforceSeparation,
           CheckRoot, GetBaselineSnapshot, GetEvidenceByIds, ReadIntervention,
           LoadProof, RereadOriginal, BeginWrite, CommitAuthority, CommitBaseline,
           CommitEvidence, CommitProof, Abandon, ReadThen

\* Only the beginning of a write opens a transaction, and stamps it.
LEMMA WriteIsStamped ==
    ASSUME TypeOK, NEW h \in Handlers, Step(h), pc'[h] = "commit"
    PROVE  stamp'[h] = now /\ BeginWrite(h)
  <1>1. DOMAIN pc = Handlers /\ DOMAIN stamp = Handlers
    BY DEF TypeOK, LocalsOK, Local
  <1>2. ~Answer(h)
    BY <1>1 DEF Answer, Goto
  <1>3. \A step : Goto(h, step) => step = "commit"
    BY <1>1 DEF Goto
  <1>4. ~CheckOwned(h) /\ ~CheckRoot(h) /\ ~ReadIntervention(h) /\ ~EnforceSeparation(h)
    BY <1>2, <1>3 DEF CheckOwned, CheckRoot, ReadIntervention, EnforceSeparation, AfterSeparation, ReadThen
  <1>5. ~Receive(h) /\ ~LoadProof(h) /\ ~RereadOriginal(h)
    BY <1>2, <1>3 DEF Receive, FirstStep, LoadProof, RereadOriginal
  <1>6. ~GetBaselineSnapshot(h) /\ ~GetEvidenceByIds(h)
    BY <1>2, <1>3 DEF GetBaselineSnapshot, GetEvidenceByIds
  <1>7. BeginWrite(h)
    BY <1>2, <1>4, <1>5, <1>6
       DEF Step, CommitAuthority, CommitBaseline, CommitEvidence, CommitProof, Abandon
  <1> QED  BY <1>1, <1>7 DEF BeginWrite

\* The clock stands still during a handler's step.
LEMMA ClockRests ==
    ASSUME NEW h \in Handlers, Step(h)
    PROVE  now' = now
  BY DEF Step, Receive, CheckOwned, EnforceSeparation, CheckRoot, GetBaselineSnapshot,
         GetEvidenceByIds, ReadIntervention, LoadProof, RereadOriginal, BeginWrite, CommitAuthority,
         CommitBaseline, CommitEvidence, CommitProof, Abandon, ReadThen

LEMMA StepKeepsTimes ==
    ASSUME TypeOK, TimesInv, [Next]_vars
    PROVE  TimesInv'
  <1>0. now \in Nat /\ now' \in Nat /\ now <= now'
    BY ClockRests DEF TypeOK, TablesOK, Next, Tick, vars
  <1>1. UniqueEvidence'
    BY EvidenceChangesByCommit DEF TimesInv, UniqueEvidence, EvidenceConstraints
  <1>2. (\A s, t \in baselines : s.baselineId = t.baselineId => s = t)'
    BY BaselinesChangeByCommit DEF TimesInv, BaselineConstraints
  <1>3. (\A s \in baselines : s.lockedAt <= now)'
    <2>1. \A s \in baselines : s.lockedAt \in Nat /\ s.lockedAt <= now
      BY DEF TimesInv, TypeOK, TablesOK, BaselineSnapshot
    <2>2. \A h \in Handlers : pc[h] = "commit" =>
              SnapshotOf(h).lockedAt \in Nat /\ SnapshotOf(h).lockedAt <= now
      BY DEF TimesInv, SnapshotOf, TypeOK, LocalsOK
    <2>3. \A s \in baselines' : s.lockedAt \in Nat /\ s.lockedAt <= now
      BY <2>1, <2>2, BaselinesChangeByCommit
    <2> QED  BY <1>0, <2>3
  <1>4. (\A h \in Handlers : pc[h] = "commit" => stamp[h] <= now /\ (~LateCommit => stamp[h] = now))'
    <2>0. \A h \in Handlers : stamp[h] \in Nat
      BY DEF TypeOK, LocalsOK
    <2>1. CASE Tick
      BY <1>0, <2>0, <2>1 DEF Tick, locals, TimesInv
    <2>2. ASSUME NEW h \in Handlers, Step(h), NEW g \in Handlers, pc'[g] = "commit"
          PROVE  stamp'[g] <= now' /\ (~LateCommit => stamp'[g] = now')
      <3>1. now' = now
        BY <2>2, ClockRests
      <3>2. CASE g = h
        BY <1>0, <2>2, <3>1, <3>2, WriteIsStamped
      <3>3. CASE g # h
        <4>1. pc'[g] = pc[g] /\ stamp'[g] = stamp[g]
          BY <2>2, <3>3, OthersRest
        <4> QED  BY <2>2, <3>1, <4>1 DEF TimesInv
      <3> QED  BY <3>2, <3>3
    <2>3. CASE UNCHANGED vars
      BY <2>3 DEF vars, locals, TimesInv
    <2> QED  BY <2>1, <2>2, <2>3 DEF Next
  <1> QED  BY <1>1, <1>2, <1>3, <1>4 DEF TimesInv

\* What an approval r was checked against: the lock of its snapshot comes before
\* the outcomes among items and, if stamps can be trusted, before interventions.
LockedFirst(c, lockedAt, items) ==
    /\ \A e \in OutcomeItems(items) : lockedAt <= e.ingestedAt
    /\ ~LateCommit => \A e \in Interventions(c) : lockedAt <= e.at

\* What a handler knows of the evidence it read, and from the trust gates on.
CitesAll(h) ==
    /\ OnFile(req[h].case, req[h].evidenceIds)
    /\ cited[h] = EvidenceByIds(req[h].case, req[h].evidenceIds)

PassedGates(h) ==
    /\ req[h].clearsThreshold => Substantiates(cited[h], req[h].currency, req[h].collected)
    /\ LockedFirst(req[h].case, snap[h].lockedAt, cited[h])

CheckedOK(h) ==
    /\ pc[h] = "intervention" => CitesAll(h)
    /\ pc[h] \in {"write", "commit"} /\ req[h].op = "Approve" => CitesAll(h) /\ PassedGates(h)

CheckedInv == \A h \in Handlers : CheckedOK(h)

\* Evidence, snapshots and events are only added, the latter stamped now.
LEMMA FactsGrow ==
    ASSUME TypeOK, TimesInv, [Next]_vars
    PROVE  /\ evidence \subseteq evidence' /\ UniqueEvidence'
           /\ baselines \subseteq baselines'
           /\ ~LateCommit => \A c : \A e \in Interventions(c)' : e \in Interventions(c) \/ e.at = now
  <1>1. UniqueEvidence'
    BY StepKeepsTimes DEF TimesInv
  <1>2. evidence \subseteq evidence'
    BY EvidenceChangesByCommit
  <1>3. \A h \in Handlers : pc[h] = "commit" /\ ~LateCommit => EventOf(h).at = now
    BY DEF TimesInv, EventOf
  <1>4. ~LateCommit => \A e \in authority' : e \in authority \/ e.at = now
    BY <1>3, AuthorityChangesByCommit
  <1>5. ~LateCommit => \A c : \A e \in Interventions(c)' : e \in Interventions(c) \/ e.at = now
    BY <1>4 DEF Interventions, AuthorityFor
  <1> QED  BY <1>1, <1>2, <1>5, BaselinesGrow

\* A lock that came first stays first.
LEMMA LockStaysFirst ==
    ASSUME TypeOK, TimesInv, [Next]_vars, NEW c, NEW lockedAt \in Nat, lockedAt <= now,
           NEW items, LockedFirst(c, lockedAt, items)
    PROVE  LockedFirst(c, lockedAt, items)'
  <1>1. OutcomeItems(items)' = OutcomeItems(items)
    BY DEF OutcomeItems
  <1>2. ~LateCommit => \A e \in Interventions(c)' : lockedAt <= e.at
    BY FactsGrow DEF LockedFirst
  <1> QED  BY <1>1, <1>2 DEF LockedFirst

\* Whatever a step adds to the tables, a handler's checks stand.
LEMMA ChecksStand ==
    ASSUME TypeOK, HandlerInv, TimesInv, [Next]_vars, NEW g \in Handlers, CheckedOK(g),
           req'[g] = req[g], snap'[g] = snap[g], cited'[g] = cited[g],
           pc'[g] = pc[g] \/ (pc[g] = "write" /\ pc'[g] = "commit")
    PROVE  CheckedOK(g)'
  <1>0. HandlerOK(g)
    BY DEF HandlerInv
  <1>1. CitesAll(g) => CitesAll(g)'
    <2> SUFFICES ASSUME CitesAll(g) PROVE CitesAll(g)'
      OBVIOUS
    <2> DEFINE c == req[g].case  ids == req[g].evidenceIds
    <2>1. \A x, y : OnFile(x, y) => OnFile(x, y)' /\ EvidenceByIds(x, y)' = EvidenceByIds(x, y)
      BY FactsGrow, CitedStays
    <2>2. OnFile(c, ids) /\ cited[g] = EvidenceByIds(c, ids)
      BY DEF CitesAll
    <2>3. \A x, y : x = c /\ y = ids => OnFile(x, y)' /\ EvidenceByIds(x, y)' = cited[g]
      BY <2>1, <2>2
    <2>4. c' = c /\ ids' = ids
      OBVIOUS
    <2> HIDE DEF c, ids
    <2>5. OnFile(c, ids)' /\ EvidenceByIds(c, ids)' = cited'[g]
      BY <2>3, <2>4 DEF OnFile, EvidenceByIds
    <2> QED  BY <2>5 DEF CitesAll, c, ids
  <1>2. PassedGates(g) /\ req[g].op = "Approve" /\ pc[g] \in {"write", "commit"} => PassedGates(g)'
    <2> SUFFICES ASSUME PassedGates(g), req[g].op = "Approve", pc[g] \in {"write", "commit"}
                 PROVE  PassedGates(g)'
      OBVIOUS
    <2> DEFINE c == req[g].case  lockedAt == snap[g].lockedAt  items == cited[g]
    <2>1. snap[g] \in baselines
      BY <1>0 DEF HandlerOK, BaselineSnapshotsFor
    <2>2. lockedAt \in Nat /\ lockedAt <= now
      BY <2>1 DEF TypeOK, TablesOK, BaselineSnapshot, TimesInv
    <2>3. LockedFirst(c, lockedAt, items)
      BY DEF PassedGates
    <2>4. c' = c /\ lockedAt' = lockedAt /\ items' = items
      OBVIOUS
    <2>5. \A x, y, z : x = c /\ y = lockedAt /\ z = items => LockedFirst(x, y, z)'
      BY <2>2, <2>3, LockStaysFirst
    <2>6. (req[g].clearsThreshold => Substantiates(cited[g], req[g].currency, req[g].collected))'
      BY DEF PassedGates, Substantiates, OutcomeItems
    <2> HIDE DEF c, lockedAt, items
    <2>7. LockedFirst(c, lockedAt, items)'
      BY <2>4, <2>5 DEF LockedFirst, OutcomeItems, Interventions, AuthorityFor
    <2> QED  BY <2>6, <2>7 DEF PassedGates, c, lockedAt, items
  <1> QED  BY <1>1, <1>2 DEF CheckedOK

\* Each check is made before the step that relies on it.
LEMMA StepKeepsChecks ==
    ASSUME TypeOK, HandlerInv, TimesInv, CheckedInv, [Next]_vars
    PROVE  CheckedInv'
  <1>1. CASE UNCHANGED <<pc, locals>>
    <2> SUFFICES ASSUME NEW g \in Handlers  PROVE CheckedOK(g)'
      BY DEF CheckedInv
    <2>1. req'[g] = req[g] /\ snap'[g] = snap[g] /\ cited'[g] = cited[g] /\ pc'[g] = pc[g]
      BY <1>1 DEF locals
    <2> QED  BY <2>1, ChecksStand DEF CheckedInv
  <1>2. ASSUME NEW h \in Handlers, Step(h)  PROVE CheckedInv'
    <2>0. /\ HandlerOK(h) /\ CheckedOK(h)
          /\ DOMAIN pc = Handlers /\ DOMAIN req = Handlers /\ DOMAIN cited = Handlers
      BY DEF HandlerInv, CheckedInv, TypeOK, LocalsOK, Local
    <2>1. \A g \in Handlers \ {h} : CheckedOK(g)'
      BY <1>2, OthersRest, ChecksStand DEF CheckedInv
    <2> SUFFICES CheckedOK(h)'
      BY <2>1 DEF CheckedInv
    <2>2. CASE Answer(h)
      BY <2>0, <2>2 DEF Answer, Goto, CheckedOK
    <2>3. ASSUME NEW step, Goto(h, step), req'[h] = req[h],
                 step \notin {"intervention", "write", "commit"}
                   \/ (step \in {"write", "commit"} /\ req[h].op # "Approve")
          PROVE  CheckedOK(h)'
      BY <2>0, <2>3 DEF Goto, CheckedOK
    <2>4. CASE CheckOwned(h) \/ CheckRoot(h)
      BY <2>2, <2>3, <2>4 DEF CheckOwned, CheckRoot, ReadThen, locals
    <2>5. CASE EnforceSeparation(h)
      <3>1. /\ AfterSeparation(req[h].op) \notin {"intervention", "commit"}
            /\ AfterSeparation(req[h].op) = "write" => req[h].op # "Approve"
        BY DEF AfterSeparation
      <3> QED  BY <2>2, <2>3, <2>5, <3>1 DEF EnforceSeparation, ReadThen, locals
    <2>6. CASE Receive(h)
      <3>1. PICK r \in Requests : req' = [req EXCEPT ![h] = r] /\ Goto(h, FirstStep(r.op))
        BY <2>6 DEF Receive
      <3>2. req'[h] = r /\ pc'[h] = FirstStep(r.op)
        BY <2>0, <3>1 DEF Goto
      <3>3. /\ FirstStep(r.op) \notin {"intervention", "commit"}
            /\ FirstStep(r.op) = "write" => r.op # "Approve"
        BY DEF FirstStep
      <3> QED  BY <3>2, <3>3 DEF CheckedOK
    <2>7. CASE GetBaselineSnapshot(h) \/ LoadProof(h)
      BY <2>2, <2>3, <2>7 DEF GetBaselineSnapshot, LoadProof
    <2>8. CASE RereadOriginal(h)
      <3>1. req[h].op # "Approve"
        BY <2>0, <2>8 DEF RereadOriginal, HandlerOK
      <3> QED  BY <2>2, <2>3, <2>8, <3>1 DEF RereadOriginal
    <2>9. CASE GetEvidenceByIds(h)
      <3> DEFINE items == EvidenceByIds(CaseOf(h), req[h].evidenceIds)
      <3>1. SUFFICES ASSUME Cardinality(items) = Len(req[h].evidenceIds),
                            cited' = [cited EXCEPT ![h] = items], Goto(h, "intervention"),
                            UNCHANGED <<req, evidence>>
                     PROVE  CheckedOK(h)'
        BY <2>2, <2>9 DEF GetEvidenceByIds, tables
      <3>2. req[h].op = "Approve" /\ req[h] \in Requests
        BY <2>0, <2>9 DEF GetEvidenceByIds, HandlerOK
      <3>3. CaseOf(h) = req[h].case /\ req[h].evidenceIds \in Seq(EvidenceIds)
        BY <3>2, RequestFields DEF CaseOf, ApproveRequest
      <3>4. OnFile(req[h].case, req[h].evidenceIds)
        BY <3>1, <3>3, CountMeansOnFile DEF TimesInv
      <3>5. CitesAll(h)'
        BY <2>0, <3>1, <3>3, <3>4 DEF CitesAll, OnFile, EvidenceByIds
      <3>6. pc'[h] = "intervention"
        BY <2>0, <3>1 DEF Goto
      <3> QED  BY <3>5, <3>6 DEF CheckedOK
    <2>10. CASE ReadIntervention(h)
      <3>1. SUFFICES ASSUME TrustGates(req[h], snap[h], cited[h], Interventions(CaseOf(h))),
                            Goto(h, "write"), UNCHANGED <<locals, evidence, authority>>
                     PROVE  CheckedOK(h)'
        BY <2>2, <2>10 DEF ReadIntervention, ReadThen, tables
      <3>2. req[h].op = "Approve" /\ CitesAll(h)
        BY <2>0, <2>10 DEF ReadIntervention, HandlerOK, CheckedOK
      <3>3. CaseOf(h) = req[h].case
        BY <3>2 DEF CaseOf
      <3>4. PassedGates(h)
        BY <3>1, <3>3 DEF TrustGates, BaselineTemporallyValid, PassedGates, LockedFirst
      <3>5. CitesAll(h)' /\ PassedGates(h)'
        BY <3>1, <3>2, <3>4 DEF locals, CitesAll, PassedGates, LockedFirst, OnFile, EvidenceByIds,
           Substantiates, OutcomeItems, Interventions, AuthorityFor
      <3> QED  BY <2>0, <3>1, <3>5 DEF Goto, CheckedOK
    <2>11. CASE BeginWrite(h)
      <3>1. /\ req'[h] = req[h] /\ snap'[h] = snap[h] /\ cited'[h] = cited[h]
            /\ pc[h] = "write" /\ pc'[h] = "commit"
        BY <2>0, <2>11 DEF BeginWrite, Goto
      <3> QED  BY <2>0, <3>1, ChecksStand
    <2>12. CASE CommitAuthority(h) \/ CommitBaseline(h) \/ CommitEvidence(h) \/ CommitProof(h)
                \/ Abandon(h)
      BY <2>2, <2>12 DEF CommitAuthority, CommitBaseline, CommitEvidence, CommitProof, Abandon
    <2> QED  BY <1>2, <2>4, <2>5, <2>6, <2>7, <2>8, <2>9, <2>10, <2>11, <2>12 DEF Step
  <1> QED  BY <1>1, <1>2 DEF Next, Tick, vars

\* ApprovalSubstantiated and LockComesFirst of one proof, whose snapshot is on file.
Backed(p) ==
    /\ OnFile(p.case, p.evidenceIds)
    /\ p.previous = None /\ p.clearsThreshold => Substantiates(EvidenceOf(p), p.currency, p.collected)
    /\ \E s \in baselines : s.baselineId = p.baselineId /\ LockedFirst(p.case, s.lockedAt, EvidenceOf(p))

BackedInv == \A p \in proofs : Backed(p)

\* What a handler commits is backed.
LEMMA CommittedIsBacked ==
    ASSUME TypeOK, HandlerInv, CheckedInv, BackedInv, NEW h \in Handlers, pc[h] = "commit",
           req[h].op \in {"Approve", "Revise"}
    PROVE  Backed(ProofOf(h))
  <1>1. req[h] \in Requests /\ HandlerOK(h) /\ CheckedOK(h)
    BY DEF HandlerInv, HandlerOK, CheckedInv
  <1>2. CASE req[h].op = "Approve"
    <2> DEFINE p == ProofOf(h)
    <2>1. /\ p.case = req[h].case /\ p.evidenceIds = req[h].evidenceIds
          /\ p.currency = req[h].currency /\ p.collected = req[h].collected
          /\ p.clearsThreshold = req[h].clearsThreshold /\ p.baselineId = snap[h].baselineId
      BY <1>2 DEF ProofOf, CreateApprovedProof
    <2> HIDE DEF p
    <2>2. CitesAll(h) /\ PassedGates(h) /\ snap[h] \in baselines
      BY <1>1, <1>2 DEF CheckedOK, HandlerOK, BaselineSnapshotsFor
    <2>3. EvidenceOf(p) = cited[h]
      BY <2>1, <2>2 DEF EvidenceOf, CitesAll
    <2> QED  BY <2>1, <2>2, <2>3 DEF Backed, CitesAll, PassedGates, p
  <1>3. CASE req[h].op = "Revise"
    <2> DEFINE o == original[h]
               n == ReviseProof(o, req[h])
    <2>1. o \in proofs /\ o \in Proof /\ req[h] \in ReviseRequest
      BY <1>1, <1>3, RequestFields DEF HandlerOK, TypeOK, TablesOK
    <2> HIDE DEF o
    <2>2. n.case = o.case /\ n.evidenceIds = o.evidenceIds /\ n.baselineId = o.baselineId
          /\ n.previous = o.proofId
      BY <2>1, RevisedProofType
    <2>3. n.previous # None
      BY <2>1, <2>2, NoneAssumption DEF Proof
    <2>4. ProofOf(h) = n
      BY <1>3 DEF ProofOf, o
    <2>5. Backed(o)
      BY <2>1 DEF BackedInv
    <2> HIDE DEF n
    <2>6. EvidenceOf(n) = EvidenceOf(o)
      BY <2>2 DEF EvidenceOf
    <2> QED  BY <2>2, <2>3, <2>4, <2>5, <2>6 DEF Backed
  <1> QED  BY <1>2, <1>3

LEMMA StepKeepsBacked ==
    ASSUME TypeOK, HandlerInv, TimesInv, CheckedInv, BackedInv, [Next]_vars
    PROVE  BackedInv'
  <1> SUFFICES ASSUME NEW p \in proofs' PROVE Backed(p)'
    BY DEF BackedInv
  <1>1. Backed(p)
    BY ProofsChangeByCommit, CommittedIsBacked DEF BackedInv
  <1>2. OnFile(p.case, p.evidenceIds)' /\ EvidenceOf(p)' = EvidenceOf(p)
    BY <1>1, FactsGrow, CitedStays DEF Backed, EvidenceOf
  <1>3. PICK s \in baselines : s.baselineId = p.baselineId /\ LockedFirst(p.case, s.lockedAt, EvidenceOf(p))
    BY <1>1 DEF Backed
  <1>4. s \in baselines' /\ s.lockedAt \in Nat /\ s.lockedAt <= now
    BY <1>3, FactsGrow DEF TypeOK, TablesOK, BaselineSnapshot, TimesInv
  <1>5. LockedFirst(p.case, s.lockedAt, EvidenceOf(p))'
    <2>1. \A items : items = EvidenceOf(p) => LockedFirst(p.case, s.lockedAt, items)'
      BY <1>3, <1>4, LockStaysFirst
    <2> QED  BY <1>2, <2>1 DEF LockedFirst, OutcomeItems
  <1>6. (p.previous = None /\ p.clearsThreshold => Substantiates(EvidenceOf(p), p.currency, p.collected))'
    BY <1>1, <1>2 DEF Backed, Substantiates, OutcomeItems
  <1> QED  BY <1>2, <1>3, <1>4, <1>5, <1>6 DEF Backed

LEMMA BackingHolds == Spec => [](TypeOK /\ TimesInv /\ BackedInv)
  <1> DEFINE Inv == TypeOK /\ HandlerInv /\ TimesInv /\ CheckedInv /\ BackedInv
  <1>1. Init => Inv
    BY InitOK DEF Init, TimesInv, UniqueEvidence, CheckedInv, CheckedOK, BackedInv
  <1>2. Inv /\ [Next]_vars => Inv'
    BY StepOK, StepKeepsTimes, StepKeepsChecks, StepKeepsBacked
  <1>3. QED
    BY <1>1, <1>2, PTL DEF Spec

\* An approval that clears the threshold stays covered by outcome evidence of its
\* currency: the records counted two awaits before the insert are still the records
\* its proof names (approveProof, enforceTrustGates).
THEOREM ApprovalsStaySubstantiated == Spec => []ApprovalSubstantiated
  <1>1. BackedInv => ApprovalSubstantiated
    BY DEF BackedInv, Backed, ApprovalSubstantiated
  <1>2. QED
    BY <1>1, BackingHolds, PTL

\* As long as no transaction outlives the tick it began in, every counted number
\* rests on a baseline locked before the outcomes it cites and before every
\* intervention on its case, also one recorded while the approval ran
\* (baselineTemporallyValid).
THEOREM BaselineComesFirst ==
    ASSUME ~LateCommit
    PROVE  Spec => []LockComesFirst
  <1>1. ASSUME TypeOK, TimesInv, BackedInv  PROVE LockComesFirst
    <2> SUFFICES ASSUME NEW p \in proofs
                 PROVE  /\ \A i \in 1..Len(p.evidenceIds) :
                            \E e \in EvidenceOf(p) : e.evidenceId = p.evidenceIds[i]
                        /\ \A s \in baselines : s.baselineId = p.baselineId =>
                             /\ \A e \in OutcomeItems(EvidenceOf(p)) : s.lockedAt <= e.ingestedAt
                             /\ \A e \in Interventions(p.case) : s.lockedAt <= e.at
      BY DEF LockComesFirst
    <2>1. Backed(p)
      BY <1>1 DEF BackedInv
    <2>2. \A i \in 1..Len(p.evidenceIds) : \E e \in EvidenceOf(p) : e.evidenceId = p.evidenceIds[i]
      BY <2>1 DEF Backed, OnFile, EvidenceOf, EvidenceByIds
    <2>3. \A s \in baselines : s.baselineId = p.baselineId =>
              LockedFirst(p.case, s.lockedAt, EvidenceOf(p))
      BY <1>1, <2>1 DEF Backed, TimesInv
    <2> QED  BY <1>1, <2>2, <2>3 DEF LockedFirst
  <1>2. TypeOK /\ TimesInv /\ BackedInv => LockComesFirst
    BY <1>1
  <1>3. QED
    BY <1>2, BackingHolds, PTL

-----------------------------------------------------------------------------
(***************************************************************************)
(* Separation of duties.                                                   *)
(***************************************************************************)
Duties == {"Author", "Approve", "Verify"}

DutyOf(h) == GovernedAction(req[h].op)

\* A handler between its separation check and the commit of its event.
PastSeparation(h) ==
    /\ pc[h] \in {"root", "baseline", "evidence", "intervention", "reread", "write", "commit"}
    /\ DutyOf(h) \in Duties

\* Whoever is about to act has, as far as the ledger says now, no other duty.
HoldsNoOther(c, actor, duty) ==
    \A e \in authority : e.case = c /\ e.actor = actor /\ e.action \in Duties => e.action = duty

ClearedOK(h) == PastSeparation(h) => HoldsNoOther(CaseOf(h), req[h].actor, DutyOf(h))

ClearedInv == \A h \in Handlers : ClearedOK(h)

\* No two requests of one actor for two duties of one case are past their checks.
ActorsTakeTurns ==
    \A g, h \in Handlers :
        /\ PastSeparation(g) /\ PastSeparation(h)
        /\ CaseOf(g) = CaseOf(h)
        /\ req[g].actor = req[h].actor
        => DutyOf(g) = DutyOf(h)

\* What the separation check establishes.
LEMMA CheckClears ==
    ASSUME NEW c, NEW actor, NEW role, NEW duty \in Duties, SeparationAllows(c, actor, role, duty)
    PROVE  HoldsNoOther(c, actor, duty)
  BY DEF SeparationAllows, Duties, HoldsNoOther, IdsFor, AuthorityFor

\* A handler that a step leaves alone stays cleared, for the only event the step
\* could add for its actor is of a request in flight with it.
LEMMA OthersStayCleared ==
    ASSUME TypeOK, HandlerInv, ClearedInv, ActorsTakeTurns, NEW h \in Handlers, Step(h),
           NEW g \in Handlers \ {h}
    PROVE  ClearedOK(g)'
  <1>1. /\ pc'[g] = pc[g] /\ req'[g] = req[g] /\ original'[g] = original[g]
    BY OthersRest
  <1>2. /\ PastSeparation(g)' = PastSeparation(g) /\ CaseOf(g)' = CaseOf(g)
        /\ DutyOf(g)' = DutyOf(g) /\ req'[g].actor = req[g].actor
    BY <1>1 DEF PastSeparation, CaseOf, DutyOf
  <1>3. SUFFICES ASSUME PastSeparation(g), NEW e \in authority', e.case = CaseOf(g),
                        e.actor = req[g].actor, e.action \in Duties
                 PROVE  e.action = DutyOf(g)
    BY <1>2 DEF ClearedOK, HoldsNoOther
  <1>4. CASE e \in authority
    BY <1>3, <1>4 DEF ClearedInv, ClearedOK, HoldsNoOther
  <1>5. CASE e \notin authority
    <2>1. PICK k \in Handlers : pc[k] = "commit" /\ authority' = authority \cup {EventOf(k)}
      BY <1>5, AuthorityChangesByCommit DEF Next
    <2>2. e.case = CaseOf(k) /\ e.actor = req[k].actor /\ e.action = DutyOf(k)
      BY <1>5, <2>1 DEF EventOf, DutyOf
    <2>3. PastSeparation(k)
      BY <1>3, <2>1, <2>2 DEF PastSeparation
    <2> QED  BY <1>3, <2>2, <2>3 DEF ActorsTakeTurns
  <1> QED  BY <1>4, <1>5

\* A handler is cleared once it is past its check, and stays cleared.
LEMMA HandlerStaysCleared ==
    ASSUME TypeOK, HandlerInv, UniqueIds, ClearedInv, NEW h \in Handlers, Step(h)
    PROVE  ClearedOK(h)'
  <1>0. /\ HandlerOK(h) /\ ClearedOK(h)
        /\ DOMAIN pc = Handlers /\ DOMAIN req = Handlers /\ DOMAIN original = Handlers
    BY DEF HandlerInv, ClearedInv, TypeOK, LocalsOK, Local
  <1>1. CASE Answer(h)
    BY <1>0, <1>1 DEF Answer, Goto, ClearedOK, PastSeparation
  <1>2. ASSUME PastSeparation(h)' => PastSeparation(h), req'[h] = req[h], CaseOf(h)' = CaseOf(h),
               authority' = authority
        PROVE  ClearedOK(h)'
    BY <1>0, <1>2 DEF ClearedOK, HoldsNoOther, DutyOf
  <1>3. ASSUME NEW step, Goto(h, step), UNCHANGED <<req, original, authority>>,
               pc[h] \in {"root", "baseline", "evidence", "intervention", "reread", "write"}
                 \/ step = "separation"
        PROVE  ClearedOK(h)'
    <2>1. PastSeparation(h)' => PastSeparation(h)
      BY <1>0, <1>3 DEF Goto, PastSeparation, DutyOf
    <2>2. CaseOf(h)' = CaseOf(h)
      BY <1>3 DEF CaseOf
    <2> QED  BY <1>2, <1>3, <2>1, <2>2
  <1>4. CASE Receive(h)
    <2>1. PICK r \in Requests : req' = [req EXCEPT ![h] = r] /\ Goto(h, FirstStep(r.op))
      BY <1>4 DEF Receive
    <2>2. req'[h] = r /\ pc'[h] = FirstStep(r.op)
      BY <1>0, <2>1 DEF Goto
    <2>3. \/ FirstStep(r.op) \in {"owner", "separation", "load"}
          \/ FirstStep(r.op) = "write" /\ GovernedAction(r.op) \notin Duties
      BY DEF FirstStep, GovernedAction, Duties
    <2> QED  BY <2>2, <2>3 DEF ClearedOK, PastSeparation, DutyOf
  <1>5. CASE CheckOwned(h)
    BY <1>1, <1>3, <1>5 DEF CheckOwned, ReadThen, locals, tables
  <1>6. CASE EnforceSeparation(h)
    <2>1. SUFFICES ASSUME SeparationAllows(CaseOf(h), req[h].actor, req[h].role, DutyOf(h)),
                          UNCHANGED <<req, original, authority>>
                   PROVE  ClearedOK(h)'
      BY <1>1, <1>6 DEF EnforceSeparation, ReadThen, DutyOf, locals, tables
    <2>2. DutyOf(h) \in Duties => HoldsNoOther(CaseOf(h), req[h].actor, DutyOf(h))
      BY <2>1, CheckClears
    <2>3. CaseOf(h)' = CaseOf(h) /\ DutyOf(h)' = DutyOf(h)
      BY <2>1 DEF CaseOf, DutyOf
    <2> QED  BY <2>1, <2>2, <2>3 DEF ClearedOK, PastSeparation, HoldsNoOther
  <1>7. CASE CheckRoot(h) \/ ReadIntervention(h)
    BY <1>1, <1>3, <1>7 DEF CheckRoot, ReadIntervention, ReadThen, locals, tables
  <1>8. CASE GetBaselineSnapshot(h) \/ GetEvidenceByIds(h) \/ BeginWrite(h)
    BY <1>1, <1>3, <1>8 DEF GetBaselineSnapshot, GetEvidenceByIds, BeginWrite, tables
  <1>9. CASE LoadProof(h)
    <2>1. SUFFICES ASSUME Goto(h, "separation")  PROVE ClearedOK(h)'
      BY <1>1, <1>9 DEF LoadProof
    <2> QED  BY <1>0, <2>1 DEF Goto, ClearedOK, PastSeparation
  <1>10. CASE RereadOriginal(h)
    <2>1. SUFFICES ASSUME NEW p \in proofs, p.proofId = req[h].proofId,
                          original' = [original EXCEPT ![h] = p], req' = req,
                          authority' = authority
                   PROVE  ClearedOK(h)'
      BY <1>1, <1>10 DEF RereadOriginal, tables
    <2>2. original[h] \in proofs /\ original[h].proofId = req[h].proofId /\ pc[h] = "reread"
      BY <1>0, <1>10 DEF RereadOriginal, HandlerOK
    <2>3. original'[h] = original[h]
      BY <1>0, <2>1, <2>2 DEF UniqueIds
    <2>4. CaseOf(h)' = CaseOf(h) /\ (PastSeparation(h)' => PastSeparation(h))
      BY <2>1, <2>2, <2>3 DEF CaseOf, PastSeparation, DutyOf
    <2> QED  BY <1>2, <2>1, <2>4
  <1>11. CASE CommitAuthority(h) \/ CommitBaseline(h) \/ CommitEvidence(h) \/ CommitProof(h)
              \/ Abandon(h)
    BY <1>1, <1>11 DEF CommitAuthority, CommitBaseline, CommitEvidence, CommitProof, Abandon
  <1> QED  BY <1>4, <1>5, <1>6, <1>7, <1>8, <1>9, <1>10, <1>11 DEF Step

\* An event is committed by a handler that is cleared for it.
LEMMA StepKeepsDuties ==
    ASSUME TypeOK, HandlerInv, UniqueIds, ClearedInv, ActorsTakeTurns, SeparationOfDuties,
           [Next]_vars
    PROVE  ClearedInv' /\ SeparationOfDuties'
  <1>1. ClearedInv'
    <2>1. CASE UNCHANGED <<pc, locals, authority>>
      BY <2>1 DEF ClearedInv, ClearedOK, PastSeparation, DutyOf, CaseOf, HoldsNoOther, locals
    <2>2. ASSUME NEW h \in Handlers, Step(h)  PROVE ClearedInv'
      BY <2>2, OthersStayCleared, HandlerStaysCleared DEF ClearedInv
    <2> QED  BY <2>1, <2>2 DEF Next, Tick, vars, tables
  <1>2. SeparationOfDuties'
    <2>1. CASE authority' = authority
      BY <2>1 DEF SeparationOfDuties
    <2>2. ASSUME NEW h \in Handlers, pc[h] = "commit", authority' = authority \cup {EventOf(h)}
          PROVE  SeparationOfDuties'
      <3> DEFINE n == EventOf(h)
      <3>1. n.case = CaseOf(h) /\ n.actor = req[h].actor /\ n.action = DutyOf(h)
        BY DEF EventOf, DutyOf
      <3>2. n.action \in Duties => HoldsNoOther(n.case, n.actor, n.action)
        BY <2>2, <3>1 DEF ClearedInv, ClearedOK, PastSeparation
      <3> HIDE DEF n
      <3>3. \A e \in authority' : e \in authority \/ e = n
        BY <2>2 DEF n
      <3> QED  BY <3>2, <3>3 DEF SeparationOfDuties, HoldsNoOther, Duties
    <2> QED  BY <2>1, <2>2, AuthorityChangesByCommit
  <1> QED  BY <1>1, <1>2

\* Nobody comes to hold two duties of one case, as long as an actor does not have
\* requests for both in flight at once, past their checks: the check is not repeated
\* when the event is inserted (enforceSeparation, appendAuthority).
THEOREM DutiesStayApart == Spec /\ []ActorsTakeTurns => []SeparationOfDuties
  <1> DEFINE Inv == ClearedInv /\ SeparationOfDuties
  <1>1. Init => Inv
    BY DEF Init, ClearedInv, ClearedOK, PastSeparation, SeparationOfDuties
  <1>2. (TypeOK /\ HandlerInv /\ ChainInv) /\ ActorsTakeTurns /\ Inv /\ [Next]_vars => Inv'
    BY StepKeepsDuties DEF ChainInv
  <1>3. QED
    BY <1>1, <1>2, ChainsStayInOrder, PTL DEF Spec

\* In particular when the server answers one request at a time.
THEOREM OneByOneDutiesStayApart ==
    ASSUME \A g, h \in Handlers : g = h
    PROVE  Spec => []SeparationOfDuties
  <1>1. ActorsTakeTurns
    BY DEF ActorsTakeTurns
  <1>2. QED
    BY <1>1, DutiesStayApart, PTL
=============================================================================
