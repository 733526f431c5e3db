----------------------------- MODULE ProofServer -----------------------------
(***************************************************************************)
(* The governed proof server: a REST service whose handlers run            *)
(* concurrently over one Postgres database and write only by INSERT.       *)
(*                                                                         *)
(* A handler is a sequence of awaited database calls.  Between two of them *)
(* any other handler may run, so each awaited call is one action here and  *)
(* what the handler has read so far is held in its local variables.  The   *)
(* code between two awaits (checks, the pure domain kernel) belongs to the *)
(* action of the call it follows.  A request rejected before its first     *)
(* database call (401, 400 and the role check of requireCan) changes       *)
(* nothing and is no step.                                                 *)
(*                                                                         *)
(* A transaction's rows carry the time it began (DEFAULT now()) and become *)
(* visible when it commits: BeginWrite and the Commit actions.             *)
(***************************************************************************)
EXTENDS Naturals, Sequences, FiniteSets, FiniteSetsExt

CONSTANTS
    Handlers,     \* slots for requests in flight at the same time
    Actors, Cases, ProofIds, BaselineIds, EvidenceIds, Records, Currencies,
    Requests,     \* the requests clients may send, each any number of times
    LateCommit,   \* TRUE: the clock may advance while a transaction is open
    MaxClock,     \* bound on the database clock
    None          \* SQL NULL, an omitted field, an unused local variable

-----------------------------------------------------------------------------
(***************************************************************************)
(* Requests, as the JSON schemas let them through.                         *)
(***************************************************************************)
Roles == {"author", "operator", "approver", "verifier", "steward"}

CaseOps == {"Author", "Intervene", "Flag", "Halt", "Exclude"}

Ops == CaseOps \cup {"EstablishBaseline", "IngestEvidence", "Approve", "Revise", "Verify"}

SourceSystems == {"billing", "product", "crm", "external", "manual"}

EvidenceTypes == {"invoice_paid", "payment_received", "note"}

RevisionStatuses == {"Reversed", "Superseded", "Corrected"}

CaseRequest ==
    [op : CaseOps, actor : Actors, role : Roles, case : Cases]

BaselineRequest ==
    [op : {"EstablishBaseline"}, actor : Actors, role : Roles, case : Cases,
     baselineId : BaselineIds, calculated : Nat, currency : Currencies]

EvidenceRequest ==
    [op : {"IngestEvidence"}, actor : Actors, role : Roles, case : Cases,
     evidenceId : EvidenceIds, system : SourceSystems, record : Records,
     type : EvidenceTypes, amount : Nat \cup {None},
     currency : Currencies \cup {None}]

\* clearsThreshold stands for confidenceUsed >= CURRENT_POLICY.proofThreshold.
ApproveRequest ==
    [op : {"Approve"}, actor : Actors, role : Roles, case : Cases,
     proofId : ProofIds, currency : Currencies, collected : Nat,
     evidenceIds : Seq(EvidenceIds), baselineId : BaselineIds,
     clearsThreshold : BOOLEAN]

ReviseRequest ==
    [op : {"Revise"}, actor : Actors, role : Roles, proofId : ProofIds,
     newProofId : ProofIds, status : RevisionStatuses,
     currency : Currencies \cup {None}, collected : Nat \cup {None}]

VerifyRequest ==
    [op : {"Verify"}, actor : Actors, role : Roles, proofId : ProofIds]

Request ==
    CaseRequest \cup BaselineRequest \cup EvidenceRequest \cup ApproveRequest
    \cup ReviseRequest \cup VerifyRequest

ASSUME RequestsAssumption == Requests \subseteq Request

ASSUME ClockAssumption == MaxClock \in Nat /\ LateCommit \in BOOLEAN

ASSUME NoneAssumption ==
    /\ None \notin ProofIds \cup Currencies \cup Nat
    /\ None \notin Requests

-----------------------------------------------------------------------------
(***************************************************************************)
(* The tables.  A row keeps the columns some guard or property reads; the  *)
(* event id, role and policy version of an authority event are left out.   *)
(***************************************************************************)
VARIABLES
    proofs,       \* table "Proof"
    authority,    \* table "AuthorityEvent"
    baselines,    \* table "BaselineSnapshot"
    evidence,     \* table "EvidenceRecord"
    now,          \* the database clock
    pc,           \* the awaited call each handler will make next
    req,          \* its request
    snap,         \* approve: the locked baseline snapshot it read
    cited,        \* approve: the evidence records it read
    original,     \* revise and verify: the proof it read
    stamp         \* now() of its open transaction

tables == <<proofs, authority, baselines, evidence>>
locals == <<req, snap, cited, original, stamp>>
vars == <<tables, now, pc, locals>>

AuthorityActions == CaseOps \cup {"Approve", "Verify"}

AuthorityEvent ==
    [case : Cases, actor : Actors, action : AuthorityActions, at : Nat]

BaselineSnapshot ==
    [baselineId : BaselineIds, case : Cases, calculated : Nat,
     currency : Currencies, lockedAt : Nat]

EvidenceRecord ==
    [evidenceId : EvidenceIds, case : Cases, system : SourceSystems,
     record : Records, amount : Nat \cup {None},
     currency : Currencies \cup {None}, independent : BOOLEAN,
     evidenceRole : {"outcome", "supporting"}, ingestedAt : Nat]

Proof ==
    [proofId : ProofIds, case : Cases, chainId : ProofIds, version : Nat \ {0},
     previous : ProofIds \cup {None}, status : {"Approved"} \cup RevisionStatuses,
     currency : Currencies, collected : Nat, baseline : Nat, returned : Nat,
     evidenceIds : Seq(EvidenceIds), baselineId : BaselineIds,
     clearsThreshold : BOOLEAN, approvedBy : Actors]

Steps == {"idle", "owner", "separation", "root", "baseline", "evidence",
          "intervention", "load", "reread", "write", "commit"}

Init ==
    /\ proofs = {} /\ authority = {} /\ baselines = {} /\ evidence = {}
    /\ now = 0
    /\ pc = [h \in Handlers |-> "idle"]
    /\ req = [h \in Handlers |-> None]
    /\ snap = [h \in Handlers |-> None]
    /\ cited = [h \in Handlers |-> {}]
    /\ original = [h \in Handlers |-> None]
    /\ stamp = [h \in Handlers |-> 0]

-----------------------------------------------------------------------------
(***************************************************************************)
(* The authority gate.                                                     *)
(***************************************************************************)
Permissions ==
    [author   |-> {"Author", "EstablishBaseline", "Intervene", "IngestEvidence"},
     operator |-> {"Author", "EstablishBaseline", "Intervene", "IngestEvidence"},
     approver |-> {"Approve", "AuditRead"},
     verifier |-> {"Verify", "AuditRead"},
     steward  |-> {"Flag", "Halt", "Exclude", "AuditRead"}]

\* A revision is an approver's action.
GovernedAction(op) == IF op = "Revise" THEN "Approve" ELSE op

RoleCan(role, op) == GovernedAction(op) \in Permissions[role]

AuthorityFor(c) == {e \in authority : e.case = c}

IdsFor(c, action) == {e.actor : e \in {a \in AuthorityFor(c) : a.action = action}}

\* The authors an ordering by "at" may put first; rows of one instant tie.
FirstAuthors(c) ==
    LET authored == {e \in AuthorityFor(c) : e.action = "Author"}
    IN  {e.actor : e \in {a \in authored : \A b \in authored : a.at <= b.at}}

\* The kernel's gate, under a policy that always requires a distinct approver.
CanApproveProof(ownerId, actor, role) == role = "approver" /\ actor # ownerId

\* Mutant: an approval asks only for the authors of the case.
SeparationForgetsVerifiers(c, actor, role, action) ==
    CASE action = "Approve" -> actor \notin IdsFor(c, "Author")
      [] action = "Verify" -> actor \notin IdsFor(c, "Author") \cup IdsFor(c, "Approve")
      [] action = "Author" -> actor \notin IdsFor(c, "Approve") \cup IdsFor(c, "Verify")
      [] OTHER -> TRUE

SeparationAllows(c, actor, role, action) ==
    CASE action = "Approve" ->
            /\ actor \notin IdsFor(c, "Author") \cup IdsFor(c, "Verify")
            /\ role = "approver"
            /\ \A o \in FirstAuthors(c) : CanApproveProof(o, actor, role)
      [] action = "Verify" ->
            actor \notin IdsFor(c, "Author") \cup IdsFor(c, "Approve")
      [] action = "Author" ->
            actor \notin IdsFor(c, "Approve") \cup IdsFor(c, "Verify")
      [] OTHER -> TRUE

Interventions(c) == {e \in AuthorityFor(c) : e.action = "Intervene"}

-----------------------------------------------------------------------------
(***************************************************************************)
(* The trust gates and the kernel, all pure.                               *)
(***************************************************************************)
IsIndependentSource(system) == system \in {"billing", "product", "crm", "external"}

DeriveEvidenceRole(system, type) ==
    IF system = "billing" /\ type \in {"invoice_paid", "payment_received"}
    THEN "outcome" ELSE "supporting"

OutcomeItems(items) == {e \in items : e.evidenceRole = "outcome"}

AmountOf(e) == IF e.amount = None THEN 0 ELSE e.amount

\* Mutant: the interventions are not compared with the lock.
TemporalGateSkipsInterventions(snapshot, interventions, outcomes) ==
    \A e \in outcomes : snapshot.lockedAt <= e.ingestedAt

\* Equal instants pass: only a lock strictly after the fact is refused.
BaselineTemporallyValid(snapshot, interventions, outcomes) ==
    /\ \A e \in interventions : snapshot.lockedAt <= e.at
    /\ \A e \in outcomes : snapshot.lockedAt <= e.ingestedAt

\* What a claim at or above the policy's threshold additionally requires.
Substantiates(items, currency, collected) ==
    LET outcomes == OutcomeItems(items)
    IN  /\ \E e \in items : e.independent
        /\ outcomes # {}
        /\ \A e \in outcomes : e.currency = currency
        /\ MapThenSumSet(AmountOf, outcomes) >= collected

\* Mutant: no clamp at zero.
UnclampedDifference(collected, baseline) == collected - baseline

ClampedDifference(collected, baseline) ==
    IF collected >= baseline THEN collected - baseline ELSE 0

CreateApprovedProof(r, snapshot) ==
    [proofId |-> r.proofId, case |-> r.case, chainId |-> r.proofId,
     version |-> 1, previous |-> None, status |-> "Approved",
     currency |-> r.currency, collected |-> r.collected,
     baseline |-> snapshot.calculated,
     returned |-> ClampedDifference(r.collected, snapshot.calculated),
     evidenceIds |-> r.evidenceIds, baselineId |-> snapshot.baselineId,
     clearsThreshold |-> r.clearsThreshold, approvedBy |-> r.actor]

\* Money of two currencies cannot be subtracted: the kernel throws.
RevisionCurrencyOk(p, r) ==
    r.status = "Reversed" \/ r.collected = None \/ r.currency \in {None, p.currency}

\* Mutant: a correction keeps the number of the record it corrects.
ReviseProofKeepsNumber(p, r) ==
    [p EXCEPT !.proofId = r.newProofId, !.version = p.version + 1,
              !.previous = p.proofId, !.status = r.status,
              !.collected = IF r.collected = None THEN p.collected ELSE r.collected,
              !.approvedBy = r.actor]

ReviseProof(p, r) ==
    LET reversed  == r.status = "Reversed"
        collected == IF reversed THEN 0
                     ELSE IF r.collected = None THEN p.collected ELSE r.collected
    IN  [p EXCEPT !.proofId = r.newProofId, !.version = p.version + 1,
                  !.previous = p.proofId, !.status = r.status,
                  !.collected = collected,
                  !.returned = IF reversed THEN 0
                               ELSE ClampedDifference(collected, p.baseline),
                  !.approvedBy = r.actor]

-----------------------------------------------------------------------------
(***************************************************************************)
(* The unique constraints of the database, per table.                      *)
(***************************************************************************)
\* Mutant: without the index of one chain root per case.
ProofConstraintsManyRoots(p) ==
    /\ \A q \in proofs : q.proofId # p.proofId
    /\ p.previous # None => \A q \in proofs : q.previous # p.previous
    /\ \A q \in proofs : q.chainId = p.chainId => q.version # p.version

\* Mutant: without the two indexes that guard a chain against forks.
ProofConstraintsForks(p) ==
    /\ \A q \in proofs : q.proofId # p.proofId
    /\ p.previous = None => \A q \in proofs : q.case = p.case => q.previous # None

ProofConstraints(p) ==
    /\ \A q \in proofs : q.proofId # p.proofId
    /\ p.previous = None => \A q \in proofs : q.case = p.case => q.previous # None
    /\ p.previous # None => \A q \in proofs : q.previous # p.previous
    /\ \A q \in proofs : q.chainId = p.chainId => q.version # p.version

\* Mutant: without the single-use index on outcome records.
EvidenceConstraintsReuse(e) == \A f \in evidence : f.evidenceId # e.evidenceId

EvidenceConstraints(e) ==
    /\ \A f \in evidence : f.evidenceId # e.evidenceId
    /\ e.evidenceRole = "outcome" =>
           \A f \in OutcomeItems(evidence) : <<f.system, f.record>> # <<e.system, e.record>>

BaselineConstraints(b) == \A s \in baselines : s.baselineId # b.baselineId

-----------------------------------------------------------------------------
(***************************************************************************)
(* Handler steps.                                                          *)
(***************************************************************************)
Goto(h, step) == pc' = [pc EXCEPT ![h] = step]

\* The handler answers, with a result or with an error, and forgets its locals.
Answer(h) ==
    /\ Goto(h, "idle")
    /\ req' = [req EXCEPT ![h] = None]
    /\ snap' = [snap EXCEPT ![h] = None]
    /\ cited' = [cited EXCEPT ![h] = {}]
    /\ original' = [original EXCEPT ![h] = None]
    /\ stamp' = [stamp EXCEPT ![h] = 0]

\* One awaited read that lets the handler go on to step, or makes it answer.
ReadThen(h, allowed, step) ==
    /\ \/ allowed /\ Goto(h, step) /\ UNCHANGED locals
       \/ ~allowed /\ Answer(h)
    /\ UNCHANGED <<tables, now>>

\* Mutant: an approval does not ask for an author.
FirstStepUnowned(op) ==
    CASE op \in {"Author", "Approve"} -> "separation"
      [] op \in {"Revise", "Verify"}  -> "load"
      [] OTHER                        -> "write"

FirstStep(op) ==
    CASE op = "Approve"            -> "owner"
      [] op = "Author"             -> "separation"
      [] op \in {"Revise", "Verify"} -> "load"
      [] OTHER                     -> "write"

AfterSeparation(op) ==
    CASE op = "Approve" -> "root"
      [] op = "Revise"  -> "reread"
      [] OTHER          -> "write"

CaseOf(h) == IF req[h].op \in {"Revise", "Verify"} THEN original[h].case ELSE req[h].case

Receive(h) ==
    /\ pc[h] = "idle"
    /\ \E r \in Requests :
        /\ RoleCan(r.role, r.op)
        /\ req' = [req EXCEPT ![h] = r]
        /\ Goto(h, FirstStep(r.op))
    /\ UNCHANGED <<tables, now, snap, cited, original, stamp>>

CheckOwned(h) ==
    /\ pc[h] = "owner"
    /\ ReadThen(h, IdsFor(CaseOf(h), "Author") # {}, "separation")

EnforceSeparation(h) ==
    /\ pc[h] = "separation"
    /\ ReadThen(h,
                SeparationAllows(CaseOf(h), req[h].actor, req[h].role,
                                 GovernedAction(req[h].op)),
                AfterSeparation(req[h].op))

ChainRootExists(c) == \E p \in proofs : p.case = c /\ p.previous = None

CheckRoot(h) ==
    /\ pc[h] = "root"
    /\ ReadThen(h, ~ChainRootExists(CaseOf(h)), "baseline")

\* The snapshots an approval of r may use: the one it names, if it is r's case's.
BaselineSnapshotsFor(r) ==
    {s \in baselines : /\ s.baselineId = r.baselineId
                       /\ s.case = r.case
                       /\ s.currency = r.currency}

GetBaselineSnapshot(h) ==
    /\ pc[h] = "baseline"
    /\ \/ \E s \in BaselineSnapshotsFor(req[h]) :
            /\ snap' = [snap EXCEPT ![h] = s]
            /\ Goto(h, "evidence")
            /\ UNCHANGED <<req, cited, original, stamp>>
       \/ /\ BaselineSnapshotsFor(req[h]) = {}
          /\ Answer(h)
    /\ UNCHANGED <<tables, now>>

EvidenceByIds(c, ids) ==
    {e \in evidence : e.case = c /\ \E i \in 1..Len(ids) : ids[i] = e.evidenceId}

\* An unknown, foreign or repeated id leaves fewer records than ids.
GetEvidenceByIds(h) ==
    LET items == EvidenceByIds(CaseOf(h), req[h].evidenceIds)
    IN  /\ pc[h] = "evidence"
        /\ \/ /\ Cardinality(items) = Len(req[h].evidenceIds)
              /\ cited' = [cited EXCEPT ![h] = items]
              /\ Goto(h, "intervention")
              /\ UNCHANGED <<req, snap, original, stamp>>
           \/ /\ Cardinality(items) # Len(req[h].evidenceIds)
              /\ Answer(h)
        /\ UNCHANGED <<tables, now>>

\* Mutant: independent evidence is enough, whatever amount it shows.
TrustGatesIgnoreAmounts(r, snapshot, items, interventions) ==
    /\ BaselineTemporallyValid(snapshot, interventions, OutcomeItems(items))
    /\ r.clearsThreshold => \E e \in items : e.independent

TrustGates(r, snapshot, items, interventions) ==
    /\ BaselineTemporallyValid(snapshot, interventions, OutcomeItems(items))
    /\ r.clearsThreshold => Substantiates(items, r.currency, r.collected)

ReadIntervention(h) ==
    /\ pc[h] = "intervention"
    /\ ReadThen(h, TrustGates(req[h], snap[h], cited[h], Interventions(CaseOf(h))), "write")

LoadProof(h) ==
    LET found == {p \in proofs : p.proofId = req[h].proofId}
    IN  /\ pc[h] = "load"
        /\ \/ \E p \in found :
                /\ original' = [original EXCEPT ![h] = p]
                /\ Goto(h, "separation")
                /\ UNCHANGED <<req, snap, cited, stamp>>
           \/ found = {} /\ Answer(h)
        /\ UNCHANGED <<tables, now>>

\* The row is read a second time; rows never change, so it is the same row.
RereadOriginal(h) ==
    /\ pc[h] = "reread"
    /\ \E p \in proofs :
        /\ p.proofId = req[h].proofId
        /\ \/ /\ RevisionCurrencyOk(p, req[h])
              /\ original' = [original EXCEPT ![h] = p]
              /\ Goto(h, "write")
              /\ UNCHANGED <<req, snap, cited, stamp>>
           \/ /\ ~RevisionCurrencyOk(p, req[h])
              /\ Answer(h)
    /\ UNCHANGED <<tables, now>>

-----------------------------------------------------------------------------
(***************************************************************************)
(* Writes: a transaction opens, stamps its rows, and commits or fails.     *)
(***************************************************************************)
BeginWrite(h) ==
    /\ pc[h] = "write"
    /\ stamp' = [stamp EXCEPT ![h] = now]
    /\ Goto(h, "commit")
    /\ UNCHANGED <<tables, now, req, snap, cited, original>>

EventOf(h) ==
    [case |-> CaseOf(h), actor |-> req[h].actor,
     action |-> GovernedAction(req[h].op), at |-> stamp[h]]

CommitAuthority(h) ==
    /\ pc[h] = "commit"
    /\ req[h].op \in CaseOps \cup {"Verify"}
    /\ authority' = authority \cup {EventOf(h)}
    /\ Answer(h)
    /\ UNCHANGED <<proofs, baselines, evidence, now>>

SnapshotOf(h) ==
    [baselineId |-> req[h].baselineId, case |-> req[h].case,
     calculated |-> req[h].calculated, currency |-> req[h].currency,
     lockedAt |-> stamp[h]]

CommitBaseline(h) ==
    /\ pc[h] = "commit"
    /\ req[h].op = "EstablishBaseline"
    /\ \/ /\ BaselineConstraints(SnapshotOf(h))
          /\ baselines' = baselines \cup {SnapshotOf(h)}
       \/ /\ ~BaselineConstraints(SnapshotOf(h))
          /\ UNCHANGED baselines
    /\ Answer(h)
    /\ UNCHANGED <<proofs, authority, evidence, now>>

RecordOf(h) ==
    [evidenceId |-> req[h].evidenceId, case |-> req[h].case,
     system |-> req[h].system, record |-> req[h].record,
     amount |-> req[h].amount, currency |-> req[h].currency,
     independent |-> IsIndependentSource(req[h].system),
     evidenceRole |-> DeriveEvidenceRole(req[h].system, req[h].type),
     ingestedAt |-> stamp[h]]

CommitEvidence(h) ==
    /\ pc[h] = "commit"
    /\ req[h].op = "IngestEvidence"
    /\ \/ /\ EvidenceConstraints(RecordOf(h))
          /\ evidence' = evidence \cup {RecordOf(h)}
       \/ /\ ~EvidenceConstraints(RecordOf(h))
          /\ UNCHANGED evidence
    /\ Answer(h)
    /\ UNCHANGED <<proofs, authority, baselines, now>>

ProofOf(h) ==
    IF req[h].op = "Approve"
    THEN CreateApprovedProof(req[h], snap[h])
    ELSE ReviseProof(original[h], req[h])

\* The proof and its authority event commit together or roll back together.
CommitProof(h) ==
    /\ pc[h] = "commit"
    /\ req[h].op \in {"Approve", "Revise"}
    /\ \/ /\ ProofConstraints(ProofOf(h))
          /\ proofs' = proofs \cup {ProofOf(h)}
          /\ authority' = authority \cup {EventOf(h)}
       \/ /\ ~ProofConstraints(ProofOf(h))
          /\ UNCHANGED <<proofs, authority>>
    /\ Answer(h)
    /\ UNCHANGED <<baselines, evidence, now>>

\* A database call fails (500) or the process stops: what was not committed is
\* lost, and the client may send its request again.
Abandon(h) ==
    /\ pc[h] # "idle"
    /\ Answer(h)
    /\ UNCHANGED <<tables, now>>

Tick ==
    /\ now < MaxClock
    /\ LateCommit \/ \A h \in Handlers : pc[h] # "commit"
    /\ now' = now + 1
    /\ UNCHANGED <<tables, pc, locals>>

Step(h) ==
    \/ Receive(h)
    \/ CheckOwned(h)
    \/ EnforceSeparation(h)
    \/ CheckRoot(h)
    \/ GetBaselineSnapshot(h)
    \/ GetEvidenceByIds(h)
    \/ ReadIntervention(h)
    \/ LoadProof(h)
    \/ RereadOriginal(h)
    \/ BeginWrite(h)
    \/ CommitAuthority(h)
    \/ CommitBaseline(h)
    \/ CommitEvidence(h)
    \/ CommitProof(h)
    \/ Abandon(h)

Next == Tick \/ \E h \in Handlers : Step(h)

Spec == Init /\ [][Next]_vars

-----------------------------------------------------------------------------
(***************************************************************************)
(* Properties.                                                             *)
(***************************************************************************)
Local(set) == [Handlers -> set \cup {None}]

TablesOK ==
    /\ proofs \subseteq Proof
    /\ authority \subseteq AuthorityEvent
    /\ baselines \subseteq BaselineSnapshot
    /\ evidence \subseteq EvidenceRecord
    /\ now \in Nat

LocalsOK ==
    /\ pc \in [Handlers -> Steps]
    /\ req \in Local(Requests)
    /\ snap \in Local(BaselineSnapshot)
    /\ cited \in [Handlers -> SUBSET EvidenceRecord]
    /\ original \in Local(Proof)
    /\ stamp \in [Handlers -> Nat]

\* Every table holds rows of its type and every handler's locals are of theirs.
TypeOK == TablesOK /\ LocalsOK

EvidenceOf(p) == EvidenceByIds(p.case, p.evidenceIds)

\* A chain's effective record: the highest version (effectiveProofs).
EffectiveProofs(c) ==
    {p \in proofs : /\ p.case = c
                    /\ \A q \in proofs : q.chainId = p.chainId => q.version <= p.version}

IsEffectiveRecovery(p) == p.status # "Reversed"

\* The counted record of every case, as readers of the ledger see it.
CurrentRecord ==
    [c \in Cases |->
        LET effective == EffectiveProofs(c)
        IN  IF effective = {} THEN None
            ELSE LET p == CHOOSE q \in effective : TRUE
                 IN  [version |-> p.version, returned |-> p.returned, status |-> p.status]]

Ledger == INSTANCE CountedLedger WITH current <- CurrentRecord

ASSUME NoEntryAssumption == None \notin Ledger!Entry

\* The concurrent server implements the abstract ledger: requests that overlap,
\* are repeated or are lost never make a case count twice or skip a version.
ImplementsLedger == Ledger!Spec

\* A case never counts twice: all its records are one chain without a fork, and
\* every revision follows the record it revises.  Concurrent approvals and
\* revisions all pass their checks; only the unique indexes stand in the way.
LinearChains ==
    \A p \in proofs :
        /\ \A q \in proofs :
            p.case = q.case => p.chainId = q.chainId /\ (p.version = q.version => p = q)
        /\ IF p.previous = None
           THEN p.version = 1 /\ p.chainId = p.proofId
           ELSE \E q \in proofs : /\ q.proofId = p.previous
                                  /\ q.case = p.case
                                  /\ p.version = q.version + 1

\* A revision always builds on the record that is effective when it commits,
\* although the handler read the original long before: a revision of a stale
\* original never becomes the effective record.
RevisionsBuildOnTheHead ==
    [][\A p \in proofs' \ proofs :
        p.previous # None => \E q \in EffectiveProofs(p.case) : q.proofId = p.previous]_vars

\* The counted number is frozen: whatever a request said and whatever was
\* inserted since, it is collected minus the amount of a snapshot locked for the
\* same case, in its currency, clamped at zero, and zero once reversed.
CountedFromSnapshot ==
    \A p \in proofs :
        /\ \E s \in baselines : /\ s.baselineId = p.baselineId
                                /\ s.case = p.case
                                /\ s.currency = p.currency
                                /\ s.calculated = p.baseline
        /\ p.returned = IF IsEffectiveRecovery(p)
                        THEN ClampedDifference(p.collected, p.baseline) ELSE 0

\* The number and the authority for it are one fact: no proof without its
\* approval event and an author of its case, no approval event without a proof.
ProofCarriesAuthority ==
    /\ \A p \in proofs : /\ p.approvedBy \in IdsFor(p.case, "Approve")
                         /\ IdsFor(p.case, "Author") # {}
    /\ \A e \in authority : e.action = "Approve" =>
           \E p \in proofs : p.case = e.case /\ p.approvedBy = e.actor

\* One outcome record (an invoice, a payment) backs at most one recovery case.
OutcomeEvidenceSingleUse ==
    \A p, q \in proofs :
        \A e \in OutcomeItems(EvidenceOf(p)), f \in OutcomeItems(EvidenceOf(q)) :
            <<e.system, e.record>> = <<f.system, f.record>> => p.case = q.case

\* An approval that clears the threshold is backed by outcome evidence that
\* covers the collected amount; the gate ran two awaits before the insert.
ApprovalSubstantiated ==
    \A p \in proofs :
        p.previous = None /\ p.clearsThreshold =>
            Substantiates(EvidenceOf(p), p.currency, p.collected)

\* The baseline comes first: all evidence a proof names is on file for its case,
\* none of the outcome evidence was ingested before the proof's baseline was
\* locked, and, when no transaction outlives its now(), no intervention on the
\* case precedes the lock, be it recorded after the approval read the ledger.
LockComesFirst ==
    \A p \in proofs :
        /\ \A i \in 1..Len(p.evidenceIds) :
            \E e \in EvidenceOf(p) : e.evidenceId = p.evidenceIds[i]
        /\ \A s \in baselines : s.baselineId = p.baselineId =>
            /\ \A e \in OutcomeItems(EvidenceOf(p)) : s.lockedAt <= e.ingestedAt
            /\ \A e \in Interventions(p.case) : s.lockedAt <= e.at

\* Nobody holds two of the author, approver and verifier roles of one case.
SeparationOfDuties ==
    \A e, f \in authority :
        /\ e.case = f.case
        /\ e.actor = f.actor
        /\ {e.action, f.action} \subseteq {"Author", "Approve", "Verify"}
        => e.action = f.action

\* A counted claim that clears the threshold is backed by outcome evidence that
\* covers the collected amount, whether it was approved or revised.
EffectiveClaimSubstantiated ==
    \A c \in Cases : \A p \in EffectiveProofs(c) :
        IsEffectiveRecovery(p) /\ p.clearsThreshold =>
            Substantiates(EvidenceOf(p), p.currency, p.collected)

\* A case without an effective recovery may be approved: the duplicate gate
\* turns an approval away only when a recovery is counted.
ReapprovalAfterReversal ==
    \A c \in Cases :
        ChainRootExists(c) => \E p \in EffectiveProofs(c) : IsEffectiveRecovery(p)
=============================================================================
