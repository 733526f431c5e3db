------------------------------ MODULE ProofStore ------------------------------
(***************************************************************************)
(* The governed records of the browser and the gate in front of them:      *)
(* baselines, evidence and the sequence of immutable proofs, which only    *)
(* ever grows.  All amounts are in the currency of their case.             *)
(***************************************************************************)
EXTENDS RecoveryCase

Approver == "cfo@company"

Roles(actor) ==
    IF actor = Approver THEN {"proofApprover", "verifier"} ELSE {"caseOwner"}

MakeBaseline(id, amount, at) ==
    [id |-> id, amount |-> amount, establishedAt |-> at, lockedAt |-> None,
     supersedes |-> None]

IsLocked(b) == b.lockedAt # None

LockBaselineObj(b, at) == IF IsLocked(b) THEN b ELSE [b EXCEPT !.lockedAt = at]

\* A successor record: it is born locked.
ReviseBaselineObj(b, id, amount, at) ==
    [id |-> id, amount |-> amount, establishedAt |-> at, lockedAt |-> at,
     supersedes |-> b.id]

NotAfter(lockedAt, moment) == moment # None => lockedAt <= moment

BaselineTemporallyValid(b, interventionAt, outcomeAt) ==
    /\ IsLocked(b)
    /\ NotAfter(b.lockedAt, interventionAt)
    /\ NotAfter(b.lockedAt, outcomeAt)

IndependentSources == {"billing", "product", "crm", "external"}

\* Independence is claimed by the caller and survives only for a trusted source.
MakeEvidence(id, source, claimed) ==
    [id |-> id, source |-> source,
     independent |-> claimed /\ source \in IndependentSources]

HasIndependentEvidence(evidence) == \E ev \in evidence : ev.independent

\* Policy approval-2026.1 always requires an approver distinct from the owner.
CanApproveProof(owner, approver) ==
    /\ "proofApprover" \in Roles(approver)
    /\ owner # None => approver # owner

\* The gate, over a context that buildApprovalContext has assembled.
ValidateApproval(ctx) ==
    /\ CanApproveProof(ctx.owner, ctx.approver)
    /\ BaselineTemporallyValid(ctx.baseline, ctx.interventionAt, ctx.outcomeAt)
    /\ ctx.stated
    /\ ctx.confidence >= Threshold => HasIndependentEvidence(ctx.evidence)

ApproveProofForCase(ctx) ==
    [id |-> ctx.id, case |-> ctx.case, chain |-> ctx.id, version |-> 1,
     status |-> "Approved", collected |-> ctx.collected,
     baseline |-> ctx.baseline.amount,
     returned |-> Max({0, ctx.collected - ctx.baseline.amount}),
     refs |-> {ev.id : ev \in ctx.evidence}, baselineId |-> ctx.baseline.id,
     confidence |-> ctx.confidence, threshold |-> Threshold,
     approvedBy |-> ctx.approver]

ReverseProofForCase(p, id, by) ==
    [p EXCEPT !.id = id, !.version = p.version + 1, !.status = "Reversed",
              !.collected = 0, !.returned = 0, !.approvedBy = by]

\* Positions of the latest record of each chain, in the order of the chains.
Supersedes(all, j, i) ==
    /\ all[j].chain = all[i].chain
    /\ \/ all[j].version > all[i].version
       \/ all[j].version = all[i].version /\ j < i

EffectivePositions(all) ==
    {i \in DOMAIN all : ~\E j \in DOMAIN all : Supersedes(all, j, i)}

EffectiveProofs(all) == {all[i] : i \in EffectivePositions(all)}

IsEffectiveRecovery(p) == p.status # "Reversed"

HasEffectiveRecoveryForCase(all, c) ==
    \E p \in EffectiveProofs(all) : p.case = c /\ IsEffectiveRecovery(p)

\* Mutant of AppendApprovedProof.
AppendApprovedProofUnguarded(all, c, proof) == Append(all, proof)

AppendApprovedProof(all, c, proof) ==
    IF HasEffectiveRecoveryForCase(all, c) THEN all ELSE Append(all, proof)

AppendReversal(all, chain, id, by) ==
    LET latest == {p \in EffectiveProofs(all) : p.chain = chain /\ IsEffectiveRecovery(p)}
    IN  IF latest = {} THEN all
        ELSE Append(all, ReverseProofForCase(CHOOSE p \in latest : TRUE, id, by))

ProofIsAuditable(p) ==
    IsEffectiveRecovery(p) /\ p.confidence >= p.threshold /\ p.returned > 0

ProvenLedger(all) ==
    LET proven == {i \in EffectivePositions(all) : IsEffectiveRecovery(all[i])}
        auditable == {i \in proven : ProofIsAuditable(all[i])}
    IN  [revenueReturned |-> MapThenSumSet(LAMBDA i : all[i].returned, proven),
         auditableRevenue |-> MapThenSumSet(LAMBDA i : all[i].returned, auditable),
         provenCount |-> Cardinality(proven),
         auditableCount |-> Cardinality(auditable)]

=============================================================================
