----------------------------- MODULE AuditService -----------------------------
(***************************************************************************)
(* The audit reads of the proof server, composed with its writers.  A      *)
(* report is assembled from several awaited reads and no snapshot          *)
(* transaction joins them, so the database may change between any two.     *)
(*                                                                         *)
(* A proof's baseline snapshot is on file before the proof and never       *)
(* changes, so its read is joined with the read of the interventions.      *)
(***************************************************************************)
EXTENDS ProofServer

CONSTANT Readers    \* slots for audit requests in flight

VARIABLE report     \* the report each reader is assembling

auditVars == <<vars, report>>

\* target: the case reported on.  proofs, excluded: what was read.  trail: the
\* actions the authority trail shows.
\* todo: proofs whose gaps are still to be read.  auditable: those that make up
\* auditableRevenueMinor.  confirmed: those marked auditable in the chain.
\* wasExcluded: whether the case was excluded when the request came in.
NoReport ==
    [step |-> "idle", op |-> None, target |-> None, proofs |-> {},
     excluded |-> FALSE, todo |-> {}, auditable |-> {}, trail |-> {},
     confirmed |-> {}, wasExcluded |-> FALSE]

AuditInit == Init /\ report = [x \in Readers |-> NoReport]

-----------------------------------------------------------------------------
\* Mutant: every version read is taken for effective.
AllVersions(set) == set

\* The highest version of each chain.
EffectiveIn(set) ==
    {p \in set : \A q \in set : q.chainId = p.chainId => q.version <= p.version}

ProofIsAuditable(p) == IsEffectiveRecovery(p) /\ p.clearsThreshold /\ p.returned > 0

\* Whether governance has excluded the case.
Excluded(c) == \E e \in authority : e.case = c /\ e.action = "Exclude"

\* Mutant: only a halt takes a case off the auditable ledger.
HaltExcludes(c) == \E e \in AuthorityFor(c) : e.action = "Halt"

CaseIsExcluded(c) == Excluded(c)

\* Mutant: an unknown intervention is no gap.
UnknownInterventionPasses(p) ==
    \E s \in baselines : /\ s.baselineId = p.baselineId
                         /\ \A e \in Interventions(p.case) : s.lockedAt <= e.at

\* The trust gaps, re-derived: the snapshot is missing, no intervention is
\* known, or one came before the lock.
NoTrustGaps(p) ==
    \E s \in baselines : /\ s.baselineId = p.baselineId
                         /\ Interventions(p.case) # {}
                         /\ \A e \in Interventions(p.case) : s.lockedAt <= e.at

Advance(x, changed) ==
    /\ report' = [report EXCEPT ![x] = changed]
    /\ UNCHANGED vars

Begin(x, op, c, step, found) ==
    Advance(x, [NoReport EXCEPT !.op = op, !.target = c, !.step = step,
                                !.proofs = found, !.wasExcluded = Excluded(c)])

AskExport(x) ==
    /\ report[x].step = "idle"
    /\ \E c \in Cases : Begin(x, "export", c, "proofs", {})

AskTrail(x) ==
    /\ report[x].step = "idle"
    /\ \E c \in Cases : Begin(x, "trail", c, "excluded", {})

\* The report on a single proof starts with the read of that proof.
AskProof(x) ==
    /\ report[x].step = "idle"
    /\ \E p \in proofs : Begin(x, "proof", p.case, "excluded", {p})

ReadProofs(x) ==
    /\ report[x].step = "proofs"
    /\ Advance(x, [report[x] EXCEPT
                    !.proofs = {p \in proofs : p.case = report[x].target},
                    !.step = IF report[x].op = "export" THEN "excluded" ELSE "trail"])

\* The proofs whose gaps the export looks up for its total.
Candidates(read, excluded) ==
    IF excluded THEN {} ELSE {p \in EffectiveIn(read) : ProofIsAuditable(p)}

ReadExcluded(x) ==
    LET r == report[x]
        excluded == CaseIsExcluded(r.target)
    IN  /\ r.step = "excluded"
        /\ Advance(x,
            CASE r.op = "export" ->
                    [r EXCEPT !.excluded = excluded, !.step = "total",
                              !.todo = Candidates(r.proofs, excluded)]
              [] r.op = "trail" -> [r EXCEPT !.excluded = excluded, !.step = "proofs"]
              [] r.op = "proof" -> [r EXCEPT !.excluded = excluded, !.step = "chain",
                                             !.todo = r.proofs])

\* One proof of the total: its gaps decide whether it is added.
ReadTotal(x) ==
    LET r == report[x]
    IN  /\ r.step = "total"
        /\ \E p \in r.todo :
            Advance(x, [r EXCEPT !.todo = r.todo \ {p},
                                 !.auditable = r.auditable \cup
                                    {q \in {p} : NoTrustGaps(q)}])

ReadTrail(x) ==
    LET r == report[x]
    IN  /\ \/ r.step = "trail"
           \/ r.step = "total" /\ r.todo = {}
        /\ Advance(x, [r EXCEPT !.trail = {e.action : e \in AuthorityFor(r.target)}, !.step = "chain",
                                !.todo = r.proofs])

\* The chain's proofs are reconstructed side by side, in any order.
ReadChain(x) ==
    LET r == report[x]
    IN  /\ r.step = "chain"
        /\ \E p \in r.todo :
            Advance(x, [r EXCEPT !.todo = r.todo \ {p},
                                 !.confirmed = r.confirmed \cup
                                    {q \in {p} : /\ ProofIsAuditable(q)
                                                 /\ NoTrustGaps(q)
                                                 /\ ~r.excluded}])

Finished(x) == report[x].step = "chain" /\ report[x].todo = {}

\* The report is sent.
Deliver(x) == Finished(x) /\ Advance(x, NoReport)

Read(x) ==
    \/ AskExport(x)
    \/ AskTrail(x)
    \/ AskProof(x)
    \/ ReadProofs(x)
    \/ ReadExcluded(x)
    \/ ReadTotal(x)
    \/ ReadTrail(x)
    \/ ReadChain(x)
    \/ Deliver(x)

AuditNext ==
    \/ Next /\ UNCHANGED report
    \/ \E x \in Readers : Read(x)

AuditSpec == AuditInit /\ [][AuditNext]_auditVars

-----------------------------------------------------------------------------
\* A case excluded before a report was asked for has no auditable amount in it,
\* neither in the total nor in the chain.
ExclusionIsSeen ==
    \A x \in Readers :
        report[x].wasExcluded => report[x].auditable = {} /\ report[x].confirmed = {}

\* An amount is auditable only against known facts: by the time a report marks
\* a proof auditable its case has an intervention, and none precedes the lock.
\* Holds of later states too when no transaction outlives its now().
AuditableRestsOnFacts ==
    \A x \in Readers :
        \A p \in report[x].auditable \cup report[x].confirmed :
            /\ Interventions(p.case) # {}
            /\ \E s \in baselines :
                /\ s.baselineId = p.baselineId
                /\ s.case = p.case
                /\ \A e \in Interventions(p.case) : s.lockedAt <= e.at

\* The total of an export counts at most one proof of a case, a version that
\* was effective when the proofs were read, and none that was reversed; the
\* chain of the same export confirms it, although it is read again later.
TotalCountsOnce ==
    \A x \in Readers :
        /\ \A p, q \in report[x].auditable : p = q
        /\ \A p \in report[x].auditable :
            /\ IsEffectiveRecovery(p)
            /\ \A q \in report[x].proofs : q.version <= p.version
        /\ Finished(x) => report[x].auditable \subseteq report[x].confirmed

\* An export that shows an exclusion in its authority trail has no auditable
\* amount.
ShownExclusionRemovesAmount ==
    \A x \in Readers :
        Finished(x) /\ "Exclude" \in report[x].trail => report[x].auditable = {}
=============================================================================
