---------------------------- MODULE RecoveryClient ----------------------------
(***************************************************************************)
(* The browser's state: what the last render shows to every handler, what  *)
(* the handlers have queued for the next render, the synchronous mirror of *)
(* the proofs, and the two keys of localStorage.  A handler reads cases,   *)
(* baselines and evidence from the render it was created in; several may   *)
(* run before the next one.  Any write of a key may fail without notice.   *)
(*                                                                         *)
(* A render is committed together with its effects: the handlers run in    *)
(* clicks and key presses, whose effects React 18 flushes synchronously.   *)
(* Two calls of one tick carry the same time.                              *)
(***************************************************************************)
EXTENDS RecoverySeed, SequencesExt

CONSTANTS
    Cases,        \* ids of the seed's cases that are present
    Governable,   \* those whose baseline, evidence and proofs are worked on
    Owners,       \* identities offered as owners
    Targets,      \* statuses the operator moves a case to
    Reasons,      \* reasons the operator sets, None to clear
    Amounts,      \* dollars entered as a collected amount or a baseline
    Sources,      \* source systems of the evidence the operator attaches
    MaxBurst,     \* calls between two renders
    MaxRenders,   \* renders and page loads
    MaxEdits,     \* changes of provisional fields
    MaxIds,       \* records the operator asks for
    MaxLost,      \* writes of localStorage that fail
    MaxLoads      \* resets and page loads

ASSUME ClientAssumption ==
    /\ Governable \subseteq Cases /\ Cases \subseteq DOMAIN SeedEvents
    /\ {MaxBurst, MaxRenders, MaxEdits, MaxIds, MaxLost, MaxLoads} \subseteq Nat

\* What the operator enters; an amount may be negative.
ASSUME EntryAssumption ==
    /\ Reasons \subseteq RecoveryReasons \cup {None}
    /\ Targets \subseteq Statuses /\ Amounts \subseteq Int

VARIABLES
    shown,       \* the state of the last render: what handlers read
    next,        \* the state the next render will show
    proofsRef,   \* proofsRef.current
    disk,        \* the last snapshots that reached localStorage
    clock, burst, load, seq, edits, lost

vars == <<shown, next, proofsRef, disk, clock, burst, load, seq, edits, lost>>

Seeded ==
    LET trust == SeedTrust(Cases)
    IN  [cases |-> [c \in Cases |-> SeedEvents[c]], baselines |-> trust.baselines,
         proofs |-> trust.proofs, evidence |-> trust.evidence]

\* The seeds taken are among those asked for and passed the gate; a case is
\* seeded with at most one proof and one baseline.
ASSUME SeedAssumption ==
    /\ \A i \in DOMAIN SeedsOf(Cases) :
          LET s == SeedsOf(Cases)[i]
          IN  /\ s.case \in Cases /\ {s.baseline, s.collected} \subseteq Int
              /\ ValidateApproval(SeedContext(s))
    /\ Seeded.proofs \in Seq({Seeded.proofs[i] : i \in DOMAIN Seeded.proofs})
    /\ \A i, j \in DOMAIN Seeded.proofs : Seeded.proofs[i].case = Seeded.proofs[j].case => i = j
    /\ \A a, b \in Seeded.baselines : a.id = b.id => a = b

TrustOf(s) == [baselines |-> s.baselines, proofs |-> s.proofs, evidence |-> s.evidence]

\* Mutant of WithTrust.
WithTrustButBaselines(stored, s) ==
    [stored EXCEPT !.proofs = s.proofs, !.evidence = s.evidence]

\* What is stored, with the trust key as it is in s.
WithTrust(stored, s) ==
    [stored EXCEPT !.baselines = s.baselines, !.proofs = s.proofs, !.evidence = s.evidence]

Init ==
    /\ shown = Seeded /\ next = Seeded /\ disk = Seeded
    /\ proofsRef = Seeded.proofs
    /\ clock = 0 /\ burst = 0 /\ load = 0 /\ seq = 0 /\ edits = 0 /\ lost = 0

\* Mutant of LatestProofs.
LatestProofsAsRendered == shown.proofs

\* What a handler appends to: proofsRef.current, not the rendered proofs.
LatestProofs == proofsRef

BaselinesOf(s, c) == {b \in s.baselines : b.id = s.cases[c].baselineId}

\* The render shows the linked baseline of c, locked.
LockedBaselineExists(s, c) == \E b \in BaselinesOf(s, c) : IsLocked(b)

MkId(kind, c) == <<kind, c, seq + 1>>

Fresh == seq < MaxIds /\ seq' = seq + 1

Call == burst < MaxBurst /\ clock < MaxRenders /\ burst' = burst + 1

\* A write of one key reaches the disk or fails without notice.
Save(stored) ==
    \/ disk' = stored /\ UNCHANGED lost
    \/ UNCHANGED disk /\ lost < MaxLost /\ lost' = lost + 1

\* setEvents with a pure transform: the repository saves inside the updater.
MutateWith(state, c, e) ==
    /\ next' = [state EXCEPT !.cases[c] = Rescored(e)]
    /\ Save([disk EXCEPT !.cases = next'.cases])

Edit(c, e) ==
    /\ Call /\ edits < MaxEdits /\ edits' = edits + 1
    /\ MutateWith(next, c, e)
    /\ UNCHANGED <<shown, proofsRef, clock, load, seq>>

StampIntervention(e) ==
    [e EXCEPT !.interventionAt = IF @ = None THEN clock ELSE @]

AssignOwner(c, owner) ==
    Edit(c, [next.cases[c] EXCEPT
               !.owner = owner,
               !.status = IF @ \in {"Detected", "Queued"} THEN "Assigned" ELSE @])

AdvanceStatus(c, status) ==
    Edit(c, [next.cases[c] EXCEPT
               !.status = status,
               !.outcomeAt = IF status = "Recovered" /\ @ = None THEN clock ELSE @])

AddAction(c) ==
    Edit(c, StampIntervention([next.cases[c] EXCEPT !.actions = Append(@, "own")]))

SetReason(c, reason) == Edit(c, [next.cases[c] EXCEPT !.reason = reason])

ApplyRecommendation(c) ==
    /\ IsOpen(shown.cases[c]) /\ ~RecommendationApplied(shown.cases[c])
    /\ LET e == next.cases[c]
       IN  Edit(c, StampIntervention([e EXCEPT
                     !.reason = PLAYBOOK[e.leak].reason,
                     !.actions = @ \o NewActions(e)]))

UpdateCollected(c, amount) == Edit(c, [next.cases[c] EXCEPT !.collected = amount])

\* Mutant of UpdateBaseline.
UpdateBaselineUnguarded(c, amount) == Edit(c, [next.cases[c] EXCEPT !.baseline = amount])

\* The field is disabled, and the handler drops the edit, once a render shows
\* the baseline locked.
UpdateBaseline(c, amount) ==
    /\ ~LockedBaselineExists(shown, c)
    /\ Edit(c, [next.cases[c] EXCEPT !.baseline = amount])

UpdateEvidence(c, class) == Edit(c, [next.cases[c] EXCEPT !.notes = class])

-----------------------------------------------------------------------------
(* The governed records.  The panel offers one step of a baseline at a     *)
(* time, according to the render.                                          *)

EstablishBaseline(c, amount) ==
    /\ BaselinesOf(shown, c) = {}
    /\ Call
    /\ LET b == MakeBaseline(MkId("BL", c), amount, clock)
       IN  MutateWith([next EXCEPT !.baselines = @ \cup {b}], c,
                      [next.cases[c] EXCEPT !.baselineId = b.id])
    /\ Fresh
    /\ UNCHANGED <<shown, proofsRef, clock, load, edits>>

\* Replaces the record with that id by the locked form of the one it read.
LockBaseline(c) ==
    /\ Call
    /\ \E current \in BaselinesOf(shown, c) :
         /\ ~IsLocked(current)
         /\ LET locked == LockBaselineObj(current, clock)
                kept == {b \in next.baselines : b.id # locked.id}
            IN  MutateWith([next EXCEPT !.baselines = kept \cup {locked}], c, next.cases[c])
    /\ UNCHANGED <<shown, proofsRef, clock, load, seq, edits>>

ReviseBaseline(c, amount) ==
    /\ Call
    /\ \E current \in BaselinesOf(shown, c) :
         /\ IsLocked(current)
         /\ LET b == ReviseBaselineObj(current, MkId("BL", c), amount, clock)
            IN  MutateWith([next EXCEPT !.baselines = @ \cup {b}], c,
                           [next.cases[c] EXCEPT !.baselineId = b.id])
    /\ Fresh
    /\ UNCHANGED <<shown, proofsRef, clock, load, edits>>

AddEvidence(c, source) ==
    /\ Call
    /\ next' = [next EXCEPT !.evidence[c] =
                  @ \cup {MakeEvidence(MkId("EV", c), source, source # "manual")}]
    /\ Fresh
    /\ UNCHANGED <<shown, proofsRef, disk, clock, load, edits, lost>>

\* Read from the render, with the explicit amount and the exclusion statement.
ApprovalContext(c, b, collected, stated) ==
    LET e == shown.cases[c]
    IN  [id |-> MkId("PF", c), case |-> c, owner |-> e.owner, approver |-> Approver,
         baseline |-> b, evidence |-> shown.evidence[c],
         interventionAt |-> e.interventionAt, outcomeAt |-> e.outcomeAt,
         collected |-> collected, confidence |-> e.confidence, stated |-> stated]

\* The guard and the append run once more against the mirror.
ApproveProof(c, collected) ==
    /\ Call
    /\ ~HasEffectiveRecoveryForCase(shown.proofs, c)
    /\ shown.cases[c].reason # None
    /\ \E b \in BaselinesOf(shown, c) :
         LET ctx == ApprovalContext(c, b, collected, TRUE)
         IN  /\ IsLocked(b)
             /\ ValidateApproval(ctx)
             /\ proofsRef' = AppendApprovedProof(LatestProofs, c, ApproveProofForCase(ctx))
    /\ next' = [next EXCEPT !.proofs = proofsRef']
    /\ Fresh
    /\ UNCHANGED <<shown, disk, clock, load, edits, lost>>

\* The rows of the panel are the rendered proofs, superseded ones included.
ReverseProof(i) ==
    /\ Call
    /\ i \in DOMAIN shown.proofs /\ IsEffectiveRecovery(shown.proofs[i])
    /\ LET chain == shown.proofs[i].chain
       IN  proofsRef' = AppendReversal(LatestProofs, chain, MkId("REV", chain), Approver)
    /\ next' = [next EXCEPT !.proofs = proofsRef']
    /\ Fresh
    /\ UNCHANGED <<shown, disk, clock, load, edits, lost>>

-----------------------------------------------------------------------------
\* Another control than the ones above, hence a tick of its own, up to and
\* including its render.  The seed is smaller than what it replaces: its two
\* writes are taken to succeed.
ResetData ==
    /\ burst = 0 /\ load < MaxLoads /\ clock < MaxRenders
    /\ shown' = Seeded /\ next' = Seeded /\ disk' = Seeded
    /\ proofsRef' = Seeded.proofs
    /\ clock' = clock + 1 /\ load' = load + 1
    /\ UNCHANGED <<burst, seq, edits, lost>>

\* A render and its effects: the trust key is saved, the mirror is refreshed.
Commit ==
    /\ burst > 0
    /\ shown' = next
    /\ IF TrustOf(next) = TrustOf(shown) THEN UNCHANGED <<disk, lost>>
       ELSE Save(WithTrust(disk, next))
    /\ proofsRef' = IF next.proofs # shown.proofs THEN next.proofs ELSE proofsRef
    /\ clock' = clock + 1 /\ burst' = 0
    /\ UNCHANGED <<next, load, seq, edits>>

\* The page is closed, even before a render, and opened again.
Reload ==
    /\ load < MaxLoads /\ clock < MaxRenders
    /\ shown' = disk /\ next' = disk
    /\ proofsRef' = disk.proofs
    /\ clock' = clock + 1 /\ burst' = 0 /\ load' = load + 1
    /\ UNCHANGED <<disk, seq, edits, lost>>

Provisional(c) ==
    \/ \E owner \in Owners : AssignOwner(c, owner)
    \/ \E status \in Targets : AdvanceStatus(c, status)
    \/ AddAction(c)
    \/ \E reason \in Reasons : SetReason(c, reason)
    \/ ApplyRecommendation(c)
    \/ \E amount \in Amounts : UpdateCollected(c, amount) \/ UpdateBaseline(c, amount)
    \/ \E class \in NoteClasses : UpdateEvidence(c, class)

Governed(c) ==
    \/ \E amount \in Amounts : EstablishBaseline(c, amount) \/ ReviseBaseline(c, amount) \/ ApproveProof(c, amount)
    \/ LockBaseline(c)
    \/ \E source \in Sources : AddEvidence(c, source)

\* What the screens on the cases offer.
CaseWork ==
    \/ \E c \in Cases : Provisional(c)
    \/ \E c \in Governable : Governed(c)
    \/ \E i \in DOMAIN shown.proofs : ReverseProof(i)

Next ==
    \/ CaseWork
    \/ ResetData
    \/ Commit
    \/ Reload

Spec == Init /\ [][Next]_vars
-----------------------------------------------------------------------------

CaseState == [
    stage : FunnelStages, leak : DOMAIN PLAYBOOK, reason : RecoveryReasons \cup {None},
    owner : {None, Dana, Priya, Marcus} \cup Owners, status : Statuses, risk : Nat,
    baseline : Int, collected : Int, confidence : 0 .. 100, actions : Seq(Actions),
    notes : NoteClasses, baselineId : {None} \cup {<<"BL", c, n>> : c \in Cases, n \in 1 .. seq},
    interventionAt : {None} \cup 0 .. clock, outcomeAt : {None} \cup 0 .. clock]

\* The four copies of the state are of the same kind, and what the memory of
\* the page holds was scored when it was last written.
TypeOK ==
    /\ \A s \in {shown, next, disk} :
         /\ s.cases \in [Cases -> CaseState]
         /\ \A b \in s.baselines : b.lockedAt \in {None} \cup RegisteredAt .. clock
         /\ \A c \in Cases : s.cases[c] = SeedEvents[c] \/ s.cases[c] = Rescored(s.cases[c])
    /\ clock \in 0 .. MaxRenders /\ burst \in 0 .. MaxBurst /\ load \in 0 .. MaxLoads

Ledgers == {shown.proofs, next.proofs, proofsRef, disk.proofs}

\* However often a control is hit before the next render, and whatever a
\* reload brings back, a case has at most one chain that counts, so that no
\* dollar is counted twice (appendApprovedProof, proofsRef).
OneEffectiveRecovery ==
    \A all \in Ledgers : \A i, j \in EffectivePositions(all) :
       /\ all[i].case = all[j].case
       /\ IsEffectiveRecovery(all[i]) /\ IsEffectiveRecovery(all[j])
       => i = j

\* A proof never outlives what it rests on: wherever it is kept, on disk too,
\* its baseline is kept with the amount the proof froze, locked before the
\* first action on the case and before its outcome, also when handlers of one
\* tick lock, act and approve; so is its evidence, and a proof that reaches the
\* threshold rests on a source that the beneficiary does not control
\* (approveProofForCase, baselineTemporallyValid, saveTrust).
ProofRestsOnRecords(s, p) ==
    /\ \E b \in s.baselines : b.id = p.baselineId /\ IsLocked(b) /\ b.amount = p.baseline
    /\ \A b \in s.baselines : b.id = p.baselineId =>
         /\ NotAfter(b.lockedAt, s.cases[p.case].interventionAt)
         /\ NotAfter(b.lockedAt, s.cases[p.case].outcomeAt)
    /\ p.refs \subseteq {ev.id : ev \in s.evidence[p.case]}
    /\ p.confidence >= p.threshold =>
         \E ev \in s.evidence[p.case] : ev.id \in p.refs /\ ev.source # "manual"

ProofsRestOnRecords ==
    \A s \in {shown, next, disk} :
       \A i \in DOMAIN s.proofs : ProofRestsOnRecords(s, s.proofs[i])

\* Within a page load nothing that a handler acknowledged as approved or
\* reversed disappears again or is rewritten, neither by a handler that read
\* an older render nor by the effect that refreshes the mirror (proofsRef).
AcknowledgedProofsKept ==
    [][load' = load => /\ IsPrefix(proofsRef, proofsRef')
                       /\ IsPrefix(shown.proofs, shown'.proofs)]_vars

\* Once a render has shown a baseline locked, its record stays as it is, and
\* the provisional baseline of the case stands still while it is linked
\* (lockBaseline, updateAmounts).
LockedBaselinesFrozen ==
    [][load' = load =>
         /\ \A b \in shown.baselines : IsLocked(b) => b \in shown'.baselines
         /\ \A c \in Cases : LockedBaselineExists(shown, c) =>
               shown'.cases[c].baseline = shown.cases[c].baseline]_vars

\* The chains there may be: those of the seed and those the operator asks for.
Chains == {<<"PF", c>> : c \in Cases} \cup {<<"PF", c, n>> : c \in Cases, n \in 1 .. MaxIds}

OfChain(all, chain) == {p \in EffectiveProofs(all) : p.chain = chain}

\* The counted record of every chain, as the panels show it.
Counted(all) ==
    [chain \in Chains |->
        IF OfChain(all, chain) = {} THEN None
        ELSE LET p == CHOOSE q \in OfChain(all, chain) : TRUE
             IN  [version |-> p.version, returned |-> p.returned, status |-> p.status]]

Ledger == INSTANCE CountedLedger WITH Cases <- Chains, current <- Counted(proofsRef)

ASSUME NoEntryAssumption == None \notin Ledger!Entry

\* Within a page load the browser keeps the counted ledger of the server, with a
\* chain of proofs in the place of a case: a chain is approved once and then
\* revised by the next version, whatever handlers of one tick do
\* (appendApprovedProof, appendReversal).
ChainsFollowLedger == [][load' = load => Ledger!Next]_(Counted(proofsRef))
=============================================================================
