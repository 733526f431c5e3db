------------------------- MODULE RecoveryClientProofs -------------------------
(***************************************************************************)
(* Theorems about the browser's state, for any cases, operators' choices   *)
(* and bounds: the mirror of the proofs and the queued state never part,   *)
(* so that a recovery is counted once and nothing acknowledged is lost, a  *)
(* baseline once shown locked stands, a proof keeps the records that it    *)
(* rests on in every copy, and the proofs of a load are a counted ledger.  *)
(***************************************************************************)
EXTENDS RecoveryClient, SequenceTheorems, TLAPS

USE ClientAssumption DEF ClientAssumption

-----------------------------------------------------------------------------
(* Sequences of proofs.                                                    *)

\* A sequence of records that have a status.
IsLedger(all) ==
    /\ all \in Seq({all[i] : i \in DOMAIN all})
    /\ \A i \in DOMAIN all : "status" \in DOMAIN all[i]

OneEffective(all) ==
    \A i, j \in EffectivePositions(all) :
       /\ all[i].case = all[j].case
       /\ IsEffectiveRecovery(all[i]) /\ IsEffectiveRecovery(all[j])
       => i = j

\* One ledger is a prefix of another when it agrees with it on all its positions.
LEMMA PrefixIsPointwise ==
    ASSUME NEW s, NEW t, IsLedger(s), IsLedger(t)
    PROVE  IsPrefix(s, t) <=> Len(s) <= Len(t) /\ \A i \in 1 .. Len(s) : s[i] = t[i]
  <1> DEFINE S == {s[i] : i \in DOMAIN s}
             T == {t[i] : i \in DOMAIN t}
             U == S \cup T
  <1>1. s \in Seq(U) /\ t \in Seq(U)
    <2>1. s \in Seq(S) /\ t \in Seq(T)
      BY DEF IsLedger
    <2> HIDE DEF S, T
    <2> QED  BY <2>1, SeqMonotonic
  <1> HIDE DEF U
  <1>2. SUFFICES ASSUME Len(s) <= Len(t)
                 PROVE  SubSeq(s, 1, Len(s)) = SubSeq(t, 1, Len(s))
                        <=> \A i \in 1 .. Len(s) : s[i] = t[i]
    BY DEF IsPrefix
  <1>3. Len(s) \in Nat /\ Len(t) \in Nat
    BY <1>1, LenProperties
  <1>4. \A i \in 1 .. Len(s) : s[i] \in U /\ t[i] \in U
    BY <1>1, <1>2, <1>3, ElementOfSeq
  <1>5. /\ SubSeq(s, 1, Len(s)) \in Seq(U) /\ Len(SubSeq(s, 1, Len(s))) = Len(s)
        /\ \A i \in 1 .. Len(s) : SubSeq(s, 1, Len(s))[i] = s[i]
    BY <1>3, <1>4, SubSeqProperties
  <1>6. /\ SubSeq(t, 1, Len(s)) \in Seq(U) /\ Len(SubSeq(t, 1, Len(s))) = Len(s)
        /\ \A i \in 1 .. Len(s) : SubSeq(t, 1, Len(s))[i] = t[i]
    BY <1>3, <1>4, SubSeqProperties
  <1> QED  BY <1>5, <1>6, SeqEqual

\* A record added to a ledger leaves the others where they were.
LEMMA AppendToLedger ==
    ASSUME NEW all, IsLedger(all), NEW p, "status" \in DOMAIN p
    PROVE  /\ IsLedger(Append(all, p))
           /\ IsPrefix(all, Append(all, p))
           /\ DOMAIN Append(all, p) = DOMAIN all \cup {Len(all) + 1}
           /\ Len(all) + 1 \notin DOMAIN all
           /\ \A i \in DOMAIN all : Append(all, p)[i] = all[i]
           /\ Append(all, p)[Len(all) + 1] = p
  <1> DEFINE S == {all[i] : i \in DOMAIN all}
             new == Append(all, p)
  <1>1. all \in Seq(S) /\ Len(all) \in Nat /\ DOMAIN all = 1 .. Len(all)
    BY DEF IsLedger
  <1>2. /\ new \in Seq(S \cup {p})
        /\ Len(new) = Len(all) + 1
        /\ DOMAIN new = 1 .. Len(all) + 1
        /\ \A i \in 1 .. Len(all) : new[i] = all[i]
        /\ new[Len(all) + 1] = p
    <2>1. all \in Seq(S \cup {p})
      BY <1>1
    <2> HIDE DEF S
    <2> QED  BY <2>1, <1>1, SMTT(30)
  <1> HIDE DEF S, new
  <1>3. ASSUME NEW i \in DOMAIN new  PROVE "status" \in DOMAIN new[i]
    <2>1. CASE i = Len(all) + 1
      BY <1>2, <2>1
    <2>2. CASE i \in DOMAIN all
      BY <1>1, <1>2, <2>2 DEF IsLedger
    <2> QED  BY <1>1, <1>2, <2>1, <2>2
  <1>4. IsLedger(new)
    <2> DEFINE T == {new[i] : i \in DOMAIN new}
    <2>1. Len(new) \in Nat /\ new \in [1 .. Len(new) -> S \cup {p}] /\ DOMAIN new = 1 .. Len(new)
      BY <1>2, LenProperties
    <2>2. \A i \in 1 .. Len(new) : new[i] \in T
      BY <2>1
    <2> HIDE DEF T
    <2>3. new \in [1 .. Len(new) -> T]
      BY <2>1, <2>2
    <2>4. new \in Seq(T)
      BY <2>1, <2>3, SeqDef
    <2> QED  BY <1>3, <2>4 DEF T, IsLedger
  <1>5. IsPrefix(all, new)
    BY <1>1, <1>2, <1>4, PrefixIsPointwise
  <1> QED  BY <1>1, <1>2, <1>4, <1>5 DEF new

\* Every ledger is a prefix of itself, and a prefix of a prefix is one.
LEMMA PrefixIsAnOrder ==
    ASSUME NEW s, NEW t, NEW u, IsLedger(s), IsLedger(t), IsLedger(u)
    PROVE  /\ IsPrefix(s, s)
           /\ IsPrefix(s, t) /\ IsPrefix(t, u) => IsPrefix(s, u)
  <1>1. Len(s) \in Nat /\ Len(t) \in Nat /\ Len(u) \in Nat
    BY DEF IsLedger
  <1> QED  BY <1>1, PrefixIsPointwise

\* appendApprovedProof: a proof is added only where no chain of its case counts.
LEMMA ApprovalKeepsOne ==
    ASSUME NEW all, IsLedger(all), OneEffective(all),
           NEW c, NEW p, p.case = c, "status" \in DOMAIN p
    PROVE  LET new == AppendApprovedProof(all, c, p)
           IN  IsLedger(new) /\ IsPrefix(all, new) /\ OneEffective(new)
  <1>1. CASE HasEffectiveRecoveryForCase(all, c)
    BY <1>1, PrefixIsAnOrder DEF AppendApprovedProof
  <1>2. CASE ~HasEffectiveRecoveryForCase(all, c)
    <2> DEFINE new == Append(all, p)
    <2>1. AppendApprovedProof(all, c, p) = new
      BY <1>2 DEF AppendApprovedProof
    <2>2. /\ IsLedger(new) /\ IsPrefix(all, new)
          /\ DOMAIN new = DOMAIN all \cup {Len(all) + 1}
          /\ \A i \in DOMAIN all : new[i] = all[i]
          /\ new[Len(all) + 1] = p
      BY AppendToLedger
    <2> HIDE DEF new
    <2>3. \A i \in EffectivePositions(new) : i # Len(all) + 1 => i \in EffectivePositions(all)
      BY <2>2 DEF EffectivePositions, Supersedes
    <2>4. \A i \in EffectivePositions(all) :
             IsEffectiveRecovery(all[i]) => all[i].case # c
      BY <1>2 DEF HasEffectiveRecoveryForCase, EffectiveProofs
    <2>5. OneEffective(new)
      <3> SUFFICES ASSUME NEW i \in EffectivePositions(new), NEW j \in EffectivePositions(new),
                          new[i].case = new[j].case,
                          IsEffectiveRecovery(new[i]), IsEffectiveRecovery(new[j])
                   PROVE  i = j
        BY DEF OneEffective
      <3>1. CASE i # Len(all) + 1 /\ j # Len(all) + 1
        <4>1. i \in EffectivePositions(all) /\ j \in EffectivePositions(all)
          BY <3>1, <2>3
        <4>2. new[i] = all[i] /\ new[j] = all[j]
          BY <4>1, <2>2 DEF EffectivePositions
        <4> QED  BY <4>1, <4>2 DEF OneEffective
      <3>2. CASE i = Len(all) + 1 /\ j # Len(all) + 1
        <4>1. j \in EffectivePositions(all) /\ new[j] = all[j] /\ new[i] = p
          BY <3>2, <2>2, <2>3 DEF EffectivePositions
        <4> QED  BY <4>1, <2>4
      <3>3. CASE i # Len(all) + 1 /\ j = Len(all) + 1
        <4>1. i \in EffectivePositions(all) /\ new[i] = all[i] /\ new[j] = p
          BY <3>3, <2>2, <2>3 DEF EffectivePositions
        <4> QED  BY <4>1, <2>4
      <3> QED  BY <3>1, <3>2, <3>3
    <2> QED  BY <2>1, <2>2, <2>5
  <1> QED  BY <1>1, <1>2

\* appendReversal: what is added does not count, and it supersedes what did.
LEMMA ReversalKeepsOne ==
    ASSUME NEW all, IsLedger(all), OneEffective(all), NEW chain, NEW id, NEW by
    PROVE  LET new == AppendReversal(all, chain, id, by)
           IN  IsLedger(new) /\ IsPrefix(all, new) /\ OneEffective(new)
  <1> DEFINE latest == {p \in EffectiveProofs(all) : p.chain = chain /\ IsEffectiveRecovery(p)}
             last == CHOOSE p \in latest : TRUE
             reversed == ReverseProofForCase(last, id, by)
             new == Append(all, reversed)
  <1>1. CASE latest = {}
    BY <1>1, PrefixIsAnOrder DEF AppendReversal
  <1>2. CASE latest # {}
    <2>1. AppendReversal(all, chain, id, by) = new
      BY <1>2 DEF AppendReversal
    <2>2. last \in latest
      BY <1>2
    <2>3. "status" \in DOMAIN last
      BY <2>2 DEF EffectiveProofs, EffectivePositions, IsLedger
    <2>4. "status" \in DOMAIN reversed /\ ~IsEffectiveRecovery(reversed)
      <3> HIDE DEF last
      <3> QED  BY <2>3 DEF ReverseProofForCase, IsEffectiveRecovery
    <2> HIDE DEF latest, last, reversed
    <2>5. /\ IsLedger(new) /\ IsPrefix(all, new)
          /\ DOMAIN new = DOMAIN all \cup {Len(all) + 1}
          /\ \A i \in DOMAIN all : new[i] = all[i]
          /\ new[Len(all) + 1] = reversed
      BY <2>4, AppendToLedger
    <2> HIDE DEF new
    <2>6. \A i \in EffectivePositions(new) :
             IsEffectiveRecovery(new[i]) => i \in EffectivePositions(all) /\ new[i] = all[i]
      BY <2>4, <2>5 DEF EffectivePositions, Supersedes
    <2>7. OneEffective(new)
      BY <2>6 DEF OneEffective
    <2> QED  BY <2>1, <2>5, <2>7 DEF new
  <1> QED  BY <1>1, <1>2

-----------------------------------------------------------------------------
(* The mirror.                                                             *)

StateKeys == {"cases", "baselines", "proofs", "evidence"}

\* What is queued and what the mirror holds are the same proofs, and the render
\* shows the first of them.
MirrorInv ==
    /\ DOMAIN next = StateKeys /\ DOMAIN disk = StateKeys
    /\ next.proofs = proofsRef
    /\ IsLedger(proofsRef) /\ IsLedger(shown.proofs) /\ IsLedger(disk.proofs)
    /\ IsPrefix(shown.proofs, proofsRef)
    /\ OneEffective(proofsRef) /\ OneEffective(shown.proofs) /\ OneEffective(disk.proofs)
    /\ load \in Nat

\* A step that leaves all proofs alone.
Quiet ==
    /\ DOMAIN next' = DOMAIN next /\ DOMAIN disk' = DOMAIN disk
    /\ next'.proofs = next.proofs /\ disk'.proofs = disk.proofs
    /\ shown' = shown /\ proofsRef' = proofsRef /\ load' = load

LEMMA SeedIsLedger == IsLedger(Seeded.proofs) /\ OneEffective(Seeded.proofs)
  <1> DEFINE seeds == SeedsOf(Cases)
  <1>1. Seeded.proofs = [i \in DOMAIN seeds |-> ApproveProofForCase(SeedContext(seeds[i]))]
    BY DEF Seeded, SeedTrust
  <1> HIDE DEF seeds
  <1>2. \A i \in DOMAIN Seeded.proofs : "status" \in DOMAIN Seeded.proofs[i]
    BY <1>1 DEF ApproveProofForCase
  <1>3. IsLedger(Seeded.proofs)
    BY <1>2, SeedAssumption DEF SeedAssumption, IsLedger
  <1>4. OneEffective(Seeded.proofs)
    BY SeedAssumption DEF SeedAssumption, OneEffective, EffectivePositions
  <1> QED  BY <1>3, <1>4

\* setEvents touches the cases only, in memory and on disk.
LEMMA MutationIsQuiet ==
    ASSUME DOMAIN next = StateKeys, DOMAIN disk = StateKeys,
           NEW state, DOMAIN state = StateKeys, state.proofs = next.proofs,
           NEW c, NEW e, MutateWith(state, c, e)
    PROVE  /\ DOMAIN next' = DOMAIN next /\ DOMAIN disk' = DOMAIN disk
           /\ next'.proofs = next.proofs /\ disk'.proofs = disk.proofs
  <1>1. next' = [state EXCEPT !.cases = [state.cases EXCEPT ![c] = Rescored(e)]]
    BY DEF MutateWith
  <1>2. disk' = disk \/ disk' = [disk EXCEPT !.cases = next'.cases]
    BY DEF MutateWith, Save
  <1> QED  BY <1>1, <1>2 DEF StateKeys

LEMMA EditIsQuiet ==
    ASSUME MirrorInv, NEW c, NEW e, Edit(c, e)
    PROVE  Quiet
  BY MutationIsQuiet DEF MirrorInv, Edit, Quiet

LEMMA ProvisionalIsQuiet ==
    ASSUME MirrorInv, NEW c, Provisional(c)
    PROVE  Quiet
  BY EditIsQuiet DEF Provisional, AssignOwner, AdvanceStatus, AddAction, SetReason,
     ApplyRecommendation, UpdateCollected, UpdateBaseline, UpdateEvidence

\* The governed records other than proofs.
LEMMA RecordsAreQuiet ==
    ASSUME MirrorInv, NEW c,
           \/ \E amount \in Amounts : EstablishBaseline(c, amount) \/ ReviseBaseline(c, amount)
           \/ LockBaseline(c)
           \/ \E source \in Sources : AddEvidence(c, source)
    PROVE  Quiet
  <1> USE DEF StateKeys
  <1>1. ASSUME NEW amount, EstablishBaseline(c, amount)  PROVE Quiet
    BY <1>1, MutationIsQuiet DEF MirrorInv, EstablishBaseline, Quiet
  <1>2. ASSUME NEW amount, ReviseBaseline(c, amount)  PROVE Quiet
    BY <1>2, MutationIsQuiet DEF MirrorInv, ReviseBaseline, Quiet
  <1>3. CASE LockBaseline(c)
    BY <1>3, MutationIsQuiet DEF MirrorInv, LockBaseline, Quiet
  <1>4. ASSUME NEW source, AddEvidence(c, source)  PROVE Quiet
    BY <1>4 DEF MirrorInv, AddEvidence, Quiet
  <1> QED  BY <1>1, <1>2, <1>3, <1>4

\* One step of the page, from the proofs' point of view: the proofs stay, grow
\* at their end, become the rendered ones, or all start again from one source.
ProofsGrow ==
    /\ MirrorInv'
    /\ load' = load => IsPrefix(proofsRef, proofsRef') /\ IsPrefix(shown.proofs, shown'.proofs)

LEMMA QuietGrows ==
    ASSUME MirrorInv, Quiet
    PROVE  ProofsGrow
  BY PrefixIsAnOrder DEF MirrorInv, Quiet, ProofsGrow

LEMMA AppendGrows ==
    ASSUME MirrorInv, shown' = shown, disk' = disk, load' = load,
           next' = [next EXCEPT !.proofs = proofsRef'],
           IsLedger(proofsRef'), IsPrefix(proofsRef, proofsRef'), OneEffective(proofsRef')
    PROVE  ProofsGrow
  <1>1. DOMAIN next' = StateKeys /\ next'.proofs = proofsRef'
    BY DEF MirrorInv, StateKeys
  <1>2. IsPrefix(shown.proofs, proofsRef') /\ IsPrefix(shown.proofs, shown.proofs)
    BY PrefixIsAnOrder DEF MirrorInv
  <1> QED  BY <1>1, <1>2 DEF MirrorInv, ProofsGrow

LEMMA ApprovalGrows ==
    ASSUME MirrorInv, NEW c, NEW amount, ApproveProof(c, amount)
    PROVE  ProofsGrow
  <1>1. PICK b : proofsRef' = AppendApprovedProof(proofsRef, c,
                     ApproveProofForCase(ApprovalContext(c, b, amount, TRUE)))
    BY DEF ApproveProof, LatestProofs
  <1> DEFINE p == ApproveProofForCase(ApprovalContext(c, b, amount, TRUE))
  <1>2. p.case = c /\ "status" \in DOMAIN p
    BY DEF ApproveProofForCase, ApprovalContext
  <1> HIDE DEF p
  <1>3. IsLedger(proofsRef') /\ IsPrefix(proofsRef, proofsRef') /\ OneEffective(proofsRef')
    BY <1>1, <1>2, ApprovalKeepsOne DEF MirrorInv, p
  <1> QED  BY <1>3, AppendGrows DEF ApproveProof

LEMMA ReversalGrows ==
    ASSUME MirrorInv, NEW i, ReverseProof(i)
    PROVE  ProofsGrow
  <1>1. \E chain, id : proofsRef' = AppendReversal(proofsRef, chain, id, Approver)
    BY DEF ReverseProof, LatestProofs
  <1>2. IsLedger(proofsRef') /\ IsPrefix(proofsRef, proofsRef') /\ OneEffective(proofsRef')
    BY <1>1, ReversalKeepsOne DEF MirrorInv
  <1> QED  BY <1>2, AppendGrows DEF ReverseProof

\* A render, with both of its effects.
LEMMA CommitGrows ==
    ASSUME MirrorInv, Commit
    PROVE  ProofsGrow
  <1>1. shown' = next /\ next' = next /\ proofsRef' = proofsRef /\ load' = load
    BY DEF Commit, MirrorInv
  <1>2. disk' = disk \/ disk' = WithTrust(disk, next)
    BY DEF Commit, Save
  <1>3. DOMAIN disk' = StateKeys /\ disk'.proofs \in {disk.proofs, proofsRef}
    BY <1>2 DEF WithTrust, MirrorInv, StateKeys
  <1> QED  BY <1>1, <1>3, PrefixIsAnOrder DEF MirrorInv, ProofsGrow

LEMMA StepGrows ==
    ASSUME MirrorInv, [Next]_vars
    PROVE  ProofsGrow
  <1>1. CASE UNCHANGED vars
    BY <1>1, QuietGrows DEF vars, Quiet
  <1>2. ASSUME NEW c \in Cases, Provisional(c)  PROVE ProofsGrow
    BY <1>2, ProvisionalIsQuiet, QuietGrows
  <1>3. ASSUME NEW c \in Governable, Governed(c)  PROVE ProofsGrow
    BY <1>3, RecordsAreQuiet, QuietGrows, ApprovalGrows DEF Governed
  <1>4. ASSUME NEW i \in DOMAIN shown.proofs, ReverseProof(i)  PROVE ProofsGrow
    BY <1>4, ReversalGrows
  <1>5. CASE ResetData
    <2>1. DOMAIN Seeded = StateKeys
      BY DEF Seeded, StateKeys
    <2>2. IsPrefix(Seeded.proofs, Seeded.proofs)
      BY SeedIsLedger, PrefixIsAnOrder
    <2> QED  BY <1>5, <2>1, <2>2, SeedIsLedger DEF ResetData, MirrorInv, ProofsGrow
  <1>6. CASE Commit
    BY <1>6, CommitGrows
  <1>7. CASE Reload
    <2>1. IsPrefix(disk.proofs, disk.proofs)
      BY PrefixIsAnOrder DEF MirrorInv
    <2> QED  BY <1>7, <2>1 DEF Reload, MirrorInv, ProofsGrow
  <1> QED  BY <1>1, <1>2, <1>3, <1>4, <1>5, <1>6, <1>7 DEF Next, CaseWork

LEMMA MirrorHolds == Spec => []MirrorInv
<1>1. Init => MirrorInv
  <2> SUFFICES ASSUME Init  PROVE MirrorInv
    OBVIOUS
  <2>1. DOMAIN Seeded = StateKeys
    BY DEF Seeded, StateKeys
  <2>2. IsPrefix(Seeded.proofs, Seeded.proofs)
    BY SeedIsLedger, PrefixIsAnOrder
  <2> QED  BY <2>1, <2>2, SeedIsLedger DEF Init, MirrorInv
<1>2. MirrorInv /\ [Next]_vars => MirrorInv'
  BY StepGrows DEF ProofsGrow
<1> QED  BY <1>1, <1>2, PTL DEF Spec

\* Wherever proofs are kept, a case has one chain that counts: the second call of
\* a tick looks at the mirror, which is never older than what is queued
\* (appendApprovedProof, RecoveryContext.tsx:476-490).
THEOREM RecoveredOnce == Spec => []OneEffectiveRecovery
<1>1. MirrorInv => OneEffectiveRecovery
  BY DEF MirrorInv, OneEffectiveRecovery, OneEffective, Ledgers
<1> QED  BY <1>1, MirrorHolds, PTL

\* No handler and no effect takes back an acknowledged proof before the page is
\* reset or loaded again (proofsRef, RecoveryContext.tsx).
THEOREM AcknowledgedStays == Spec => AcknowledgedProofsKept
<1>1. MirrorInv /\ [Next]_vars =>
         [load' = load => /\ IsPrefix(proofsRef, proofsRef')
                          /\ IsPrefix(shown.proofs, shown'.proofs)]_vars
  BY StepGrows DEF ProofsGrow
<1> QED  BY <1>1, MirrorHolds, PTL DEF Spec, AcknowledgedProofsKept

-----------------------------------------------------------------------------
(* Locked baselines.                                                       *)

\* The records of a state can be told apart by their ids, none of which is one
\* that is still to be handed out.
Recorded(s) ==
    /\ DOMAIN s = StateKeys /\ DOMAIN s.cases = Cases
    /\ \A c \in Cases : "baseline" \in DOMAIN s.cases[c]
    /\ \A b \in s.baselines : "id" \in DOMAIN b
    /\ \A a, b \in s.baselines : a.id = b.id => a = b
    /\ \A b \in s.baselines, c \in Cases, n \in Nat : b.id = <<"BL", c, n>> => n <= seq

\* What the render shows locked is still queued, with the baseline of its case.
Frozen(before, after) ==
    /\ \A b \in before.baselines : IsLocked(b) => b \in after.baselines
    /\ \A c \in Cases : LockedBaselineExists(before, c) =>
          after.cases[c].baseline = before.cases[c].baseline

FrozenInv ==
    /\ seq \in Nat /\ load \in Nat
    /\ Recorded(shown) /\ Recorded(next) /\ Recorded(disk)
    /\ Frozen(shown, next)

\* A write of the case c in a state with the baselines of that state.
LEMMA MutationKeepsRecords ==
    ASSUME FrozenInv, shown' = shown, load' = load, seq' \in {seq, seq + 1},
           NEW state, DOMAIN state = StateKeys, state.cases = next.cases,
           \A b \in shown.baselines : IsLocked(b) => b \in state.baselines,
           \A b \in state.baselines : "id" \in DOMAIN b,
           \A a, b \in state.baselines : a.id = b.id => a = b,
           \A b \in state.baselines, d \in Cases, n \in Nat : b.id = <<"BL", d, n>> => n <= seq',
           NEW c \in Cases, NEW e, "baseline" \in DOMAIN e,
           LockedBaselineExists(shown, c) => e.baseline = shown.cases[c].baseline,
           MutateWith(state, c, e)
    PROVE  FrozenInv'
  <1>1. next' = [state EXCEPT !.cases = [state.cases EXCEPT ![c] = Rescored(e)]]
    BY DEF MutateWith
  <1>2. /\ DOMAIN next' = StateKeys
        /\ next'.baselines = state.baselines
        /\ next'.cases = [next.cases EXCEPT ![c] = Rescored(e)]
    BY <1>1 DEF StateKeys
  <1>3. "baseline" \in DOMAIN Rescored(e) /\ Rescored(e).baseline = e.baseline
    BY DEF Rescored
  <1>4. DOMAIN next.cases = Cases
    BY DEF FrozenInv, Recorded
  <1>5. /\ DOMAIN next'.cases = Cases
        /\ \A d \in Cases : d # c => next'.cases[d] = next.cases[d]
        /\ next'.cases[c] = Rescored(e)
    BY <1>2, <1>4
  <1>6. \A d \in Cases : "baseline" \in DOMAIN next'.cases[d]
    BY <1>3, <1>5 DEF FrozenInv, Recorded
  <1>7. Recorded(next)'
    BY <1>2, <1>5, <1>6 DEF Recorded
  <1>8. seq \in Nat /\ seq' \in Nat /\ seq <= seq'
    BY DEF FrozenInv
  <1>9. Recorded(shown)'
    BY <1>8 DEF FrozenInv, Recorded
  <1>10. Recorded(disk)'
    <2>1. disk' = disk \/ disk' = [disk EXCEPT !.cases = next'.cases]
      BY DEF MutateWith, Save
    <2>2. /\ DOMAIN disk' = StateKeys /\ disk'.baselines = disk.baselines
          /\ disk'.cases \in {disk.cases, next'.cases}
      BY <2>1 DEF FrozenInv, Recorded, StateKeys
    <2> QED  BY <2>2, <1>5, <1>6, <1>8 DEF FrozenInv, Recorded
  <1>11. Frozen(shown, next)'
    BY <1>2, <1>3, <1>5 DEF FrozenInv, Frozen, LockedBaselineExists, BaselinesOf
  <1> QED  BY <1>7, <1>8, <1>9, <1>10, <1>11 DEF FrozenInv

\* A provisional field other than a locked baseline.
LEMMA EditKeepsRecords ==
    ASSUME FrozenInv, NEW c \in Cases, NEW e, Edit(c, e), "baseline" \in DOMAIN e,
           LockedBaselineExists(shown, c) => e.baseline = next.cases[c].baseline
    PROVE  FrozenInv'
  <1>1. shown' = shown /\ load' = load /\ seq' = seq /\ MutateWith(next, c, e)
    BY DEF Edit
  <1>2. LockedBaselineExists(shown, c) => e.baseline = shown.cases[c].baseline
    BY DEF FrozenInv, Frozen
  <1>3. /\ DOMAIN next = StateKeys
        /\ \A b \in shown.baselines : IsLocked(b) => b \in next.baselines
        /\ \A b \in next.baselines : "id" \in DOMAIN b
        /\ \A a, b \in next.baselines : a.id = b.id => a = b
        /\ \A b \in next.baselines, d \in Cases, n \in Nat : b.id = <<"BL", d, n>> => n <= seq
    BY DEF FrozenInv, Frozen, Recorded
  <1> QED  BY <1>1, <1>2, <1>3, MutationKeepsRecords

\* StampIntervention and the edits of a case leave its baseline alone.
LEMMA ProvisionalKeepsRecords ==
    ASSUME FrozenInv, NEW c \in Cases, Provisional(c)
    PROVE  FrozenInv'
  <1> DEFINE e == next.cases[c]
  <1>1. "baseline" \in DOMAIN e
    BY DEF FrozenInv, Recorded
  <1> HIDE DEF e
  <1>2. ASSUME NEW owner, AssignOwner(c, owner)  PROVE FrozenInv'
    BY <1>1, <1>2, EditKeepsRecords DEF AssignOwner, e
  <1>3. ASSUME NEW status, AdvanceStatus(c, status)  PROVE FrozenInv'
    BY <1>1, <1>3, EditKeepsRecords DEF AdvanceStatus, e
  <1>4. CASE AddAction(c)
    BY <1>1, <1>4, EditKeepsRecords DEF AddAction, StampIntervention, e
  <1>5. ASSUME NEW reason, SetReason(c, reason)  PROVE FrozenInv'
    BY <1>1, <1>5, EditKeepsRecords DEF SetReason, e
  <1>6. CASE ApplyRecommendation(c)
    BY <1>1, <1>6, EditKeepsRecords DEF ApplyRecommendation, StampIntervention, e
  <1>7. ASSUME NEW amount, UpdateCollected(c, amount)  PROVE FrozenInv'
    BY <1>1, <1>7, EditKeepsRecords DEF UpdateCollected, e
  <1>8. ASSUME NEW amount, UpdateBaseline(c, amount)  PROVE FrozenInv'
    BY <1>1, <1>8, EditKeepsRecords DEF UpdateBaseline, e
  <1>9. ASSUME NEW class, UpdateEvidence(c, class)  PROVE FrozenInv'
    BY <1>1, <1>9, EditKeepsRecords DEF UpdateEvidence, e
  <1> QED  BY <1>2, <1>3, <1>4, <1>5, <1>6, <1>7, <1>8, <1>9 DEF Provisional

\* A new baseline has an id of its own and takes the place of none.
LEMMA NewBaselineKeepsRecords ==
    ASSUME FrozenInv, NEW c \in Cases, NEW b, "id" \in DOMAIN b, b.id = MkId("BL", c),
           Fresh, shown' = shown, load' = load,
           MutateWith([next EXCEPT !.baselines = @ \cup {b}], c,
                      [next.cases[c] EXCEPT !.baselineId = b.id])
    PROVE  FrozenInv'
  <1> DEFINE state == [next EXCEPT !.baselines = @ \cup {b}]
             e == [next.cases[c] EXCEPT !.baselineId = b.id]
  <1>1. DOMAIN next = StateKeys /\ "baseline" \in DOMAIN next.cases[c] /\ seq \in Nat
    BY DEF FrozenInv, Recorded
  <1>2. /\ DOMAIN state = StateKeys /\ state.cases = next.cases
        /\ state.baselines = next.baselines \cup {b}
    BY <1>1 DEF StateKeys
  <1>3. "baseline" \in DOMAIN e /\ e.baseline = next.cases[c].baseline
    BY <1>1
  <1>4. MutateWith(state, c, e)
    OBVIOUS
  <1> HIDE DEF state, e
  <1>5. seq' = seq + 1 /\ b.id = <<"BL", c, seq + 1>>
    BY DEF Fresh, MkId
  <1>6. \A a \in next.baselines : a.id # b.id
    BY <1>1, <1>5 DEF FrozenInv, Recorded
  <1>7. \A a \in state.baselines, d \in Cases, n \in Nat : a.id = <<"BL", d, n>> => n <= seq'
    BY <1>1, <1>2, <1>5 DEF FrozenInv, Recorded
  <1>8. /\ \A a \in shown.baselines : IsLocked(a) => a \in state.baselines
        /\ \A a \in state.baselines : "id" \in DOMAIN a
        /\ \A a1, a2 \in state.baselines : a1.id = a2.id => a1 = a2
    BY <1>2, <1>6 DEF FrozenInv, Frozen, Recorded
  <1>9. LockedBaselineExists(shown, c) => e.baseline = shown.cases[c].baseline
    BY <1>3 DEF FrozenInv, Frozen
  <1> QED  BY <1>2, <1>3, <1>4, <1>5, <1>7, <1>8, <1>9, MutationKeepsRecords

\* Locking replaces the record it read, which no render showed locked.
LEMMA LockKeepsRecords ==
    ASSUME FrozenInv, NEW c \in Cases, LockBaseline(c)
    PROVE  FrozenInv'
  <1>1. PICK current \in BaselinesOf(shown, c) :
           /\ ~IsLocked(current)
           /\ LET locked == LockBaselineObj(current, clock)
                  kept == {b \in next.baselines : b.id # locked.id}
              IN  MutateWith([next EXCEPT !.baselines = kept \cup {locked}], c, next.cases[c])
    BY DEF LockBaseline
  <1> DEFINE locked == LockBaselineObj(current, clock)
             kept == {b \in next.baselines : b.id # locked.id}
             state == [next EXCEPT !.baselines = kept \cup {locked}]
  <1>2. current \in shown.baselines /\ "id" \in DOMAIN current
    BY DEF BaselinesOf, FrozenInv, Recorded
  <1>3. "id" \in DOMAIN locked /\ locked.id = current.id
    BY <1>1, <1>2 DEF LockBaselineObj
  <1>4. MutateWith(state, c, next.cases[c])
    BY <1>1
  <1> HIDE DEF locked
  <1>5. /\ DOMAIN state = StateKeys /\ state.cases = next.cases
        /\ state.baselines = kept \cup {locked}
    BY DEF FrozenInv, Recorded, StateKeys
  <1> HIDE DEF state
  <1>6. \A b \in shown.baselines : IsLocked(b) => b \in kept
    BY <1>1, <1>2, <1>3 DEF FrozenInv, Frozen, Recorded
  <1>7. \A d \in Cases, n \in Nat : locked.id = <<"BL", d, n>> => n <= seq
    BY <1>2, <1>3 DEF FrozenInv, Recorded
  <1>8. /\ \A b \in shown.baselines : IsLocked(b) => b \in state.baselines
        /\ \A b \in state.baselines : "id" \in DOMAIN b
        /\ \A a, b \in state.baselines : a.id = b.id => a = b
        /\ \A b \in state.baselines, d \in Cases, n \in Nat : b.id = <<"BL", d, n>> => n <= seq
    BY <1>3, <1>5, <1>6, <1>7 DEF FrozenInv, Recorded
  <1>9. /\ "baseline" \in DOMAIN next.cases[c]
        /\ LockedBaselineExists(shown, c) => next.cases[c].baseline = shown.cases[c].baseline
    BY DEF FrozenInv, Frozen, Recorded
  <1>10. shown' = shown /\ load' = load /\ seq' = seq
    BY DEF LockBaseline
  <1> QED  BY <1>4, <1>5, <1>8, <1>9, <1>10, MutationKeepsRecords

\* Evidence, approvals and reversals touch neither cases nor baselines.
LEMMA OtherKeepsRecords ==
    ASSUME FrozenInv, shown' = shown, disk' = disk, load' = load, Fresh,
           DOMAIN next' = StateKeys, next'.cases = next.cases, next'.baselines = next.baselines
    PROVE  FrozenInv'
  <1>1. seq' = seq + 1 /\ seq \in Nat
    BY DEF Fresh, FrozenInv
  <1> QED  BY <1>1 DEF FrozenInv, Recorded, Frozen

LEMMA GovernedKeepsRecords ==
    ASSUME FrozenInv, NEW c \in Cases, Governed(c)
    PROVE  FrozenInv'
  <1>1. ASSUME NEW amount, EstablishBaseline(c, amount)  PROVE FrozenInv'
    <2> DEFINE b == MakeBaseline(MkId("BL", c), amount, clock)
    <2>1. "id" \in DOMAIN b /\ b.id = MkId("BL", c)
      BY DEF MakeBaseline
    <2> QED  BY <1>1, <2>1, NewBaselineKeepsRecords DEF EstablishBaseline
  <1>2. ASSUME NEW amount, ReviseBaseline(c, amount)  PROVE FrozenInv'
    <2>1. PICK current : LET b == ReviseBaselineObj(current, MkId("BL", c), amount, clock)
                         IN  MutateWith([next EXCEPT !.baselines = @ \cup {b}], c,
                                        [next.cases[c] EXCEPT !.baselineId = b.id])
      BY <1>2 DEF ReviseBaseline
    <2> DEFINE b == ReviseBaselineObj(current, MkId("BL", c), amount, clock)
    <2>2. "id" \in DOMAIN b /\ b.id = MkId("BL", c)
      BY DEF ReviseBaselineObj
    <2> QED  BY <1>2, <2>1, <2>2, NewBaselineKeepsRecords DEF ReviseBaseline
  <1>3. ASSUME NEW amount, ApproveProof(c, amount)  PROVE FrozenInv'
    <2>1. DOMAIN next' = StateKeys /\ next'.cases = next.cases /\ next'.baselines = next.baselines
      BY <1>3 DEF ApproveProof, FrozenInv, Recorded, StateKeys
    <2> QED  BY <1>3, <2>1, OtherKeepsRecords DEF ApproveProof
  <1>4. ASSUME NEW source, AddEvidence(c, source)  PROVE FrozenInv'
    <2>1. DOMAIN next' = StateKeys /\ next'.cases = next.cases /\ next'.baselines = next.baselines
      BY <1>4 DEF AddEvidence, FrozenInv, Recorded, StateKeys
    <2> QED  BY <1>4, <2>1, OtherKeepsRecords DEF AddEvidence
  <1> QED  BY <1>1, <1>2, <1>3, <1>4, LockKeepsRecords DEF Governed

LEMMA SeedIsRecorded ==
    ASSUME seq \in Nat
    PROVE  Recorded(Seeded) /\ Frozen(Seeded, Seeded)
  <1> DEFINE seeds == SeedsOf(Cases)
  <1>1. Seeded.baselines = {SeedBaseline(seeds[i]) : i \in DOMAIN seeds}
    BY DEF Seeded, SeedTrust
  <1> HIDE DEF seeds
  <1>2. ASSUME NEW s  PROVE "id" \in DOMAIN SeedBaseline(s) /\ SeedBaseline(s).id = <<"BL", s.case>>
    BY DEF SeedBaseline, LockBaselineObj, MakeBaseline
  <1>3. \A b \in Seeded.baselines : "id" \in DOMAIN b /\ \E x : b.id = <<"BL", x>>
    BY <1>1, <1>2
  <1>4. \A x, c, n : <<"BL", x>> # <<"BL", c, n>>
    OBVIOUS
  <1>5. \A b \in Seeded.baselines, c \in Cases, n \in Nat : b.id # <<"BL", c, n>>
    BY <1>3, <1>4
  <1>6. \A c \in Cases : "baseline" \in DOMAIN Seeded.cases[c]
    <2>1. \A stage, leak, reason, owner, status, risk, baseline, collected, confidence, n :
            "baseline" \in DOMAIN SeedCase(stage, leak, reason, owner, status, risk, baseline,
                                          collected, confidence, n)
      BY DEF SeedCase
    <2>2. \A c \in DOMAIN SeedEvents : \E stage, leak, reason, owner, status, risk, baseline, collected,
                                         confidence, n :
            SeedEvents[c] = SeedCase(stage, leak, reason, owner, status, risk, baseline,
                                     collected, confidence, n)
      BY DEF SeedEvents
    <2> QED  BY <2>1, <2>2 DEF Seeded
  <1>7. DOMAIN Seeded = StateKeys /\ DOMAIN Seeded.cases = Cases
    BY DEF Seeded, StateKeys
  <1> QED  BY <1>3, <1>5, <1>6, <1>7, SeedAssumption DEF SeedAssumption, Recorded, Frozen

LEMMA StepKeepsRecords ==
    ASSUME FrozenInv, [Next]_vars
    PROVE  FrozenInv'
  <1>1. CASE UNCHANGED vars
    BY <1>1 DEF vars, FrozenInv, Recorded, Frozen, LockedBaselineExists, BaselinesOf
  <1>2. ASSUME NEW c \in Cases, Provisional(c)  PROVE FrozenInv'
    BY <1>2, ProvisionalKeepsRecords
  <1>3. ASSUME NEW c \in Governable, Governed(c)  PROVE FrozenInv'
    BY <1>3, GovernedKeepsRecords
  <1>4. ASSUME NEW i \in DOMAIN shown.proofs, ReverseProof(i)  PROVE FrozenInv'
    <2>1. DOMAIN next' = StateKeys /\ next'.cases = next.cases /\ next'.baselines = next.baselines
      BY <1>4 DEF ReverseProof, FrozenInv, Recorded, StateKeys
    <2> QED  BY <1>4, <2>1, OtherKeepsRecords DEF ReverseProof
  <1>5. CASE ResetData
    BY <1>5, SeedIsRecorded DEF ResetData, FrozenInv, Recorded, Frozen
  <1>6. CASE Commit
    <2>1. /\ shown' = next /\ next' = next /\ seq' = seq /\ load' = load
          /\ disk' = disk \/ disk' = WithTrust(disk, next)
      BY <1>6 DEF Commit, Save
    <2>2. /\ DOMAIN disk' = StateKeys /\ disk'.cases = disk.cases
          /\ disk'.baselines \in {disk.baselines, next.baselines}
      BY <2>1 DEF WithTrust, FrozenInv, Recorded, StateKeys
    <2>3. Recorded(disk)'
      BY <2>1, <2>2 DEF FrozenInv, Recorded
    <2> QED  BY <2>1, <2>3 DEF FrozenInv, Recorded, Frozen
  <1>7. CASE Reload
    BY <1>7 DEF Reload, FrozenInv, Recorded, Frozen
  <1> QED  BY <1>1, <1>2, <1>3, <1>4, <1>5, <1>6, <1>7 DEF Next, CaseWork

LEMMA FrozenHolds == Spec => []FrozenInv
<1>1. Init => FrozenInv
  BY SeedIsRecorded DEF Init, FrozenInv, Recorded, Frozen
<1>2. FrozenInv /\ [Next]_vars => FrozenInv'
  BY StepKeepsRecords
<1> QED  BY <1>1, <1>2, PTL DEF Spec

\* What a render has shown locked no handler of that render or of a later one
\* replaces: a baseline's id is its own, and locking reads an unlocked record
\* (lockBaseline, reviseBaseline and updateAmounts, RecoveryContext.tsx).
THEOREM LockStands == Spec => LockedBaselinesFrozen
<1>1. FrozenInv /\ [Next]_vars =>
         [load' = load =>
            /\ \A b \in shown.baselines : IsLocked(b) => b \in shown'.baselines
            /\ \A c \in Cases : LockedBaselineExists(shown, c) =>
                  shown'.cases[c].baseline = shown.cases[c].baseline]_vars
  <2> SUFFICES ASSUME FrozenInv, Next, load' = load
               PROVE  \/ shown' = shown
                      \/ shown' = next
    BY DEF FrozenInv, Frozen
  <2>1. load \in Nat
    BY DEF FrozenInv
  <2>2. ~ResetData /\ ~Reload
    BY <2>1 DEF ResetData, Reload
  <2> QED  BY <2>2 DEF Next, CaseWork, Provisional, Governed, Commit, Edit, AssignOwner,
           AdvanceStatus, AddAction, SetReason, ApplyRecommendation, UpdateCollected,
           UpdateBaseline, UpdateEvidence, EstablishBaseline, ReviseBaseline, LockBaseline,
           AddEvidence, ApproveProof, ReverseProof
<1> QED  BY <1>1, FrozenHolds, PTL DEF Spec, LockedBaselinesFrozen
-----------------------------------------------------------------------------
(* What proofs rest on.  An approval reads the rendered records, and what  *)
(* it is given is of use only because no handler that has run since then,  *)
(* no render and no reload takes any of them away.                         *)

StampKeys == {"interventionAt", "outcomeAt"}

\* What an approval writes into a proof and a reversal leaves as it is.
Lasting == {"case", "baselineId", "baseline", "refs", "confidence", "threshold"}

ProofsOf(s) == {s.proofs[i] : i \in DOMAIN s.proofs}

\* In a state s the cases have their times, what is locked was locked by now,
\* and evidence counts as independent only from a source that is.
Filed(s) ==
    /\ DOMAIN s.evidence = Cases
    /\ \A c \in Cases : StampKeys \subseteq DOMAIN s.cases[c]
    /\ \A b \in s.baselines :
          /\ "lockedAt" \in DOMAIN b
          /\ IsLocked(b) => b.lockedAt \in Int /\ b.lockedAt <= clock
    /\ \A c \in Cases : \A ev \in s.evidence[c] : ev.independent => ev.source # "manual"

\* The records that a proof p names are those of a state s.
Grounded(s, p) ==
    /\ \E b \in s.baselines : b.id = p.baselineId /\ IsLocked(b) /\ b.amount = p.baseline
    /\ p.refs \subseteq {ev.id : ev \in s.evidence[p.case]}
    /\ p.confidence >= p.threshold =>
         \E ev \in s.evidence[p.case] : ev.id \in p.refs /\ ev.source # "manual"

\* No baseline of s that p names was locked after the case e began or ended.
Timely(s, p, e) ==
    \A b \in s.baselines : b.id = p.baselineId =>
        NotAfter(b.lockedAt, e.interventionAt) /\ NotAfter(b.lockedAt, e.outcomeAt)

\* A time is set once: the queued state has that of the render or is setting it
\* now, and the disk has none that the page does not have.
StampsAgree ==
    \A c \in Cases, k \in StampKeys :
       /\ IF shown.cases[c][k] = None THEN next.cases[c][k] \in {None, clock}
          ELSE next.cases[c][k] = shown.cases[c][k]
       /\ disk.cases[c][k] \in {None, next.cases[c][k]}

\* A proof of the page rests on rendered records, and on the same queued ones.
QueuedRest ==
    \A p \in ProofsOf(next) :
       /\ p.case \in Cases /\ Lasting \subseteq DOMAIN p
       /\ Grounded(shown, p) /\ Grounded(next, p)
       /\ Timely(shown, p, next.cases[p.case])

\* The disk keeps proofs of the page only, with their records.
StoredRest ==
    \A p \in ProofsOf(disk) :
       /\ p \in ProofsOf(next) /\ Grounded(disk, p)
       /\ \A b \in disk.baselines : b.id = p.baselineId => b \in next.baselines

RestInv ==
    /\ clock \in Nat
    /\ Filed(shown) /\ Filed(next) /\ Filed(disk)
    /\ StampsAgree
    /\ \A c \in Cases : shown.evidence[c] \subseteq next.evidence[c]
    /\ QueuedRest /\ StoredRest

\* What a proof of the page names is one record, locked, the same in the render
\* and in the queue.
LEMMA NamedBaseline ==
    ASSUME FrozenInv, NEW p, Grounded(shown, p)
    PROVE  \E b \in shown.baselines :
              /\ b.id = p.baselineId /\ IsLocked(b) /\ b.amount = p.baseline
              /\ b \in next.baselines
              /\ \A a \in shown.baselines \cup next.baselines : a.id = p.baselineId => a = b
  <1>1. PICK b \in shown.baselines : b.id = p.baselineId /\ IsLocked(b) /\ b.amount = p.baseline
    BY DEF Grounded
  <1>2. b \in next.baselines
    BY <1>1 DEF FrozenInv, Frozen
  <1>3. \A a \in shown.baselines \cup next.baselines : a.id = p.baselineId => a = b
    BY <1>1, <1>2 DEF FrozenInv, Recorded
  <1> QED  BY <1>1, <1>2, <1>3

\* More evidence and other baselines, with the locked ones among them, ground
\* whatever was grounded.
LEMMA StaysGrounded ==
    ASSUME NEW s, NEW t, NEW p, Grounded(s, p),
           \A b \in s.baselines : IsLocked(b) => b \in t.baselines,
           s.evidence[p.case] \subseteq t.evidence[p.case]
    PROVE  Grounded(t, p)
  BY DEF Grounded

\* The invariant is what the property needs.
LEMMA RestsOnRecords ==
    ASSUME MirrorInv, FrozenInv, RestInv
    PROVE  ProofsRestOnRecords
  <1>1. ASSUME NEW p \in ProofsOf(next)
        PROVE  /\ ProofRestsOnRecords(shown, p) /\ ProofRestsOnRecords(next, p)
               /\ p \in ProofsOf(disk) => ProofRestsOnRecords(disk, p)
    <2>0. /\ p.case \in Cases /\ Grounded(shown, p) /\ Grounded(next, p)
          /\ Timely(shown, p, next.cases[p.case])
      BY <1>1 DEF RestInv, QueuedRest
    <2>1. PICK b \in shown.baselines :
              /\ b.id = p.baselineId /\ IsLocked(b) /\ b.amount = p.baseline
              /\ b \in next.baselines
              /\ \A a \in shown.baselines \cup next.baselines : a.id = p.baselineId => a = b
      BY <2>0, NamedBaseline
    <2> DEFINE e == next.cases[p.case]
    <2>2. NotAfter(b.lockedAt, e.interventionAt) /\ NotAfter(b.lockedAt, e.outcomeAt)
      BY <2>0, <2>1 DEF Timely
    <2>3. ASSUME NEW f, f.interventionAt \in {None, e.interventionAt},
                 f.outcomeAt \in {None, e.outcomeAt}
          PROVE  NotAfter(b.lockedAt, f.interventionAt) /\ NotAfter(b.lockedAt, f.outcomeAt)
      BY <2>2, <2>3 DEF NotAfter
    <2>4. /\ shown.cases[p.case].interventionAt \in {None, e.interventionAt}
          /\ shown.cases[p.case].outcomeAt \in {None, e.outcomeAt}
          /\ disk.cases[p.case].interventionAt \in {None, e.interventionAt}
          /\ disk.cases[p.case].outcomeAt \in {None, e.outcomeAt}
      BY <2>0 DEF RestInv, StampsAgree, StampKeys
    <2>5. ProofRestsOnRecords(shown, p)
      BY <2>0, <2>1, <2>3, <2>4 DEF ProofRestsOnRecords, Grounded
    <2>6. ProofRestsOnRecords(next, p)
      BY <2>0, <2>1, <2>3 DEF ProofRestsOnRecords, Grounded
    <2>7. ASSUME p \in ProofsOf(disk)  PROVE ProofRestsOnRecords(disk, p)
      <3>1. Grounded(disk, p) /\ \A a \in disk.baselines : a.id = p.baselineId => a = b
        BY <2>1, <2>7 DEF RestInv, StoredRest
      <3> QED  BY <2>3, <2>4, <3>1 DEF ProofRestsOnRecords, Grounded
    <2> QED  BY <2>5, <2>6, <2>7
  <1>2. ProofsOf(disk) \subseteq ProofsOf(next)
    BY DEF RestInv, StoredRest
  <1>3. \A i \in DOMAIN shown.proofs : shown.proofs[i] \in ProofsOf(next)
    <2>1. /\ Len(shown.proofs) \in Nat /\ DOMAIN shown.proofs = 1 .. Len(shown.proofs)
          /\ Len(proofsRef) \in Nat /\ DOMAIN proofsRef = 1 .. Len(proofsRef)
      BY DEF MirrorInv, IsLedger
    <2>2. Len(shown.proofs) <= Len(proofsRef)
          /\ \A i \in 1 .. Len(shown.proofs) : shown.proofs[i] = proofsRef[i]
      BY PrefixIsPointwise DEF MirrorInv
    <2> QED  BY <2>1, <2>2 DEF MirrorInv, ProofsOf
  <1> QED  BY <1>1, <1>2, <1>3 DEF ProofsRestOnRecords, ProofsOf

\* A handler: the render stands, the queue gains records and may set a time, and
\* of the disk only the cases change.
HandlerWrites ==
    /\ shown' = shown /\ clock' = clock
    /\ \A c \in Cases, k \in StampKeys :
          /\ k \in DOMAIN next'.cases[c]
          /\ \/ next'.cases[c][k] = next.cases[c][k]
             \/ next.cases[c][k] = None /\ next'.cases[c][k] = clock
    /\ \A b \in next'.baselines :
          \/ b \in next.baselines
          \/ "lockedAt" \in DOMAIN b /\ (IsLocked(b) => b.lockedAt = clock)
    /\ DOMAIN next'.evidence = Cases
    /\ \A c \in Cases :
          /\ next.evidence[c] \subseteq next'.evidence[c]
          /\ \A ev \in next'.evidence[c] :
                ev \in next.evidence[c] \/ (ev.independent => ev.source # "manual")
    /\ ProofsOf(next) \subseteq ProofsOf(next)'
    /\ \A p \in ProofsOf(next)' :
          \/ p \in ProofsOf(next)
          \/ /\ p.case \in Cases /\ Lasting \subseteq DOMAIN p
             /\ Grounded(shown, p) /\ Timely(shown, p, next.cases[p.case])
    /\ disk'.evidence = disk.evidence /\ disk'.baselines = disk.baselines
    /\ disk'.proofs = disk.proofs /\ disk'.cases \in {disk.cases, next'.cases}

LEMMA HandlerKeepsRest ==
    ASSUME FrozenInv, FrozenInv', RestInv, HandlerWrites
    PROVE  RestInv'
  <1> USE DEF HandlerWrites
  <1>1. clock \in Nat /\ Filed(shown) /\ Filed(next) /\ Filed(disk)
    BY DEF RestInv
  <1>2. Filed(shown)'
    BY <1>1 DEF Filed
  <1>3. Filed(next)'
    <2>1. \A c \in Cases : StampKeys \subseteq DOMAIN next'.cases[c]
      BY DEF StampKeys
    <2>2. \A b \in next'.baselines :
             "lockedAt" \in DOMAIN b /\ (IsLocked(b) => b.lockedAt \in Int /\ b.lockedAt <= clock)
      BY <1>1 DEF Filed
    <2>3. \A c \in Cases : \A ev \in next'.evidence[c] : ev.independent => ev.source # "manual"
      BY <1>1 DEF Filed
    <2> QED  BY <2>1, <2>2, <2>3 DEF Filed
  <1>4. Filed(disk)'
    <2>1. \A c \in Cases : StampKeys \subseteq DOMAIN disk'.cases[c]
      BY <1>1 DEF StampKeys, Filed
    <2> QED  BY <1>1, <2>1 DEF Filed
  <1>5. StampsAgree'
    <2> SUFFICES ASSUME NEW c \in Cases, NEW k \in StampKeys
                 PROVE  /\ IF shown.cases[c][k] = None THEN next'.cases[c][k] \in {None, clock}
                           ELSE next'.cases[c][k] = shown.cases[c][k]
                        /\ disk'.cases[c][k] \in {None, next'.cases[c][k]}
      BY DEF StampsAgree
    <2>1. /\ IF shown.cases[c][k] = None THEN next.cases[c][k] \in {None, clock}
             ELSE next.cases[c][k] = shown.cases[c][k]
          /\ disk.cases[c][k] \in {None, next.cases[c][k]}
      BY DEF RestInv, StampsAgree
    <2> QED  BY <2>1
  <1>6. \A c \in Cases : shown'.evidence[c] \subseteq next'.evidence[c]
    BY DEF RestInv
  <1>7. \A b \in shown.baselines : IsLocked(b) => b \in next'.baselines
    BY DEF FrozenInv, Frozen
  <1>8. ASSUME NEW p \in ProofsOf(next)'
        PROVE  /\ p.case \in Cases /\ Lasting \subseteq DOMAIN p
               /\ Grounded(shown, p) /\ Timely(shown, p, next.cases[p.case])
    BY <1>8 DEF RestInv, QueuedRest
  <1>9. ASSUME NEW p \in ProofsOf(next)'
        PROVE  Grounded(next', p) /\ Timely(shown, p, next'.cases[p.case])
    <2>1. Grounded(next', p)
      BY <1>6, <1>7, <1>8, StaysGrounded
    <2>2. PICK b \in shown.baselines :
             /\ b.id = p.baselineId /\ IsLocked(b)
             /\ \A a \in shown.baselines : a.id = p.baselineId => a = b
      BY <1>8, NamedBaseline
    <2>3. b.lockedAt <= clock
      BY <1>1, <2>2 DEF Filed
    <2>4. \A k \in StampKeys : \/ next'.cases[p.case][k] = next.cases[p.case][k]
                               \/ next'.cases[p.case][k] = clock
      BY <1>8
    <2>5. NotAfter(b.lockedAt, next'.cases[p.case].interventionAt)
          /\ NotAfter(b.lockedAt, next'.cases[p.case].outcomeAt)
      BY <1>8, <2>2, <2>3, <2>4 DEF Timely, NotAfter, StampKeys
    <2>6. Timely(shown, p, next'.cases[p.case])
      BY <2>2, <2>5 DEF Timely
    <2> QED  BY <2>1, <2>6
  <1>10. QueuedRest'
    BY <1>8, <1>9 DEF QueuedRest, Grounded, Timely
  <1>11. StoredRest'
    <2> SUFFICES ASSUME NEW p \in ProofsOf(disk)'
                 PROVE  /\ p \in ProofsOf(next)' /\ Grounded(disk, p)'
                        /\ \A b \in disk'.baselines : b.id = p.baselineId => b \in next'.baselines
      BY DEF StoredRest
    <2>1. /\ p \in ProofsOf(next) /\ Grounded(disk, p)
          /\ \A b \in disk.baselines : b.id = p.baselineId => b \in next.baselines
      BY DEF ProofsOf, RestInv, StoredRest
    <2>2. Grounded(disk, p)'
      BY <2>1 DEF Grounded
    <2>3. PICK b \in shown.baselines :
             /\ IsLocked(b)
             /\ \A a \in next.baselines : a.id = p.baselineId => a = b
      BY <2>1, NamedBaseline DEF RestInv, QueuedRest
    <2> QED  BY <1>7, <2>1, <2>2, <2>3
  <1> QED  BY <1>1, <1>2, <1>3, <1>4, <1>5, <1>6, <1>10, <1>11 DEF RestInv

\* setEvents: the case c is written as e, at most one of whose times is new.
LEMMA MutationWrites ==
    ASSUME FrozenInv, RestInv, shown' = shown, clock' = clock,
           NEW state, DOMAIN state = StateKeys, state.cases = next.cases,
           state.evidence = next.evidence, state.proofs = next.proofs,
           \A b \in state.baselines :
              \/ b \in next.baselines
              \/ "lockedAt" \in DOMAIN b /\ (IsLocked(b) => b.lockedAt = clock),
           NEW c \in Cases, NEW e,
           \A k \in StampKeys :
              /\ k \in DOMAIN e
              /\ e[k] = next.cases[c][k] \/ (next.cases[c][k] = None /\ e[k] = clock),
           MutateWith(state, c, e)
    PROVE  HandlerWrites
  <1>1. /\ next' = [state EXCEPT !.cases = [state.cases EXCEPT ![c] = Rescored(e)]]
        /\ disk' = disk \/ disk' = [disk EXCEPT !.cases = next'.cases]
    BY DEF MutateWith, Save
  <1>2. /\ next'.cases = [next.cases EXCEPT ![c] = Rescored(e)]
        /\ next'.baselines = state.baselines
        /\ next'.evidence = next.evidence /\ next'.proofs = next.proofs
    BY <1>1 DEF StateKeys
  <1>3. /\ disk'.cases \in {disk.cases, next'.cases}
        /\ disk'.evidence = disk.evidence /\ disk'.baselines = disk.baselines
        /\ disk'.proofs = disk.proofs
    BY <1>1 DEF FrozenInv, Recorded, StateKeys
  <1>4. \A k \in StampKeys : k \in DOMAIN Rescored(e) /\ Rescored(e)[k] = e[k]
    BY DEF Rescored, StampKeys
  <1>5. DOMAIN next.cases = Cases
    BY DEF FrozenInv, Recorded
  <1>6. ASSUME NEW d \in Cases, NEW k \in StampKeys
        PROVE  /\ k \in DOMAIN next'.cases[d]
               /\ \/ next'.cases[d][k] = next.cases[d][k]
                  \/ next.cases[d][k] = None /\ next'.cases[d][k] = clock
    <2>1. CASE d = c
      BY <1>2, <1>4, <1>5, <2>1
    <2>2. CASE d # c
      BY <1>2, <1>5, <2>2 DEF RestInv, Filed
    <2> QED  BY <2>1, <2>2
  <1>7. ProofsOf(next)' = ProofsOf(next)
    BY <1>2 DEF ProofsOf
  <1>8. DOMAIN next.evidence = Cases
    BY DEF RestInv, Filed
  <1> QED  BY <1>2, <1>3, <1>6, <1>7, <1>8 DEF HandlerWrites

LEMMA EditWrites ==
    ASSUME FrozenInv, RestInv, NEW c \in Cases, NEW e, Edit(c, e),
           \A k \in StampKeys :
              /\ k \in DOMAIN e
              /\ e[k] = next.cases[c][k] \/ (next.cases[c][k] = None /\ e[k] = clock)
    PROVE  HandlerWrites
  <1>1. shown' = shown /\ clock' = clock /\ MutateWith(next, c, e)
    BY DEF Edit
  <1>2. DOMAIN next = StateKeys
    BY DEF FrozenInv, Recorded
  <1> QED  BY <1>1, <1>2, MutationWrites

\* A provisional field, with the first action or the outcome stamped now.
LEMMA ProvisionalWrites ==
    ASSUME FrozenInv, RestInv, NEW c \in Cases, Provisional(c)
    PROVE  HandlerWrites
  <1> DEFINE x == next.cases[c]
             Stamped(e) == \A k \in StampKeys :
                              /\ k \in DOMAIN e
                              /\ e[k] = x[k] \/ (x[k] = None /\ e[k] = clock)
  <1>1. StampKeys \subseteq DOMAIN x
    BY DEF RestInv, Filed
  <1>2. ASSUME NEW e, Edit(c, e), Stamped(e)  PROVE HandlerWrites
    BY <1>2, EditWrites
  <1> HIDE DEF x
  <1> USE DEF StampKeys
  <1>3. ASSUME NEW owner, AssignOwner(c, owner)  PROVE HandlerWrites
    <2> DEFINE e == [x EXCEPT !.owner = owner,
                              !.status = IF @ \in {"Detected", "Queued"} THEN "Assigned" ELSE @]
    <2>1. Stamped(e)
      BY <1>1
    <2> QED  BY <1>2, <1>3, <2>1 DEF AssignOwner, x
  <1>4. ASSUME NEW status, AdvanceStatus(c, status)  PROVE HandlerWrites
    <2> DEFINE e == [x EXCEPT !.status = status,
                              !.outcomeAt = IF status = "Recovered" /\ @ = None THEN clock ELSE @]
    <2>1. Stamped(e)
      BY <1>1
    <2> QED  BY <1>2, <1>4, <2>1 DEF AdvanceStatus, x
  <1>5. ASSUME NEW y, StampKeys \subseteq DOMAIN y, \A k \in StampKeys : y[k] = x[k]
        PROVE  Stamped(StampIntervention(y))
    BY <1>5 DEF StampIntervention
  <1>6. CASE AddAction(c)
    <2> DEFINE y == [x EXCEPT !.actions = Append(@, "own")]
    <2>1. Stamped(StampIntervention(y))
      BY <1>1, <1>5
    <2> QED  BY <1>2, <1>6, <2>1 DEF AddAction, x
  <1>7. ASSUME NEW reason, SetReason(c, reason)  PROVE HandlerWrites
    <2>1. Stamped([x EXCEPT !.reason = reason])
      BY <1>1
    <2> QED  BY <1>2, <1>7, <2>1 DEF SetReason, x
  <1>8. CASE ApplyRecommendation(c)
    <2> DEFINE y == [x EXCEPT !.reason = PLAYBOOK[x.leak].reason, !.actions = @ \o NewActions(x)]
    <2>1. Stamped(StampIntervention(y))
      BY <1>1, <1>5
    <2> QED  BY <1>2, <1>8, <2>1 DEF ApplyRecommendation, x
  <1>9. ASSUME NEW amount, UpdateCollected(c, amount)  PROVE HandlerWrites
    <2>1. Stamped([x EXCEPT !.collected = amount])
      BY <1>1
    <2> QED  BY <1>2, <1>9, <2>1 DEF UpdateCollected, x
  <1>10. ASSUME NEW amount, UpdateBaseline(c, amount)  PROVE HandlerWrites
    <2>1. Stamped([x EXCEPT !.baseline = amount])
      BY <1>1
    <2> QED  BY <1>2, <1>10, <2>1 DEF UpdateBaseline, x
  <1>11. ASSUME NEW class, UpdateEvidence(c, class)  PROVE HandlerWrites
    <2>1. Stamped([x EXCEPT !.notes = class])
      BY <1>1
    <2> QED  BY <1>2, <1>11, <2>1 DEF UpdateEvidence, x
  <1> QED  BY <1>3, <1>4, <1>6, <1>7, <1>8, <1>9, <1>10, <1>11 DEF Provisional

\* Establishing, locking and revising a baseline write it and link the case to it.
LEMMA BaselineWrites ==
    ASSUME FrozenInv, RestInv, NEW c \in Cases,
           \/ \E amount \in Amounts : EstablishBaseline(c, amount) \/ ReviseBaseline(c, amount)
           \/ LockBaseline(c)
    PROVE  HandlerWrites
  <1> DEFINE With(set) == [next EXCEPT !.baselines = set]
             New(b) == "lockedAt" \in DOMAIN b /\ (IsLocked(b) => b.lockedAt = clock)
             Linked(b) == [next.cases[c] EXCEPT !.baselineId = b.id]
  <1>0. DOMAIN next = StateKeys /\ StampKeys \subseteq DOMAIN next.cases[c]
    BY DEF FrozenInv, Recorded, RestInv, Filed
  <1>1. ASSUME NEW set, \A b \in set : b \in next.baselines \/ New(b),
               NEW e, \A k \in StampKeys : k \in DOMAIN e /\ e[k] = next.cases[c][k],
               shown' = shown, clock' = clock, MutateWith(With(set), c, e)
        PROVE  HandlerWrites
    <2>1. /\ DOMAIN With(set) = StateKeys /\ With(set).cases = next.cases
          /\ With(set).evidence = next.evidence /\ With(set).proofs = next.proofs
          /\ With(set).baselines = set
      BY <1>0 DEF StateKeys
    <2> HIDE DEF With
    <2> QED  BY <1>1, <2>1, MutationWrites
  <1>2. ASSUME NEW b  PROVE \A k \in StampKeys : k \in DOMAIN Linked(b)
                                                 /\ Linked(b)[k] = next.cases[c][k]
    BY <1>0 DEF StampKeys
  <1>3. ASSUME NEW amount, EstablishBaseline(c, amount)  PROVE HandlerWrites
    <2> DEFINE b == MakeBaseline(MkId("BL", c), amount, clock)
    <2>1. New(b)
      BY DEF MakeBaseline, IsLocked
    <2>2. /\ shown' = shown /\ clock' = clock
          /\ MutateWith(With(next.baselines \cup {b}), c, Linked(b))
      BY <1>3 DEF EstablishBaseline
    <2> HIDE DEF b, New, With, Linked
    <2> QED  BY <1>1, <1>2, <2>1, <2>2
  <1>4. ASSUME NEW amount, ReviseBaseline(c, amount)  PROVE HandlerWrites
    <2>1. PICK current : LET b == ReviseBaselineObj(current, MkId("BL", c), amount, clock)
                         IN  MutateWith([next EXCEPT !.baselines = @ \cup {b}], c,
                                        [next.cases[c] EXCEPT !.baselineId = b.id])
      BY <1>4 DEF ReviseBaseline
    <2> DEFINE b == ReviseBaselineObj(current, MkId("BL", c), amount, clock)
    <2>2. New(b)
      BY DEF ReviseBaselineObj, IsLocked
    <2>3. /\ shown' = shown /\ clock' = clock
          /\ MutateWith(With(next.baselines \cup {b}), c, Linked(b))
      BY <1>4, <2>1 DEF ReviseBaseline
    <2> HIDE DEF b, New, With, Linked
    <2> QED  BY <1>1, <1>2, <2>2, <2>3
  <1>5. CASE LockBaseline(c)
    <2>1. PICK current \in shown.baselines :
             /\ ~IsLocked(current)
             /\ LET locked == LockBaselineObj(current, clock)
                    kept == {b \in next.baselines : b.id # locked.id}
                IN  MutateWith([next EXCEPT !.baselines = kept \cup {locked}], c, next.cases[c])
      BY <1>5 DEF LockBaseline, BaselinesOf
    <2> DEFINE locked == LockBaselineObj(current, clock)
               kept == {b \in next.baselines : b.id # locked.id}
    <2>2. New(locked)
      BY <2>1 DEF LockBaselineObj, RestInv, Filed
    <2>3. /\ shown' = shown /\ clock' = clock
          /\ MutateWith(With(kept \cup {locked}), c, next.cases[c])
      BY <1>5, <2>1 DEF LockBaseline
    <2>4. \A b \in kept : b \in next.baselines
      OBVIOUS
    <2>5. \A k \in StampKeys : k \in DOMAIN next.cases[c]
      BY <1>0
    <2> HIDE DEF kept, locked, New, With
    <2> QED  BY <1>1, <2>2, <2>3, <2>4, <2>5
  <1> QED  BY <1>3, <1>4, <1>5

\* A handler that leaves cases and baselines alone.
LEMMA OtherWrites ==
    ASSUME FrozenInv, RestInv, shown' = shown, clock' = clock, disk' = disk,
           next'.cases = next.cases, next'.baselines = next.baselines,
           DOMAIN next'.evidence = Cases,
           \A c \in Cases :
              /\ next.evidence[c] \subseteq next'.evidence[c]
              /\ \A ev \in next'.evidence[c] :
                    ev \in next.evidence[c] \/ (ev.independent => ev.source # "manual"),
           ProofsOf(next) \subseteq ProofsOf(next)',
           \A p \in ProofsOf(next)' :
              \/ p \in ProofsOf(next)
              \/ /\ p.case \in Cases /\ Lasting \subseteq DOMAIN p
                 /\ Grounded(shown, p) /\ Timely(shown, p, next.cases[p.case])
    PROVE  HandlerWrites
  <1>1. \A c \in Cases, k \in StampKeys : k \in DOMAIN next.cases[c]
    BY DEF RestInv, Filed
  <1> QED  BY <1>1 DEF HandlerWrites

LEMMA EvidenceWrites ==
    ASSUME FrozenInv, RestInv, NEW c \in Cases, NEW source, AddEvidence(c, source)
    PROVE  HandlerWrites
  <1> DEFINE ev == MakeEvidence(MkId("EV", c), source, source # "manual")
  <1>1. next' = [next EXCEPT !.evidence = [next.evidence EXCEPT ![c] = @ \cup {ev}]]
    BY DEF AddEvidence
  <1>2. shown' = shown /\ clock' = clock /\ disk' = disk
    BY DEF AddEvidence
  <1>3. ev.independent => ev.source # "manual"
    BY DEF MakeEvidence, IndependentSources
  <1> HIDE DEF ev
  <1>4. /\ next'.cases = next.cases /\ next'.baselines = next.baselines
        /\ next'.proofs = next.proofs
        /\ next'.evidence = [next.evidence EXCEPT ![c] = @ \cup {ev}]
    BY <1>1 DEF FrozenInv, Recorded, StateKeys
  <1>5. DOMAIN next.evidence = Cases
    BY DEF RestInv, Filed
  <1>6. /\ DOMAIN next'.evidence = Cases
        /\ \A d \in Cases :
              /\ next.evidence[d] \subseteq next'.evidence[d]
              /\ \A x \in next'.evidence[d] : x \in next.evidence[d] \/ x = ev
    BY <1>4, <1>5
  <1>7. ProofsOf(next)' = ProofsOf(next)
    BY <1>4 DEF ProofsOf
  <1> QED  BY <1>2, <1>3, <1>4, <1>6, <1>7, OtherWrites

\* The ledger grows at its end by at most p.
LEMMA AddedProof ==
    ASSUME NEW all, IsLedger(all), NEW p, "status" \in DOMAIN p, NEW new,
           new = all \/ new = Append(all, p)
    PROVE  /\ {all[i] : i \in DOMAIN all} \subseteq {new[i] : i \in DOMAIN new}
           /\ \A q \in {new[i] : i \in DOMAIN new} : q = p \/ q \in {all[i] : i \in DOMAIN all}
  <1>1. CASE new = all
    BY <1>1
  <1>2. CASE new = Append(all, p)
    <2>1. /\ DOMAIN new = DOMAIN all \cup {Len(all) + 1}
          /\ \A i \in DOMAIN all : new[i] = all[i]
          /\ new[Len(all) + 1] = p
      BY <1>2, AppendToLedger
    <2> QED  BY <2>1
  <1> QED  BY <1>1, <1>2

\* A proof is added to the queue, which rests on what is rendered.
LEMMA ProofWrites ==
    ASSUME MirrorInv, FrozenInv, RestInv, shown' = shown, clock' = clock, disk' = disk,
           next' = [next EXCEPT !.proofs = proofsRef'],
           NEW p, "status" \in DOMAIN p,
           proofsRef' = proofsRef \/ proofsRef' = Append(proofsRef, p),
           p.case \in Cases, Lasting \subseteq DOMAIN p,
           Grounded(shown, p), Timely(shown, p, next.cases[p.case])
    PROVE  HandlerWrites
  <1>1. /\ next'.cases = next.cases /\ next'.baselines = next.baselines
        /\ next'.evidence = next.evidence /\ next'.proofs = proofsRef'
        /\ next.proofs = proofsRef /\ IsLedger(proofsRef)
    BY DEF MirrorInv, StateKeys
  <1>2. /\ ProofsOf(next) \subseteq ProofsOf(next)'
        /\ \A q \in ProofsOf(next)' : q = p \/ q \in ProofsOf(next)
    BY <1>1, AddedProof, SMTT(30) DEF ProofsOf
  <1>3. DOMAIN next.evidence = Cases
    BY DEF RestInv, Filed
  <1> QED  BY <1>1, <1>2, <1>3, OtherWrites

\* The gate reads the render; what is queued may have set a time since then, but
\* only now.
LEMMA ApprovalWrites ==
    ASSUME MirrorInv, FrozenInv, RestInv, NEW c \in Cases, NEW amount, ApproveProof(c, amount)
    PROVE  HandlerWrites
  <1>1. PICK b \in BaselinesOf(shown, c) :
           LET ctx == ApprovalContext(c, b, amount, TRUE)
           IN  /\ IsLocked(b)
               /\ ValidateApproval(ctx)
               /\ proofsRef' = AppendApprovedProof(proofsRef, c, ApproveProofForCase(ctx))
    BY DEF ApproveProof, LatestProofs
  <1> DEFINE ctx == ApprovalContext(c, b, amount, TRUE)
             p == ApproveProofForCase(ctx)
             e == shown.cases[c]
             f == next.cases[c]
  <1>2. /\ b \in shown.baselines /\ IsLocked(b) /\ ValidateApproval(ctx)
        /\ proofsRef' = AppendApprovedProof(proofsRef, c, p)
    BY <1>1 DEF BaselinesOf
  <1>3. /\ ctx.baseline = b /\ ctx.evidence = shown.evidence[c] /\ ctx.case = c
        /\ ctx.interventionAt = e.interventionAt /\ ctx.outcomeAt = e.outcomeAt
    BY DEF ApprovalContext
  <1>4. /\ p.case = c /\ p.baselineId = b.id /\ p.baseline = b.amount
        /\ p.refs = {ev.id : ev \in shown.evidence[c]}
        /\ p.confidence = ctx.confidence /\ p.threshold = Threshold
        /\ "status" \in DOMAIN p /\ Lasting \subseteq DOMAIN p
    BY <1>3 DEF ApproveProofForCase, Lasting
  <1> HIDE DEF p, ctx
  <1>5. Grounded(shown, p)
    <2>1. ASSUME p.confidence >= p.threshold
          PROVE  \E ev \in shown.evidence[c] : ev.id \in p.refs /\ ev.source # "manual"
      <3>1. HasIndependentEvidence(shown.evidence[c])
        BY <1>2, <1>3, <1>4, <2>1 DEF ValidateApproval
      <3> QED  BY <1>4, <3>1 DEF HasIndependentEvidence, RestInv, Filed
    <2> QED  BY <1>2, <1>4, <2>1 DEF Grounded
  <1>6. Timely(shown, p, f)
    <2>1. NotAfter(b.lockedAt, e.interventionAt) /\ NotAfter(b.lockedAt, e.outcomeAt)
      BY <1>2, <1>3 DEF ValidateApproval, BaselineTemporallyValid
    <2>2. b.lockedAt <= clock
      BY <1>2 DEF RestInv, Filed
    <2>3. /\ IF e.interventionAt = None THEN f.interventionAt \in {None, clock}
             ELSE f.interventionAt = e.interventionAt
          /\ IF e.outcomeAt = None THEN f.outcomeAt \in {None, clock}
             ELSE f.outcomeAt = e.outcomeAt
      BY DEF RestInv, StampsAgree, StampKeys
    <2>4. NotAfter(b.lockedAt, f.interventionAt) /\ NotAfter(b.lockedAt, f.outcomeAt)
      BY <2>1, <2>2, <2>3 DEF NotAfter
    <2>5. \A a \in shown.baselines : a.id = p.baselineId => a = b
      BY <1>2, <1>4 DEF FrozenInv, Recorded
    <2> QED  BY <2>4, <2>5 DEF Timely
  <1>7. proofsRef' = proofsRef \/ proofsRef' = Append(proofsRef, p)
    BY <1>2 DEF AppendApprovedProof
  <1>8. shown' = shown /\ clock' = clock /\ disk' = disk
        /\ next' = [next EXCEPT !.proofs = proofsRef']
    BY DEF ApproveProof
  <1> QED  BY <1>4, <1>5, <1>6, <1>7, <1>8, ProofWrites

\* A reversal keeps what the proof that it reverses rests on.
LEMMA ReversalWrites ==
    ASSUME MirrorInv, FrozenInv, RestInv, NEW i, ReverseProof(i)
    PROVE  HandlerWrites
  <1> DEFINE chain == shown.proofs[i].chain
             id == MkId("REV", chain)
             latest == {p \in EffectiveProofs(proofsRef) : p.chain = chain /\ IsEffectiveRecovery(p)}
             last == CHOOSE p \in latest : TRUE
             r == ReverseProofForCase(last, id, Approver)
  <1>1. /\ proofsRef' = AppendReversal(proofsRef, chain, id, Approver)
        /\ next' = [next EXCEPT !.proofs = proofsRef']
        /\ shown' = shown /\ clock' = clock /\ disk' = disk
    BY DEF ReverseProof, LatestProofs
  <1>2. proofsRef' = IF latest = {} THEN proofsRef ELSE Append(proofsRef, r)
    BY <1>1 DEF AppendReversal
  <1>3. CASE latest = {}
    <2>1. next'.proofs = next.proofs /\ next'.cases = next.cases
          /\ next'.baselines = next.baselines /\ next'.evidence = next.evidence
      BY <1>1, <1>2, <1>3 DEF MirrorInv, StateKeys
    <2>2. DOMAIN next.evidence = Cases
      BY DEF RestInv, Filed
    <2> HIDE DEF latest
    <2> QED  BY <1>1, <2>1, <2>2, OtherWrites DEF ProofsOf
  <1>4. CASE latest # {}
    <2>1. last \in latest
      BY <1>4
    <2> HIDE DEF last
    <2>2. last \in ProofsOf(next)
      BY <2>1 DEF EffectiveProofs, EffectivePositions, ProofsOf, MirrorInv
    <2>3. "status" \in DOMAIN last
      BY <2>1 DEF EffectiveProofs, EffectivePositions, MirrorInv, IsLedger
    <2>4. /\ last.case \in Cases /\ Lasting \subseteq DOMAIN last
          /\ Grounded(shown, last) /\ Timely(shown, last, next.cases[last.case])
      BY <2>2 DEF RestInv, QueuedRest
    <2>5. DOMAIN r = DOMAIN last /\ \A k \in Lasting : r[k] = last[k]
      BY <2>4 DEF ReverseProofForCase, Lasting
    <2> HIDE DEF r, latest
    <2>6. /\ r.case = last.case /\ r.baselineId = last.baselineId /\ r.baseline = last.baseline
          /\ r.refs = last.refs /\ r.confidence = last.confidence /\ r.threshold = last.threshold
      BY <2>5 DEF Lasting
    <2>7. Grounded(shown, r) /\ Timely(shown, r, next.cases[r.case])
      BY <2>4, <2>6 DEF Grounded, Timely
    <2> QED  BY <1>1, <1>2, <1>4, <2>3, <2>4, <2>5, <2>6, <2>7, ProofWrites
  <1> QED  BY <1>3, <1>4

\* All of the page is one state s, without times, whose proofs rest on it.
SelfRests(s) ==
    /\ Filed(s)
    /\ \A c \in Cases, k \in StampKeys : s.cases[c][k] = None
    /\ \A p \in ProofsOf(s) : p.case \in Cases /\ Lasting \subseteq DOMAIN p /\ Grounded(s, p)

\* What a seed gives its case: a locked baseline, evidence, and their proof.
LEMMA SeedRecords ==
    ASSUME NEW s, ValidateApproval(SeedContext(s))
    PROVE  LET b == SeedBaseline(s)
               p == ApproveProofForCase(SeedContext(s))
           IN  /\ "lockedAt" \in DOMAIN b /\ IsLocked(b) /\ b.lockedAt = RegisteredAt
               /\ p.case = s.case /\ p.baselineId = b.id /\ p.baseline = b.amount
               /\ p.refs = {ev.id : ev \in SeedEvidence(s)}
               /\ Lasting \subseteq DOMAIN p
               /\ \A ev \in SeedEvidence(s) : ev.independent => ev.source # "manual"
               /\ p.confidence >= p.threshold => \E ev \in SeedEvidence(s) : ev.independent
  <1> DEFINE b == SeedBaseline(s)
             ctx == SeedContext(s)
             p == ApproveProofForCase(ctx)
  <1>1. ctx.baseline = b /\ ctx.evidence = SeedEvidence(s) /\ ctx.case = s.case
    BY DEF SeedContext
  <1>2. "lockedAt" \in DOMAIN b /\ (IsLocked(b) => b.lockedAt = RegisteredAt)
    BY DEF SeedBaseline, LockBaselineObj, MakeBaseline, IsLocked
  <1>3. \A ev \in SeedEvidence(s) : ev.independent => ev.source # "manual"
    <2>1. ASSUME NEW id, NEW source, NEW claimed
          PROVE  LET ev == MakeEvidence(id, source, claimed)
                 IN  ev.independent => ev.source # "manual"
      BY DEF MakeEvidence, IndependentSources
    <2>2. \A ev \in SeedEvidence(s) : \E id, source, claimed : ev = MakeEvidence(id, source, claimed)
      BY DEF SeedEvidence
    <2> QED  BY <2>1, <2>2
  <1> HIDE DEF b, ctx
  <1>4. /\ p.case = s.case /\ p.baselineId = b.id /\ p.baseline = b.amount
        /\ p.refs = {ev.id : ev \in SeedEvidence(s)}
        /\ p.confidence = ctx.confidence /\ p.threshold = Threshold
        /\ Lasting \subseteq DOMAIN p
    BY <1>1 DEF ApproveProofForCase, Lasting
  <1>5. /\ IsLocked(b)
        /\ ctx.confidence >= Threshold => \E ev \in SeedEvidence(s) : ev.independent
    BY <1>1 DEF ctx, ValidateApproval, BaselineTemporallyValid, HasIndependentEvidence
  <1> HIDE DEF p
  <1> QED  BY <1>2, <1>3, <1>4, <1>5 DEF b, ctx, p

LEMMA SeedRests ==
    ASSUME clock \in Nat
    PROVE  SelfRests(Seeded)
  <1> DEFINE seeds == SeedsOf(Cases)
             Evidence(c) == UNION {SeedEvidence(seeds[i]) : i \in {j \in DOMAIN seeds : seeds[j].case = c}}
  <1>1. /\ Seeded.baselines = {SeedBaseline(seeds[i]) : i \in DOMAIN seeds}
        /\ Seeded.proofs = [i \in DOMAIN seeds |-> ApproveProofForCase(SeedContext(seeds[i]))]
        /\ Seeded.evidence = [c \in Cases |-> Evidence(c)]
    BY DEF Seeded, SeedTrust
  <1>2. \A i \in DOMAIN seeds : seeds[i].case \in Cases /\ ValidateApproval(SeedContext(seeds[i]))
    BY SeedAssumption DEF SeedAssumption
  <1> HIDE DEF seeds
  <1>3. ASSUME NEW c \in Cases, NEW k \in StampKeys
        PROVE  k \in DOMAIN Seeded.cases[c] /\ Seeded.cases[c][k] = None
    <2>1. \A stage, leak, reason, owner, status, risk, baseline, collected, confidence, n :
             LET e == SeedCase(stage, leak, reason, owner, status, risk, baseline, collected,
                               confidence, n)
             IN  k \in DOMAIN e /\ e[k] = None
      BY DEF SeedCase, StampKeys
    <2>2. \A d \in DOMAIN SeedEvents : \E stage, leak, reason, owner, status, risk, baseline,
                                          collected, confidence, n :
             SeedEvents[d] = SeedCase(stage, leak, reason, owner, status, risk, baseline,
                                      collected, confidence, n)
      BY DEF SeedEvents
    <2>3. Seeded.cases[c] = SeedEvents[c] /\ c \in DOMAIN SeedEvents
      BY DEF Seeded
    <2> QED  BY <2>1, <2>2, <2>3
  <1>4. ASSUME NEW i \in DOMAIN seeds
        PROVE  LET b == SeedBaseline(seeds[i])
                   p == ApproveProofForCase(SeedContext(seeds[i]))
                   c == seeds[i].case
               IN  /\ "lockedAt" \in DOMAIN b /\ IsLocked(b) /\ b.lockedAt = RegisteredAt
                   /\ p.case = c /\ c \in Cases /\ Lasting \subseteq DOMAIN p
                   /\ \A ev \in SeedEvidence(seeds[i]) : ev.independent => ev.source # "manual"
                   /\ Grounded(Seeded, p)
    <2> DEFINE b == SeedBaseline(seeds[i])
               p == ApproveProofForCase(SeedContext(seeds[i]))
               c == seeds[i].case
    <2>1. /\ "lockedAt" \in DOMAIN b /\ IsLocked(b) /\ b.lockedAt = RegisteredAt
          /\ p.case = c /\ p.baselineId = b.id /\ p.baseline = b.amount
          /\ p.refs = {ev.id : ev \in SeedEvidence(seeds[i])}
          /\ Lasting \subseteq DOMAIN p
          /\ \A ev \in SeedEvidence(seeds[i]) : ev.independent => ev.source # "manual"
          /\ p.confidence >= p.threshold => \E ev \in SeedEvidence(seeds[i]) : ev.independent
      BY <1>2, SeedRecords
    <2>2. b \in Seeded.baselines
      BY <1>1
    <2>3. c \in Cases
      BY <1>2
    <2>4. SeedEvidence(seeds[i]) \subseteq Seeded.evidence[c]
      BY <1>1, <2>3
    <2> HIDE DEF b, p
    <2>5. Grounded(Seeded, p)
      BY <2>1, <2>2, <2>4 DEF Grounded
    <2> QED  BY <2>1, <2>3, <2>5 DEF b, p
  <1>5. \A b \in Seeded.baselines :
           "lockedAt" \in DOMAIN b /\ b.lockedAt = RegisteredAt
    BY <1>1, <1>4
  <1>6. \A c \in Cases : \A ev \in Seeded.evidence[c] : ev.independent => ev.source # "manual"
    BY <1>1, <1>4
  <1>7. Filed(Seeded)
    <2>1. RegisteredAt \in Int /\ RegisteredAt <= clock
      BY DEF RegisteredAt
    <2>2. DOMAIN Seeded.evidence = Cases
      BY <1>1
    <2> QED  BY <1>3, <1>5, <1>6, <2>1, <2>2 DEF Filed
  <1>8. \A p \in ProofsOf(Seeded) :
           p.case \in Cases /\ Lasting \subseteq DOMAIN p /\ Grounded(Seeded, p)
    <2>1. \A p \in ProofsOf(Seeded) : \E i \in DOMAIN seeds :
             p = ApproveProofForCase(SeedContext(seeds[i]))
      BY <1>1 DEF ProofsOf
    <2> QED  BY <1>4, <2>1
  <1> QED  BY <1>3, <1>7, <1>8 DEF SelfRests

\* A page that starts from the seed.
LEMMA SeededPageRests ==
    /\ clock \in Nat
    /\ shown = Seeded /\ next = Seeded /\ disk = Seeded
    => RestInv
  <1> SUFFICES ASSUME clock \in Nat,
                      shown = Seeded, next = Seeded, disk = Seeded
               PROVE  RestInv
    OBVIOUS
  <1>1. SelfRests(Seeded)
    BY SeedRests
  <1>2. \A p \in ProofsOf(Seeded) : Timely(Seeded, p, Seeded.cases[p.case])
    BY <1>1 DEF SelfRests, Timely, NotAfter, StampKeys
  <1> QED  BY <1>1, <1>2 DEF SelfRests, RestInv, StampsAgree, QueuedRest, StoredRest

\* A render shows what is queued; the effect that saves it writes records and
\* proofs together.
LEMMA CommitRests ==
    ASSUME MirrorInv, FrozenInv, RestInv, Commit
    PROVE  RestInv'
  <1>1. /\ shown' = next /\ next' = next /\ clock' = clock + 1
        /\ disk' = disk \/ disk' = WithTrust(disk, next)
    BY DEF Commit, Save
  <1>2. /\ disk'.cases = disk.cases
        /\ \/ disk'.baselines = disk.baselines /\ disk'.proofs = disk.proofs
              /\ disk'.evidence = disk.evidence
           \/ disk'.baselines = next.baselines /\ disk'.proofs = next.proofs
              /\ disk'.evidence = next.evidence
    BY <1>1 DEF WithTrust, FrozenInv, Recorded, StateKeys
  <1>3. clock \in Nat /\ Filed(shown) /\ Filed(next) /\ Filed(disk)
    BY DEF RestInv
  <1>4. Filed(shown)' /\ Filed(next)'
    BY <1>1, <1>3 DEF Filed
  <1>5. Filed(disk)'
    BY <1>1, <1>2, <1>3 DEF Filed
  <1>6. StampsAgree'
    BY <1>1, <1>2 DEF RestInv, StampsAgree
  <1>7. ASSUME NEW p \in ProofsOf(next)
        PROVE  /\ p.case \in Cases /\ Lasting \subseteq DOMAIN p /\ Grounded(next, p)
               /\ Timely(next, p, next.cases[p.case])
    <2>1. /\ p.case \in Cases /\ Lasting \subseteq DOMAIN p
          /\ Grounded(shown, p) /\ Grounded(next, p) /\ Timely(shown, p, next.cases[p.case])
      BY <1>7 DEF RestInv, QueuedRest
    <2>2. \A b \in next.baselines : b.id = p.baselineId => b \in shown.baselines
      BY <2>1, NamedBaseline
    <2> QED  BY <2>1, <2>2 DEF Timely
  <1>8. QueuedRest'
    BY <1>1, <1>7 DEF QueuedRest, ProofsOf, Grounded, Timely
  <1>9. StoredRest'
    <2> SUFFICES ASSUME NEW p \in ProofsOf(disk)'
                 PROVE  /\ p \in ProofsOf(next) /\ Grounded(disk', p)
                        /\ \A b \in disk'.baselines : b.id = p.baselineId => b \in next.baselines
      BY <1>1 DEF StoredRest, ProofsOf, Grounded
    <2>1. CASE disk'.baselines = disk.baselines /\ disk'.proofs = disk.proofs
               /\ disk'.evidence = disk.evidence
      <3>1. p \in ProofsOf(disk)
        BY <2>1 DEF ProofsOf
      <3> QED  BY <2>1, <3>1 DEF RestInv, StoredRest, Grounded
    <2>2. CASE disk'.baselines = next.baselines /\ disk'.proofs = next.proofs
               /\ disk'.evidence = next.evidence
      <3>1. p \in ProofsOf(next)
        BY <2>2 DEF ProofsOf
      <3> QED  BY <1>7, <2>2, <3>1 DEF Grounded
    <2> QED  BY <1>2, <2>1, <2>2
  <1>10. \A c \in Cases : shown'.evidence[c] \subseteq next'.evidence[c]
    BY <1>1
  <1> QED  BY <1>1, <1>3, <1>4, <1>5, <1>6, <1>8, <1>9, <1>10 DEF RestInv

\* A load starts from the disk, whose cases may be younger or older than its
\* proofs.
LEMMA ReloadRests ==
    ASSUME MirrorInv, FrozenInv, RestInv, Reload
    PROVE  RestInv'
  <1>1. shown' = disk /\ next' = disk /\ disk' = disk /\ clock' = clock + 1
    BY DEF Reload
  <1>2. clock \in Nat /\ Filed(disk)
    BY DEF RestInv
  <1>3. Filed(shown)' /\ Filed(next)' /\ Filed(disk)'
    BY <1>1, <1>2 DEF Filed
  <1>4. StampsAgree'
    BY <1>1 DEF StampsAgree
  <1>5. ASSUME NEW p \in ProofsOf(disk)
        PROVE  /\ p.case \in Cases /\ Lasting \subseteq DOMAIN p /\ Grounded(disk, p)
               /\ Timely(disk, p, disk.cases[p.case])
    <2>1. /\ p \in ProofsOf(next) /\ Grounded(disk, p)
          /\ \A b \in disk.baselines : b.id = p.baselineId => b \in next.baselines
      BY <1>5 DEF RestInv, StoredRest
    <2>2. /\ p.case \in Cases /\ Lasting \subseteq DOMAIN p /\ Grounded(shown, p)
          /\ Timely(shown, p, next.cases[p.case])
      BY <2>1 DEF RestInv, QueuedRest
    <2>3. \A b \in disk.baselines : b.id = p.baselineId => b \in shown.baselines
      BY <2>1, <2>2, NamedBaseline
    <2>4. /\ disk.cases[p.case].interventionAt \in {None, next.cases[p.case].interventionAt}
          /\ disk.cases[p.case].outcomeAt \in {None, next.cases[p.case].outcomeAt}
      BY <2>2 DEF RestInv, StampsAgree, StampKeys
    <2> QED  BY <2>1, <2>2, <2>3, <2>4 DEF Timely, NotAfter
  <1>6. QueuedRest' /\ StoredRest'
    BY <1>1, <1>5 DEF QueuedRest, StoredRest, ProofsOf, Grounded, Timely
  <1> QED  BY <1>1, <1>2, <1>3, <1>4, <1>6 DEF RestInv

LEMMA StepRests ==
    ASSUME MirrorInv, FrozenInv, FrozenInv', RestInv, [Next]_vars
    PROVE  RestInv'
  <1>1. CASE UNCHANGED vars
    BY <1>1 DEF vars, RestInv, Filed, StampsAgree, QueuedRest, StoredRest, ProofsOf, Grounded, Timely
  <1>2. ASSUME NEW c \in Cases, Provisional(c)  PROVE RestInv'
    BY <1>2, ProvisionalWrites, HandlerKeepsRest
  <1>3. ASSUME NEW c \in Governable, Governed(c)  PROVE RestInv'
    <2>1. c \in Cases
      OBVIOUS
    <2>2. HandlerWrites
      BY <1>3, <2>1, BaselineWrites, EvidenceWrites, ApprovalWrites DEF Governed
    <2> QED  BY <2>2, HandlerKeepsRest
  <1>4. ASSUME NEW i \in DOMAIN shown.proofs, ReverseProof(i)  PROVE RestInv'
    BY <1>4, ReversalWrites, HandlerKeepsRest
  <1>5. CASE ResetData
    <2>1. /\ clock' \in Nat
          /\ shown' = Seeded /\ next' = Seeded /\ disk' = Seeded
      BY <1>5 DEF ResetData, RestInv
    <2>2. (/\ clock \in Nat
           /\ shown = Seeded /\ next = Seeded /\ disk = Seeded
           => RestInv)'
      BY SeededPageRests, PTL
    <2> QED  BY <2>1, <2>2
  <1>6. CASE Commit
    BY <1>6, CommitRests
  <1>7. CASE Reload
    BY <1>7, ReloadRests
  <1> QED  BY <1>1, <1>2, <1>3, <1>4, <1>5, <1>6, <1>7 DEF Next, CaseWork

LEMMA RestHolds == Spec => []RestInv
<1>1. Init => RestInv
  BY SeededPageRests DEF Init
<1>2. MirrorInv /\ FrozenInv /\ FrozenInv' /\ RestInv /\ [Next]_vars => RestInv'
  BY StepRests
<1> QED  BY <1>1, <1>2, MirrorHolds, FrozenHolds, PTL DEF Spec

\* Wherever a proof is kept, on disk too, what it was approved on is kept beside it:
\* its baseline, locked before the first action and the outcome, its evidence, and
\* an independent source where it reaches the threshold (approveProofForCase,
\* baselineTemporallyValid, saveTrust).
THEOREM ProofsKeepTheirRecords == Spec => []ProofsRestOnRecords
<1>1. MirrorInv /\ FrozenInv /\ RestInv => ProofsRestOnRecords
  BY RestsOnRecords
<1> QED  BY <1>1, MirrorHolds, FrozenHolds, RestHolds, PTL

-----------------------------------------------------------------------------
(* Well-formed cases.                                                      *)

HIDE ClientAssumption DEF ClientAssumption

\* The smaller of 15 and a number, and the larger of 0 and a number.
LEMMA BoundsOfTwo ==
    ASSUME NEW n \in Int
    PROVE  /\ Min({15, n}) \in Int /\ Min({15, n}) <= 15 /\ (n >= 0 => Min({15, n}) >= 0)
           /\ Max({0, n}) = IF n > 0 THEN n ELSE 0
  <1>1. PICK m \in {15, n} : \A y \in {15, n} : m <= y
    OBVIOUS
  <1>2. \A x : (x \in {15, n} /\ \A y \in {15, n} : x <= y) <=> x = m
    BY <1>1
  <1>3. Min({15, n}) = m
    BY <1>2 DEF Min
  <1>4. PICK k \in {0, n} : \A y \in {0, n} : k >= y
    OBVIOUS
  <1>5. \A x : (x \in {0, n} /\ \A y \in {0, n} : x >= y) <=> x = k
    BY <1>4
  <1>6. Max({0, n}) = k
    BY <1>5 DEF Max
  <1> QED  BY <1>1, <1>3, <1>4, <1>6

\* A score is a percentage.
LEMMA ScoreIsPercentage ==
    ASSUME NEW e \in CaseState
    PROVE  Confidence(e) \in 0 .. 100
  <1>1. Len(e.actions) \in Nat
    BY LenProperties DEF CaseState
  <1>2. PICK n \in Int : n = 5 * Len(e.actions) /\ n >= 0
    BY <1>1
  <1>3. PICK m : m \in 0 .. 15 /\ m = Min({15, n})
    <2>1. Min({15, n}) \in Int /\ Min({15, n}) <= 15 /\ Min({15, n}) >= 0
      BY <1>2, BoundsOfTwo
    <2> QED  BY <2>1
  <1>4. Confidence(e) = Points(e.reason # None, 30) + Points(Returned(e) > 0, 25)
                        + Points(e.notes = "full", 20) + Points(e.owner # None, 10) + m
    BY <1>2, <1>3 DEF Confidence
  <1>5. /\ Points(e.reason # None, 30) \in {0, 30} /\ Points(Returned(e) > 0, 25) \in {0, 25}
        /\ Points(e.notes = "full", 20) \in {0, 20} /\ Points(e.owner # None, 10) \in {0, 10}
    BY DEF Points
  <1>6. PICK p \in {0, 30}, q \in {0, 25}, u \in {0, 20}, v \in {0, 10} :
            Confidence(e) = p + q + u + v + m
    BY <1>4, <1>5
  <1> QED  BY <1>3, <1>6

\* A case that is scored again is the same, and so is its score.
LEMMA ScoringIsIdempotent ==
    ASSUME NEW e \in CaseState
    PROVE  Rescored(e) \in CaseState /\ Rescored(Rescored(e)) = Rescored(e)
  <1>1. PICK s \in 0 .. 100 : s = Confidence(e)
    BY ScoreIsPercentage
  <1>2. Rescored(e) = [e EXCEPT !.confidence = s]
    BY <1>1 DEF Rescored
  <1>3. Rescored(e) \in CaseState
    <2>1. [e EXCEPT !.confidence = s] \in CaseState
      BY SMTT(30) DEF CaseState
    <2> QED  BY <1>2, <2>1
  <1>4. PICK r : r = [e EXCEPT !.confidence = s]
    OBVIOUS
  <1>5. /\ r.reason = e.reason /\ r.owner = e.owner /\ r.notes = e.notes
        /\ r.actions = e.actions /\ r.collected = e.collected /\ r.baseline = e.baseline
    BY <1>4 DEF CaseState
  <1>6. Confidence(r) = s
    BY <1>1, <1>5 DEF Confidence, Returned
  <1>7. [r EXCEPT !.confidence = s] = r
    BY <1>4
  <1>8. Rescored(r) = r
    BY <1>6, <1>7 DEF Rescored
  <1> QED  BY <1>2, <1>3, <1>4, <1>8

\* What is still to be done of a play is a list of actions.
LEMMA NewActionsAreActions ==
    ASSUME NEW l \in DOMAIN PLAYBOOK, NEW e, e.leak = l
    PROVE  NewActions(e) \in Seq(Actions)
  <1> DEFINE play == PLAYBOOK[e.leak].actions
             New(i) == IF Taken(e, play[i]) THEN <<>> ELSE <<play[i]>>
  <1>1. play[1] \in Actions /\ play[2] \in Actions
    BY DEF Actions
  <1>2. NewActions(e) = New(1) \o New(2)
    BY DEF NewActions
  <1> HIDE DEF play
  <1>3. <<>> \in Seq(Actions) /\ \A x \in Actions : <<x>> \in Seq(Actions)
    OBVIOUS
  <1>4. New(1) \in Seq(Actions) /\ New(2) \in Seq(Actions)
    BY <1>1, <1>3
  <1> HIDE DEF New
  <1>5. New(1) \o New(2) \in Seq(Actions)
    BY <1>4
  <1> QED  BY <1>2, <1>5

\* A play has a reason of the catalogue, and a percentage.
LEMMA PlaysAreKnown ==
    ASSUME NEW l \in DOMAIN PLAYBOOK
    PROVE  PLAYBOOK[l].reason \in RecoveryReasons /\ PLAYBOOK[l].percent \in Nat
  <1> DEFINE Known(x) == PLAYBOOK[x].reason \in RecoveryReasons /\ PLAYBOOK[x].percent \in Nat
  <1>1. DOMAIN PLAYBOOK = {"StalledOnboarding", "ActivationMissed", "NoFirstValue", "LowAdoption",
                           "RenewalAtRisk", "ExpansionStalled"}
    BY DEF PLAYBOOK
  <1>2. Known("StalledOnboarding") /\ Known("ActivationMissed") /\ Known("NoFirstValue")
    BY DEF PLAYBOOK, RecoveryReasons
  <1>3. Known("LowAdoption") /\ Known("RenewalAtRisk") /\ Known("ExpansionStalled")
    BY DEF PLAYBOOK, RecoveryReasons
  <1> HIDE DEF Known
  <1>4. Known(l)
    BY <1>1, <1>2, <1>3
  <1> QED  BY <1>4 DEF Known

\* The actions that a case is seeded with.
LEMMA SeededActions == \A n \in Nat : [i \in 1 .. n |-> "seeded"] \in Seq(Actions)
  <1> SUFFICES ASSUME NEW n \in Nat PROVE [i \in 1 .. n |-> "seeded"] \in Seq(Actions)
    OBVIOUS
  <1>1. "seeded" \in Actions
    BY DEF Actions
  <1>2. [i \in 1 .. n |-> "seeded"] \in [1 .. n -> Actions]
    BY <1>1
  <1> QED  BY <1>2, SeqDef

\* The seeded cases are well formed.
LEMMA SeedsAreCases == \A c \in Cases : SeedEvents[c] \in CaseState
  <1>0. /\ "Onboarding" \in FunnelStages /\ "Activation" \in FunnelStages /\ "FirstValue" \in FunnelStages
        /\ "Renewal" \in FunnelStages /\ "Expansion" \in FunnelStages
        /\ "RenewalAtRisk" \in DOMAIN PLAYBOOK /\ "ActivationMissed" \in DOMAIN PLAYBOOK
        /\ "StalledOnboarding" \in DOMAIN PLAYBOOK /\ "ExpansionStalled" \in DOMAIN PLAYBOOK
        /\ "LowAdoption" \in DOMAIN PLAYBOOK /\ "NoFirstValue" \in DOMAIN PLAYBOOK
        /\ "RenewalOutreach" \in RecoveryReasons /\ "MilestoneNudge" \in RecoveryReasons
        /\ "OnboardingReboot" \in RecoveryReasons /\ "ExecBusinessReview" \in RecoveryReasons
        /\ "CSMOutreach" \in RecoveryReasons /\ "EnablementSession" \in RecoveryReasons
        /\ "UsageActivation" \in RecoveryReasons
        /\ "Recovered" \in Statuses /\ "Detected" \in Statuses /\ "Assigned" \in Statuses
        /\ "InProgress" \in Statuses /\ "Queued" \in Statuses /\ "Failed" \in Statuses
        /\ "Dismissed" \in Statuses /\ "full" \in NoteClasses
    BY DEF FunnelStages, PLAYBOOK, RecoveryReasons, Statuses, OpenStatuses, NoteClasses
  <1>1. SeedEvents.RE1001 \in CaseState
    <2>1. SeedEvents.RE1001 =
            SeedCase("Renewal", "RenewalAtRisk", "RenewalOutreach", Dana, "Recovered", 24000, 4800, 24000, 94, 2)
      BY DEF SeedEvents
    <2> QED  BY <1>0, <2>1, SeededActions DEF SeedCase, CaseState
  <1>2. SeedEvents.RE1002 \in CaseState
    <2>1. SeedEvents.RE1002 =
            SeedCase("Activation", "ActivationMissed", "MilestoneNudge", Priya, "Recovered", 9600, 1900, 9600, 88, 2)
      BY DEF SeedEvents
    <2> QED  BY <1>0, <2>1, SeededActions DEF SeedCase, CaseState
  <1>3. SeedEvents.RE1003 \in CaseState
    <2>1. SeedEvents.RE1003 =
            SeedCase("Onboarding", "StalledOnboarding", "OnboardingReboot", Marcus, "Recovered", 15000, 0, 15000, 91, 2)
      BY DEF SeedEvents
    <2> QED  BY <1>0, <2>1, SeededActions DEF SeedCase, CaseState
  <1>4. SeedEvents.RE1004 \in CaseState
    <2>1. SeedEvents.RE1004 =
            SeedCase("Expansion", "ExpansionStalled", "ExecBusinessReview", Dana, "Recovered", 18000, 6000, 16500, 83, 2)
      BY DEF SeedEvents
    <2> QED  BY <1>0, <2>1, SeededActions DEF SeedCase, CaseState
  <1>5. SeedEvents.RE1005 \in CaseState
    <2>1. SeedEvents.RE1005 =
            SeedCase("Onboarding", "LowAdoption", "CSMOutreach", Priya, "Recovered", 7200, 3600, 7200, 58, 1)
      BY DEF SeedEvents
    <2> QED  BY <1>0, <2>1, SeededActions DEF SeedCase, CaseState
  <1>6. SeedEvents.RE1006 \in CaseState
    <2>1. SeedEvents.RE1006 =
            SeedCase("FirstValue", "NoFirstValue", None, None, "Recovered", 4300, 0, 4300, 35, 0)
      BY DEF SeedEvents
    <2> QED  BY <1>0, <2>1, SeededActions DEF SeedCase, CaseState
  <1>7. SeedEvents.RE1007 \in CaseState
    <2>1. SeedEvents.RE1007 =
            SeedCase("Activation", "ActivationMissed", "MilestoneNudge", None, "Detected", 31000, 6200, 0, 20, 0)
      BY DEF SeedEvents
    <2> QED  BY <1>0, <2>1, SeededActions DEF SeedCase, CaseState
  <1>8. SeedEvents.RE1008 \in CaseState
    <2>1. SeedEvents.RE1008 =
            SeedCase("Activation", "ActivationMissed", None, Marcus, "Assigned", 12500, 2500, 0, 30, 1)
      BY DEF SeedEvents
    <2> QED  BY <1>0, <2>1, SeededActions DEF SeedCase, CaseState
  <1>9. SeedEvents.RE1009 \in CaseState
    <2>1. SeedEvents.RE1009 =
            SeedCase("Onboarding", "StalledOnboarding", "OnboardingReboot", Priya, "InProgress", 8800, 0, 0, 45, 2)
      BY DEF SeedEvents
    <2> QED  BY <1>0, <2>1, SeededActions DEF SeedCase, CaseState
  <1>10. SeedEvents.RE1010 \in CaseState
    <2>1. SeedEvents.RE1010 =
            SeedCase("FirstValue", "NoFirstValue", None, None, "Queued", 19500, 3900, 0, 25, 0)
      BY DEF SeedEvents
    <2> QED  BY <1>0, <2>1, SeededActions DEF SeedCase, CaseState
  <1>11. SeedEvents.RE1011 \in CaseState
    <2>1. SeedEvents.RE1011 =
            SeedCase("Renewal", "LowAdoption", "CSMOutreach", Dana, "Failed", 14000, 0, 0, 15, 2)
      BY DEF SeedEvents
    <2> QED  BY <1>0, <2>1, SeededActions DEF SeedCase, CaseState
  <1>12. SeedEvents.RE1012 \in CaseState
    <2>1. SeedEvents.RE1012 =
            SeedCase("Onboarding", "StalledOnboarding", None, Marcus, "Dismissed", 2100, 0, 0, 10, 1)
      BY DEF SeedEvents
    <2> QED  BY <1>0, <2>1, SeededActions DEF SeedCase, CaseState
  <1>13. SeedEvents.RE1013 \in CaseState
    <2>1. SeedEvents.RE1013 =
            SeedCase("FirstValue", "NoFirstValue", "EnablementSession", Priya, "Recovered", 21000, 4200, 21000, 86, 2)
      BY DEF SeedEvents
    <2> QED  BY <1>0, <2>1, SeededActions DEF SeedCase, CaseState
  <1>14. SeedEvents.RE1014 \in CaseState
    <2>1. SeedEvents.RE1014 =
            SeedCase("Activation", "ActivationMissed", "UsageActivation", Dana, "Recovered", 13200, 2600, 13200, 81, 1)
      BY DEF SeedEvents
    <2> QED  BY <1>0, <2>1, SeededActions DEF SeedCase, CaseState
  <1>15. DOMAIN SeedEvents = {"RE1001", "RE1002", "RE1003", "RE1004", "RE1005", "RE1006", "RE1007",
                             "RE1008", "RE1009", "RE1010", "RE1011", "RE1012", "RE1013", "RE1014"}
    BY DEF SeedEvents
  <1> QED
    BY <1>1, <1>2, <1>3, <1>4, <1>5, <1>6, <1>7, <1>8, <1>9, <1>10, <1>11, <1>12, <1>13, <1>14, <1>15,
       ClientAssumption DEF ClientAssumption
-----------------------------------------------------------------------------
(* The cases of the four copies are well formed.                           *)

\* The cases of a state, each as it was seeded or as it was scored last.
Scored(cases) ==
    /\ cases \in [Cases -> CaseState]
    /\ \A c \in Cases : cases[c] = SeedEvents[c] \/ cases[c] = Rescored(cases[c])

LockDates(baselines) ==
    \A b \in baselines : b.lockedAt \in {None} \cup RegisteredAt .. clock

\* TypeOK, with room for the render that a call waits for.
TypeInv ==
    /\ Scored(shown.cases) /\ Scored(next.cases) /\ Scored(disk.cases)
    /\ LockDates(shown.baselines) /\ LockDates(next.baselines) /\ LockDates(disk.baselines)
    /\ seq \in Nat
    /\ clock \in 0 .. MaxRenders /\ burst \in 0 .. MaxBurst /\ load \in 0 .. MaxLoads
    /\ burst > 0 => clock < MaxRenders

LEMMA TypesImplied == ASSUME TypeInv PROVE TypeOK
  <1> DEFINE Typed(s) == Scored(s.cases) /\ LockDates(s.baselines)
  <1>1. Typed(shown) /\ Typed(next) /\ Typed(disk)
    BY DEF TypeInv
  <1>2. \A s \in {shown, next, disk} : Typed(s)
    BY <1>1
  <1> QED  BY <1>2 DEF TypeOK, TypeInv, Scored, LockDates

\* Ids and times that were once handed out stay so.
LEMMA CasesLast ==
    ASSUME seq \in Nat, clock \in Nat, seq' \in {seq, seq + 1}, clock' \in {clock, clock + 1}
    PROVE  CaseState \subseteq CaseState'
  BY DEF CaseState

\* A case with its writable fields other than the score spelt out.
CaseWith(e, reason, owner, status, baseline, collected, actions, notes, baselineId,
         interventionAt, outcomeAt) ==
    [stage |-> e.stage, leak |-> e.leak, reason |-> reason, owner |-> owner,
     status |-> status, risk |-> e.risk, baseline |-> baseline, collected |-> collected,
     confidence |-> e.confidence, actions |-> actions, notes |-> notes,
     baselineId |-> baselineId, interventionAt |-> interventionAt, outcomeAt |-> outcomeAt]

\* A case has these fields and no others.
LEMMA FieldsOfCase ==
    ASSUME NEW e \in CaseState
    PROVE  e = CaseWith(e, e.reason, e.owner, e.status, e.baseline, e.collected, e.actions, e.notes,
                        e.baselineId, e.interventionAt, e.outcomeAt)
  BY DEF CaseState, CaseWith

\* Each field takes a value of its kind.
LEMMA OwnerIsKept ==
    ASSUME NEW e \in CaseState, NEW v \in {None, Dana, Priya, Marcus} \cup Owners
    PROVE  [e EXCEPT !.owner = v] \in CaseState
  <1>1. [e EXCEPT !.owner = v] = CaseWith(e, e.reason, v, e.status, e.baseline, e.collected,
          e.actions, e.notes, e.baselineId, e.interventionAt, e.outcomeAt)
    BY FieldsOfCase DEF CaseWith
  <1>2. CaseWith(e, e.reason, v, e.status, e.baseline, e.collected, e.actions, e.notes,
                 e.baselineId, e.interventionAt, e.outcomeAt) \in CaseState
    BY DEF CaseState, CaseWith
  <1> QED  BY <1>1, <1>2

LEMMA StatusIsKept ==
    ASSUME NEW e \in CaseState, NEW v \in Statuses
    PROVE  [e EXCEPT !.status = v] \in CaseState
  <1>1. [e EXCEPT !.status = v] = CaseWith(e, e.reason, e.owner, v, e.baseline, e.collected,
          e.actions, e.notes, e.baselineId, e.interventionAt, e.outcomeAt)
    BY FieldsOfCase DEF CaseWith
  <1>2. CaseWith(e, e.reason, e.owner, v, e.baseline, e.collected, e.actions, e.notes,
                 e.baselineId, e.interventionAt, e.outcomeAt) \in CaseState
    BY DEF CaseState, CaseWith
  <1> QED  BY <1>1, <1>2

LEMMA ReasonIsKept ==
    ASSUME NEW e \in CaseState, NEW v \in RecoveryReasons \cup {None}
    PROVE  [e EXCEPT !.reason = v] \in CaseState
  <1>1. [e EXCEPT !.reason = v] = CaseWith(e, v, e.owner, e.status, e.baseline, e.collected,
          e.actions, e.notes, e.baselineId, e.interventionAt, e.outcomeAt)
    BY FieldsOfCase DEF CaseWith
  <1>2. CaseWith(e, v, e.owner, e.status, e.baseline, e.collected, e.actions, e.notes,
                 e.baselineId, e.interventionAt, e.outcomeAt) \in CaseState
    BY DEF CaseState, CaseWith
  <1> QED  BY <1>1, <1>2

LEMMA ActionsIsKept ==
    ASSUME NEW e \in CaseState, NEW v \in Seq(Actions)
    PROVE  [e EXCEPT !.actions = v] \in CaseState
  <1>1. [e EXCEPT !.actions = v] = CaseWith(e, e.reason, e.owner, e.status, e.baseline,
          e.collected, v, e.notes, e.baselineId, e.interventionAt, e.outcomeAt)
    BY FieldsOfCase DEF CaseWith
  <1>2. CaseWith(e, e.reason, e.owner, e.status, e.baseline, e.collected, v, e.notes,
                 e.baselineId, e.interventionAt, e.outcomeAt) \in CaseState
    BY DEF CaseState, CaseWith
  <1> QED  BY <1>1, <1>2

LEMMA InterventionIsKept ==
    ASSUME NEW e \in CaseState, NEW v \in {None} \cup 0 .. clock
    PROVE  [e EXCEPT !.interventionAt = v] \in CaseState
  <1>1. [e EXCEPT !.interventionAt = v] = CaseWith(e, e.reason, e.owner, e.status, e.baseline,
          e.collected, e.actions, e.notes, e.baselineId, v, e.outcomeAt)
    BY FieldsOfCase DEF CaseWith
  <1>2. CaseWith(e, e.reason, e.owner, e.status, e.baseline, e.collected, e.actions, e.notes,
                 e.baselineId, v, e.outcomeAt) \in CaseState
    BY DEF CaseState, CaseWith
  <1> QED  BY <1>1, <1>2

LEMMA OutcomeIsKept ==
    ASSUME NEW e \in CaseState, NEW v \in {None} \cup 0 .. clock
    PROVE  [e EXCEPT !.outcomeAt = v] \in CaseState
  <1>1. [e EXCEPT !.outcomeAt = v] = CaseWith(e, e.reason, e.owner, e.status, e.baseline,
          e.collected, e.actions, e.notes, e.baselineId, e.interventionAt, v)
    BY FieldsOfCase DEF CaseWith
  <1>2. CaseWith(e, e.reason, e.owner, e.status, e.baseline, e.collected, e.actions, e.notes,
                 e.baselineId, e.interventionAt, v) \in CaseState
    BY DEF CaseState, CaseWith
  <1> QED  BY <1>1, <1>2

LEMMA CollectedIsKept ==
    ASSUME NEW e \in CaseState, NEW v \in Int
    PROVE  [e EXCEPT !.collected = v] \in CaseState
  <1>1. [e EXCEPT !.collected = v] = CaseWith(e, e.reason, e.owner, e.status, e.baseline, v,
          e.actions, e.notes, e.baselineId, e.interventionAt, e.outcomeAt)
    BY FieldsOfCase DEF CaseWith
  <1>2. CaseWith(e, e.reason, e.owner, e.status, e.baseline, v, e.actions, e.notes,
                 e.baselineId, e.interventionAt, e.outcomeAt) \in CaseState
    BY DEF CaseState, CaseWith
  <1> QED  BY <1>1, <1>2

LEMMA BaselineIsKept ==
    ASSUME NEW e \in CaseState, NEW v \in Int
    PROVE  [e EXCEPT !.baseline = v] \in CaseState
  <1>1. [e EXCEPT !.baseline = v] = CaseWith(e, e.reason, e.owner, e.status, v, e.collected,
          e.actions, e.notes, e.baselineId, e.interventionAt, e.outcomeAt)
    BY FieldsOfCase DEF CaseWith
  <1>2. CaseWith(e, e.reason, e.owner, e.status, v, e.collected, e.actions, e.notes,
                 e.baselineId, e.interventionAt, e.outcomeAt) \in CaseState
    BY DEF CaseState, CaseWith
  <1> QED  BY <1>1, <1>2

LEMMA NotesIsKept ==
    ASSUME NEW e \in CaseState, NEW v \in NoteClasses
    PROVE  [e EXCEPT !.notes = v] \in CaseState
  <1>1. [e EXCEPT !.notes = v] = CaseWith(e, e.reason, e.owner, e.status, e.baseline,
          e.collected, e.actions, v, e.baselineId, e.interventionAt, e.outcomeAt)
    BY FieldsOfCase DEF CaseWith
  <1>2. CaseWith(e, e.reason, e.owner, e.status, e.baseline, e.collected, e.actions, v,
                 e.baselineId, e.interventionAt, e.outcomeAt) \in CaseState
    BY DEF CaseState, CaseWith
  <1> QED  BY <1>1, <1>2

LEMMA LinkIsKept ==
    ASSUME NEW e \in CaseState, NEW v \in {None} \cup {<<"BL", c, n>> : c \in Cases, n \in 1 .. seq}
    PROVE  [e EXCEPT !.baselineId = v] \in CaseState
  <1>1. [e EXCEPT !.baselineId = v] = CaseWith(e, e.reason, e.owner, e.status, e.baseline,
          e.collected, e.actions, e.notes, v, e.interventionAt, e.outcomeAt)
    BY FieldsOfCase DEF CaseWith
  <1>2. CaseWith(e, e.reason, e.owner, e.status, e.baseline, e.collected, e.actions, e.notes,
                 v, e.interventionAt, e.outcomeAt) \in CaseState
    BY DEF CaseState, CaseWith
  <1> QED  BY <1>1, <1>2

\* Scoring a case and linking it to a baseline.
WritesKept ==
    \A e \in CaseState :
       /\ Rescored(e) \in CaseState /\ Rescored(Rescored(e)) = Rescored(e)
       /\ \A id \in {None} \cup {<<"BL", c, n>> : c \in Cases, n \in 1 .. seq} :
             [e EXCEPT !.baselineId = id] \in CaseState

LEMMA WritesStand == WritesKept
  BY ScoringIsIdempotent, LinkIsKept DEF WritesKept

\* Cases that are well formed stay so.
LEMMA ScoredLasts ==
    ASSUME seq \in Nat, clock \in Nat, seq' \in {seq, seq + 1}, clock' \in {clock, clock + 1},
           NEW cases, Scored(cases)
    PROVE  Scored(cases)'
  <1>1. CaseState \subseteq CaseState'
    BY CasesLast
  <1> QED  BY <1>1 DEF Scored

LEMMA DatedLasts ==
    ASSUME clock \in Nat, clock' \in {clock, clock + 1}, NEW baselines, LockDates(baselines)
    PROVE  LockDates(baselines)'
  BY DEF LockDates

\* One case is written and scored.
LEMMA MutationKeepsScores ==
    ASSUME seq \in Nat, clock \in Nat, seq' \in {seq, seq + 1}, clock' = clock,
           Scored(next.cases), NEW state, DOMAIN state = StateKeys, state.cases = next.cases,
           NEW c \in Cases, NEW e, e \in CaseState', MutateWith(state, c, e)
    PROVE  Scored(next.cases)'
  <1>1. next' = [state EXCEPT !.cases = [state.cases EXCEPT ![c] = Rescored(e)]]
    BY DEF MutateWith
  <1>2. next'.cases = [next.cases EXCEPT ![c] = Rescored(e)]
    BY <1>1 DEF StateKeys
  <1>3. WritesKept'
    BY WritesStand, PTL
  <1>4. Rescored(e) \in CaseState' /\ Rescored(Rescored(e)) = Rescored(e)
    BY <1>3 DEF WritesKept
  <1>5. CaseState \subseteq CaseState'
    BY CasesLast
  <1>6. next.cases \in [Cases -> CaseState]
    BY DEF Scored
  <1>7. next'.cases \in [Cases -> CaseState']
    BY <1>2, <1>4, <1>5, <1>6
  <1>8. ASSUME NEW d \in Cases
        PROVE  next'.cases[d] = SeedEvents[d] \/ next'.cases[d] = Rescored(next'.cases[d])
    <2>1. CASE d = c
      BY <1>2, <1>4, <1>6, <2>1
    <2>2. CASE d # c
      BY <1>2, <1>6, <2>2 DEF Scored
    <2> QED  BY <2>1, <2>2
  <1> QED  BY <1>7, <1>8 DEF Scored

\* A handler writes memory, and at most the cases to the disk.
LEMMA HandlerKeepsTypes ==
    ASSUME TypeInv, HandlerWrites, Call, seq' \in {seq, seq + 1}, load' = load,
           Scored(next.cases)'
    PROVE  TypeInv'
  <1>1. /\ shown' = shown /\ clock' = clock /\ seq \in Nat /\ clock \in Nat
        /\ disk'.baselines = disk.baselines /\ disk'.cases \in {disk.cases, next'.cases}
    BY DEF HandlerWrites, TypeInv
  <1>2. Scored(shown.cases)' /\ Scored(disk.cases)'
    BY <1>1, ScoredLasts DEF TypeInv
  <1>3. LockDates(shown.baselines)' /\ LockDates(disk.baselines)'
    BY <1>1 DEF TypeInv, LockDates
  <1>4. LockDates(next.baselines)'
    <2>1. RegisteredAt \in Int /\ RegisteredAt <= clock
      BY <1>1 DEF RegisteredAt
    <2> QED  BY <1>1, <2>1 DEF HandlerWrites, TypeInv, LockDates, IsLocked
  <1>5. /\ clock' \in 0 .. MaxRenders /\ burst' \in 0 .. MaxBurst /\ load' \in 0 .. MaxLoads
        /\ burst' > 0 => clock' < MaxRenders
    BY <1>1, ClientAssumption DEF ClientAssumption, TypeInv, Call
  <1> QED  BY <1>1, <1>2, <1>3, <1>4, <1>5 DEF TypeInv

LEMMA EditKeepsTypes ==
    ASSUME TypeInv, FrozenInv, HandlerWrites, NEW c \in Cases, NEW e \in CaseState, Edit(c, e)
    PROVE  TypeInv'
  <1>1. /\ Call /\ MutateWith(next, c, e)
        /\ clock' = clock /\ load' = load /\ seq' = seq
    BY DEF Edit
  <1>2. e \in CaseState'
    BY <1>1 DEF CaseState
  <1>3. Scored(next.cases)'
    BY <1>1, <1>2, MutationKeepsScores DEF TypeInv, FrozenInv, Recorded
  <1> QED  BY <1>1, <1>3, HandlerKeepsTypes

\* The provisional fields take values of their kind.
LEMMA ProvisionalKeepsTypes ==
    ASSUME TypeInv, FrozenInv, RestInv, NEW c \in Cases, Provisional(c)
    PROVE  TypeInv'
  <1> DEFINE x == next.cases[c]
  <1>1. x \in CaseState
    BY DEF TypeInv, Scored
  <1>2. HandlerWrites
    BY ProvisionalWrites
  <1>3. clock \in Nat
    BY DEF TypeInv
  <1>4. ASSUME NEW e \in CaseState, Edit(c, e)  PROVE TypeInv'
    BY <1>2, <1>4, EditKeepsTypes
  <1>5. /\ Reasons \subseteq RecoveryReasons \cup {None}
        /\ Targets \subseteq Statuses /\ Amounts \subseteq Int
    BY EntryAssumption DEF EntryAssumption
  <1> HIDE DEF x
  <1>6. ASSUME NEW y \in CaseState  PROVE StampIntervention(y) \in CaseState
    <2>1. PICK at : at = IF y.interventionAt = None THEN clock ELSE y.interventionAt
      OBVIOUS
    <2>2. at \in {None} \cup 0 .. clock
      BY <1>3, <2>1 DEF CaseState
    <2>3. [y EXCEPT !.interventionAt = at] \in CaseState
      BY <2>2, InterventionIsKept
    <2> QED  BY <2>1, <2>3 DEF StampIntervention
  <1>7. ASSUME NEW owner \in Owners, AssignOwner(c, owner)  PROVE TypeInv'
    <2> DEFINE e == [x EXCEPT !.owner = owner,
                              !.status = IF @ \in {"Detected", "Queued"} THEN "Assigned" ELSE @]
    <2>1. PICK s : s = IF x.status \in {"Detected", "Queued"} THEN "Assigned" ELSE x.status
      OBVIOUS
    <2>2. s \in Statuses
      BY <1>1, <2>1 DEF CaseState, Statuses, OpenStatuses
    <2>3. [x EXCEPT !.owner = owner] \in CaseState
      BY <1>1, OwnerIsKept
    <2>4. [[x EXCEPT !.owner = owner] EXCEPT !.status = s] \in CaseState
      BY <2>2, <2>3, StatusIsKept
    <2>5. e = [[x EXCEPT !.owner = owner] EXCEPT !.status = s]
      BY <1>1, <2>1 DEF CaseState
    <2>6. e \in CaseState
      BY <2>4, <2>5
    <2> QED  BY <1>4, <1>7, <2>6 DEF AssignOwner, x
  <1>8. ASSUME NEW status \in Targets, AdvanceStatus(c, status)  PROVE TypeInv'
    <2> DEFINE e == [x EXCEPT !.status = status,
                              !.outcomeAt = IF status = "Recovered" /\ @ = None THEN clock ELSE @]
    <2>1. PICK at : at = IF status = "Recovered" /\ x.outcomeAt = None THEN clock ELSE x.outcomeAt
      OBVIOUS
    <2>2. at \in {None} \cup 0 .. clock
      BY <1>1, <1>3, <2>1 DEF CaseState
    <2>3. [x EXCEPT !.status = status] \in CaseState
      BY <1>1, <1>5, StatusIsKept
    <2>4. [[x EXCEPT !.status = status] EXCEPT !.outcomeAt = at] \in CaseState
      BY <2>2, <2>3, OutcomeIsKept
    <2>5. e = [[x EXCEPT !.status = status] EXCEPT !.outcomeAt = at]
      BY <1>1, <2>1 DEF CaseState
    <2>6. e \in CaseState
      BY <2>4, <2>5
    <2> QED  BY <1>4, <1>8, <2>6 DEF AdvanceStatus, x
  <1>9. CASE AddAction(c)
    <2> DEFINE y == [x EXCEPT !.actions = Append(@, "own")]
    <2>1. "own" \in Actions
      BY DEF Actions
    <2>2. Append(x.actions, "own") \in Seq(Actions)
      BY <1>1, <2>1 DEF CaseState
    <2>3. y \in CaseState
      BY <1>1, <2>2, ActionsIsKept
    <2> QED  BY <1>4, <1>6, <1>9, <2>3 DEF AddAction, x
  <1>10. ASSUME NEW reason \in Reasons, SetReason(c, reason)  PROVE TypeInv'
    <2>1. reason \in RecoveryReasons \cup {None}
      BY <1>5
    <2>2. [x EXCEPT !.reason = reason] \in CaseState
      BY <1>1, <2>1, ReasonIsKept
    <2> QED  BY <1>4, <1>10, <2>2 DEF SetReason, x
  <1>11. CASE ApplyRecommendation(c)
    <2> DEFINE y == [x EXCEPT !.reason = PLAYBOOK[x.leak].reason, !.actions = @ \o NewActions(x)]
    <2>1. x.leak \in DOMAIN PLAYBOOK /\ x.actions \in Seq(Actions)
      BY <1>1 DEF CaseState
    <2>2. PLAYBOOK[x.leak].reason \in RecoveryReasons
      BY <2>1, PlaysAreKnown
    <2>3. NewActions(x) \in Seq(Actions)
      BY <2>1, NewActionsAreActions
    <2>4. x.actions \o NewActions(x) \in Seq(Actions)
      BY <2>1, <2>3
    <2>5. PICK r, a : /\ r = PLAYBOOK[x.leak].reason /\ a = x.actions \o NewActions(x)
                      /\ r \in RecoveryReasons /\ a \in Seq(Actions)
      BY <2>2, <2>4
    <2>6. [x EXCEPT !.reason = r] \in CaseState
      BY <1>1, <2>5, ReasonIsKept
    <2>7. [[x EXCEPT !.reason = r] EXCEPT !.actions = a] \in CaseState
      BY <2>5, <2>6, ActionsIsKept
    <2>8. y \in CaseState
      <3>1. y = [[x EXCEPT !.reason = r] EXCEPT !.actions = a]
        BY <1>1, <2>5 DEF CaseState
      <3> QED  BY <2>7, <3>1
    <2>9. Edit(c, StampIntervention(y))
      BY <1>11 DEF ApplyRecommendation, x
    <2> HIDE DEF y
    <2>10. StampIntervention(y) \in CaseState
      BY <1>6, <2>8
    <2> QED  BY <1>4, <2>9, <2>10
  <1>12. ASSUME NEW amount \in Amounts, UpdateCollected(c, amount) \/ UpdateBaseline(c, amount)
         PROVE  TypeInv'
    <2>1. amount \in Int
      BY <1>5
    <2>2. [x EXCEPT !.collected = amount] \in CaseState
      BY <1>1, <2>1, CollectedIsKept
    <2>3. [x EXCEPT !.baseline = amount] \in CaseState
      BY <1>1, <2>1, BaselineIsKept
    <2> QED  BY <1>4, <1>12, <2>2, <2>3 DEF UpdateCollected, UpdateBaseline, x
  <1>13. ASSUME NEW class \in NoteClasses, UpdateEvidence(c, class)  PROVE TypeInv'
    <2>1. [x EXCEPT !.notes = class] \in CaseState
      BY <1>1, NotesIsKept
    <2> QED  BY <1>4, <1>13, <2>1 DEF UpdateEvidence, x
  <1> QED  BY <1>7, <1>8, <1>9, <1>10, <1>11, <1>12, <1>13 DEF Provisional

\* A case is linked to the baseline whose id was just handed out.
LEMMA LinkKeepsTypes ==
    ASSUME TypeInv, FrozenInv, HandlerWrites, NEW c \in Cases, NEW b, b.id = MkId("BL", c),
           Call, Fresh, clock' = clock, load' = load,
           MutateWith([next EXCEPT !.baselines = @ \cup {b}], c,
                      [next.cases[c] EXCEPT !.baselineId = b.id])
    PROVE  TypeInv'
  <1> DEFINE state == [next EXCEPT !.baselines = @ \cup {b}]
             e == [next.cases[c] EXCEPT !.baselineId = b.id]
  <1>1. DOMAIN state = StateKeys /\ state.cases = next.cases
    BY DEF FrozenInv, Recorded, StateKeys
  <1>2. seq \in Nat /\ clock \in Nat /\ seq' = seq + 1
    BY DEF TypeInv, Fresh
  <1>3. next.cases[c] \in CaseState'
    <2>1. next.cases[c] \in CaseState
      BY DEF TypeInv, Scored
    <2> QED  BY <1>2, <2>1, CasesLast
  <1>4. PICK n : n = seq + 1 /\ n \in 1 .. seq' /\ b.id = <<"BL", c, n>>
    BY <1>2 DEF MkId
  <1>5. b.id \in {None} \cup {<<"BL", d, m>> : d \in Cases, m \in 1 .. seq'}
    BY <1>4
  <1>6. e \in CaseState'
    <2>1. WritesKept'
      BY WritesStand, PTL
    <2> QED  BY <1>3, <1>5, <2>1 DEF WritesKept
  <1>7. MutateWith(state, c, e)
    OBVIOUS
  <1> HIDE DEF state, e
  <1>8. Scored(next.cases)'
    BY <1>1, <1>2, <1>6, <1>7, MutationKeepsScores DEF TypeInv
  <1> QED  BY <1>2, <1>8, HandlerKeepsTypes

\* Locking writes the case as it is; evidence and proofs write no case.
LEMMA GovernedKeepsTypes ==
    ASSUME TypeInv, MirrorInv, FrozenInv, RestInv, NEW c \in Cases, Governed(c)
    PROVE  TypeInv'
  <1>0. clock \in Nat /\ seq \in Nat /\ Scored(next.cases)
    BY DEF TypeInv
  <1>1. ASSUME NEW amount \in Amounts, EstablishBaseline(c, amount)  PROVE TypeInv'
    <2> DEFINE b == MakeBaseline(MkId("BL", c), amount, clock)
    <2>1. HandlerWrites
      BY <1>1, BaselineWrites
    <2>2. b.id = MkId("BL", c)
      BY DEF MakeBaseline
    <2> QED  BY <1>1, <2>1, <2>2, LinkKeepsTypes DEF EstablishBaseline
  <1>2. ASSUME NEW amount \in Amounts, ReviseBaseline(c, amount)  PROVE TypeInv'
    <2>1. HandlerWrites
      BY <1>2, BaselineWrites
    <2>2. PICK current : LET b == ReviseBaselineObj(current, MkId("BL", c), amount, clock)
                         IN  MutateWith([next EXCEPT !.baselines = @ \cup {b}], c,
                                        [next.cases[c] EXCEPT !.baselineId = b.id])
      BY <1>2 DEF ReviseBaseline
    <2> DEFINE b == ReviseBaselineObj(current, MkId("BL", c), amount, clock)
    <2>3. b.id = MkId("BL", c)
      BY DEF ReviseBaselineObj
    <2> QED  BY <1>2, <2>1, <2>2, <2>3, LinkKeepsTypes DEF ReviseBaseline
  <1>3. CASE LockBaseline(c)
    <2>1. HandlerWrites
      BY <1>3, BaselineWrites
    <2>2. PICK all : MutateWith([next EXCEPT !.baselines = all], c, next.cases[c])
      BY <1>3 DEF LockBaseline
    <2> DEFINE state == [next EXCEPT !.baselines = all]
    <2>3. DOMAIN state = StateKeys /\ state.cases = next.cases
      BY DEF FrozenInv, Recorded, StateKeys
    <2>4. Call /\ seq' = seq /\ clock' = clock /\ load' = load
      BY <1>3 DEF LockBaseline
    <2>5. next.cases[c] \in CaseState'
      <3>1. next.cases[c] \in CaseState
        BY <1>0 DEF Scored
      <3> QED  BY <1>0, <2>4, <3>1, CasesLast
    <2> HIDE DEF state
    <2>6. MutateWith(state, c, next.cases[c])
      BY <2>2 DEF state
    <2>7. Scored(next.cases)'
      BY <1>0, <2>3, <2>4, <2>5, <2>6, MutationKeepsScores
    <2> QED  BY <2>1, <2>4, <2>7, HandlerKeepsTypes
  <1>4. ASSUME HandlerWrites, Call, Fresh, load' = load, next'.cases = next.cases
        PROVE  TypeInv'
    <2>1. clock' = clock /\ seq' = seq + 1
      BY <1>4 DEF HandlerWrites, Fresh
    <2>2. Scored(next.cases)'
      BY <1>0, <1>4, <2>1, ScoredLasts
    <2> QED  BY <1>4, <2>1, <2>2, HandlerKeepsTypes
  <1>5. ASSUME NEW amount \in Amounts, ApproveProof(c, amount)  PROVE TypeInv'
    <2>1. next'.cases = next.cases
      BY <1>5 DEF ApproveProof, FrozenInv, Recorded, StateKeys
    <2> QED  BY <1>4, <1>5, <2>1, ApprovalWrites DEF ApproveProof
  <1>6. ASSUME NEW source \in Sources, AddEvidence(c, source)  PROVE TypeInv'
    <2>1. next'.cases = next.cases
      BY <1>6 DEF AddEvidence, FrozenInv, Recorded, StateKeys
    <2> QED  BY <1>4, <1>6, <2>1, EvidenceWrites DEF AddEvidence
  <1> QED  BY <1>1, <1>2, <1>3, <1>5, <1>6 DEF Governed

LEMMA ReversalKeepsTypes ==
    ASSUME TypeInv, MirrorInv, FrozenInv, RestInv, NEW i, ReverseProof(i)
    PROVE  TypeInv'
  <1>1. HandlerWrites
    BY ReversalWrites
  <1>2. Call /\ Fresh /\ load' = load /\ next'.cases = next.cases
    BY DEF ReverseProof, FrozenInv, Recorded, StateKeys
  <1>3. clock' = clock /\ seq' = seq + 1 /\ seq \in Nat /\ clock \in Nat
    BY <1>1, <1>2 DEF HandlerWrites, Fresh, TypeInv
  <1>4. Scored(next.cases)'
    BY <1>2, <1>3, ScoredLasts DEF TypeInv
  <1> QED  BY <1>1, <1>2, <1>3, <1>4, HandlerKeepsTypes

\* What the browser starts with.
LEMMA SeedIsTyped ==
    clock \in Nat => Scored(Seeded.cases) /\ LockDates(Seeded.baselines)
  <1> SUFFICES ASSUME clock \in Nat
               PROVE  Scored(Seeded.cases) /\ LockDates(Seeded.baselines)
    OBVIOUS
  <1>1. Seeded.cases = [c \in Cases |-> SeedEvents[c]]
    BY DEF Seeded
  <1>2. Scored(Seeded.cases)
    BY <1>1, SeedsAreCases DEF Scored
  <1> DEFINE seeds == SeedsOf(Cases)
  <1>3. Seeded.baselines = {SeedBaseline(seeds[i]) : i \in DOMAIN seeds}
    BY DEF Seeded, SeedTrust
  <1> HIDE DEF seeds
  <1>4. \A s : SeedBaseline(s).lockedAt = RegisteredAt
    BY DEF SeedBaseline, LockBaselineObj, MakeBaseline, IsLocked
  <1>5. RegisteredAt \in RegisteredAt .. clock
    BY DEF RegisteredAt
  <1> QED  BY <1>2, <1>3, <1>4, <1>5 DEF LockDates

LEMMA StepKeepsTypes ==
    ASSUME TypeInv, MirrorInv, FrozenInv, RestInv, [Next]_vars
    PROVE  TypeInv'
  <1>0. /\ seq \in Nat /\ clock \in 0 .. MaxRenders /\ load \in 0 .. MaxLoads
        /\ MaxRenders \in Nat /\ MaxLoads \in Nat /\ MaxBurst \in Nat
    BY ClientAssumption DEF ClientAssumption, TypeInv
  <1>1. CASE UNCHANGED vars
    <2>1. /\ shown' = shown /\ next' = next /\ disk' = disk /\ seq' = seq /\ clock' = clock
          /\ burst' = burst /\ load' = load
      BY <1>1 DEF vars
    <2>2. CaseState' = CaseState
      BY <2>1 DEF CaseState
    <2> QED  BY <2>1, <2>2 DEF TypeInv, Scored, LockDates
  <1>2. ASSUME NEW c \in Cases, Provisional(c)  PROVE TypeInv'
    BY <1>2, ProvisionalKeepsTypes
  <1>3. ASSUME NEW c \in Governable, Governed(c)  PROVE TypeInv'
    <2>1. c \in Cases
      BY ClientAssumption DEF ClientAssumption
    <2> QED  BY <1>3, <2>1, GovernedKeepsTypes
  <1>4. ASSUME NEW i \in DOMAIN shown.proofs, ReverseProof(i)  PROVE TypeInv'
    BY <1>4, ReversalKeepsTypes
  <1>5. CASE ResetData
    <2>1. /\ shown' = Seeded /\ next' = Seeded /\ disk' = Seeded
          /\ clock' = clock + 1 /\ seq' = seq
      BY <1>5 DEF ResetData
    <2>2. (clock \in Nat => Scored(Seeded.cases) /\ LockDates(Seeded.baselines))'
      BY SeedIsTyped, PTL
    <2>3. Scored(Seeded.cases)' /\ LockDates(Seeded.baselines)'
      BY <1>0, <2>1, <2>2
    <2>4. /\ clock' \in 0 .. MaxRenders /\ burst' \in 0 .. MaxBurst /\ load' \in 0 .. MaxLoads
          /\ burst' = 0
      BY <1>0, <1>5 DEF ResetData, TypeInv
    <2> QED  BY <1>0, <2>1, <2>3, <2>4 DEF TypeInv
  <1>6. ASSUME clock' = clock + 1, seq' = seq, clock < MaxRenders, burst' = 0,
               load' \in 0 .. MaxLoads,
               shown' \in {next, disk}, next' \in {next, disk},
               disk'.cases = disk.cases, disk'.baselines \in {disk.baselines, next.baselines}
        PROVE  TypeInv'
    <2>1. clock \in Nat
      BY <1>0
    <2>2. /\ Scored(shown.cases)' /\ Scored(next.cases)' /\ Scored(disk.cases)'
      BY <1>0, <1>6, <2>1, ScoredLasts DEF TypeInv
    <2>3. /\ LockDates(shown.baselines)' /\ LockDates(next.baselines)' /\ LockDates(disk.baselines)'
      BY <1>0, <1>6, <2>1, DatedLasts DEF TypeInv
    <2>4. clock' \in 0 .. MaxRenders /\ burst' \in 0 .. MaxBurst /\ seq' \in Nat
      BY <1>0, <1>6
    <2> QED  BY <1>6, <2>2, <2>3, <2>4 DEF TypeInv
  <1>7. CASE Commit
    <2>1. disk' = disk \/ disk' = WithTrust(disk, next)
      BY <1>7 DEF Commit, Save
    <2>2. disk'.cases = disk.cases /\ disk'.baselines \in {disk.baselines, next.baselines}
      BY <2>1 DEF WithTrust, FrozenInv, Recorded, StateKeys
    <2>3. clock < MaxRenders
      BY <1>7 DEF Commit, TypeInv
    <2> QED  BY <1>0, <1>6, <1>7, <2>2, <2>3 DEF Commit
  <1>8. CASE Reload
    <2>1. load' \in 0 .. MaxLoads
      BY <1>0, <1>8 DEF Reload
    <2> QED  BY <1>6, <1>8, <2>1 DEF Reload
  <1> QED  BY <1>1, <1>2, <1>3, <1>4, <1>5, <1>7, <1>8 DEF Next, CaseWork

LEMMA TypesHold == Spec => []TypeInv
<1>1. Init => TypeInv
  <2> SUFFICES ASSUME Init PROVE TypeInv
    OBVIOUS
  <2>1. /\ shown = Seeded /\ next = Seeded /\ disk = Seeded
        /\ clock = 0 /\ burst = 0 /\ load = 0 /\ seq = 0
    BY DEF Init
  <2>2. Scored(Seeded.cases) /\ LockDates(Seeded.baselines)
    BY <2>1, SeedIsTyped
  <2> QED  BY <2>1, <2>2, ClientAssumption DEF ClientAssumption, TypeInv
<1>2. TypeInv /\ MirrorInv /\ FrozenInv /\ RestInv /\ [Next]_vars => TypeInv'
  BY StepKeepsTypes
<1> QED  BY <1>1, <1>2, MirrorHolds, FrozenHolds, RestHolds, PTL DEF Spec

\* Every copy of the browser's state holds well-formed cases: a case shows the score
\* of what it was last written to be, whatever the operator enters, and no copy
\* dates a baseline before the seed or after now (mutate, confidence.ts, types.ts).
THEOREM CopiesAreWellFormed == Spec => []TypeOK
<1>1. TypeInv => TypeOK
  BY TypesImplied
<1> QED  BY <1>1, TypesHold, PTL
-----------------------------------------------------------------------------
(* The counted ledger.  The refinement mapping is Counted, the effective   *)
(* record of every chain: an approval opens a chain that nothing was filed *)
(* under, a reversal follows the one record of a chain.                    *)

EntryOf(p) == [version |-> p.version, returned |-> p.returned, status |-> p.status]

\* A record of a chain: its approval or its reversal, under an id that is not
\* one of those still to be handed out after n of them.
ChainRecord(p, n) ==
    /\ {"chain", "version", "returned", "status"} \subseteq DOMAIN p
    /\ p.chain \in Chains
    /\ \A c \in Cases, k \in Nat : p.chain = <<"PF", c, k>> => k <= n
    /\ \/ p.version = 1 /\ p.status = "Approved" /\ p.returned \in Nat
       \/ p.version = 2 /\ p.status = "Reversed" /\ p.returned = 0

\* No two records of a chain have the same version.
Chained(all, n) ==
    /\ \A i \in DOMAIN all : ChainRecord(all[i], n)
    /\ \A i, j \in DOMAIN all :
          all[i].chain = all[j].chain /\ all[i].version = all[j].version => i = j

Valued(baselines) == \A b \in baselines : "amount" \in DOMAIN b /\ b.amount \in Int

ChainInv ==
    /\ seq \in Nat
    /\ Chained(shown.proofs, seq) /\ Chained(proofsRef, seq) /\ Chained(disk.proofs, seq)
    /\ Valued(shown.baselines) /\ Valued(next.baselines) /\ Valued(disk.baselines)

LEMMA UpliftIsNatural ==
    ASSUME NEW n \in Int
    PROVE  Max({0, n}) \in Nat
  <1>1. Max({0, n}) = IF n > 0 THEN n ELSE 0
    BY BoundsOfTwo
  <1>2. (IF n > 0 THEN n ELSE 0) \in Nat
    OBVIOUS
  <1> QED  BY <1>1, <1>2

LEMMA ChainedLasts ==
    ASSUME NEW all, NEW m \in Nat, NEW n \in Nat, m <= n, Chained(all, m)
    PROVE  Chained(all, n)
  BY DEF Chained, ChainRecord

\* A chain has one effective record at most: the versions of a chain differ.
LEMMA HeadOfChain ==
    ASSUME NEW all, NEW n, Chained(all, n), DOMAIN all \subseteq Nat,
           NEW i \in EffectivePositions(all)
    PROVE  OfChain(all, all[i].chain) = {all[i]}
  <1>1. ASSUME NEW p \in OfChain(all, all[i].chain)  PROVE p = all[i]
    <2>1. PICK j \in EffectivePositions(all) : p = all[j] /\ all[j].chain = all[i].chain
      BY DEF OfChain, EffectiveProofs
    <2>2. i \in DOMAIN all /\ j \in DOMAIN all
      BY DEF EffectivePositions
    <2>3. ~(all[i].version > all[j].version) /\ ~(all[j].version > all[i].version)
      BY <2>1, <2>2 DEF EffectivePositions, Supersedes
    <2>4. all[i].version \in {1, 2} /\ all[j].version \in {1, 2}
      BY <2>2 DEF Chained, ChainRecord
    <2>5. all[i].version = all[j].version
      BY <2>3, <2>4
    <2> QED  BY <2>1, <2>2, <2>5 DEF Chained
  <1>2. all[i] \in OfChain(all, all[i].chain)
    BY DEF OfChain, EffectiveProofs
  <1> QED  BY <1>1, <1>2

\* A record of a later version than any of its chain counts from then on, and
\* the other chains count as before.
LEMMA LatestCounts ==
    ASSUME NEW all, NEW n, IsLedger(all), Chained(all, n), NEW p, ChainRecord(p, n),
           \A i \in DOMAIN all : all[i].chain = p.chain => all[i].version < p.version
    PROVE  LET new == Append(all, p)
           IN  /\ Chained(new, n)
               /\ Counted(new) = [Counted(all) EXCEPT ![p.chain] = EntryOf(p)]
  <1> DEFINE new == Append(all, p)
             last == Len(all) + 1
  <1>1. /\ DOMAIN new = DOMAIN all \cup {last} /\ last \notin DOMAIN all
        /\ \A i \in DOMAIN all : new[i] = all[i]
        /\ new[last] = p
    BY AppendToLedger DEF ChainRecord
  <1>2. DOMAIN all = 1 .. Len(all) /\ Len(all) \in Nat /\ last \in Nat
    BY DEF IsLedger
  <1>3. \A i \in DOMAIN all : i < last /\ i \in Nat
    BY <1>2
  <1> HIDE DEF new, last
  <1>4. p.version \in {1, 2} /\ \A i \in DOMAIN all : all[i].version \in {1, 2}
    BY DEF Chained, ChainRecord
  <1>5. Chained(new, n)
    <2>1. \A i \in DOMAIN new : ChainRecord(new[i], n)
      BY <1>1 DEF Chained
    <2>2. ASSUME NEW i \in DOMAIN new, NEW j \in DOMAIN new,
                 new[i].chain = new[j].chain, new[i].version = new[j].version
          PROVE  i = j
      <3>1. CASE i = last /\ j # last
        <4>1. all[j].version < p.version /\ all[j].version = p.version
          BY <1>1, <2>2, <3>1
        <4> QED  BY <4>1, <1>4
      <3>2. CASE i # last /\ j = last
        <4>1. all[i].version < p.version /\ all[i].version = p.version
          BY <1>1, <2>2, <3>2
        <4> QED  BY <4>1, <1>4
      <3>3. CASE i # last /\ j # last
        BY <1>1, <2>2, <3>3 DEF Chained
      <3> QED  BY <3>1, <3>2, <3>3
    <2> QED  BY <2>1, <2>2 DEF Chained
  <1>6. last \in EffectivePositions(new)
    <2>1. ASSUME NEW j \in DOMAIN new  PROVE ~Supersedes(new, j, last)
      <3>1. CASE j = last
        BY <1>1, <1>2, <1>4, <3>1 DEF Supersedes
      <3>2. CASE j \in DOMAIN all /\ all[j].chain = p.chain
        <4>1. all[j].version < p.version /\ all[j].version \in {1, 2}
          BY <1>4, <3>2
        <4> QED  BY <1>1, <1>4, <3>2, <4>1 DEF Supersedes
      <3>3. CASE j \in DOMAIN all /\ all[j].chain # p.chain
        BY <1>1, <3>3 DEF Supersedes
      <3> QED  BY <1>1, <3>1, <3>2, <3>3
    <2> QED  BY <1>1, <2>1 DEF EffectivePositions
  <1>7. OfChain(new, p.chain) = {p}
    <2>1. DOMAIN new \subseteq Nat
      BY <1>1, <1>2, <1>3
    <2> QED  BY <1>1, <1>5, <1>6, <2>1, HeadOfChain
  <1>8. ASSUME NEW chain, chain # p.chain  PROVE OfChain(new, chain) = OfChain(all, chain)
    <2>1. ASSUME NEW i \in DOMAIN all, all[i].chain # p.chain
          PROVE  i \in EffectivePositions(new) <=> i \in EffectivePositions(all)
      <3>1. ~Supersedes(new, last, i)
        BY <1>1, <2>1 DEF Supersedes
      <3>2. \A j \in DOMAIN all : Supersedes(new, j, i) <=> Supersedes(all, j, i)
        BY <1>1, <2>1 DEF Supersedes
      <3> QED  BY <1>1, <2>1, <3>1, <3>2 DEF EffectivePositions
    <2>2. ASSUME NEW q \in OfChain(new, chain)  PROVE q \in OfChain(all, chain)
      <3>1. PICK i \in EffectivePositions(new) : q = new[i] /\ new[i].chain = chain
        BY <2>2 DEF OfChain, EffectiveProofs
      <3>2. i \in DOMAIN all
        BY <1>1, <1>8, <3>1 DEF EffectivePositions
      <3> QED  BY <1>1, <1>8, <2>1, <3>1, <3>2 DEF OfChain, EffectiveProofs
    <2>3. ASSUME NEW q \in OfChain(all, chain)  PROVE q \in OfChain(new, chain)
      <3>1. PICK i \in EffectivePositions(all) : q = all[i] /\ all[i].chain = chain
        BY <2>3 DEF OfChain, EffectiveProofs
      <3>2. i \in DOMAIN all
        BY <3>1 DEF EffectivePositions
      <3> QED  BY <1>1, <1>8, <2>1, <3>1, <3>2 DEF OfChain, EffectiveProofs
    <2> QED  BY <2>2, <2>3
  <1>9. Counted(new)[p.chain] = EntryOf(p)
    <2>1. p.chain \in Chains
      BY DEF ChainRecord
    <2>2. (CHOOSE q \in {p} : TRUE) = p
      OBVIOUS
    <2> QED  BY <1>7, <2>1, <2>2 DEF Counted, EntryOf
  <1>10. ASSUME NEW chain \in Chains, chain # p.chain
         PROVE  Counted(new)[chain] = Counted(all)[chain]
    <2> DEFINE Chosen(records) == CHOOSE q \in records : TRUE
               EntryIn(records) == IF records = {} THEN None ELSE EntryOf(Chosen(records))
    <2>1. /\ Counted(new)[chain] = EntryIn(OfChain(new, chain))
          /\ Counted(all)[chain] = EntryIn(OfChain(all, chain))
      BY DEF Counted, EntryOf
    <2> HIDE DEF EntryIn
    <2> QED  BY <1>8, <1>10, <2>1
  <1>11. Counted(new) = [Counted(all) EXCEPT ![p.chain] = EntryOf(p)]
    <2>1. /\ Counted(new) = [chain \in Chains |-> Counted(new)[chain]]
          /\ Counted(all) = [chain \in Chains |-> Counted(all)[chain]]
      BY DEF Counted
    <2>2. p.chain \in Chains
      BY DEF ChainRecord
    <2> QED  BY <2>1, <2>2, <1>9, <1>10
  <1> QED  BY <1>5, <1>11 DEF new

\* A record of a chain shows an entry of the ledger.
LEMMA EntryOfChain ==
    ASSUME NEW p, NEW n, ChainRecord(p, n)
    PROVE  EntryOf(p) \in Ledger!Entry /\ EntryOf(p) # None
  <1>1. EntryOf(p) \in Ledger!Entry
    BY DEF ChainRecord, EntryOf, Ledger!Entry
  <1> QED  BY <1>1, NoEntryAssumption

-----------------------------------------------------------------------------
(* The steps that the ledger sees.                                         *)

\* One step of the page, from the ledger's point of view.
LedgerStep ==
    /\ ChainInv'
    /\ load' = load => Ledger!Next \/ UNCHANGED Counted(proofsRef)

\* A record filed in the mirror, by a handler that asks for an id.
LEMMA FilingIsLedgerStep ==
    ASSUME MirrorInv, ChainInv, Fresh, shown' = shown, disk' = disk,
           next' = [next EXCEPT !.proofs = proofsRef'],
           NEW p, ChainRecord(p, seq'), proofsRef' = Append(proofsRef, p),
           \/ p.version = 1 /\ \A i \in DOMAIN proofsRef : proofsRef[i].chain # p.chain
           \/ /\ p.version = 2
              /\ \E i \in EffectivePositions(proofsRef) :
                    proofsRef[i].chain = p.chain /\ proofsRef[i].version = 1
    PROVE  LedgerStep
  <1>1. seq' = seq + 1 /\ seq \in Nat
    BY DEF ChainInv, Fresh
  <1>2. Chained(shown.proofs, seq') /\ Chained(proofsRef, seq') /\ Chained(disk.proofs, seq')
    BY <1>1, ChainedLasts DEF ChainInv
  <1>3. ASSUME NEW i \in EffectivePositions(proofsRef), proofsRef[i].version = 1,
               NEW j \in DOMAIN proofsRef, proofsRef[j].chain = proofsRef[i].chain
        PROVE  proofsRef[j].version = 1
    <2>1. ~(proofsRef[j].version > proofsRef[i].version)
      BY <1>3 DEF EffectivePositions, Supersedes
    <2>2. proofsRef[j].version \in {1, 2}
      BY <1>2 DEF Chained, ChainRecord
    <2> QED  BY <1>3, <2>1, <2>2
  <1>4. IsLedger(proofsRef)
    BY DEF MirrorInv
  <1>5. \A i \in DOMAIN proofsRef :
           proofsRef[i].chain = p.chain => proofsRef[i].version < p.version
    <2>1. ASSUME NEW j \in DOMAIN proofsRef, proofsRef[j].chain = p.chain
          PROVE  proofsRef[j].version = 1 /\ p.version = 2
      BY <1>3, <2>1
    <2> QED  BY <2>1
  <1>6. /\ Chained(proofsRef', seq')
        /\ Counted(proofsRef') = [Counted(proofsRef) EXCEPT ![p.chain] = EntryOf(p)]
    BY <1>2, <1>4, <1>5, LatestCounts
  <1>7. ChainInv'
    <2>1. next'.baselines = next.baselines
      BY DEF MirrorInv, StateKeys
    <2> QED  BY <1>1, <1>2, <1>6, <2>1 DEF ChainInv, Valued
  <1>8. p.chain \in Chains /\ EntryOf(p) \in Ledger!Entry
    BY EntryOfChain DEF ChainRecord
  <1>9. Counted(proofsRef')[p.chain] = EntryOf(p)
    BY <1>6, <1>8 DEF Counted
  <1>10. Ledger!Changes(p.chain)
    BY <1>6, <1>8, <1>9 DEF Ledger!Changes
  <1>11. CASE p.version = 1 /\ \A i \in DOMAIN proofsRef : proofsRef[i].chain # p.chain
    <2>1. OfChain(proofsRef, p.chain) = {}
      BY <1>11 DEF OfChain, EffectiveProofs, EffectivePositions
    <2>2. Counted(proofsRef)[p.chain] = None
      BY <1>8, <2>1 DEF Counted
    <2>3. p.status = "Approved"
      BY <1>11 DEF ChainRecord
    <2>4. Ledger!Approve(p.chain)
      BY <1>9, <1>10, <1>11, <2>2, <2>3 DEF Ledger!Approve, EntryOf
    <2> QED  BY <1>7, <1>8, <2>4 DEF LedgerStep, Ledger!Next
  <1>12. CASE p.version = 2
    <2>1. PICK i \in EffectivePositions(proofsRef) :
                 proofsRef[i].chain = p.chain /\ proofsRef[i].version = 1
      BY <1>12
    <2>2. OfChain(proofsRef, p.chain) = {proofsRef[i]}
      <3>1. DOMAIN proofsRef \subseteq Nat
        BY <1>4 DEF IsLedger
      <3> QED  BY <1>2, <2>1, <3>1, HeadOfChain
    <2>3. Counted(proofsRef)[p.chain] = EntryOf(proofsRef[i])
      <3>1. (CHOOSE q \in {proofsRef[i]} : TRUE) = proofsRef[i]
        OBVIOUS
      <3> QED  BY <1>8, <2>2, <3>1 DEF Counted, EntryOf
    <2>4. EntryOf(proofsRef[i]) # None
      BY <1>2, <2>1, EntryOfChain DEF EffectivePositions, Chained
    <2>5. p.status = "Reversed" /\ p.returned = 0
      BY <1>12 DEF ChainRecord
    <2>6. Ledger!Revise(p.chain)
      BY <1>9, <1>10, <1>12, <2>1, <2>3, <2>4, <2>5 DEF Ledger!Revise, EntryOf
    <2> QED  BY <1>7, <1>8, <2>6 DEF LedgerStep, Ledger!Next
  <1> QED  BY <1>11, <1>12

\* A control that finds nothing to do files nothing, though it has taken an id.
LEMMA NothingFiled ==
    ASSUME MirrorInv, ChainInv, Fresh, shown' = shown, disk' = disk,
           next' = [next EXCEPT !.proofs = proofsRef'], proofsRef' = proofsRef
    PROVE  LedgerStep
  <1>1. seq' = seq + 1 /\ seq \in Nat
    BY DEF ChainInv, Fresh
  <1>2. Chained(shown.proofs, seq') /\ Chained(proofsRef, seq') /\ Chained(disk.proofs, seq')
    BY <1>1, ChainedLasts DEF ChainInv
  <1>3. next'.baselines = next.baselines
    BY DEF MirrorInv, StateKeys
  <1>4. ChainInv'
    BY <1>1, <1>2, <1>3 DEF ChainInv, Valued
  <1> QED  BY <1>4 DEF LedgerStep, Counted, OfChain, EffectiveProofs, EffectivePositions, Supersedes

\* An approval opens a chain under an id that is handed out now.
LEMMA ApprovalIsLedgerStep ==
    ASSUME MirrorInv, ChainInv, NEW c \in Cases, NEW amount \in Amounts, ApproveProof(c, amount)
    PROVE  LedgerStep
  <1>1. PICK b \in BaselinesOf(shown, c) :
           proofsRef' = AppendApprovedProof(proofsRef, c,
                            ApproveProofForCase(ApprovalContext(c, b, amount, TRUE)))
    BY DEF ApproveProof, LatestProofs
  <1> DEFINE p == ApproveProofForCase(ApprovalContext(c, b, amount, TRUE))
  <1>2. /\ {"chain", "version", "returned", "status"} \subseteq DOMAIN p
        /\ p.chain = <<"PF", c, seq + 1>> /\ p.version = 1 /\ p.status = "Approved"
        /\ p.returned = Max({0, amount - b.amount})
    BY DEF ApproveProofForCase, ApprovalContext, MkId
  <1> HIDE DEF p
  <1>3. seq \in Nat /\ seq' = seq + 1 /\ seq < MaxIds /\ MaxIds \in Nat
    BY ClientAssumption DEF ClientAssumption, ChainInv, ApproveProof, Fresh
  <1>4. ChainRecord(p, seq')
    <2> DEFINE uplift == amount - b.amount
    <2>1. uplift \in Int /\ p.returned = Max({0, uplift})
      BY <1>2, EntryAssumption DEF EntryAssumption, ChainInv, Valued, BaselinesOf
    <2> HIDE DEF uplift
    <2>2. p.returned \in Nat
      BY <2>1, UpliftIsNatural
    <2>3. p.chain \in Chains
      BY <1>2, <1>3 DEF Chains
    <2>4. ASSUME NEW d \in Cases, NEW k \in Nat, p.chain = <<"PF", d, k>>  PROVE k <= seq'
      BY <1>2, <1>3, <2>4
    <2> QED  BY <1>2, <2>2, <2>3, <2>4 DEF ChainRecord
  <1>5. \A i \in DOMAIN proofsRef : proofsRef[i].chain # p.chain
    <2>1. ASSUME NEW i \in DOMAIN proofsRef, proofsRef[i].chain = <<"PF", c, seq + 1>>  PROVE FALSE
      <3>1. seq + 1 <= seq
        BY <1>3, <2>1 DEF ChainInv, Chained, ChainRecord
      <3> QED  BY <1>3, <3>1
    <2> QED  BY <1>2, <2>1
  <1>6. CASE HasEffectiveRecoveryForCase(proofsRef, c)
    BY <1>1, <1>6, NothingFiled DEF AppendApprovedProof, ApproveProof
  <1>7. CASE ~HasEffectiveRecoveryForCase(proofsRef, c)
    <2>1. proofsRef' = Append(proofsRef, p)
      BY <1>1, <1>7 DEF AppendApprovedProof, p
    <2> QED  BY <1>2, <1>4, <1>5, <2>1, FilingIsLedgerStep DEF ApproveProof
  <1> QED  BY <1>6, <1>7

\* A reversal follows the approval of its chain, if that still counts.
LEMMA ReversalIsLedgerStep ==
    ASSUME MirrorInv, ChainInv, NEW i \in DOMAIN shown.proofs, ReverseProof(i)
    PROVE  LedgerStep
  <1> DEFINE chain == shown.proofs[i].chain
             latest == {q \in EffectiveProofs(proofsRef) : q.chain = chain /\ IsEffectiveRecovery(q)}
             head == CHOOSE q \in latest : TRUE
             p == ReverseProofForCase(head, MkId("REV", chain), Approver)
  <1>1. proofsRef' = IF latest = {} THEN proofsRef ELSE Append(proofsRef, p)
    BY DEF ReverseProof, LatestProofs, AppendReversal
  <1>2. CASE latest = {}
    BY <1>1, <1>2, NothingFiled DEF ReverseProof
  <1>3. CASE latest # {}
    <2>1. head \in latest
      BY <1>3
    <2> HIDE DEF head, latest
    <2>2. PICK j \in EffectivePositions(proofsRef) :
             proofsRef[j] = head /\ head.chain = chain /\ IsEffectiveRecovery(head)
      BY <2>1 DEF latest, EffectiveProofs
    <2>3. ChainRecord(head, seq) /\ head.version = 1
      <3>1. ChainRecord(head, seq)
        BY <2>2 DEF EffectivePositions, ChainInv, Chained
      <3> QED  BY <2>2, <3>1 DEF ChainRecord, IsEffectiveRecovery
    <2>4. /\ {"chain", "version", "returned", "status"} \subseteq DOMAIN p
          /\ p.chain = head.chain /\ p.version = 2 /\ p.status = "Reversed" /\ p.returned = 0
      BY <2>3 DEF ReverseProofForCase, ChainRecord
    <2> HIDE DEF p, chain
    <2>5. ChainRecord(p, seq')
      <3>1. seq \in Nat /\ seq' = seq + 1
        BY DEF ChainInv, ReverseProof, Fresh
      <3> QED  BY <2>3, <2>4, <3>1 DEF ChainRecord
    <2> QED  BY <1>1, <1>3, <2>2, <2>3, <2>4, <2>5, FilingIsLedgerStep DEF ReverseProof
  <1> QED  BY <1>2, <1>3

\* A step that files no proof and gives a state no amount other than a number.
LEMMA OtherIsLedgerStep ==
    ASSUME MirrorInv, ChainInv, seq' \in {seq, seq + 1}, load' = load, proofsRef' = proofsRef,
           shown' \in {shown, next}, disk'.proofs \in {disk.proofs, next.proofs},
           Valued(next'.baselines), Valued(disk'.baselines)
    PROVE  LedgerStep
  <1>1. seq \in Nat /\ seq' \in Nat /\ seq <= seq'
    BY DEF ChainInv
  <1>2. Chained(shown.proofs, seq') /\ Chained(proofsRef, seq') /\ Chained(disk.proofs, seq')
    BY <1>1, ChainedLasts DEF ChainInv
  <1>3. Valued(shown'.baselines)
    BY DEF ChainInv
  <1>4. ChainInv'
    <2>1. Chained(shown'.proofs, seq') /\ Chained(disk'.proofs, seq') /\ Chained(proofsRef', seq')
      BY <1>2 DEF MirrorInv
    <2>2. Chained(shown.proofs, seq)' /\ Chained(disk.proofs, seq)' /\ Chained(proofsRef, seq)'
      BY <2>1
    <2> QED  BY <1>1, <1>3, <2>2 DEF ChainInv, Valued
  <1> QED  BY <1>4 DEF LedgerStep, Counted, OfChain, EffectiveProofs, EffectivePositions, Supersedes

\* setEvents with baselines of known amounts.
LEMMA MutationIsValued ==
    ASSUME MirrorInv, ChainInv, NEW state, DOMAIN state = StateKeys, state.proofs = next.proofs,
           Valued(state.baselines), NEW c, NEW e, MutateWith(state, c, e),
           shown' = shown, proofsRef' = proofsRef, load' = load, seq' \in {seq, seq + 1}
    PROVE  LedgerStep
  <1>1. next' = [state EXCEPT !.cases = [state.cases EXCEPT ![c] = Rescored(e)]]
    BY DEF MutateWith
  <1>2. disk' = disk \/ disk' = [disk EXCEPT !.cases = next'.cases]
    BY DEF MutateWith, Save
  <1>3. next'.baselines = state.baselines /\ disk'.baselines = disk.baselines
        /\ disk'.proofs = disk.proofs
    BY <1>1, <1>2 DEF MirrorInv, StateKeys
  <1>4. Valued(next'.baselines) /\ Valued(disk'.baselines)
    BY <1>3 DEF ChainInv
  <1> QED  BY <1>3, <1>4, OtherIsLedgerStep

LEMMA EditIsLedgerStep ==
    ASSUME MirrorInv, ChainInv, NEW c, NEW e, Edit(c, e)
    PROVE  LedgerStep
  <1>1. DOMAIN next = StateKeys /\ Valued(next.baselines)
    BY DEF MirrorInv, ChainInv
  <1> QED  BY <1>1, MutationIsValued DEF Edit

LEMMA ProvisionalIsLedgerStep ==
    ASSUME MirrorInv, ChainInv, NEW c, Provisional(c)
    PROVE  LedgerStep
  <1>1. ASSUME NEW owner, AssignOwner(c, owner)  PROVE LedgerStep
    BY <1>1, EditIsLedgerStep DEF AssignOwner
  <1>2. ASSUME NEW status, AdvanceStatus(c, status)  PROVE LedgerStep
    BY <1>2, EditIsLedgerStep DEF AdvanceStatus
  <1>3. ASSUME AddAction(c)  PROVE LedgerStep
    BY <1>3, EditIsLedgerStep DEF AddAction
  <1>4. ASSUME NEW reason, SetReason(c, reason)  PROVE LedgerStep
    BY <1>4, EditIsLedgerStep DEF SetReason
  <1>5. ASSUME ApplyRecommendation(c)  PROVE LedgerStep
    BY <1>5, EditIsLedgerStep DEF ApplyRecommendation
  <1>6. ASSUME NEW amount, UpdateCollected(c, amount) \/ UpdateBaseline(c, amount)  PROVE LedgerStep
    BY <1>6, EditIsLedgerStep DEF UpdateCollected, UpdateBaseline
  <1>7. ASSUME NEW class, UpdateEvidence(c, class)  PROVE LedgerStep
    BY <1>7, EditIsLedgerStep DEF UpdateEvidence
  <1> QED  BY <1>1, <1>2, <1>3, <1>4, <1>5, <1>6, <1>7 DEF Provisional

\* A baseline is entered with an amount, and locked with the one it has.
LEMMA GovernedIsLedgerStep ==
    ASSUME MirrorInv, FrozenInv, ChainInv, NEW c \in Cases, Governed(c)
    PROVE  LedgerStep
  <1> USE DEF StateKeys
  <1>1. ASSUME NEW b, "amount" \in DOMAIN b, b.amount \in Int, NEW e, Fresh,
               MutateWith([next EXCEPT !.baselines = @ \cup {b}], c, e),
               shown' = shown, proofsRef' = proofsRef, load' = load
        PROVE  LedgerStep
    <2> DEFINE state == [next EXCEPT !.baselines = @ \cup {b}]
    <2>1. /\ DOMAIN state = StateKeys /\ state.proofs = next.proofs
          /\ state.baselines = next.baselines \cup {b}
      BY DEF MirrorInv
    <2>2. MutateWith(state, c, e) /\ seq' = seq + 1
      BY <1>1 DEF Fresh
    <2> HIDE DEF state
    <2>3. Valued(state.baselines)
      BY <1>1, <2>1 DEF ChainInv, Valued
    <2> QED  BY <1>1, <2>1, <2>2, <2>3, MutationIsValued
  <1>2. ASSUME NEW amount \in Amounts, EstablishBaseline(c, amount)  PROVE LedgerStep
    <2> DEFINE b == MakeBaseline(MkId("BL", c), amount, clock)
    <2>1. "amount" \in DOMAIN b /\ b.amount \in Int
      BY EntryAssumption DEF EntryAssumption, MakeBaseline
    <2>2. \E e : MutateWith([next EXCEPT !.baselines = @ \cup {b}], c, e)
      BY <1>2 DEF EstablishBaseline
    <2> HIDE DEF b
    <2> QED  BY <1>1, <1>2, <2>1, <2>2 DEF EstablishBaseline
  <1>3. ASSUME NEW amount \in Amounts, ReviseBaseline(c, amount)  PROVE LedgerStep
    <2>1. PICK current : \E e :
             MutateWith([next EXCEPT !.baselines =
                           @ \cup {ReviseBaselineObj(current, MkId("BL", c), amount, clock)}], c, e)
      BY <1>3 DEF ReviseBaseline
    <2> DEFINE b == ReviseBaselineObj(current, MkId("BL", c), amount, clock)
    <2>2. "amount" \in DOMAIN b /\ b.amount \in Int
      BY EntryAssumption DEF EntryAssumption, ReviseBaselineObj
    <2>3. \E e : MutateWith([next EXCEPT !.baselines = @ \cup {b}], c, e)
      BY <2>1
    <2> HIDE DEF b
    <2> QED  BY <1>1, <1>3, <2>2, <2>3 DEF ReviseBaseline
  <1>4. ASSUME LockBaseline(c)  PROVE LedgerStep
    <2>1. PICK current \in BaselinesOf(shown, c) :
             LET locked == LockBaselineObj(current, clock)
                 kept == {b \in next.baselines : b.id # locked.id}
             IN  MutateWith([next EXCEPT !.baselines = kept \cup {locked}], c, next.cases[c])
      BY <1>4 DEF LockBaseline
    <2> DEFINE locked == LockBaselineObj(current, clock)
               kept == {b \in next.baselines : b.id # locked.id}
               state == [next EXCEPT !.baselines = kept \cup {locked}]
    <2>2. "amount" \in DOMAIN locked /\ locked.amount \in Int
      <3>1. "amount" \in DOMAIN current /\ current.amount \in Int
        BY DEF BaselinesOf, ChainInv, Valued
      <3> QED  BY <3>1 DEF LockBaselineObj
    <2>3. MutateWith(state, c, next.cases[c])
      BY <2>1
    <2>4. /\ DOMAIN state = StateKeys /\ state.proofs = next.proofs
          /\ state.baselines = kept \cup {locked}
      BY DEF MirrorInv
    <2> HIDE DEF state, locked
    <2>5. Valued(state.baselines)
      BY <2>2, <2>4 DEF ChainInv, Valued
    <2> QED  BY <1>4, <2>3, <2>4, <2>5, MutationIsValued DEF LockBaseline
  <1>5. ASSUME NEW source, AddEvidence(c, source)  PROVE LedgerStep
    <2>1. next'.baselines = next.baselines /\ seq' = seq + 1
      BY <1>5 DEF MirrorInv, AddEvidence, Fresh
    <2>2. Valued(next'.baselines) /\ Valued(disk'.baselines)
      BY <1>5, <2>1 DEF AddEvidence, ChainInv
    <2> QED  BY <1>5, <2>1, <2>2, OtherIsLedgerStep DEF AddEvidence
  <1>6. ASSUME NEW amount \in Amounts, ApproveProof(c, amount)  PROVE LedgerStep
    BY <1>6, ApprovalIsLedgerStep
  <1> QED  BY <1>2, <1>3, <1>4, <1>5, <1>6 DEF Governed

\* The seed's chains have one record each, and no id that is handed out later.
LEMMA SeedIsChained ==
    ASSUME NEW n \in Nat
    PROVE  Chained(Seeded.proofs, n) /\ Valued(Seeded.baselines)
  <1> DEFINE seeds == SeedsOf(Cases)
  <1>1. /\ Seeded.proofs = [i \in DOMAIN seeds |-> ApproveProofForCase(SeedContext(seeds[i]))]
        /\ Seeded.baselines = {SeedBaseline(seeds[i]) : i \in DOMAIN seeds}
    BY DEF Seeded, SeedTrust
  <1>2. \A i \in DOMAIN seeds :
           seeds[i].case \in Cases /\ {seeds[i].baseline, seeds[i].collected} \subseteq Int
    BY SeedAssumption DEF SeedAssumption
  <1> HIDE DEF seeds
  <1>3. ASSUME NEW s  PROVE "amount" \in DOMAIN SeedBaseline(s) /\ SeedBaseline(s).amount = s.baseline
    BY DEF SeedBaseline, LockBaselineObj, MakeBaseline
  <1>4. Valued(Seeded.baselines)
    BY <1>1, <1>2, <1>3 DEF Valued
  <1>5. ASSUME NEW i \in DOMAIN seeds
        PROVE  ChainRecord(Seeded.proofs[i], n) /\ Seeded.proofs[i].version = 1
               /\ Seeded.proofs[i].chain = <<"PF", Seeded.proofs[i].case>>
    <2> DEFINE s == seeds[i]
               ctx == SeedContext(s)
               p == ApproveProofForCase(ctx)
               uplift == ctx.collected - ctx.baseline.amount
    <2>1. /\ ctx.id = <<"PF", s.case>> /\ ctx.case = s.case
          /\ ctx.collected = s.collected /\ ctx.baseline = SeedBaseline(s)
      BY DEF SeedContext
    <2>2. uplift \in Int
      BY <1>2, <1>3, <2>1
    <2> HIDE DEF ctx
    <2>3. /\ {"chain", "version", "returned", "status"} \subseteq DOMAIN p
          /\ p.chain = ctx.id /\ p.case = ctx.case /\ p.version = 1 /\ p.status = "Approved"
          /\ p.returned = Max({0, uplift})
      BY DEF ApproveProofForCase
    <2> HIDE DEF p, uplift
    <2>4. p.returned \in Nat
      BY <2>2, <2>3, UpliftIsNatural
    <2>5. p.chain \in Chains /\ \A c, k : p.chain # <<"PF", c, k>>
      BY <1>2, <2>1, <2>3 DEF Chains
    <2>6. Seeded.proofs[i] = p
      BY <1>1 DEF p, ctx
    <2> QED  BY <2>1, <2>3, <2>4, <2>5, <2>6 DEF ChainRecord
  <1>6. DOMAIN Seeded.proofs = DOMAIN seeds
    BY <1>1
  <1>7. ASSUME NEW i \in DOMAIN seeds, NEW j \in DOMAIN seeds,
               Seeded.proofs[i].chain = Seeded.proofs[j].chain
        PROVE  i = j
    BY <1>5, <1>6, <1>7, SeedAssumption DEF SeedAssumption
  <1>8. Chained(Seeded.proofs, n)
    BY <1>5, <1>6, <1>7 DEF Chained
  <1> QED  BY <1>4, <1>8

LEMMA StepFollowsLedger ==
    ASSUME MirrorInv, FrozenInv, ChainInv, [Next]_vars
    PROVE  LedgerStep
  <1> USE ClientAssumption DEF ClientAssumption
  <1>1. CASE UNCHANGED vars
    BY <1>1, OtherIsLedgerStep DEF vars, ChainInv
  <1>2. ASSUME NEW c \in Cases, Provisional(c)  PROVE LedgerStep
    BY <1>2, ProvisionalIsLedgerStep
  <1>3. ASSUME NEW c \in Governable, Governed(c)  PROVE LedgerStep
    BY <1>3, GovernedIsLedgerStep
  <1>4. ASSUME NEW i \in DOMAIN shown.proofs, ReverseProof(i)  PROVE LedgerStep
    BY <1>4, ReversalIsLedgerStep
  <1>5. CASE ResetData
    <2>1. load' # load
      BY <1>5 DEF ResetData, MirrorInv
    <2>2. Chained(Seeded.proofs, seq) /\ Valued(Seeded.baselines)
      BY SeedIsChained DEF ChainInv
    <2> QED  BY <1>5, <2>1, <2>2 DEF ResetData, ChainInv, LedgerStep
  <1>6. CASE Commit
    <2>1. /\ shown' = next /\ next' = next /\ seq' = seq /\ load' = load
          /\ proofsRef' = proofsRef
          /\ disk' = disk \/ disk' = WithTrust(disk, next)
      BY <1>6 DEF Commit, Save, MirrorInv
    <2>2. /\ disk'.proofs \in {disk.proofs, next.proofs}
          /\ disk'.baselines \in {disk.baselines, next.baselines}
      BY <2>1 DEF WithTrust, MirrorInv, StateKeys
    <2>3. Valued(next'.baselines) /\ Valued(disk'.baselines)
      BY <2>1, <2>2 DEF ChainInv
    <2> QED  BY <2>1, <2>2, <2>3, OtherIsLedgerStep
  <1>7. CASE Reload
    <2>1. load' # load
      BY <1>7 DEF Reload, MirrorInv
    <2> QED  BY <1>7, <2>1 DEF Reload, ChainInv, LedgerStep
  <1> QED  BY <1>1, <1>2, <1>3, <1>4, <1>5, <1>6, <1>7 DEF Next, CaseWork

LEMMA ChainsHold == Spec => []ChainInv
<1>1. Init => ChainInv
  <2> SUFFICES ASSUME Init  PROVE ChainInv
    OBVIOUS
  <2>1. Chained(Seeded.proofs, 0) /\ Valued(Seeded.baselines)
    BY SeedIsChained
  <2> QED  BY <2>1 DEF Init, ChainInv
<1>2. MirrorInv /\ FrozenInv /\ ChainInv /\ [Next]_vars => ChainInv'
  BY StepFollowsLedger DEF LedgerStep
<1> QED  BY <1>1, <1>2, MirrorHolds, FrozenHolds, PTL DEF Spec

\* Between two page loads the proofs of the browser are a counted ledger, the one
\* that the server is shown to keep: the id of an approval opens a chain of its own
\* and a reversal is the next version of what the chain counts, also when a handler
\* that read an older render runs twice (appendApprovedProof, appendReversal).
THEOREM BrowserKeepsLedger == Spec => ChainsFollowLedger
<1>1. MirrorInv /\ FrozenInv /\ ChainInv /\ [Next]_vars =>
         [load' = load => Ledger!Next]_(Counted(proofsRef))
  BY StepFollowsLedger DEF LedgerStep
<1> QED  BY <1>1, MirrorHolds, FrozenHolds, ChainsHold, PTL DEF Spec, ChainsFollowLedger

=============================================================================
