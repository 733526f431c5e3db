-------------------------- MODULE AuditServiceProofs --------------------------
(***************************************************************************)
(* Theorems about the audit reads, for any number of readers and handlers: *)
(* what a report has read in one await still holds in the next ones, as    *)
(* far as its amounts rest on it.                                          *)
(***************************************************************************)
EXTENDS AuditService, ProofServerProofs

-----------------------------------------------------------------------------
(***************************************************************************)
(* The reports' types, and what a report holds at each of its steps.       *)
(***************************************************************************)
Report ==
    [step : {"idle", "proofs", "excluded", "total", "trail", "chain"},
     op : {"export", "trail", "proof", None}, target : Cases \cup {None},
     proofs : SUBSET Proof, excluded : BOOLEAN, todo : SUBSET Proof,
     auditable : SUBSET Proof, trail : SUBSET AuthorityActions,
     confirmed : SUBSET Proof, wasExcluded : BOOLEAN]

\* What was read of the tables is still in them.
ReadsHold(r) ==
    /\ r.proofs \subseteq proofs
    /\ r.todo \cup r.confirmed \subseteq r.proofs
    /\ r.op = "export" => \A p \in r.proofs : p.case = r.target
    /\ r.wasExcluded => Excluded(r.target)

\* Where the amounts of a report come from, step by step.
AmountsHold(r) ==
    /\ r.step # "idle" => r.op \in {"export", "trail", "proof"}
    /\ r.step \notin {"total", "chain"} => r.todo = {}
    /\ r.step = "total" => r.op = "export" /\ r.todo \subseteq Candidates(r.proofs, r.excluded)
    /\ r.auditable # {} => r.op = "export" /\ r.step \in {"total", "chain"}
    /\ r.auditable \subseteq Candidates(r.proofs, r.excluded)
    /\ r.confirmed # {} => r.step = "chain" /\ ~r.excluded

\* An exclusion that preceded the request has been read once the amounts are.
ExclusionHolds(r) ==
    /\ r.wasExcluded /\ r.step \in {"total", "trail", "chain"} => r.excluded
    /\ r.wasExcluded /\ r.step = "proofs" /\ r.op # "export" => r.excluded

Sound(r) == ReadsHold(r) /\ AmountsHold(r) /\ ExclusionHolds(r)

AuditInv ==
    /\ report \in [Readers -> Report]
    /\ \A x \in Readers : Sound(report[x])

\* Every proof marked auditable has no gap in the tables as they are now, and what
\* the total of an export counts is confirmed by its chain or still to be read.
FactsHold(r) ==
    /\ \A p \in r.auditable \cup r.confirmed : NoTrustGaps(p)
    /\ r.step = "chain" => r.auditable \subseteq r.todo \cup r.confirmed

FactsInv == \A x \in Readers : FactsHold(report[x])

-----------------------------------------------------------------------------
(***************************************************************************)
(* The audit reads leave the server alone.                                 *)
(***************************************************************************)

\* A step of the composition is a step of the server, or a report's that leaves
\* the server alone.
LEMMA AuditStepIsServerStep ==
    ASSUME [AuditNext]_auditVars
    PROVE  /\ [Next]_vars
           /\ \/ UNCHANGED report
              \/ UNCHANGED vars /\ \E x \in Readers : Read(x)
  <1>1. ASSUME NEW x \in Readers, Read(x)  PROVE UNCHANGED vars
    BY <1>1 DEF Read, AskExport, AskTrail, AskProof, Begin, ReadProofs, ReadExcluded, ReadTotal,
                ReadTrail, ReadChain, Deliver, Advance
  <1> QED  BY <1>1 DEF AuditNext, auditVars

\* Whatever is proved of the server holds of the composition.
LEMMA AuditRunsServer == AuditSpec => Spec
  <1>1. AuditInit => Init
    BY DEF AuditInit
  <1>2. [AuditNext]_auditVars => [Next]_vars
    BY AuditStepIsServerStep
  <1> QED  BY <1>1, <1>2, PTL DEF AuditSpec, Spec

-----------------------------------------------------------------------------
(***************************************************************************)
(* AuditInv is inductive.                                                  *)
(***************************************************************************)

\* The server only adds rows, so what reports have read still holds.
LEMMA ServerKeepsReports ==
    ASSUME AuditInv, [Next]_vars, UNCHANGED report
    PROVE  AuditInv'
  <1>1. authority \subseteq authority' /\ proofs \subseteq proofs'
    BY AuthorityChangesByCommit
  <1>2. \A c : Excluded(c) => Excluded(c)'
    BY <1>1 DEF Excluded
  <1>3. \A r : Sound(r) => Sound(r)'
    BY <1>1, <1>2 DEF Sound, ReadsHold, AmountsHold, ExclusionHolds, Candidates, EffectiveIn
  <1> QED  BY <1>3 DEF AuditInv

\* A read replaces one report; it is enough that the new one is sound.
LEMMA AdvanceKeepsReports ==
    ASSUME AuditInv, NEW x \in Readers, NEW changed \in Report, Sound(changed), Advance(x, changed)
    PROVE  AuditInv'
  <1>1. report' = [report EXCEPT ![x] = changed] /\ UNCHANGED <<proofs, authority>>
    BY DEF Advance, vars, tables
  <1>2. report' \in [Readers -> Report]
    BY <1>1 DEF AuditInv
  <1>3. \A r : Sound(r) => Sound(r)'
    BY <1>1 DEF Sound, ReadsHold, AmountsHold, ExclusionHolds, Candidates, EffectiveIn, Excluded
  <1>4. \A y \in Readers : Sound(report'[y])
    BY <1>1 DEF AuditInv
  <1> QED  BY <1>2, <1>3, <1>4 DEF AuditInv

LEMMA NoReportIsSound == NoReport \in Report /\ Sound(NoReport)
  BY DEF NoReport, Report, Sound, ReadsHold, AmountsHold, ExclusionHolds, Candidates

\* A report that has just been asked for holds only the proof it is about, if any.
LEMMA BeginIsSound ==
    ASSUME AuditInv, TablesOK, NEW x \in Readers, NEW op \in {"export", "trail", "proof"},
           NEW c \in Cases, NEW step \in {"proofs", "excluded"}, NEW found \in SUBSET proofs,
           op = "export" => found = {}, step = "proofs" => op = "export",
           Begin(x, op, c, step, found)
    PROVE  AuditInv'
  <1> DEFINE was == Excluded(c)
             r == [NoReport EXCEPT !.op = op, !.target = c, !.step = step,
                                   !.proofs = found, !.wasExcluded = was]
  <1>1. was \in BOOLEAN
    BY DEF Excluded
  <1>2. Advance(x, r)
    BY DEF Begin
  <1> HIDE DEF was
  <1>3. r \in Report
    BY <1>1 DEF NoReport, Report, TablesOK
  <1>4. /\ r.step = step /\ r.op = op /\ r.target = c /\ r.proofs = found
        /\ r.excluded = FALSE /\ r.todo = {} /\ r.auditable = {}
        /\ r.confirmed = {} /\ r.wasExcluded = was
    BY DEF NoReport
  <1> HIDE DEF r
  <1>5. Sound(r)
    BY <1>4 DEF Sound, ReadsHold, AmountsHold, ExclusionHolds, Candidates, was
  <1> QED  BY <1>2, <1>3, <1>5, AdvanceKeepsReports

\* Each read of a report keeps it sound.
LEMMA ReadKeepsReports ==
    ASSUME AuditInv, TablesOK, NEW x \in Readers, Read(x)
    PROVE  AuditInv'
  <1> DEFINE r == report[x]
  <1>0. r \in Report /\ Sound(r)
    BY DEF AuditInv
  <1>1. CASE AskExport(x) \/ AskTrail(x)
    BY <1>1, BeginIsSound DEF AskExport, AskTrail
  <1>2. CASE AskProof(x)
    <2>1. PICK p \in proofs : Begin(x, "proof", p.case, "excluded", {p})
      BY <1>2 DEF AskProof
    <2>2. p.case \in Cases
      BY DEF TablesOK, Proof
    <2> QED  BY <2>1, <2>2, BeginIsSound
  <1>3. CASE Deliver(x)
    BY <1>3, NoReportIsSound, AdvanceKeepsReports DEF Deliver
  <1>4. CASE ReadProofs(x)
    <2> DEFINE found == {p \in proofs : p.case = r.target}
               next == IF r.op = "export" THEN "excluded" ELSE "trail"
               new == [r EXCEPT !.proofs = found, !.step = next]
    <2>1. r.step = "proofs" /\ Advance(x, new)
      BY <1>4 DEF ReadProofs
    <2>2. found \in SUBSET Proof /\ found \subseteq proofs /\ \A p \in found : p.case = r.target
      BY DEF TablesOK
    <2>3. next \in {"excluded", "trail"} /\ (next = "excluded" <=> r.op = "export")
      OBVIOUS
    <2>4. r.todo = {} /\ r.auditable = {} /\ r.confirmed = {}
      BY <1>0, <2>1 DEF Sound, AmountsHold, Report
    <2> HIDE DEF found, next
    <2>5. new \in Report
      BY <1>0, <2>2, <2>3 DEF Report
    <2>6. /\ new.step = next /\ new.op = r.op /\ new.target = r.target /\ new.proofs = found
          /\ new.excluded = r.excluded /\ new.todo = {} /\ new.auditable = {}
          /\ new.confirmed = {} /\ new.wasExcluded = r.wasExcluded
      BY <1>0, <2>4 DEF Report
    <2> HIDE DEF new
    <2>7. ReadsHold(new)
      BY <1>0, <2>2, <2>6 DEF Sound, ReadsHold
    <2>8. AmountsHold(new)
      BY <1>0, <2>1, <2>3, <2>6 DEF Sound, AmountsHold
    <2>9. ExclusionHolds(new)
      BY <1>0, <2>1, <2>3, <2>6 DEF Sound, ExclusionHolds
    <2> QED  BY <2>1, <2>5, <2>7, <2>8, <2>9, AdvanceKeepsReports DEF Sound
  <1>5. CASE ReadExcluded(x)
    <2> DEFINE was == CaseIsExcluded(r.target)
    <2>1. was = Excluded(r.target) /\ was \in BOOLEAN
      BY DEF CaseIsExcluded, Excluded
    <2>2. /\ r.step = "excluded" /\ r.op \in {"export", "trail", "proof"}
          /\ r.todo = {} /\ r.auditable = {} /\ r.confirmed = {}
      BY <1>0, <1>5 DEF ReadExcluded, Sound, AmountsHold, Report
    <2>3. /\ r.op = "export" =>
               Advance(x, [r EXCEPT !.excluded = was, !.step = "total",
                                    !.todo = Candidates(r.proofs, was)])
          /\ r.op = "trail" => Advance(x, [r EXCEPT !.excluded = was, !.step = "proofs"])
          /\ r.op = "proof" =>
               Advance(x, [r EXCEPT !.excluded = was, !.step = "chain", !.todo = r.proofs])
      BY <1>5 DEF ReadExcluded
    <2> HIDE DEF was
    <2>4. CASE r.op = "export"
      <3> DEFINE todo == Candidates(r.proofs, was)
                 new == [r EXCEPT !.excluded = was, !.step = "total", !.todo = todo]
      <3>1. Advance(x, new)
        BY <2>3, <2>4
      <3>2. todo \in SUBSET Proof /\ todo \subseteq r.proofs
        BY <1>0 DEF Candidates, EffectiveIn, Report
      <3> HIDE DEF todo
      <3>3. new \in Report
        BY <1>0, <2>1, <3>2 DEF Report
      <3>4. /\ new.step = "total" /\ new.op = "export" /\ new.target = r.target
            /\ new.proofs = r.proofs /\ new.excluded = was /\ new.todo = todo
            /\ new.auditable = {} /\ new.confirmed = {} /\ new.wasExcluded = r.wasExcluded
        BY <1>0, <2>2, <2>4 DEF Report
      <3> HIDE DEF new
      <3>5. ReadsHold(new)
        BY <1>0, <2>4, <3>2, <3>4 DEF Sound, ReadsHold
      <3>6. AmountsHold(new)
        BY <3>4 DEF AmountsHold, todo
      <3>7. ExclusionHolds(new)
        BY <1>0, <2>1, <3>4 DEF Sound, ReadsHold, ExclusionHolds
      <3> QED  BY <3>1, <3>3, <3>5, <3>6, <3>7, AdvanceKeepsReports DEF Sound
    <2>5. ASSUME NEW next \in {"proofs", "chain"}, NEW todo \in {{}, r.proofs},
                 r.op # "export", next = "proofs" => todo = {},
                 Advance(x, [r EXCEPT !.excluded = was, !.step = next, !.todo = todo])
          PROVE  AuditInv'
      <3> DEFINE new == [r EXCEPT !.excluded = was, !.step = next, !.todo = todo]
      <3>1. new \in Report
        BY <1>0, <2>1 DEF Report
      <3>2. /\ new.step = next /\ new.op = r.op /\ new.target = r.target
            /\ new.proofs = r.proofs /\ new.excluded = was /\ new.todo = todo
            /\ new.auditable = {} /\ new.confirmed = {} /\ new.wasExcluded = r.wasExcluded
        BY <1>0, <2>2 DEF Report
      <3>3. Advance(x, new)
        BY <2>5
      <3> HIDE DEF new
      <3>4. ReadsHold(new)
        BY <1>0, <2>5, <3>2 DEF Sound, ReadsHold
      <3>5. AmountsHold(new)
        BY <2>2, <2>5, <3>2 DEF AmountsHold
      <3>6. ExclusionHolds(new)
        BY <1>0, <2>1, <3>2 DEF Sound, ReadsHold, ExclusionHolds
      <3> QED  BY <3>1, <3>3, <3>4, <3>5, <3>6, AdvanceKeepsReports DEF Sound
    <2>6. CASE r.op = "trail"
      <3>1. [r EXCEPT !.excluded = was, !.step = "proofs"]
              = [r EXCEPT !.excluded = was, !.step = "proofs", !.todo = {}]
        BY <1>0, <2>2 DEF Report
      <3> QED  BY <2>3, <2>5, <2>6, <3>1
    <2> QED  BY <2>2, <2>3, <2>4, <2>5, <2>6
  <1>6. CASE ReadTotal(x)
    <2>1. PICK p \in r.todo :
            Advance(x, [r EXCEPT !.todo = r.todo \ {p},
                                 !.auditable = r.auditable \cup {q \in {p} : NoTrustGaps(q)}])
      BY <1>6 DEF ReadTotal
    <2> DEFINE todo == r.todo \ {p}
               auditable == r.auditable \cup {q \in {p} : NoTrustGaps(q)}
               new == [r EXCEPT !.todo = todo, !.auditable = auditable]
    <2>2. /\ r.step = "total" /\ r.op = "export" /\ r.todo \subseteq Candidates(r.proofs, r.excluded)
          /\ r.auditable \subseteq Candidates(r.proofs, r.excluded) /\ r.confirmed = {}
      BY <1>0, <1>6 DEF ReadTotal, Sound, AmountsHold
    <2>3. /\ todo \in SUBSET Proof /\ todo \subseteq r.todo
          /\ auditable \in SUBSET Proof /\ auditable \subseteq Candidates(r.proofs, r.excluded)
      BY <1>0, <2>2 DEF Report
    <2>4. Advance(x, new)
      BY <2>1
    <2> HIDE DEF todo, auditable
    <2>5. new \in Report
      BY <1>0, <2>3 DEF Report
    <2>6. /\ new.step = "total" /\ new.op = "export" /\ new.target = r.target
          /\ new.proofs = r.proofs /\ new.excluded = r.excluded /\ new.todo = todo
          /\ new.auditable = auditable /\ new.confirmed = {} /\ new.wasExcluded = r.wasExcluded
      BY <1>0, <2>2 DEF Report
    <2> HIDE DEF new
    <2>7. ReadsHold(new)
      BY <1>0, <2>2, <2>3, <2>6 DEF Sound, ReadsHold
    <2>8. AmountsHold(new)
      BY <2>2, <2>3, <2>6 DEF AmountsHold
    <2>9. ExclusionHolds(new)
      BY <1>0, <2>2, <2>6 DEF Sound, ExclusionHolds
    <2> QED  BY <2>4, <2>5, <2>7, <2>8, <2>9, AdvanceKeepsReports DEF Sound
  <1>7. CASE ReadTrail(x)
    <2> DEFINE trail == {e.action : e \in AuthorityFor(r.target)}
               new == [r EXCEPT !.trail = trail, !.step = "chain", !.todo = r.proofs]
    <2>1. Advance(x, new) /\ r.step \in {"trail", "total"}
      BY <1>7 DEF ReadTrail
    <2>2. trail \in SUBSET AuthorityActions
      BY DEF AuthorityFor, TablesOK, AuthorityEvent
    <2> HIDE DEF trail
    <2>3. new \in Report
      BY <1>0, <2>2 DEF Report
    <2>4. /\ new.step = "chain" /\ new.op = r.op /\ new.target = r.target
          /\ new.proofs = r.proofs /\ new.excluded = r.excluded /\ new.todo = r.proofs
          /\ new.auditable = r.auditable /\ new.confirmed = r.confirmed
          /\ new.wasExcluded = r.wasExcluded
      BY <1>0 DEF Report
    <2> HIDE DEF new
    <2>5. ReadsHold(new)
      BY <1>0, <2>4 DEF Sound, ReadsHold
    <2>6. AmountsHold(new)
      BY <1>0, <2>1, <2>4 DEF Sound, AmountsHold, Candidates, EffectiveIn
    <2>7. ExclusionHolds(new)
      BY <1>0, <2>1, <2>4 DEF Sound, ExclusionHolds
    <2> QED  BY <2>1, <2>3, <2>5, <2>6, <2>7, AdvanceKeepsReports DEF Sound
  <1>8. CASE ReadChain(x)
    <2>1. PICK p \in r.todo :
            Advance(x, [r EXCEPT !.todo = r.todo \ {p},
                                 !.confirmed = r.confirmed \cup
                                    {q \in {p} : /\ ProofIsAuditable(q)
                                                 /\ NoTrustGaps(q)
                                                 /\ ~r.excluded}])
      BY <1>8 DEF ReadChain
    <2> DEFINE todo == r.todo \ {p}
               confirmed == r.confirmed \cup
                              {q \in {p} : ProofIsAuditable(q) /\ NoTrustGaps(q) /\ ~r.excluded}
               new == [r EXCEPT !.todo = todo, !.confirmed = confirmed]
    <2>2. r.step = "chain" /\ Advance(x, new)
      BY <1>8, <2>1 DEF ReadChain
    <2>3. /\ todo \in SUBSET Proof /\ todo \subseteq r.todo
          /\ confirmed \in SUBSET Proof /\ confirmed \subseteq r.proofs
          /\ confirmed # {} => ~r.excluded
      BY <1>0 DEF Report, Sound, ReadsHold, AmountsHold
    <2> HIDE DEF todo, confirmed
    <2>4. new \in Report
      BY <1>0, <2>3 DEF Report
    <2>5. /\ new.step = "chain" /\ new.op = r.op /\ new.target = r.target
          /\ new.proofs = r.proofs /\ new.excluded = r.excluded /\ new.todo = todo
          /\ new.auditable = r.auditable /\ new.confirmed = confirmed
          /\ new.wasExcluded = r.wasExcluded
      BY <1>0, <2>2 DEF Report
    <2> HIDE DEF new
    <2>6. ReadsHold(new)
      BY <1>0, <2>3, <2>5 DEF Sound, ReadsHold
    <2>7. AmountsHold(new)
      BY <1>0, <2>2, <2>3, <2>5 DEF Sound, AmountsHold
    <2>8. ExclusionHolds(new)
      BY <1>0, <2>2, <2>5 DEF Sound, ExclusionHolds
    <2> QED  BY <2>2, <2>4, <2>6, <2>7, <2>8, AdvanceKeepsReports DEF Sound
  <1> QED  BY <1>1, <1>2, <1>3, <1>4, <1>5, <1>6, <1>7, <1>8 DEF Read

\* What reports have read holds in every reachable state.
LEMMA ReportsStaySound == AuditSpec => []AuditInv
  <1>1. AuditInit => AuditInv
    BY NoReportIsSound DEF AuditInit, AuditInv
  <1>2. TypeOK /\ AuditInv /\ [AuditNext]_auditVars => AuditInv'
    BY AuditStepIsServerStep, ServerKeepsReports, ReadKeepsReports DEF TypeOK
  <1> QED  BY <1>1, <1>2, AuditRunsServer, TypeCorrect, PTL DEF AuditSpec

\* A case excluded before a report was asked for has no auditable amount in it: the
\* exclusion is read before the amounts it takes away, in every kind of report, and
\* is never taken back (cfoAuditExport, caseAuditTrail, reconstructProof).
THEOREM ReportsSeeExclusions == AuditSpec => []ExclusionIsSeen
  <1>1. AuditInv => ExclusionIsSeen
    BY DEF AuditInv, Sound, AmountsHold, ExclusionHolds, Candidates, ExclusionIsSeen
  <1> QED  BY <1>1, ReportsStaySound, PTL

-----------------------------------------------------------------------------
(***************************************************************************)
(* FactsInv, when no transaction outlives the tick it began in.            *)
(***************************************************************************)

\* A proof without gaps stays without gaps: its snapshot and the interventions on
\* its case stay, and interventions recorded later carry a later time.
LEMMA GapsStayClosed ==
    ASSUME ~LateCommit, TypeOK, TimesInv, [Next]_vars, NEW p, NoTrustGaps(p)
    PROVE  NoTrustGaps(p)'
  <1>1. PICK s \in baselines : /\ s.baselineId = p.baselineId
                               /\ Interventions(p.case) # {}
                               /\ \A e \in Interventions(p.case) : s.lockedAt <= e.at
    BY DEF NoTrustGaps
  <1>2. s \in baselines' /\ s.lockedAt \in Nat /\ s.lockedAt <= now
    BY FactsGrow DEF TypeOK, TablesOK, BaselineSnapshot, TimesInv
  <1>3. \A c : \A e \in Interventions(c)' : e \in Interventions(c) \/ e.at = now
    BY FactsGrow
  <1>4. \A c : Interventions(c) \subseteq Interventions(c)'
    BY AuthorityChangesByCommit DEF Interventions, AuthorityFor
  <1>5. /\ (Interventions(p.case) # {})'
        /\ (\A e \in Interventions(p.case) : s.lockedAt <= e.at)'
    BY <1>1, <1>2, <1>3, <1>4
  <1> QED  BY <1>1, <1>2, <1>5 DEF NoTrustGaps

LEMMA ServerKeepsFacts ==
    ASSUME ~LateCommit, TypeOK, TimesInv, FactsInv, [Next]_vars, UNCHANGED report
    PROVE  FactsInv'
  <1> SUFFICES ASSUME NEW x \in Readers  PROVE FactsHold(report[x])'
    BY DEF FactsInv
  <1>1. FactsHold(report[x])
    BY DEF FactsInv
  <1> QED  BY <1>1, GapsStayClosed DEF FactsHold

\* A read adds to the amounts only what it has found without gaps.
LEMMA ReadKeepsFacts ==
    ASSUME AuditInv, FactsInv, NEW x \in Readers, Read(x), UNCHANGED vars
    PROVE  FactsInv'
  <1> DEFINE r == report[x]
  <1>0. r \in Report /\ Sound(r) /\ FactsHold(r)
    BY DEF AuditInv, FactsInv
  <1>1. UNCHANGED <<baselines, authority>>
    BY DEF vars, tables
  <1>2. \A p : NoTrustGaps(p)' <=> NoTrustGaps(p)
    BY <1>1 DEF NoTrustGaps, Interventions, AuthorityFor
  <1>3. ASSUME NEW new, Advance(x, new), FactsHold(new)  PROVE FactsInv'
    <2>1. report' = [report EXCEPT ![x] = new]
      BY <1>3 DEF Advance
    <2>2. \A y \in Readers : FactsHold(report'[y])
      BY <1>3, <2>1 DEF FactsInv, AuditInv
    <2> QED  BY <1>2, <2>2 DEF FactsInv, FactsHold
  <1>4. ASSUME NEW new, Advance(x, new), new.auditable = {}, new.confirmed = {}
        PROVE  FactsInv'
    BY <1>3, <1>4 DEF FactsHold
  <1>5. CASE AskExport(x) \/ AskTrail(x) \/ AskProof(x) \/ Deliver(x)
    BY <1>4, <1>5 DEF AskExport, AskTrail, AskProof, Begin, Deliver, NoReport
  <1>6. r.step \in {"proofs", "excluded"} => r.auditable = {} /\ r.confirmed = {}
    BY <1>0 DEF Sound, AmountsHold
  <1>7. CASE ReadProofs(x)
    BY <1>0, <1>4, <1>6, <1>7 DEF ReadProofs, Report
  <1>8. CASE ReadExcluded(x)
    <2>1. r.op \in {"export", "trail", "proof"} /\ r.step = "excluded"
      BY <1>0, <1>8 DEF ReadExcluded, Sound, AmountsHold
    <2> DEFINE excluded == CaseIsExcluded(r.target)
    <2>2. /\ r.op = "export" =>
               Advance(x, [r EXCEPT !.excluded = excluded, !.step = "total",
                                    !.todo = Candidates(r.proofs, excluded)])
          /\ r.op = "trail" => Advance(x, [r EXCEPT !.excluded = excluded, !.step = "proofs"])
          /\ r.op = "proof" =>
               Advance(x, [r EXCEPT !.excluded = excluded, !.step = "chain", !.todo = r.proofs])
      BY <1>8 DEF ReadExcluded
    <2> HIDE DEF excluded
    <2>3. ASSUME NEW new, new.auditable = r.auditable, new.confirmed = r.confirmed, Advance(x, new)
          PROVE  FactsInv'
      BY <1>4, <1>6, <2>1, <2>3
    <2>4. CASE r.op = "export"
      BY <1>0, <2>2, <2>3, <2>4 DEF Report
    <2>5. CASE r.op = "trail"
      BY <1>0, <2>2, <2>3, <2>5 DEF Report
    <2>6. CASE r.op = "proof"
      BY <1>0, <2>2, <2>3, <2>6 DEF Report
    <2> QED  BY <2>1, <2>4, <2>5, <2>6
  <1>9. CASE ReadTotal(x)
    <2>1. PICK p \in r.todo :
            Advance(x, [r EXCEPT !.todo = r.todo \ {p},
                                 !.auditable = r.auditable \cup {q \in {p} : NoTrustGaps(q)}])
      BY <1>9 DEF ReadTotal
    <2> DEFINE auditable == r.auditable \cup {q \in {p} : NoTrustGaps(q)}
               new == [r EXCEPT !.todo = r.todo \ {p}, !.auditable = auditable]
    <2>2. new.step = "total" /\ new.auditable = auditable /\ new.confirmed = r.confirmed
      BY <1>0, <1>9 DEF ReadTotal, Report
    <2>3. \A q \in auditable \cup r.confirmed : NoTrustGaps(q)
      BY <1>0 DEF FactsHold
    <2>4. Advance(x, new)
      BY <2>1
    <2> HIDE DEF auditable, new
    <2> QED  BY <1>3, <2>2, <2>3, <2>4 DEF FactsHold
  <1>10. CASE ReadTrail(x)
    <2> DEFINE new == [r EXCEPT !.trail = {e.action : e \in AuthorityFor(r.target)},
                                !.step = "chain", !.todo = r.proofs]
    <2>1. Advance(x, new)
      BY <1>10 DEF ReadTrail
    <2>2. new.todo = r.proofs /\ new.auditable = r.auditable /\ new.confirmed = r.confirmed
      BY <1>0 DEF Report
    <2>3. r.auditable \subseteq r.proofs
      BY <1>0 DEF Sound, AmountsHold, Candidates, EffectiveIn
    <2> HIDE DEF new
    <2> QED  BY <1>0, <1>3, <2>1, <2>2, <2>3 DEF FactsHold
  <1>11. CASE ReadChain(x)
    <2>1. PICK p \in r.todo :
            Advance(x, [r EXCEPT !.todo = r.todo \ {p},
                                 !.confirmed = r.confirmed \cup
                                    {q \in {p} : /\ ProofIsAuditable(q)
                                                 /\ NoTrustGaps(q)
                                                 /\ ~r.excluded}])
      BY <1>11 DEF ReadChain
    <2> DEFINE confirmed == r.confirmed \cup
                              {q \in {p} : ProofIsAuditable(q) /\ NoTrustGaps(q) /\ ~r.excluded}
               new == [r EXCEPT !.todo = r.todo \ {p}, !.confirmed = confirmed]
    <2>2. /\ new.todo = r.todo \ {p} /\ new.auditable = r.auditable /\ new.confirmed = confirmed
          /\ r.step = "chain" /\ Advance(x, new)
      BY <1>0, <1>11, <2>1 DEF ReadChain, Report
    <2>3. \A q \in r.auditable \cup confirmed : NoTrustGaps(q)
      BY <1>0 DEF FactsHold
    <2>4. \A q \in r.auditable : ProofIsAuditable(q) /\ ~r.excluded
      BY <1>0 DEF Sound, AmountsHold, Candidates
    <2>5. r.auditable \subseteq (r.todo \ {p}) \cup confirmed
      BY <1>0, <2>2, <2>3, <2>4 DEF FactsHold
    <2> HIDE DEF confirmed, new
    <2> QED  BY <1>3, <2>2, <2>3, <2>5 DEF FactsHold
  <1> QED  BY <1>5, <1>7, <1>8, <1>9, <1>10, <1>11 DEF Read

\* The facts behind the amounts stand, with the chains and snapshots they rest on.
LEMMA FactsStand ==
    ASSUME ~LateCommit
    PROVE  AuditSpec => [](AuditInv /\ FactsInv)
  <1>1. AuditInit => FactsInv
    BY DEF AuditInit, NoReport, FactsInv, FactsHold
  <1>2. ASSUME TypeOK, TimesInv, AuditInv, FactsInv, [AuditNext]_auditVars
        PROVE  FactsInv'
    BY <1>2, AuditStepIsServerStep, ServerKeepsFacts, ReadKeepsFacts
  <1>3. TypeOK /\ TimesInv /\ AuditInv /\ FactsInv /\ [AuditNext]_auditVars => FactsInv'
    BY <1>2
  <1>4. TypeOK /\ TimesInv /\ BackedInv => TypeOK /\ TimesInv
    OBVIOUS
  <1> QED
    BY <1>1, <1>3, <1>4, AuditRunsServer, BackingHolds, ReportsStaySound, PTL DEF AuditSpec

\* An amount is auditable only against facts that stand: its case has an intervention
\* on file and a baseline locked before every one of them, also those recorded while
\* or after the report was assembled (derivedTrustGaps).
THEOREM AmountsRestOnFacts ==
    ASSUME ~LateCommit
    PROVE  AuditSpec => []AuditableRestsOnFacts
  <1>1. ASSUME TimesInv, CountedFromSnapshot, AuditInv, FactsInv  PROVE AuditableRestsOnFacts
    <2> SUFFICES ASSUME NEW x \in Readers, NEW p \in report[x].auditable \cup report[x].confirmed
                 PROVE  /\ Interventions(p.case) # {}
                        /\ \E s \in baselines : /\ s.baselineId = p.baselineId
                                                /\ s.case = p.case
                                                /\ \A e \in Interventions(p.case) : s.lockedAt <= e.at
      BY DEF AuditableRestsOnFacts
    <2>1. NoTrustGaps(p)
      BY <1>1 DEF FactsInv, FactsHold
    <2>2. p \in proofs
      BY <1>1 DEF AuditInv, Sound, ReadsHold, AmountsHold, Candidates, EffectiveIn
    <2>3. PICK s \in baselines : s.baselineId = p.baselineId /\ s.case = p.case
      BY <1>1, <2>2 DEF CountedFromSnapshot
    <2> QED  BY <1>1, <2>1, <2>3 DEF NoTrustGaps, TimesInv
  <1>2. TimesInv /\ CountedFromSnapshot /\ AuditInv /\ FactsInv => AuditableRestsOnFacts
    BY <1>1
  <1> QED  BY <1>2, AuditRunsServer, BackingHolds, NumberIsFrozen, FactsStand, PTL

\* A total counts at most one proof of a case, the version that was effective when the
\* proofs were read and no reversal, whatever is approved or revised meanwhile.
LEMMA TotalIsOfOneChain ==
    ASSUME ChainInv, TablesOK, AuditInv, NEW x \in Readers
    PROVE  /\ \A p, q \in report[x].auditable : p = q
           /\ \A p \in report[x].auditable :
                /\ IsEffectiveRecovery(p)
                /\ \A q \in report[x].proofs : q.version <= p.version
  <1> DEFINE r == report[x]
  <1>1. /\ r.proofs \subseteq proofs
        /\ r.auditable # {} => \A p \in r.proofs : p.case = r.target
        /\ r.auditable \subseteq {p \in EffectiveIn(r.proofs) : ProofIsAuditable(p)}
    BY DEF AuditInv, Sound, ReadsHold, AmountsHold, Candidates
  <1>2. ASSUME NEW p \in r.auditable  PROVE \A q \in r.proofs : q.version <= p.version
    BY <1>1, OneChain DEF EffectiveIn
  <1>3. ASSUME NEW p \in r.auditable, NEW q \in r.auditable  PROVE p = q
    <2>1. /\ p \in proofs /\ q \in proofs /\ p \in r.proofs /\ q \in r.proofs /\ p.case = q.case
      BY <1>1 DEF EffectiveIn
    <2>2. p.version <= q.version /\ q.version <= p.version
      BY <1>2, <2>1
    <2>3. p.version = q.version
      BY <2>1, <2>2 DEF TablesOK, Proof
    <2> QED  BY <2>1, <2>3, OneChain DEF ChainInv, UniqueVersions
  <1> HIDE DEF r
  <1>4. \A p \in r.auditable : IsEffectiveRecovery(p)
    BY <1>1 DEF ProofIsAuditable
  <1> QED  BY <1>2, <1>3, <1>4 DEF r

\* The total of an export counts a case at most once, and the chain of the same export
\* confirms what it counts, although the export reads the gaps of a proof twice and
\* both times from tables that others write (cfoAuditExport, reconstruct).
THEOREM ExportCountsOnce ==
    ASSUME ~LateCommit
    PROVE  AuditSpec => []TotalCountsOnce
  <1>1. ASSUME ChainInv, TypeOK, AuditInv, FactsInv  PROVE TotalCountsOnce
    <2>1. \A x \in Readers : Finished(x) => report[x].auditable \subseteq report[x].confirmed
      BY <1>1 DEF FactsInv, FactsHold, Finished
    <2> QED  BY <1>1, <2>1, TotalIsOfOneChain DEF TotalCountsOnce, TypeOK
  <1>2. (TypeOK /\ HandlerInv /\ ChainInv) /\ AuditInv /\ FactsInv => TotalCountsOnce
    BY <1>1
  <1> QED  BY <1>2, AuditRunsServer, ChainsStayInOrder, FactsStand, PTL

\* The duties stay apart in the composition too: reports take part in no race.
THEOREM ReportsKeepDutiesApart == AuditSpec /\ []ActorsTakeTurns => []SeparationOfDuties
  BY AuditRunsServer, DutiesStayApart, PTL

=============================================================================
