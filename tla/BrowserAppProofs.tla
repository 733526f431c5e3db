--------------------------- MODULE BrowserAppProofs ---------------------------
(***************************************************************************)
(* The page runs its two parts: whatever was proved of the recovery state  *)
(* and of the assessment by themselves holds while the operator goes back  *)
(* and forth between them. Of what the page adds, it shows that every      *)
(* screen shows the same dollars of the cases rendered.                    *)
(***************************************************************************)
EXTENDS BrowserApp, RecoveryClientProofs, AssessmentScreenProofs

\* Each step of the page is a step of the recovery state or leaves it alone, and
\* the same of the assessment.
LEMMA StepsArePartSteps ==
    ASSUME [AppNext]_appVars
    PROVE  [Next]_vars /\ [ScreenNext]_screenVars
  <1>1. CASE UNCHANGED appVars
    BY <1>1 DEF appVars
  <1>2. CASE WorkOnCases \/ ResetDemo \/ Render
    BY <1>2 DEF WorkOnCases, ResetDemo, Render, Next
  <1>3. CASE OpenAssessment
    BY <1>3 DEF OpenAssessment
  <1>4. CASE UseAssessment
    BY <1>4 DEF UseAssessment, ScreenNext
  <1>5. CASE LeaveAssessment
    BY <1>5 DEF LeaveAssessment, ScreenNext
  <1>6. CASE ReloadPage
    BY <1>6 DEF ReloadPage, Next, ScreenNext
  <1> QED  BY <1>1, <1>2, <1>3, <1>4, <1>5, <1>6 DEF AppNext

\* The page implements both of its parts: leaving the assessment loses its work
\* and nothing of the cases, a reload is one for both (App.tsx).
LEMMA PageRunsItsParts == AppSpec => Spec /\ ScreenSpec
<1>1. AppInit => Init /\ ScreenInit
  BY DEF AppInit
<1>2. [AppNext]_appVars => [Next]_vars /\ [ScreenNext]_screenVars
  BY StepsArePartSteps
<1> QED  BY <1>1, <1>2, PTL DEF AppSpec, Spec, ScreenSpec

\* In the composed page a case has one chain that counts, wherever its proofs are
\* kept (appendApprovedProof, proofsRef).
THEOREM PageRecoversOnce == AppSpec => []OneEffectiveRecovery
  BY PageRunsItsParts, RecoveredOnce, PTL

\* In the composed page nothing acknowledged is taken back and nothing shown locked
\* moves, whichever screen the operator is on (RecoveryProvider is above them all).
THEOREM PageKeepsItsWord == AppSpec => AcknowledgedProofsKept /\ LockedBaselinesFrozen
  BY PageRunsItsParts, AcknowledgedStays, LockStands, PTL

\* In the composed page the result belongs to the source a re-run would use, also
\* after the assessment was left while it ran (Assessment.tsx:40-44).
THEOREM PageShowsItsSource == AppSpec => []ResultOfItsSource
  BY PageRunsItsParts, ResultMatchesSource, PTL

\* In the composed page no guessed column is read unconfirmed (onFile,
\* confirmMapping and changeN, Assessment.tsx:61-79).
THEOREM PageConfirmsGuesses == AppSpec => GuessesAreConfirmed
  BY PageRunsItsParts, OnlyConfirmedGuesses, PTL

\* In the composed page a proof keeps its baseline, its evidence and its order of
\* events, whatever else the operator does meanwhile (approveProofForCase, saveTrust).
THEOREM PageProofsKeepTheirRecords == AppSpec => []ProofsRestOnRecords
  BY PageRunsItsParts, ProofsKeepTheirRecords, PTL

\* In the composed page the result shown counts every row and dollar, falls with
\* the threshold, knows no future and guesses no amount (assess).
THEOREM PageShowsSoundResults ==
    AppSpec => [](ResultAccountsForAll /\ ResultFallsWithN /\ ResultKnowsNoFuture
                  /\ ResultAmountsAreRead)
  BY PageRunsItsParts, NoAmountIsGuessed, EveryRowAndDollarCounts, HeadlineNeverRises,
     FutureChangesNothing, PTL

-----------------------------------------------------------------------------
(* What the screens show of the cases.                                     *)

\* How a sum is taken apart.
LEMMA SumsComeApart ==
    ASSUME NEW S, IsFiniteSet(S), NEW w \in [S -> Int], NEW g, Adds(g, S, w)
    PROVE  \A s, t \in SUBSET S : s \cap t = {} => g[s \cup t] = g[s] + g[t]
  BY DisjointSums

\* What adds nothing can be left out of a sum.
LEMMA SameSums ==
    ASSUME NEW S, IsFiniteSet(S), NEW w \in [S -> Int], NEW g, Adds(g, S, w)
    PROVE  \A s, t \in SUBSET S : t \subseteq s /\ (\A x \in s \ t : w[x] = 0) => g[s] = g[t]
  <1>0. \A a, b \in SUBSET S : a \cap b = {} => g[a \cup b] = g[a] + g[b]
    BY SumsComeApart
  <1> SUFFICES ASSUME NEW s \in SUBSET S, NEW t \in SUBSET S, t \subseteq s,
                      \A x \in s \ t : w[x] = 0
               PROVE  g[s] = g[t]
    OBVIOUS
  <1> DEFINE P == {u \in SUBSET (s \ t) : g[u] = 0}
  <1>1. g[{}] = 0 /\ \A u \in SUBSET S : g[u] \in Int
    BY DEF Adds
  <1>2. {} \in P
    BY <1>1
  <1>3. \A u \in SUBSET (s \ t) : \A x \in (s \ t) \ u : u \in P => u \cup {x} \in P
    <2> SUFFICES ASSUME NEW u \in SUBSET (s \ t), NEW x \in (s \ t) \ u, u \in P
                 PROVE  g[u \cup {x}] = 0
      OBVIOUS
    <2>1. u \in SUBSET S /\ x \in S \ u
      OBVIOUS
    <2>2. g[u \cup {x}] = w[x] + g[u]
      BY <2>1, AddedOne
    <2> QED  BY <2>2
  <1>4. IsFiniteSet(s \ t)
    BY FS_Subset
  <1> HIDE DEF P
  <1>5. s \ t \in P
    BY <1>2, <1>3, <1>4, SetInduces
  <1>6. PICK r \in SUBSET S : r = s \ t
    OBVIOUS
  <1>7. t \cup r = s /\ t \cap r = {}
    BY <1>6
  <1>8. g[t \cup r] = g[t] + g[r]
    BY <1>0, <1>6, <1>7
  <1>9. g[r] = 0 /\ g[t] \in Int
    BY <1>1, <1>5, <1>6, <1>7 DEF P
  <1>10. g[s] = g[t] + 0
    BY <1>7, <1>8, <1>9, Zenon
  <1> QED  BY <1>9, <1>10

\* A table v over T: one line per key, with the sum over what has that key.
Groups(g, T, key, v) ==
    /\ IsFiniteSet(DOMAIN v) /\ v \in [DOMAIN v -> Int]
    /\ \A x \in T : key[x] \in DOMAIN v
    /\ \A k \in DOMAIN v : v[k] = g[{x \in T : key[x] = k}]

\* The lines of a table add up to what is in the table.
LEMMA GroupedSums ==
    ASSUME NEW S, IsFiniteSet(S), NEW w \in [S -> Int], NEW g, Adds(g, S, w),
           NEW T \in SUBSET S, NEW key, NEW v, Groups(g, T, key, v)
    PROVE  SumFunction(v) = g[T]
  <1> DEFINE K == DOMAIN v
  <1>0. /\ IsFiniteSet(K) /\ v \in [K -> Int]
        /\ \A x \in T : key[x] \in K
        /\ \A k \in K : v[k] = g[{x \in T : key[x] = k}]
    BY DEF Groups
  <1> HIDE DEF K
  <1> DEFINE fibre(u) == {x \in T : key[x] \in u}
  <1>1. \A u \in SUBSET S : g[u] \in Int
    BY DEF Adds
  <1>3. PICK h : Adds(h, K, v) /\ \A u \in SUBSET K : SumFunction([k \in u |-> v[k]]) = h[u]
    BY <1>0, SumsOfFunctions
  <1>4. SumFunction(v) = h[K]
    <2>1. v = [k \in K |-> v[k]]
      BY <1>0
    <2>2. SumFunction([k \in K |-> v[k]]) = h[K]
      BY <1>3
    <2> QED  BY <2>1, <2>2
  <1> DEFINE P == {u \in SUBSET K : h[u] = g[fibre(u)]}
  <1>5. {} \in P
    <2>1. fibre({}) = {}
      OBVIOUS
    <2>2. h[{}] = 0 /\ g[{}] = 0
      BY <1>3 DEF Adds
    <2> QED  BY <2>1, <2>2
  <1>6. \A u \in SUBSET K : \A k \in K \ u : u \in P => u \cup {k} \in P
    <2> SUFFICES ASSUME NEW u \in SUBSET K, NEW k \in K \ u, u \in P
                 PROVE  h[u \cup {k}] = g[fibre(u \cup {k})]
      OBVIOUS
    <2>1. PICK a \in SUBSET S : a = fibre(u)
      OBVIOUS
    <2>2. PICK b \in SUBSET S : b = {x \in T : key[x] = k}
      OBVIOUS
    <2>3. a \cap b = {} /\ fibre(u \cup {k}) = a \cup b
      BY <2>1, <2>2
    <2>4. g[a \cup b] = g[a] + g[b]
      BY <2>3, DisjointSums
    <2>5. h[u \cup {k}] = v[k] + h[u]
      <3>1. Adds(h, K, v)
        BY <1>3
      <3>2. \A s \in SUBSET K : \A x \in s : h[s] = v[x] + h[s \ {x}]
        BY <3>1 DEF Adds
      <3>3. u \cup {k} \in SUBSET K /\ k \in u \cup {k} /\ (u \cup {k}) \ {k} = u
        OBVIOUS
      <3> QED  BY <3>2, <3>3
    <2>6. v[k] = g[b] /\ h[u] = g[a]
      BY <1>0, <2>1, <2>2
    <2>7. g[a] \in Int /\ g[b] \in Int
      BY <1>1
    <2> HIDE DEF fibre, P
    <2>8. h[u \cup {k}] = g[b] + g[a]
      BY <2>5, <2>6, Zenon
    <2>9. g[fibre(u \cup {k})] = g[a] + g[b]
      BY <2>3, <2>4, Zenon
    <2>10. g[b] + g[a] = g[a] + g[b]
      BY <2>7
    <2> QED  BY <2>8, <2>9, <2>10, Zenon
  <1> HIDE DEF P
  <1>7. K \in P
    BY <1>0, <1>5, <1>6, SetInduces
  <1>8. h[K] = g[fibre(K)]
    BY <1>7 DEF P
  <1>9. fibre(K) = T
    BY <1>0
  <1> QED  BY <1>4, <1>8, <1>9

\* Cases whose figures are numbers.
CaseFigures(cases) ==
    /\ IsFiniteSet(DOMAIN cases)
    /\ \A c \in DOMAIN cases :
          /\ cases[c].baseline \in Int /\ cases[c].collected \in Int
          /\ cases[c].risk \in Int /\ cases[c].leak \in DOMAIN PLAYBOOK

\* What a screen returns of some cases is a sum of dollars, none negative.
LEMMA ReturnedIsASum ==
    ASSUME NEW cases, CaseFigures(cases)
    PROVE  \E w, g :
              /\ w \in [DOMAIN cases -> Int]
              /\ \A c \in DOMAIN cases : IF Returned(cases[c]) > 0 THEN w[c] > 0 ELSE w[c] = 0
              /\ \A c \in DOMAIN cases : w[c] = ReportableReturned(cases[c])
              /\ Adds(g, DOMAIN cases, w)
              /\ \A ids \in SUBSET DOMAIN cases : ReturnedBy(cases, ids) = g[ids]
  <1> DEFINE S == DOMAIN cases
             w == [c \in S |-> ReportableReturned(cases[c])]
  <1>1. ASSUME NEW c \in S
        PROVE  /\ ReportableReturned(cases[c]) \in Int
               /\ IF Returned(cases[c]) > 0 THEN ReportableReturned(cases[c]) > 0
                  ELSE ReportableReturned(cases[c]) = 0
    <2>1. PICK n \in Int : n = Returned(cases[c])
      BY DEF CaseFigures, Returned
    <2>2. Max({0, n}) = IF n > 0 THEN n ELSE 0
      BY BoundsOfTwo
    <2> QED  BY <2>1, <2>2 DEF ReportableReturned
  <1>2. IsFiniteSet(S)
    BY DEF CaseFigures
  <1>3. w \in [S -> Int] /\ \A c \in S : w[c] = ReportableReturned(cases[c])
    BY <1>1
  <1> HIDE DEF w
  <1>4. PICK g : Adds(g, S, w) /\ \A s \in SUBSET S : SumFunction([x \in s |-> w[x]]) = g[s]
    BY <1>2, <1>3, SumsOfFunctions
  <1>5. ASSUME NEW ids \in SUBSET S  PROVE ReturnedBy(cases, ids) = g[ids]
    <2>1. [c \in ids |-> ReportableReturned(cases[c])] = [c \in ids |-> w[c]]
      BY <1>3
    <2> QED  BY <1>4, <2>1 DEF ReturnedBy
  <1> QED  BY <1>1, <1>3, <1>4, <1>5

\* So is the money at risk in some cases, and what their plays are expected to return.
LEMMA RiskIsASum ==
    ASSUME NEW cases, CaseFigures(cases)
    PROVE  \E w, g :
              /\ w \in [DOMAIN cases -> Int]
              /\ Adds(g, DOMAIN cases, w)
              /\ \A ids \in SUBSET DOMAIN cases : RiskOf(cases, ids) = g[ids]
  <1> DEFINE S == DOMAIN cases
             w == [c \in S |-> cases[c].risk]
  <1>1. IsFiniteSet(S)
    BY DEF CaseFigures
  <1>2. w \in [S -> Int] /\ \A c \in S : w[c] = cases[c].risk
    BY DEF CaseFigures
  <1> HIDE DEF w
  <1>3. PICK g : Adds(g, S, w) /\ \A s \in SUBSET S : SumFunction([x \in s |-> w[x]]) = g[s]
    BY <1>1, <1>2, SumsOfFunctions
  <1>4. ASSUME NEW ids \in SUBSET S  PROVE RiskOf(cases, ids) = g[ids]
    <2>1. [c \in ids |-> cases[c].risk] = [c \in ids |-> w[c]]
      BY <1>2
    <2> QED  BY <1>3, <2>1 DEF RiskOf
  <1> QED  BY <1>2, <1>3, <1>4

\* Likewise what the plays of open cases are forecast to return.
LEMMA ForecastIsASum ==
    ASSUME NEW cases, CaseFigures(cases)
    PROVE  \E w, g :
              /\ w \in [DOMAIN cases -> Int]
              /\ Adds(g, DOMAIN cases, w)
              /\ \A ids \in SUBSET DOMAIN cases : ForecastOf(cases, ids) = g[ids]
  <1> DEFINE S == DOMAIN cases
             w == [c \in S |-> ExpectedValue(cases[c])]
  <1>1. IsFiniteSet(S)
    BY DEF CaseFigures
  <1>2. ASSUME NEW c \in S  PROVE ExpectedValue(cases[c]) \in Int
    <2>1. PICK n \in Int : n = cases[c].risk - cases[c].baseline
      BY DEF CaseFigures
    <2>2. Max({0, n}) = IF n > 0 THEN n ELSE 0
      BY BoundsOfTwo
    <2>3. PICK i \in Int : i = ExpectedImpact(cases[c])
      BY <2>1, <2>2 DEF ExpectedImpact
    <2>4. PICK percent \in Nat : percent = PLAYBOOK[cases[c].leak].percent
      BY PlaysAreKnown DEF CaseFigures
    <2>5. PICK m \in Int : m = i * percent
      OBVIOUS
    <2>6. (m + 50) \div 100 \in Int
      OBVIOUS
    <2> QED  BY <2>3, <2>4, <2>5, <2>6 DEF ExpectedValue
  <1>3. w \in [S -> Int] /\ \A c \in S : w[c] = ExpectedValue(cases[c])
    BY <1>2
  <1> HIDE DEF w
  <1>4. PICK g : Adds(g, S, w) /\ \A s \in SUBSET S : SumFunction([x \in s |-> w[x]]) = g[s]
    BY <1>1, <1>3, SumsOfFunctions
  <1>5. ASSUME NEW ids \in SUBSET S  PROVE ForecastOf(cases, ids) = g[ids]
    <2>1. [c \in ids |-> ExpectedValue(cases[c])] = [c \in ids |-> w[c]]
      BY <1>3
    <2> QED  BY <1>4, <2>1 DEF ForecastOf
  <1> QED  BY <1>3, <1>4, <1>5

\* The waterfall of the reconciliation and the dashboard count the same dollars: an
\* excluded one is in one bucket, and none that is auditable is excluded.
LEMMA WaterfallAgrees ==
    ASSUME NEW cases, CaseFigures(cases)
    PROVE  LET m == PortfolioMetrics(cases)
               r == Reconcile(cases)
           IN  /\ r.countedRecovered = m.recoveredRevenue
               /\ r.excludedTotal = r.grossRecovered - r.auditableRevenue
               /\ r.recoveredToAuditableGap = m.unprovenRevenue
               /\ BandTotal(cases, "High") = m.auditableRevenue
  <1> DEFINE S == DOMAIN cases
             gross == {c \in S : IsRecoveredWithUplift(cases[c])}
             counted == {c \in S : IsCounted(cases[c])}
             auditable == {c \in S : IsAuditable(cases[c])}
             unproven == {c \in S : IsUnprovenRecovery(cases[c])}
             high == {c \in S : IsCounted(cases[c]) /\ BandOf(cases[c].confidence) = "High"}
             Bucket(k) == {c \in gross : ClassifyExclusion(cases[c]) = k}
  <1>1. PICK w, g :
           /\ w \in [S -> Int]
           /\ \A c \in S : IF Returned(cases[c]) > 0 THEN w[c] > 0 ELSE w[c] = 0
           /\ \A c \in S : w[c] = ReportableReturned(cases[c])
           /\ Adds(g, S, w)
           /\ \A ids \in SUBSET S : ReturnedBy(cases, ids) = g[ids]
    BY ReturnedIsASum
  <1>2. IsFiniteSet(S)
    BY DEF CaseFigures
  <1>3. \A ids \in SUBSET S : g[ids] \in Int
    BY <1>1 DEF Adds
  <1>4. \A c \in S :
           /\ IsRecoveredWithUplift(cases[c]) <=> cases[c].status = "Recovered" /\ w[c] > 0
           /\ IsCounted(cases[c]) <=> cases[c].reason # None /\ cases[c].status = "Recovered"
           /\ IsAuditable(cases[c]) <=>
                IsCounted(cases[c]) /\ cases[c].confidence >= Threshold /\ w[c] > 0
           /\ IsUnprovenRecovery(cases[c]) <=> IsCounted(cases[c]) /\ ~IsAuditable(cases[c])
    BY <1>1 DEF IsRecoveredWithUplift, IsCounted, IsAuditable, IsUnprovenRecovery
  <1>5. \A c \in S : c \in high <=> IsCounted(cases[c]) /\ cases[c].confidence >= Threshold
    BY DEF BandOf
  <1>6. \A c \in gross :
           /\ IsAuditable(cases[c]) => ClassifyExclusion(cases[c]) = None
           /\ ~IsAuditable(cases[c]) => ClassifyExclusion(cases[c]) \in ExclusionReasons
           /\ ClassifyExclusion(cases[c]) = "Unclassified" <=> cases[c].reason = None
    BY <1>4, NoneAssumption DEF ClassifyExclusion, ExclusionReasons
  <1> HIDE DEF S, gross, counted, auditable, unproven, high, Bucket
  <1>7. /\ S = DOMAIN cases /\ gross \in SUBSET S /\ counted \in SUBSET S
        /\ auditable \in SUBSET S /\ unproven \in SUBSET S /\ high \in SUBSET S
        /\ \A k : Bucket(k) \in SUBSET S
    BY DEF S, gross, counted, auditable, unproven, high, Bucket
  <1>8. \A a, b \in SUBSET S : a \cap b = {} => g[a \cup b] = g[a] + g[b]
    BY <1>1, <1>2, <1>3, SumsComeApart
  <1>9. \A a, b \in SUBSET S : b \subseteq a /\ (\A x \in a \ b : w[x] = 0) => g[a] = g[b]
    BY <1>1, <1>2, <1>3, SameSums
  \* What is recovered is counted or unclassified.
  <1>10. g[gross] - g[Bucket("Unclassified")] = g[counted]
    <2>1. PICK rest \in SUBSET S : rest = gross \ Bucket("Unclassified")
      BY <1>7
    <2>2. Bucket("Unclassified") \cup rest = gross /\ Bucket("Unclassified") \cap rest = {}
      BY <2>1 DEF Bucket
    <2>3. rest \subseteq counted
      BY <1>4, <1>6, <2>1 DEF S, gross, counted, Bucket
    <2>4. \A x \in counted \ rest : w[x] = 0
      BY <1>1, <1>4, <1>6, <2>1 DEF S, gross, counted, Bucket
    <2>5. g[counted] = g[rest]
      BY <1>7, <1>9, <2>3, <2>4
    <2>6. g[gross] = g[Bucket("Unclassified")] + g[rest]
      BY <1>7, <1>8, <2>2
    <2> QED  BY <1>3, <1>7, <2>5, <2>6
  \* What is excluded is in the buckets, each of it in one.
  <1>11. SumFunction([k \in ExclusionReasons |-> g[Bucket(k)]]) = g[gross] - g[auditable]
    <2>1. PICK T \in SUBSET S : T = gross \ auditable
      BY <1>7
    <2>2. auditable \cup T = gross /\ auditable \cap T = {}
      BY <1>4, <2>1 DEF S, gross, auditable
    <2>3. g[gross] = g[auditable] + g[T]
      BY <1>7, <1>8, <2>2
    <2> DEFINE key == [c \in S |-> ClassifyExclusion(cases[c])]
               v == [k \in ExclusionReasons |-> g[Bucket(k)]]
    <2>4. \A c \in T : key[c] \in ExclusionReasons
      BY <1>6, <2>1 DEF S, gross, auditable
    <2>5. \A k \in ExclusionReasons : Bucket(k) = {c \in T : key[c] = k}
      BY <1>6, <2>1, NoneAssumption DEF S, gross, auditable, Bucket
    <2>6. \A k \in ExclusionReasons : v[k] = g[{c \in T : key[c] = k}]
      BY <2>5
    <2>7. IsFiniteSet(ExclusionReasons)
      <3>1. ExclusionReasons = ({"Unclassified"} \cup {"MissingProof"}) \cup {"LowConfidence"}
        BY DEF ExclusionReasons
      <3>2. IsFiniteSet({"Unclassified"} \cup {"MissingProof"})
        BY FS_Singleton, FS_Union
      <3> QED  BY <3>1, <3>2, FS_Singleton, FS_Union
    <2>8. v \in [ExclusionReasons -> Int]
      BY <1>3, <1>7
    <2>9. Groups(g, T, key, v)
      BY <2>4, <2>6, <2>7, <2>8 DEF Groups
    <2>10. SumFunction(v) = g[T]
      <3> HIDE DEF key, v
      <3> QED  BY <1>1, <1>2, <2>1, <2>9, GroupedSums
    <2>11. g[T] = g[gross] - g[auditable]
      BY <1>3, <1>7, <2>3
    <2> QED  BY <2>10, <2>11
  \* What is counted is auditable or unproven.
  <1>12. g[counted] - g[auditable] = g[unproven]
    <2>1. auditable \cup unproven = counted /\ auditable \cap unproven = {}
      BY <1>4 DEF S, counted, auditable, unproven
    <2>2. g[counted] = g[auditable] + g[unproven]
      BY <1>7, <1>8, <2>1
    <2> QED  BY <1>3, <1>7, <2>2
  <1>13. g[high] = g[auditable]
    <2>1. auditable \subseteq high /\ \A x \in high \ auditable : w[x] = 0
      BY <1>1, <1>4, <1>5 DEF S, auditable, high
    <2> QED  BY <1>7, <1>9, <2>1
  <1>14. /\ ReturnedBy(cases, gross) = g[gross] /\ ReturnedBy(cases, counted) = g[counted]
         /\ ReturnedBy(cases, auditable) = g[auditable]
         /\ ReturnedBy(cases, unproven) = g[unproven] /\ ReturnedBy(cases, high) = g[high]
         /\ \A k : ReturnedBy(cases, Bucket(k)) = g[Bucket(k)]
    BY <1>1, <1>7
  <1>15. /\ Where(cases, IsRecoveredWithUplift) = gross /\ Where(cases, IsCounted) = counted
         /\ Where(cases, IsAuditable) = auditable
         /\ Where(cases, IsUnprovenRecovery) = unproven
    BY DEF Where, S, gross, counted, auditable, unproven
  <1>16. BandTotal(cases, "High") = ReturnedBy(cases, high)
    BY DEF BandTotal, Where, S, high
  <1>17. \A k : {c \in gross : ClassifyExclusion(cases[c]) = k} = Bucket(k)
    BY DEF Bucket
  <1>18. LET m == PortfolioMetrics(cases)
         IN  /\ m.recoveredRevenue = g[counted] /\ m.auditableRevenue = g[auditable]
             /\ m.unprovenRevenue = g[unproven]
    BY <1>14, <1>15 DEF PortfolioMetrics
  <1>19. [k \in ExclusionReasons |-> ReturnedBy(cases, {c \in gross : ClassifyExclusion(cases[c]) = k})]
            = [k \in ExclusionReasons |-> g[Bucket(k)]]
    BY <1>14, <1>17
  <1>20. LET r == Reconcile(cases)
         IN  /\ r.grossRecovered = g[gross]
             /\ r.countedRecovered = g[gross] - g[Bucket("Unclassified")]
             /\ r.auditableRevenue = g[auditable]
             /\ r.excludedTotal = SumFunction([k \in ExclusionReasons |-> g[Bucket(k)]])
             /\ r.recoveredToAuditableGap = g[gross] - g[Bucket("Unclassified")] - g[auditable]
    BY <1>14, <1>15, <1>19 DEF Reconcile, ExclusionReasons
  <1> QED
    BY <1>10, <1>11, <1>12, <1>13, <1>14, <1>16, <1>18, <1>20, Zenon

\* One line for each key that occurs in U.
LinesOf(g, U, T, key) == [k \in {key[c] : c \in U} |-> g[{c \in T : key[c] = k}]]

\* The lines of a sum that is told apart by any key add up to it again.
LEMMA LinesAddUp ==
    ASSUME NEW S, IsFiniteSet(S), NEW w \in [S -> Int], NEW g, Adds(g, S, w),
           NEW U \in SUBSET S, NEW T \in SUBSET U, NEW key
    PROVE  SumFunction(LinesOf(g, U, T, key)) = g[T]
  <1> DEFINE K == {key[c] : c \in U}
             v == LinesOf(g, U, T, key)
  <1>1. IsFiniteSet(K)
    <2> DEFINE f == [c \in U |-> key[c]]
    <2>1. f \in Surjection(U, K) /\ IsFiniteSet(U)
      BY FS_Subset DEF Surjection
    <2> HIDE DEF f, K
    <2> QED  BY <2>1, FS_Surjection
  <1>2. \A u \in SUBSET S : g[u] \in Int
    BY DEF Adds
  <1>3. \A k : {c \in T : key[c] = k} \in SUBSET S
    OBVIOUS
  <1>4. DOMAIN v = K /\ \A k \in K : v[k] = g[{c \in T : key[c] = k}]
    BY DEF LinesOf
  <1>5. v \in [K -> Int]
    BY <1>2, <1>3 DEF LinesOf
  <1>6. \A c \in T : key[c] \in K
    OBVIOUS
  <1> HIDE DEF v, K
  <1>7. Groups(g, T, key, v)
    BY <1>1, <1>4, <1>5, <1>6 DEF Groups
  <1>8. SumFunction(v) = g[T]
    BY <1>7, GroupedSums
  <1> QED  BY <1>8 DEF v

\* A table that splits the cases of U by a key, and what it is to show.
Splits(cases, U, key, lines) ==
    /\ DOMAIN lines = {key[c] : c \in U}
    /\ \A k \in DOMAIN lines :
          /\ lines[k].recovered =
               ReturnedBy(cases, {c \in Where(cases, IsCounted) : key[c] = k})
          /\ lines[k].auditable =
               ReturnedBy(cases, {c \in Where(cases, IsAuditable) : key[c] = k})

ShowsTheDashboard(cases, lines) ==
    /\ SumOver(lines, LAMBDA l : l.recovered) = PortfolioMetrics(cases).recoveredRevenue
    /\ SumOver(lines, LAMBDA l : l.auditable) = PortfolioMetrics(cases).auditableRevenue

\* A table that splits the counted cases, or more, by a key shows the dollars of the
\* dashboard.
LEMMA TableAgrees ==
    ASSUME NEW cases, CaseFigures(cases), NEW U \in SUBSET DOMAIN cases,
           Where(cases, IsCounted) \subseteq U, NEW key, NEW lines, Splits(cases, U, key, lines)
    PROVE  ShowsTheDashboard(cases, lines)
  <1> DEFINE S == DOMAIN cases
             K == DOMAIN lines
             counted == Where(cases, IsCounted)
             auditable == Where(cases, IsAuditable)
  <1>1. PICK w, g :
           /\ w \in [S -> Int]
           /\ Adds(g, S, w)
           /\ \A ids \in SUBSET S : ReturnedBy(cases, ids) = g[ids]
    BY ReturnedIsASum
  <1>2. IsFiniteSet(S)
    BY DEF CaseFigures
  <1>3. counted \in SUBSET U /\ auditable \in SUBSET U
    BY DEF Where, IsAuditable
  <1> HIDE DEF counted, auditable
  <1>4. /\ PortfolioMetrics(cases).recoveredRevenue = g[counted]
        /\ PortfolioMetrics(cases).auditableRevenue = g[auditable]
    BY <1>1, <1>3 DEF PortfolioMetrics, counted, auditable
  <1>5. /\ K = {key[c] : c \in U}
        /\ \A k \in K :
             /\ lines[k].recovered = g[{c \in counted : key[c] = k}]
             /\ lines[k].auditable = g[{c \in auditable : key[c] = k}]
    <2>1. \A k : /\ {c \in counted : key[c] = k} \in SUBSET S
                 /\ {c \in auditable : key[c] = k} \in SUBSET S
      BY <1>3
    <2> QED  BY <1>1, <2>1 DEF Splits, counted, auditable
  <1>6. /\ [k \in K |-> lines[k].recovered] = LinesOf(g, U, counted, key)
        /\ [k \in K |-> lines[k].auditable] = LinesOf(g, U, auditable, key)
    BY <1>5 DEF LinesOf
  <1> HIDE DEF S, K
  <1>7. U \in SUBSET S
    BY DEF S
  <1>8. /\ SumFunction(LinesOf(g, U, counted, key)) = g[counted]
        /\ SumFunction(LinesOf(g, U, auditable, key)) = g[auditable]
    BY <1>1, <1>2, <1>3, <1>7, LinesAddUp
  <1>9. /\ SumOver(lines, LAMBDA l : l.recovered) = SumFunction([k \in K |-> lines[k].recovered])
        /\ SumOver(lines, LAMBDA l : l.auditable) = SumFunction([k \in K |-> lines[k].auditable])
    BY DEF SumOver, K
  <1> QED  BY <1>4, <1>6, <1>8, <1>9, Zenon DEF ShowsTheDashboard

\* A table by owner, reason or stage is one line for each of those of a counted case.
LEMMA AttributionSplits ==
    ASSUME NEW cases, NEW field
    PROVE  Splits(cases, Where(cases, IsCounted), [c \in DOMAIN cases |-> cases[c][field]],
                  AttributeBy(cases, field))
  <1> DEFINE counted == Where(cases, IsCounted)
             auditable == Where(cases, IsAuditable)
             key == [c \in DOMAIN cases |-> cases[c][field]]
  <1>1. counted \subseteq DOMAIN cases /\ auditable \subseteq counted
        /\ auditable = {c \in counted : IsAuditable(cases[c])}
    BY DEF Where, IsAuditable
  <1>2. \A c \in counted : key[c] = cases[c][field]
    BY <1>1
  <1>3. {key[c] : c \in counted} = {cases[c][field] : c \in counted}
    BY <1>2
  <1>4. \A k : /\ {c \in counted : cases[c][field] = k} = {c \in counted : key[c] = k}
               /\ {c \in {d \in counted : cases[d][field] = k} : IsAuditable(cases[c])}
                    = {c \in auditable : key[c] = k}
    BY <1>1, <1>2
  <1> HIDE DEF key, counted, auditable
  <1>5. DOMAIN AttributeBy(cases, field) = {key[c] : c \in counted}
    BY <1>3 DEF AttributeBy, counted
  <1>6. ASSUME NEW k \in DOMAIN AttributeBy(cases, field)
        PROVE  /\ AttributeBy(cases, field)[k].recovered
                    = ReturnedBy(cases, {c \in counted : key[c] = k})
               /\ AttributeBy(cases, field)[k].auditable
                    = ReturnedBy(cases, {c \in auditable : key[c] = k})
    <2>1. /\ AttributeBy(cases, field)[k].recovered
               = ReturnedBy(cases, {c \in counted : cases[c][field] = k})
          /\ AttributeBy(cases, field)[k].auditable
               = ReturnedBy(cases, {c \in {d \in counted : cases[d][field] = k} :
                                      IsAuditable(cases[c])})
      BY <1>6 DEF AttributeBy, counted
    <2> QED  BY <1>4, <2>1, Zenon
  <1> QED  BY <1>5, <1>6 DEF Splits, key, counted, auditable

\* The table by leak is one line for each leak of any case.
LEMMA OutcomesSplit ==
    ASSUME NEW cases
    PROVE  Splits(cases, DOMAIN cases, [c \in DOMAIN cases |-> cases[c].leak],
                  OutcomesByLeakage(cases))
  BY DEF Splits, OutcomesByLeakage, Where

\* The attribution and outcome tables show the dollars of the dashboard.
LEMMA TablesAgree ==
    ASSUME NEW cases, CaseFigures(cases)
    PROVE  \A lines \in {ByReason(cases), ByOwner(cases), ByStage(cases),
                         OutcomesByLeakage(cases)} : ShowsTheDashboard(cases, lines)
  <1>1. Where(cases, IsCounted) \in SUBSET DOMAIN cases
    BY DEF Where
  <1>2. \A field : ShowsTheDashboard(cases, AttributeBy(cases, field))
    BY <1>1, AttributionSplits, TableAgrees
  <1>3. ShowsTheDashboard(cases, OutcomesByLeakage(cases))
    BY <1>1, OutcomesSplit, TableAgrees
  <1> QED  BY <1>2, <1>3 DEF ByReason, ByOwner, ByStage

\* What the leaks have at risk and are expected to return is what the loop forecasts.
LEMMA OutcomesAgree ==
    ASSUME NEW cases, CaseFigures(cases)
    PROVE  LET outcomes == OutcomesByLeakage(cases)
           IN  /\ SumOver(outcomes, LAMBDA l : l.atRisk)
                    = PortfolioMetrics(cases).detectedOpportunity
               /\ SumOver(outcomes, LAMBDA l : l.recoverable) = ExpectedRecoverable(cases)
  <1> DEFINE S == DOMAIN cases
             outcomes == OutcomesByLeakage(cases)
             K == DOMAIN outcomes
             open == {c \in S : IsOpen(cases[c])}
             key == [c \in S |-> cases[c].leak]
  <1>1. PICK w, g :
           /\ w \in [S -> Int]
           /\ Adds(g, S, w)
           /\ \A ids \in SUBSET S : RiskOf(cases, ids) = g[ids]
    BY RiskIsASum
  <1>2. PICK w2, g2 :
           /\ w2 \in [S -> Int]
           /\ Adds(g2, S, w2)
           /\ \A ids \in SUBSET S : ForecastOf(cases, ids) = g2[ids]
    BY ForecastIsASum
  <1>3. IsFiniteSet(S)
    BY DEF CaseFigures
  <1>4. open \in SUBSET S /\ Where(cases, IsOpen) = open
    BY DEF Where
  <1>5. /\ PortfolioMetrics(cases).detectedOpportunity = g[open]
        /\ ExpectedRecoverable(cases) = g2[open]
    BY <1>1, <1>2, <1>4 DEF PortfolioMetrics, ExpectedRecoverable
  <1>6. /\ K = {key[c] : c \in S}
        /\ \A k \in K : /\ outcomes[k].atRisk = g[{c \in open : key[c] = k}]
                        /\ outcomes[k].recoverable = g2[{c \in open : key[c] = k}]
    <2>1. \A k : /\ {c \in open : cases[c].leak = k} = {c \in open : key[c] = k}
                 /\ {c \in open : key[c] = k} \in SUBSET S
      OBVIOUS
    <2>2. \A k : /\ RiskOf(cases, {c \in open : key[c] = k}) = g[{c \in open : key[c] = k}]
                 /\ ForecastOf(cases, {c \in open : key[c] = k}) = g2[{c \in open : key[c] = k}]
      BY <1>1, <1>2, <2>1
    <2>3. K = {key[c] : c \in S}
      BY DEF OutcomesByLeakage
    <2>4. \A k \in K :
             /\ outcomes[k].atRisk = RiskOf(cases, {c \in open : cases[c].leak = k})
             /\ outcomes[k].recoverable = ForecastOf(cases, {c \in open : cases[c].leak = k})
      BY <1>4 DEF OutcomesByLeakage
    <2>5. ASSUME NEW k \in K
          PROVE  /\ outcomes[k].atRisk = g[{c \in open : key[c] = k}]
                 /\ outcomes[k].recoverable = g2[{c \in open : key[c] = k}]
      <3>1. {c \in open : cases[c].leak = k} = {c \in open : key[c] = k}
        BY <2>1
      <3>2. /\ outcomes[k].atRisk = RiskOf(cases, {c \in open : key[c] = k})
            /\ outcomes[k].recoverable = ForecastOf(cases, {c \in open : key[c] = k})
        BY <2>4, <3>1, Zenon
      <3> HIDE DEF K, outcomes, open, key
      <3> QED  BY <2>2, <3>2, Zenon
    <2> QED  BY <2>3, <2>5
  <1>7. /\ [k \in K |-> outcomes[k].atRisk] = LinesOf(g, S, open, key)
        /\ [k \in K |-> outcomes[k].recoverable] = LinesOf(g2, S, open, key)
    <2> HIDE DEF K, outcomes, open, key, S
    <2> QED  BY <1>6 DEF LinesOf
  <1>8. /\ SumOver(outcomes, LAMBDA l : l.atRisk) = SumFunction([k \in K |-> outcomes[k].atRisk])
        /\ SumOver(outcomes, LAMBDA l : l.recoverable)
             = SumFunction([k \in K |-> outcomes[k].recoverable])
    BY DEF SumOver
  <1> HIDE DEF K, outcomes, open, key, S
  <1>9. /\ SumFunction(LinesOf(g, S, open, key)) = g[open]
        /\ SumFunction(LinesOf(g2, S, open, key)) = g2[open]
    BY <1>1, <1>2, <1>3, <1>4, LinesAddUp
  <1> QED  BY <1>5, <1>7, <1>8, <1>9, Zenon DEF outcomes

\* The seed is a short list.
LEMMA FewCases == IsFiniteSet(Cases)
  <1>1. \A S, x : IsFiniteSet(S) => IsFiniteSet(S \cup {x})
    BY FS_AddElement
  <1>2. IsFiniteSet({"RE1001", "RE1002", "RE1003", "RE1004", "RE1005"})
    <2>1. IsFiniteSet((((({"RE1001"} \cup {"RE1002"}) \cup {"RE1003"}) \cup {"RE1004"}) \cup {"RE1005"}))
      BY <1>1, FS_Singleton, Zenon
    <2> QED  BY <2>1
  <1>3. IsFiniteSet({"RE1006", "RE1007", "RE1008", "RE1009", "RE1010"})
    <2>1. IsFiniteSet((((({"RE1006"} \cup {"RE1007"}) \cup {"RE1008"}) \cup {"RE1009"}) \cup {"RE1010"}))
      BY <1>1, FS_Singleton, Zenon
    <2> QED  BY <2>1
  <1>4. IsFiniteSet({"RE1011", "RE1012", "RE1013", "RE1014"})
    <2>1. IsFiniteSet(((({"RE1011"} \cup {"RE1012"}) \cup {"RE1013"}) \cup {"RE1014"}))
      BY <1>1, FS_Singleton, Zenon
    <2> QED  BY <2>1
  <1>5. \A S, T : IsFiniteSet(S) /\ IsFiniteSet(T) => IsFiniteSet(S \cup T)
    BY FS_Union
  <1> DEFINE A == {"RE1001", "RE1002", "RE1003", "RE1004", "RE1005"}
             B == {"RE1006", "RE1007", "RE1008", "RE1009", "RE1010"}
             C == {"RE1011", "RE1012", "RE1013", "RE1014"}
  <1>6. DOMAIN SeedEvents = (A \cup B) \cup C
    BY DEF SeedEvents
  <1>7. IsFiniteSet(A) /\ IsFiniteSet(B) /\ IsFiniteSet(C)
    BY <1>2, <1>3, <1>4
  <1> HIDE DEF A, B, C
  <1>8. IsFiniteSet((A \cup B) \cup C)
    BY <1>5, <1>7
  <1> QED  BY <1>6, <1>8, FS_Subset, ClientAssumption

\* What is on the screens has figures.
LEMMA ShownFigures == ASSUME TypeOK PROVE CaseFigures(shown.cases)
  BY FewCases DEF TypeOK, CaseState, CaseFigures

\* Whatever the operator edits, the dashboard, the waterfall, the tables and the bands
\* show the same dollars, each excluded one in one bucket (portfolioMetrics, reconcile,
\* attributeBy, outcomesByLeakage).
THEOREM ScreensShowOneLedger == AppSpec => []ScreensAgree
  <1>1. TypeOK => ScreensAgree
    <2> SUFFICES ASSUME TypeOK  PROVE ScreensAgree
      OBVIOUS
    <2>1. CaseFigures(shown.cases)
      BY ShownFigures
    <2>2. \A lines \in {ByReason(shown.cases), ByOwner(shown.cases), ByStage(shown.cases),
                        OutcomesByLeakage(shown.cases)} : ShowsTheDashboard(shown.cases, lines)
      BY <2>1, TablesAgree
    <2>3. /\ RecoveryLoop(shown).moneyAtRisk = PortfolioMetrics(shown.cases).detectedOpportunity
          /\ RecoveryLoop(shown).recoverableForecast = ExpectedRecoverable(shown.cases)
      BY DEF RecoveryLoop
    <2> QED
      BY <2>1, <2>2, <2>3, WaterfallAgrees, OutcomesAgree DEF ScreensAgree, ShowsTheDashboard
  <1> QED  BY <1>1, PageRunsItsParts, CopiesAreWellFormed, PTL

-----------------------------------------------------------------------------
\* In the composed page the four copies of the cases, the assessment and the screen
\* that is shown are well formed (RecoveryProvider, Assessment, App.tsx).
THEOREM PageHoldsTogether == AppSpec => []AppTypeOK
<1> DEFINE OnAScreen == active \in {"cases", "assessment"}
<1>1. AppInit => OnAScreen
  BY DEF AppInit
<1>2. OnAScreen /\ [AppNext]_appVars => OnAScreen'
  BY DEF AppNext, appVars, WorkOnCases, ResetDemo, Render, OpenAssessment, UseAssessment,
         LeaveAssessment, ReloadPage
<1>3. TypeOK /\ ScreenTypeOK /\ OnAScreen => AppTypeOK
  BY DEF AppTypeOK
<1>4. AppSpec => []OnAScreen
  BY <1>1, <1>2, PTL DEF AppSpec
<1> QED  BY <1>3, <1>4, PageRunsItsParts, CopiesAreWellFormed, PageIsWellFormed, PTL

-----------------------------------------------------------------------------
(* What the panels show of the proofs.                                     *)

Recovered(all) == {c \in Cases : HasEffectiveRecoveryForCase(all, c)}

\* What the proof of c that counts returned.
ReturnedFor(all, c) ==
    (CHOOSE p \in EffectiveProofs(all) : p.case = c /\ IsEffectiveRecovery(p)).returned

\* The proven numbers are those of cases, each taken once, and the auditable ones
\* are a part of them.
CountsCases(all) ==
    LET ledger == ProvenLedger(all)
    IN  /\ ledger.provenCount = Cardinality(Recovered(all))
        /\ ledger.revenueReturned = SumFunction([c \in Recovered(all) |-> ReturnedFor(all, c)])
        /\ ledger.auditableCount <= ledger.provenCount
        /\ 0 <= ledger.auditableRevenue /\ ledger.auditableRevenue <= ledger.revenueReturned

\* What the records at some positions of a ledger returned.
ReturnedAt(all, positions) == MapThenSumSet(LAMBDA i : all[i].returned, positions)

LEMMA ReturnsAreASum ==
    ASSUME NEW all, NEW S, IsFiniteSet(S), NEW w \in [S -> Int],
           \A i \in S : w[i] = all[i].returned, NEW g, Adds(g, S, w), NEW s \in SUBSET S
    PROVE  ReturnedAt(all, s) = g[s]
  <1> DEFINE IsFold(f) ==
               f = [t \in SUBSET s |->
                      IF t = {} THEN 0
                      ELSE all[CHOOSE x \in t : TRUE].returned + f[t \ {CHOOSE x \in t : TRUE}]]
             fold == CHOOSE f : IsFold(f)
  <1>1. ReturnedAt(all, s) = fold[s]
    BY Zenon DEF ReturnedAt, MapThenSumSet, MapThenFoldSet
  <1>2. \A t \in SUBSET s : t # {} => (CHOOSE x \in t : TRUE) \in t
    OBVIOUS
  <1>3. \A t \in SUBSET s : FoldsTo(g, t, w)
    BY <1>2 DEF Adds, FoldsTo
  <1>4. \E f : IsFold(f)
    <2> DEFINE f == [t \in SUBSET s |-> g[t]]
    <2>1. ASSUME NEW t \in SUBSET s
          PROVE  f[t] = IF t = {} THEN 0
                        ELSE all[CHOOSE x \in t : TRUE].returned + f[t \ {CHOOSE x \in t : TRUE}]
      <3>1. f[t] = g[t] /\ f[t \ {CHOOSE x \in t : TRUE}] = g[t \ {CHOOSE x \in t : TRUE}]
        OBVIOUS
      <3>2. t # {} => w[CHOOSE x \in t : TRUE] = all[CHOOSE x \in t : TRUE].returned
        BY <1>2
      <3> HIDE DEF f
      <3> QED  BY <1>3, <3>1, <3>2 DEF FoldsTo
    <2>2. f = [t \in SUBSET s |-> f[t]]
      OBVIOUS
    <2> HIDE DEF f
    <2>3. IsFold(f)
      BY <2>1, <2>2, Zenon
    <2> QED  BY <2>3
  <1>5. IsFold(fold)
    BY <1>4, Zenon
  <1> HIDE DEF fold
  <1>6. ASSUME NEW t \in SUBSET s  PROVE FoldsTo(fold, t, w)
    <2>1. fold[t] = IF t = {} THEN 0
                    ELSE all[CHOOSE x \in t : TRUE].returned + fold[t \ {CHOOSE x \in t : TRUE}]
      BY <1>5
    <2>2. t # {} => w[CHOOSE x \in t : TRUE] = all[CHOOSE x \in t : TRUE].returned
      BY <1>2
    <2> QED  BY <2>1, <2>2 DEF FoldsTo
  <1>7. IsFiniteSet(s)
    BY FS_Subset
  <1>8. fold[s] = g[s]
    BY <1>3, <1>6, <1>7, FoldIsUnique
  <1> QED  BY <1>1, <1>8

\* Where a case has one chain that counts, the positions that count are the cases
\* that have one.
LEMMA LedgerCountsCases ==
    ASSUME NEW all, NEW n, IsLedger(all), OneEffective(all), Chained(all, n),
           \A i \in DOMAIN all : all[i].case \in Cases
    PROVE  CountsCases(all)
  <1> DEFINE proven == {i \in EffectivePositions(all) : IsEffectiveRecovery(all[i])}
             auditable == {i \in proven : ProofIsAuditable(all[i])}
             cases == Recovered(all)
             w == [i \in proven |-> all[i].returned]
             b == [i \in proven |-> all[i].case]
             v == [c \in cases |-> ReturnedFor(all, c)]
  <1>1. /\ ProvenLedger(all).provenCount = Cardinality(proven)
        /\ ProvenLedger(all).auditableCount = Cardinality(auditable)
        /\ ProvenLedger(all).revenueReturned = ReturnedAt(all, proven)
        /\ ProvenLedger(all).auditableRevenue = ReturnedAt(all, auditable)
    BY DEF ProvenLedger, ReturnedAt
  <1>2. IsFiniteSet(proven) /\ proven \subseteq DOMAIN all
    <2>1. DOMAIN all = 1 .. Len(all) /\ Len(all) \in Nat
      BY DEF IsLedger
    <2>2. proven \in SUBSET (1 .. Len(all))
      BY <2>1 DEF EffectivePositions
    <2>3. IsFiniteSet(1 .. Len(all))
      BY <2>1, FS_Interval
    <2> QED  BY <2>1, <2>2, <2>3, FS_Subset
  <1>3. auditable \in SUBSET proven /\ proven \in SUBSET proven
    OBVIOUS
  <1>4. /\ w \in [proven -> Int]
        /\ \A i \in proven : w[i] = all[i].returned /\ w[i] >= 0
    <2>1. \A i \in proven : all[i].returned \in Int /\ all[i].returned >= 0
      BY <1>2 DEF Chained, ChainRecord
    <2> QED  BY <2>1
  <1>5. /\ b \in [proven -> cases] /\ \A i, j \in proven : b[i] = b[j] => i = j
        /\ cases = {b[i] : i \in proven} /\ \A i \in proven : b[i] = all[i].case
    <2>1. \A i, j \in proven : all[i].case = all[j].case => i = j
      BY DEF OneEffective
    <2>2. \A i \in proven : all[i].case \in cases
      BY <1>2 DEF Recovered, HasEffectiveRecoveryForCase, EffectiveProofs
    <2>3. \A c \in cases : \E i \in proven : all[i].case = c
      BY DEF Recovered, HasEffectiveRecoveryForCase, EffectiveProofs
    <2> HIDE DEF proven, cases
    <2> QED  BY <2>1, <2>2, <2>3
  <1>6. ASSUME NEW i \in proven  PROVE v[b[i]] = w[i]
    <2>1. all[i] \in EffectiveProofs(all) /\ IsEffectiveRecovery(all[i])
      BY DEF EffectiveProofs
    <2>2. ASSUME NEW p \in EffectiveProofs(all), p.case = all[i].case, IsEffectiveRecovery(p)
          PROVE  p = all[i]
      BY <2>2 DEF EffectiveProofs, OneEffective
    <2>3. (CHOOSE p \in EffectiveProofs(all) : p.case = all[i].case /\ IsEffectiveRecovery(p)) = all[i]
      BY <2>1, <2>2
    <2>4. ReturnedFor(all, all[i].case) = all[i].returned
      BY <2>3 DEF ReturnedFor
    <2>5. b[i] = all[i].case /\ b[i] \in cases
      BY <1>5
    <2> QED  BY <1>4, <2>4, <2>5
  <1>7. v \in [cases -> Int] /\ v = [c \in cases |-> v[c]]
    <2>1. ASSUME NEW c \in cases  PROVE v[c] \in Int
      BY <1>4, <1>5, <1>6
    <2> QED  BY <2>1
  <1>8. CountsCases(all) <=>
          /\ ProvenLedger(all).provenCount = Cardinality(cases)
          /\ ProvenLedger(all).revenueReturned = SumFunction(v)
          /\ ProvenLedger(all).auditableCount <= ProvenLedger(all).provenCount
          /\ 0 <= ProvenLedger(all).auditableRevenue
          /\ ProvenLedger(all).auditableRevenue <= ProvenLedger(all).revenueReturned
    BY DEF CountsCases
  <1> HIDE DEF proven, auditable, cases, w, b, v
  <1>9. PICK g : Adds(g, proven, w)
    BY <1>2, <1>4, SumsOfFunctions
  <1>10. /\ ProvenLedger(all).revenueReturned = g[proven]
         /\ ProvenLedger(all).auditableRevenue = g[auditable]
    BY <1>1, <1>2, <1>3, <1>4, <1>9, ReturnsAreASum
  <1>11. IsFiniteSet(cases) /\ Cardinality(cases) = Cardinality(proven)
    BY <1>2, <1>5, Renames
  <1>12. PICK h : Adds(h, cases, v) /\ SumFunction(v) = h[cases]
    BY <1>7, <1>11, SumsOfFunctions
  <1>13. h[cases] = g[proven]
    BY <1>2, <1>3, <1>5, <1>6, <1>9, <1>12, RenamedSums
  <1>14. g[{}] <= g[auditable] /\ g[auditable] <= g[proven] /\ g[{}] = 0
    <2>1. {} \in SUBSET proven /\ {} \subseteq auditable
      OBVIOUS
    <2>2. g[{}] <= g[auditable]
      BY <1>2, <1>3, <1>4, <1>9, <2>1, SumsGrow
    <2>3. g[auditable] <= g[proven]
      BY <1>2, <1>3, <1>4, <1>9, SumsGrow
    <2> QED  BY <1>9, <2>2, <2>3 DEF Adds
  <1>15. Cardinality(auditable) <= Cardinality(proven)
    BY <1>2, <1>3, FS_Subset
  <1> QED  BY <1>1, <1>8, <1>10, <1>11, <1>12, <1>13, <1>14, <1>15

\* The dashboard and the loop count cases and not clicks: wherever the proofs are
\* kept, the proven count is the number of cases with a recovery that counts, the
\* returned dollars are those of one proof for each of them, and what is auditable
\* is a part of both, so that what is left below the threshold is never negative
\* (provenLedger, ExecutiveDashboard.tsx).
THEOREM PanelsCountCases == AppSpec => [](\A all \in Ledgers : CountsCases(all))
<1>1. MirrorInv /\ RestInv /\ ChainInv => \A all \in Ledgers : CountsCases(all)
  <2> SUFFICES ASSUME MirrorInv, RestInv, ChainInv, NEW all \in Ledgers  PROVE CountsCases(all)
    OBVIOUS
  <2>1. IsLedger(all) /\ OneEffective(all) /\ Chained(all, seq)
    BY DEF Ledgers, MirrorInv, ChainInv
  <2>2. ASSUME NEW i \in DOMAIN all  PROVE all[i].case \in Cases
    <3>1. \A p \in ProofsOf(next) : p.case \in Cases
      BY DEF RestInv, QueuedRest
    <3>2. \A p \in ProofsOf(disk) : p \in ProofsOf(next)
      BY DEF RestInv, StoredRest
    <3>3. CASE all \in {proofsRef, next.proofs, disk.proofs}
      BY <2>2, <3>1, <3>2, <3>3 DEF MirrorInv, ProofsOf
    <3>4. CASE all = shown.proofs
      <4>1. Len(shown.proofs) <= Len(proofsRef)
            /\ \A j \in 1 .. Len(shown.proofs) : shown.proofs[j] = proofsRef[j]
        BY PrefixIsPointwise DEF MirrorInv
      <4>2. DOMAIN shown.proofs = 1 .. Len(shown.proofs) /\ DOMAIN proofsRef = 1 .. Len(proofsRef)
            /\ Len(shown.proofs) \in Nat /\ Len(proofsRef) \in Nat
        BY DEF MirrorInv, IsLedger
      <4>3. i \in DOMAIN proofsRef /\ all[i] = proofsRef[i]
        BY <2>2, <3>4, <4>1, <4>2
      <4> QED  BY <3>1, <4>3 DEF MirrorInv, ProofsOf
    <3> QED  BY <3>3, <3>4 DEF Ledgers
  <2> QED  BY <2>1, <2>2, LedgerCountsCases
<1> QED  BY <1>1, PageRunsItsParts, MirrorHolds, RestHolds, ChainsHold, PTL

\* In the composed page the proofs of a load are a counted ledger, whichever screen
\* the operator works on (appendApprovedProof, appendReversal).
THEOREM PageKeepsLedger == AppSpec => ChainsFollowLedger
  BY PageRunsItsParts, BrowserKeepsLedger, PTL
=============================================================================
