----------------------------- MODULE RecoverySeed -----------------------------
(***************************************************************************)
(* The data the browser starts with: fourteen cases and, for the seven     *)
(* that are recovered and classified, a baseline, evidence and a proof     *)
(* built through the approval gate.  Times before the first render are     *)
(* negative: hours of the seed's own history, ended 25 hours after each    *)
(* registration.                                                           *)
(***************************************************************************)
EXTENDS ProofStore

SeedCase(stage, leak, reason, owner, status, risk, baseline, collected, confidence, actions) ==
    [stage |-> stage, leak |-> leak, reason |-> reason, owner |-> owner,
     status |-> status, risk |-> risk, baseline |-> baseline,
     collected |-> collected, confidence |-> confidence,
     actions |-> [i \in 1 .. actions |-> "seeded"], notes |-> "full",
     baselineId |-> None, interventionAt |-> None, outcomeAt |-> None]

Dana == "dana@company"
Priya == "priya@company"
Marcus == "marcus@company"

SeedEvents == [
  RE1001 |-> SeedCase("Renewal", "RenewalAtRisk", "RenewalOutreach", Dana, "Recovered", 24000, 4800, 24000, 94, 2),
  RE1002 |-> SeedCase("Activation", "ActivationMissed", "MilestoneNudge", Priya, "Recovered", 9600, 1900, 9600, 88, 2),
  RE1003 |-> SeedCase("Onboarding", "StalledOnboarding", "OnboardingReboot", Marcus, "Recovered", 15000, 0, 15000, 91, 2),
  RE1004 |-> SeedCase("Expansion", "ExpansionStalled", "ExecBusinessReview", Dana, "Recovered", 18000, 6000, 16500, 83, 2),
  RE1005 |-> SeedCase("Onboarding", "LowAdoption", "CSMOutreach", Priya, "Recovered", 7200, 3600, 7200, 58, 1),
  RE1006 |-> SeedCase("FirstValue", "NoFirstValue", None, None, "Recovered", 4300, 0, 4300, 35, 0),
  RE1007 |-> SeedCase("Activation", "ActivationMissed", "MilestoneNudge", None, "Detected", 31000, 6200, 0, 20, 0),
  RE1008 |-> SeedCase("Activation", "ActivationMissed", None, Marcus, "Assigned", 12500, 2500, 0, 30, 1),
  RE1009 |-> SeedCase("Onboarding", "StalledOnboarding", "OnboardingReboot", Priya, "InProgress", 8800, 0, 0, 45, 2),
  RE1010 |-> SeedCase("FirstValue", "NoFirstValue", None, None, "Queued", 19500, 3900, 0, 25, 0),
  RE1011 |-> SeedCase("Renewal", "LowAdoption", "CSMOutreach", Dana, "Failed", 14000, 0, 0, 15, 2),
  RE1012 |-> SeedCase("Onboarding", "StalledOnboarding", None, Marcus, "Dismissed", 2100, 0, 0, 10, 1),
  RE1013 |-> SeedCase("FirstValue", "NoFirstValue", "EnablementSession", Priya, "Recovered", 21000, 4200, 21000, 86, 2),
  RE1014 |-> SeedCase("Activation", "ActivationMissed", "UsageActivation", Dana, "Recovered", 13200, 2600, 13200, 81, 1)]

TrustSeed(case, owner, baseline, collected, confidence, system) ==
    [case |-> case, owner |-> owner, baseline |-> baseline,
     collected |-> collected, confidence |-> confidence, system |-> system]

SEEDS == <<
    TrustSeed("RE1001", Dana, 4800, 24000, 94, "billing"),
    TrustSeed("RE1002", Priya, 1900, 9600, 88, "billing"),
    TrustSeed("RE1003", Marcus, 0, 15000, 91, "billing"),
    TrustSeed("RE1004", Dana, 6000, 16500, 83, "crm"),
    TrustSeed("RE1005", Priya, 3600, 7200, 58, None),
    TrustSeed("RE1013", Priya, 4200, 21000, 86, "billing"),
    TrustSeed("RE1014", Dana, 2600, 13200, 81, "product")>>

RegisteredAt == -25

SeedBaseline(s) ==
    LockBaselineObj(MakeBaseline(<<"BL", s.case>>, s.baseline, RegisteredAt), RegisteredAt)

SeedEvidence(s) ==
    {MakeEvidence(<<"note", s.case>>, "manual", FALSE)}
    \cup {MakeEvidence(<<"src", s.case>>, system, TRUE) : system \in {s.system} \ {None}}

SeedContext(s) ==
    [id |-> <<"PF", s.case>>, case |-> s.case, owner |-> s.owner,
     approver |-> Approver, baseline |-> SeedBaseline(s),
     evidence |-> SeedEvidence(s), interventionAt |-> RegisteredAt + 1,
     outcomeAt |-> RegisteredAt + 24, collected |-> s.collected,
     confidence |-> s.confidence, stated |-> TRUE]

\* The seeds of the cases in ids; one that fails the gate is refused.
SeedsOf(ids) ==
    SelectSeq(SEEDS, LAMBDA s : s.case \in ids /\ ValidateApproval(SeedContext(s)))

\* The governed records of the cases in ids.
SeedTrust(ids) ==
    LET seeds == SeedsOf(ids)
    IN  [baselines |-> {SeedBaseline(seeds[i]) : i \in DOMAIN seeds},
         proofs |-> [i \in DOMAIN seeds |-> ApproveProofForCase(SeedContext(seeds[i]))],
         evidence |-> [c \in ids |->
             UNION {SeedEvidence(seeds[i]) : i \in {j \in DOMAIN seeds : seeds[j].case = c}}]]

=============================================================================
