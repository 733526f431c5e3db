------------------------------ MODULE BrowserApp ------------------------------
(***************************************************************************)
(* One page of the browser: the sidebar, and in the main area either a     *)
(* screen on the cases or the assessment.  The assessment lives as long as *)
(* it is mounted; the recovery state is above the screens and outlives     *)
(* them.                                                                   *)
(***************************************************************************)
EXTENDS RecoveryScreens, AssessmentScreen

VARIABLE active    \* "cases" for any of the other modules, or "assessment"

appVars == <<vars, active, screenVars>>

AppInit == Init /\ ScreenInit /\ active = "cases"

WorkOnCases == active = "cases" /\ CaseWork /\ UNCHANGED <<active, screenVars>>

\* The button is in the sidebar, beside any screen.
ResetDemo == ResetData /\ UNCHANGED <<active, screenVars>>

Render == Commit /\ UNCHANGED <<active, screenVars>>

OpenAssessment ==
    /\ active = "cases" /\ burst = 0
    /\ active' = "assessment"
    /\ UNCHANGED <<vars, screenVars>>

UseAssessment == active = "assessment" /\ PageNext /\ UNCHANGED <<vars, active>>

LeaveAssessment ==
    /\ active = "assessment"
    /\ LeavePage
    /\ active' = "cases" /\ UNCHANGED vars

ReloadPage == Reload /\ LeavePage /\ active' = "cases"

AppNext ==
    \/ WorkOnCases
    \/ ResetDemo
    \/ Render
    \/ OpenAssessment
    \/ UseAssessment
    \/ LeaveAssessment
    \/ ReloadPage

AppSpec == AppInit /\ [][AppNext]_appVars

-----------------------------------------------------------------------------

\* The recovery state and the state of the assessment are well formed, whatever
\* screen is left for which other one (RecoveryProvider, Assessment).
AppTypeOK == TypeOK /\ ScreenTypeOK /\ active \in {"cases", "assessment"}
=============================================================================
