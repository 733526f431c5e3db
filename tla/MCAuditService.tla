---------------------------- MODULE MCAuditService ----------------------------
(***************************************************************************)
(* A request menu for model checking AuditService: one case is approved,   *)
(* corrected, reversed, verified, intervened on and excluded while reports *)
(* are read; gus tries to verify, approve and exclude.                     *)
(***************************************************************************)
EXTENDS AuditService

CONSTANTS ann, bob, gus, c1, p1, p2, b1, e1, inv1, USD

CaseReq(op, actor, role) == [op |-> op, actor |-> actor, role |-> role, case |-> c1]

ReviseReq(status) ==
    [op |-> "Revise", actor |-> gus, role |-> "approver", proofId |-> p1,
     newProofId |-> p2, status |-> status, currency |-> None, collected |-> None]

AuditRequests ==
    {CaseReq("Author", ann, "author"),
     CaseReq("Intervene", ann, "operator"),
     CaseReq("Exclude", gus, "steward"),
     [op |-> "EstablishBaseline", actor |-> ann, role |-> "operator", case |-> c1,
      baselineId |-> b1, calculated |-> 1, currency |-> USD],
     [op |-> "IngestEvidence", actor |-> ann, role |-> "operator", case |-> c1,
      evidenceId |-> e1, system |-> "billing", record |-> inv1,
      type |-> "payment_received", amount |-> 2, currency |-> USD],
     [op |-> "Approve", actor |-> bob, role |-> "approver", case |-> c1,
      proofId |-> p1, currency |-> USD, collected |-> 2, evidenceIds |-> <<e1>>,
      baselineId |-> b1, clearsThreshold |-> TRUE],
     ReviseReq("Corrected"), ReviseReq("Reversed"),
     [op |-> "Verify", actor |-> gus, role |-> "verifier", proofId |-> p1]}

=============================================================================
