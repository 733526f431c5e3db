---------------------------- MODULE MCProofServer ----------------------------
(***************************************************************************)
(* Request menus for model checking ProofServer.                           *)
(***************************************************************************)
EXTENDS ProofServer, TLC

CONSTANTS ann, bob, cid, c1, c2, p1, p2, p3, b1, b2, e1, e2, inv1, inv2, USD, EUR

CaseReq(op, actor, role, c) ==
    [op |-> op, actor |-> actor, role |-> role, case |-> c]

BaselineReq(actor, c, b, amount) ==
    [op |-> "EstablishBaseline", actor |-> actor, role |-> "operator", case |-> c,
     baselineId |-> b, calculated |-> amount, currency |-> USD]

EvidenceReq(actor, c, e, system, record, amount) ==
    [op |-> "IngestEvidence", actor |-> actor, role |-> "operator", case |-> c,
     evidenceId |-> e, system |-> system, record |-> record,
     type |-> "invoice_paid", amount |-> amount, currency |-> USD]

ApproveReq(actor, c, p, amount, ids, b, clears) ==
    [op |-> "Approve", actor |-> actor, role |-> "approver", case |-> c,
     proofId |-> p, currency |-> USD, collected |-> amount,
     evidenceIds |-> ids, baselineId |-> b, clearsThreshold |-> clears]

ReviseReq(actor, p, new, status, amount) ==
    [op |-> "Revise", actor |-> actor, role |-> "approver", proofId |-> p,
     newProofId |-> new, status |-> status, currency |-> None, collected |-> amount]

VerifyReq(actor, p) ==
    [op |-> "Verify", actor |-> actor, role |-> "verifier", proofId |-> p]

Seeded(c, b, e, record) ==
    {CaseReq("Author", ann, "author", c), BaselineReq(ann, c, b, 1),
     EvidenceReq(ann, c, e, "billing", record, 2)}

\* Two approvals of one case and competing revisions of the result.
ChainRequests ==
    Seeded(c1, b1, e1, inv1) \cup
    {ApproveReq(bob, c1, p1, 3, <<e1>>, b1, FALSE),
     ApproveReq(cid, c1, p2, 0, <<e1>>, b1, FALSE),
     ReviseReq(bob, p1, p2, "Corrected", 2),
     ReviseReq(cid, p1, p3, "Reversed", None),
     ReviseReq(cid, p2, p3, "Superseded", None),
     [ReviseReq(bob, p2, p3, "Corrected", 2) EXCEPT !.currency = EUR]}

\* Two cases that compete for one invoice and each other's baseline.
TrustRequests ==
    Seeded(c1, b1, e1, inv1) \cup
    {CaseReq("Author", ann, "author", c2), BaselineReq(ann, c2, b2, 0),
     EvidenceReq(ann, c2, e2, "billing", inv1, 2),
     ApproveReq(bob, c1, p1, 2, <<e1>>, b1, TRUE),
     ApproveReq(bob, c1, p1, 3, <<e1>>, b1, TRUE),
     ApproveReq(bob, c2, p2, 2, <<e2>>, b2, TRUE),
     ApproveReq(bob, c2, p2, 0, <<e1>>, b2, FALSE),
     ApproveReq(bob, c2, p2, 2, <<e2>>, b1, FALSE)}

\* Two snapshots of one case, locked at any time around its interventions and
\* the ingestion of its outcome evidence; the number is revised afterwards.
OrderingRequests ==
    Seeded(c1, b1, e1, inv1) \cup
    {BaselineReq(ann, c1, b2, 0),
     CaseReq("Intervene", ann, "operator", c1),
     EvidenceReq(ann, c1, e2, "crm", inv1, None),
     ApproveReq(bob, c1, p1, 2, <<e1, e2>>, b1, TRUE),
     ApproveReq(bob, c1, p2, 2, <<e2>>, b2, FALSE),
     ReviseReq(bob, p1, p3, "Corrected", 1)}

\* Every identity tries every duty of the case.
DutyRequests ==
    Seeded(c1, b1, e1, inv1) \cup
    UNION {{CaseReq("Author", a, "author", c1),
            ApproveReq(a, c1, p1, 2, <<e1>>, b1, FALSE),
            ReviseReq(a, p1, p2, "Corrected", None),
            VerifyReq(a, p1)} : a \in Actors}
    \cup {CaseReq("Flag", cid, "steward", c1), CaseReq("Halt", cid, "steward", c1),
          CaseReq("Exclude", cid, "steward", c1)}

\* An auditable approval is corrected upwards.
UpliftRequests ==
    Seeded(c1, b1, e1, inv1) \cup
    {ApproveReq(bob, c1, p1, 2, <<e1>>, b1, TRUE),
     ReviseReq(bob, p1, p2, "Corrected", 3)}

\* Handlers are interchangeable.
HandlerSymmetry == Permutations(Handlers)
=============================================================================
