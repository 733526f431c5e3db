---------------------------- MODULE CountedLedger ----------------------------
(***************************************************************************)
(* What the proof server promises the readers of its numbers: a recovery   *)
(* case counts at most one number, it enters the ledger once, by an        *)
(* approval, and afterwards changes only by successive versions.           *)
(***************************************************************************)
EXTENDS Naturals

CONSTANTS Cases, None

VARIABLE current    \* the counted record of each case, None before approval

Entry ==
    [version : Nat \ {0}, returned : Nat,
     status : {"Approved", "Reversed", "Superseded", "Corrected"}]

Init == current = [c \in Cases |-> None]

Changes(c) ==
    /\ current'[c] \in Entry
    /\ current' = [current EXCEPT ![c] = current'[c]]

Approve(c) ==
    /\ current[c] = None
    /\ Changes(c)
    /\ current'[c].version = 1
    /\ current'[c].status = "Approved"

Revise(c) ==
    /\ current[c] # None
    /\ current'[c].version = current[c].version + 1
    /\ Changes(c)
    /\ current'[c].status # "Approved"
    /\ current'[c].status = "Reversed" => current'[c].returned = 0

Next == \E c \in Cases : Approve(c) \/ Revise(c)

Spec == Init /\ [][Next]_current
=============================================================================
