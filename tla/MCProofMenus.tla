----------------------------- MODULE MCProofMenus -----------------------------
(***************************************************************************)
(* Three instances of ProofServer in one run: each behaviour takes all its *)
(* requests from one menu.                                                 *)
(***************************************************************************)
EXTENDS MCProofServer

VARIABLE menu

AllMenus == ChainRequests \cup TrustRequests \cup OrderingRequests

MenuInit == Init /\ menu \in {ChainRequests, TrustRequests, OrderingRequests}

\* Three requests overlap, and the clock advances between requests, once a
\* result has been revised.
ChainsRace ==
    now' # now => (\E p \in proofs : p.version > 1) /\ \A h \in Handlers : pc[h] = "idle"

Authored == \A r \in menu : r.op = "Author" => r.actor \in IdsFor(r.case, "Author")

\* Two different requests overlap, and the cases get their authors first.  Only
\* the first of the two menus is short enough for a clock that advances while a
\* transaction is open.
ApprovalsRace ==
    /\ Cardinality({h \in Handlers : req'[h] # None}) <= 2
    /\ \A h \in Handlers : req'[h] # None =>
         /\ \A i \in Handlers \ {h} : req'[i] # req'[h]
         /\ IF Authored THEN req'[h].op = "Author" => req'[h] = req[h]
            ELSE req'[h].op = "Author"
    /\ ~Authored => UNCHANGED now
    /\ menu = OrderingRequests /\ now' # now => \A h \in Handlers : pc[h] # "commit"

MenuNext ==
    /\ Next
    /\ menu' = menu
    /\ \A h \in Handlers : req'[h] \in menu \cup {None}
    /\ IF menu = ChainRequests THEN ChainsRace ELSE ApprovalsRace

MenuSpec == MenuInit /\ [][MenuNext]_<<vars, menu>>
=============================================================================
