---------------------------- MODULE MCReceiverUses ----------------------------
(***************************************************************************)
(* Two instances of NhReceiver in one run: an exchange of a message and    *)
(* its receipts that nobody edits, and a message among texts that only     *)
(* look like part of the protocol, edited, deleted and written over.       *)
(***************************************************************************)
EXTENDS MCNhReceiver

VARIABLE use

AllWrites == ExchangeWrites \cup MixedWrites

Written(writes) ==
    \A n \in DOMAIN comments' :
       \/ comments'[n] = None
       \/ comments'[n].author = "bot"
       \/ comments'[n].content \in {w.content : w \in writes}

UseInit == Init /\ use \in {"exchange", "mixed"}

\* A killed run stands for one whose only call failed.
OneAttempt == run' # None => run'.tries = 0

UseNext ==
    /\ Next
    /\ use' = use
    /\ IF use = "exchange" THEN edits' = 0 /\ OneAttempt /\ Written(ExchangeWrites)
       ELSE now' <= 1 /\ Written(MixedWrites)

UseSpec == UseInit /\ [][UseNext]_<<vars, use>> /\ WF_vars(StartRun) /\ WF_vars(RunStep)
=============================================================================
