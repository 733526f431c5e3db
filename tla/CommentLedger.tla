---------------------------- MODULE CommentLedger ----------------------------
(***************************************************************************)
(* What the receiver promises readers of an issue: there is one delivery   *)
(* ledger, it is told of each protocol comment once, when the comment is   *)
(* written, and whoever asks about a comment later, once or many times, is *)
(* answered with what the ledger said then.                                *)
(***************************************************************************)
EXTENDS Comments

CONSTANTS
    Payloads,     \* what the ledger may be told
    Times

VARIABLES
    ledger,
    verdicts,     \* the verdict on each comment told, by comment id
    answers       \* pairs of a comment id and the kind it was answered with

vars == <<ledger, verdicts, answers>>

Init == ledger = EmptyLedger /\ verdicts = <<>> /\ answers = {}

\* A comment told adds its own verdict and changes none before it.
Tell(c) ==
    /\ \A d \in DOMAIN verdicts : d < c
    /\ DOMAIN verdicts' = DOMAIN verdicts \cup {c}
    /\ \A d \in DOMAIN verdicts : verdicts'[d] = verdicts[d]
    /\ \E payload \in Payloads, t \in Times :
          /\ verdicts'[c] = Verdict(ledger, payload, t)
          /\ ledger' = Told(ledger, payload, t)
    /\ UNCHANGED answers

Answer(c) ==
    /\ answers' = answers \cup {<<c, verdicts[c]>>}
    /\ UNCHANGED <<ledger, verdicts>>

Next ==
    \/ \E c \in DOMAIN verdicts' : Tell(c)
    \/ \E c \in DOMAIN verdicts : Answer(c)

Spec == Init /\ [][Next]_vars

=============================================================================
