------------------------------- MODULE Comments -------------------------------
(***************************************************************************)
(* What an issue comment says to the delivery ledger: applyComment of the  *)
(* receiver.  Parsing (fences, JSON, size caps, the hash of the body       *)
(* against the envelope) is abstracted to its result: a comment carries a  *)
(* message, a receipt, or something refused with an explanation.  A        *)
(* receipt that is refused for its shape or size is told and answered like *)
(* one for a message nobody recorded.                                      *)
(***************************************************************************)
EXTENDS Bridge

CONSTANT Malformed    \* protocol blocks that cannot be read, whatever the reason

Kinds ==
    {"message_recorded", "message_duplicate", "message_conflict",
     "message_rejected", "delivered", "already_delivered", "receipt_refused"}

MessageKind ==
    [accepted |-> "message_recorded", duplicate |-> "message_duplicate",
     conflict |-> "message_conflict", rejected |-> "message_rejected"]

AckKind ==
    [delivered |-> "delivered", already_delivered |-> "already_delivered",
     refused |-> "receipt_refused"]

IsMessage(payload) == "from" \in DOMAIN payload

\* The ledger after a protocol comment written at time t, and its kind.
Told(ledger, payload, t) ==
    IF payload = Malformed THEN ledger
    ELSE IF IsMessage(payload) THEN Receive(ledger, payload, t)
    ELSE Acknowledge(ledger, payload, t)

Verdict(ledger, payload, t) ==
    IF payload = Malformed THEN "message_rejected"
    ELSE IF IsMessage(payload) THEN MessageKind[ReceiveOutcome(ledger, payload, t)]
    ELSE AckKind[AckOutcome(ledger, payload, t)]

=============================================================================
