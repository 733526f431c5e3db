--------------------------- MODULE MCDeliveryLedger ---------------------------
(***************************************************************************)
(* Inputs for model checking DeliveryLedger.  Two messages with one id and *)
(* different bodies, one of them short-lived, and a message of another id  *)
(* that outlives the clock; receipts of every party and body.              *)
(***************************************************************************)
EXTENDS DeliveryLedger

CONSTANTS m1, m2, claude, gpt, owner, hello, bye

Msg(id, from, to, body, created, expires) ==
    [id |-> id, from |-> from, to |-> to, body |-> body,
     created |-> created, expires |-> expires]

BothMessages ==
    {Msg(m1, claude, gpt, hello, 1, 5), Msg(m1, claude, gpt, bye, 0, 9),
     Msg(m2, gpt, claude, hello, 0, 9)}

AllReceipts == [id : Ids, body : Bodies, by : Parties, at : 0..2]

=============================================================================
