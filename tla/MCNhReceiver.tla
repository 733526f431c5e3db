----------------------------- MODULE MCNhReceiver -----------------------------
(***************************************************************************)
(* What people write on the issue when model checking NhReceiver: a short- *)
(* lived message and its receipt, blocks that cannot be read, and texts    *)
(* that only look like part of the protocol.                               *)
(***************************************************************************)
EXTENDS NhReceiver

CONSTANTS m1, claude, gpt, hello

Hello ==
    [id |-> m1, from |-> claude, to |-> gpt, body |-> hello, created |-> 0, expires |-> 1]

Read == [id |-> m1, body |-> hello, by |-> gpt, at |-> 0]

Exchange == {Hello, Read}

OneMessage == {Hello}

By(author, contents) == [author : {author}, content : contents]

\* An exchange to which a third party contributes a receipt of its own.
ExchangeWrites == By("owner", Exchange) \cup By("other", {Read})

\* A message, a quoted fence, and a forged marker.
MixedWrites ==
    By("owner", {Hello, Quote}) \cup By("other", {[of |-> 1]})

=============================================================================
