------------------------------ MODULE NhReceiver ------------------------------
(***************************************************************************)
(* The coordination receiver: a workflow run per issue comment that lists  *)
(* the issue's comments, replays them through the delivery core and posts  *)
(* one answer.  It keeps no state: the issue is its ledger.                *)
(*                                                                         *)
(* The platform (external) runs one workflow at a time per issue and keeps *)
(* one more pending, which a newer one displaces.  An API call may fail,   *)
(* a post may take effect although its answer is lost, a run may be killed *)
(* at any time and be run again by hand, and comments may be edited or     *)
(* deleted while all this goes on.  One listing is one step.               *)
(***************************************************************************)
EXTENDS Comments, Sequences, FiniteSets

CONSTANTS
    Payloads,         \* the messages and receipts comments may carry
    Writes,           \* the comments that may be written: author and content
    Prose, Quote,     \* texts without a protocol block; Quote mentions a fence
    MaxApiAttempts,   \* MAX_API_ATTEMPTS
    MaxComments,      \* bound on the comments written by people
    MaxClock, MaxEdits, MaxReruns    \* further bounds

\* What the bot posts: the kind, with the id and the body hash it is about.
AnswerText ==
    [of : Nat, kind : Kinds, id : Ids \cup {None}, body : Bodies \cup {None}]

\* A third party may quote the marker of an answer.
ForgedMarker == [of : Nat]

Contents == Payloads \cup {Malformed, Prose, Quote}

ASSUME ReceiverAssumption ==
    /\ Payloads \subseteq Message \cup Receipt
    /\ Writes \subseteq [author : {"owner", "other"}, content : Contents \cup ForgedMarker]
    /\ MaxApiAttempts \in Nat \ {0}
    /\ MaxComments \in Nat /\ MaxClock \in Nat /\ MaxEdits \in Nat /\ MaxReruns \in Nat

Comment ==
    [author : {"owner", "other"}, content : Contents \cup ForgedMarker,
     created : Nat, updated : Nat]
    \cup [author : {"bot"}, content : AnswerText, created : Nat, updated : Nat]

RunState ==
    [comment : Nat, phase : {"list", "post"}, tries : Nat, answer : AnswerText \cup {None}]

ASSUME NoRecordAssumption == None \notin Comment /\ None \notin RunState

Results == {"ignored", "posted", "already_answered", "failed", "cancelled"}

VARIABLES
    comments,     \* the issue's comments by id, None once deleted
    now,
    wanted,       \* comments whose creation event meets the job's condition
    pending,      \* the comment of the pending workflow run, or None
    run,          \* the workflow run in progress, or None
    results,      \* the results runs ended with, per comment
    lost,         \* comments a run answered in a call that seemed to fail
    edits, reruns

vars == <<comments, now, wanted, pending, run, results, lost, edits, reruns>>

Init ==
    /\ comments = <<>> /\ now = 0 /\ wanted = {}
    /\ pending = None /\ run = None /\ results = {} /\ lost = {}
    /\ edits = 0 /\ reruns = 0

-----------------------------------------------------------------------------
(***************************************************************************)
(* The decision of a run: a pure function of the listed comments.          *)
(***************************************************************************)
IsProtocol(content) == content \in Payloads \cup {Malformed}

Edited(c) == c.created # c.updated

IsLedgerComment(c) ==
    c # None /\ c.author = "owner" /\ ~Edited(c) /\ IsProtocol(c.content)

\* Mutant of LedgerBefore: every listed comment is replayed.
LedgerOfAll(n) ==
    LET replay[i \in 0..Len(comments)] ==
            IF i = 0 THEN EmptyLedger
            ELSE LET before == replay[i - 1]
                 IN  IF IsLedgerComment(comments[i]) /\ i # n
                     THEN Told(before, comments[i].content, comments[i].created)
                     ELSE before
    IN  replay[Len(comments)]

\* The ledger after the comments with ids below n.
LedgerBefore(n) ==
    LET replay[i \in 0..Len(comments)] ==
            IF i = 0 THEN EmptyLedger
            ELSE LET before == replay[i - 1]
                 IN  IF IsLedgerComment(comments[i])
                     THEN Told(before, comments[i].content, comments[i].created)
                     ELSE before
    IN  replay[n - 1]

LedgerReceipt(n, kind, id, body) == [of |-> n, kind |-> kind, id |-> id, body |-> body]

\* A comment that is answered at all.
Answerable(c) == c.author = "owner" /\ IsProtocol(c.content)

\* The answer to comment n, for a comment that is answered.
Decide(n) ==
    LET c == comments[n]
    IN  IF Edited(c) \/ c.content = Malformed
        THEN LedgerReceipt(n, "message_rejected", None, None)
        ELSE LedgerReceipt(n, Verdict(LedgerBefore(n), c.content, c.created),
                           c.content.id, c.content.body)

\* Mutant of IsAnswer: anyone's comment with the marker counts.
QuotesMarker(c, n) ==
    c # None /\ (c.author = "bot" \/ c.content \in ForgedMarker) /\ c.content.of = n

IsAnswer(c, n) == c # None /\ c.author = "bot" /\ c.content.of = n

\* Mutant of AlreadyAnswered: a re-run does not look for an earlier answer.
NeverAnswered(n) == FALSE

AlreadyAnswered(n) == \E i \in DOMAIN comments : IsAnswer(comments[i], n)

-----------------------------------------------------------------------------
(***************************************************************************)
(* The issue and the platform (external).                                  *)
(***************************************************************************)
JobCondition(author, content) == author = "owner" /\ content # Prose

\* At most one run is pending: a newer one cancels it.
Enqueue(n) ==
    /\ pending' = n
    /\ results' = results \cup (IF pending = None THEN {} ELSE {<<pending, "cancelled">>})

ByPeople == {i \in DOMAIN comments : comments[i] = None \/ comments[i].author # "bot"}

Write(author, content) ==
    LET n == Len(comments) + 1
    IN  /\ Cardinality(ByPeople) < MaxComments
        /\ comments' = Append(comments, [author |-> author, content |-> content,
                                         created |-> now, updated |-> now])
        /\ wanted' = IF JobCondition(author, content) THEN wanted \cup {n} ELSE wanted
        /\ Enqueue(n)
        /\ UNCHANGED <<now, run, lost, edits, reruns>>

Revisable(n) == comments[n] # None /\ comments[n].author # "bot" /\ edits < MaxEdits

\* An edit within the second of the comment's creation does not show.
Edit(n, content) ==
    /\ Revisable(n)
    /\ comments' = [comments EXCEPT ![n].content = content, ![n].updated = now]
    /\ edits' = edits + 1
    /\ UNCHANGED <<now, wanted, pending, run, results, lost, reruns>>

Delete(n) ==
    /\ Revisable(n)
    /\ comments' = [comments EXCEPT ![n] = None]
    /\ edits' = edits + 1
    /\ UNCHANGED <<now, wanted, pending, run, results, lost, reruns>>

Rerun(n) ==
    /\ reruns < MaxReruns
    /\ \E r \in Results : <<n, r>> \in results
    /\ n # pending /\ (run # None => run.comment # n)
    /\ Enqueue(n)
    /\ reruns' = reruns + 1
    /\ UNCHANGED <<comments, now, wanted, run, lost, edits>>

Tick ==
    /\ now < MaxClock
    /\ now' = now + 1
    /\ UNCHANGED <<comments, wanted, pending, run, results, lost, edits, reruns>>

-----------------------------------------------------------------------------
(***************************************************************************)
(* A workflow run.                                                         *)
(***************************************************************************)
\* A run whose job condition is false is skipped.
StartRun ==
    /\ run = None /\ pending # None
    /\ run' = IF pending \in wanted
              THEN [comment |-> pending, phase |-> "list", tries |-> 0, answer |-> None]
              ELSE None
    /\ pending' = None
    /\ UNCHANGED <<comments, now, wanted, results, lost, edits, reruns>>

EndRun(result) ==
    /\ run' = None
    /\ results' = results \cup {<<run.comment, result>>}
    /\ UNCHANGED <<now, wanted, pending, edits, reruns>>

InPhase(phase) == run # None /\ run.phase = phase

\* handle after the listing: what to post, if anything.
ListComments ==
    /\ InPhase("list")
    /\ LET n == run.comment
           c == comments[run.comment]
       IN  \/ c = None /\ EndRun("failed")
           \/ c # None /\ ~Answerable(c) /\ EndRun("ignored")
           \/ /\ c # None /\ Answerable(c) /\ AlreadyAnswered(n)
              /\ EndRun("already_answered")
           \/ /\ c # None /\ Answerable(c) /\ ~AlreadyAnswered(n)
              /\ run' = [run EXCEPT !.phase = "post", !.tries = 0, !.answer = Decide(n)]
              /\ UNCHANGED <<now, wanted, pending, results, edits, reruns>>
    /\ UNCHANGED <<comments, lost>>

\* Mutant of AttemptFails: one attempt too many.
AttemptFailsLate ==
    IF run.tries < MaxApiAttempts
    THEN /\ run' = [run EXCEPT !.tries = @ + 1]
         /\ UNCHANGED <<now, wanted, pending, results, edits, reruns>>
    ELSE EndRun("failed")

\* Mutant of AttemptFails: after the last attempt the count starts over.
AttemptFailsForEver ==
    /\ run' = [run EXCEPT !.tries = (@ + 1) % MaxApiAttempts]
    /\ UNCHANGED <<now, wanted, pending, results, edits, reruns>>

\* withRetry: an attempt failed; after the last one the run fails.
AttemptFails ==
    IF run.tries + 1 < MaxApiAttempts
    THEN /\ run' = [run EXCEPT !.tries = @ + 1]
         /\ UNCHANGED <<now, wanted, pending, results, edits, reruns>>
    ELSE EndRun("failed")

CallFails == run # None /\ AttemptFails /\ UNCHANGED <<comments, lost>>

AnswerPosted ==
    comments' = Append(comments, [author |-> "bot", content |-> run.answer,
                                  created |-> now, updated |-> now])

PostComment == InPhase("post") /\ AnswerPosted /\ EndRun("posted") /\ UNCHANGED lost

\* The reply is on the issue, the run sees a failed attempt.
PostLosesAnswer ==
    /\ InPhase("post")
    /\ AnswerPosted
    /\ lost' = lost \cup {run.comment}
    /\ AttemptFails

\* timeout-minutes, a runner that dies, a run cancelled by hand: also between
\* the effect of a post and its answer.
Killed ==
    /\ run # None
    /\ UNCHANGED comments \/ (run.phase = "post" /\ AnswerPosted)
    /\ EndRun("failed")
    /\ UNCHANGED lost

RunStep == ListComments \/ CallFails \/ PostComment \/ PostLosesAnswer \/ Killed

-----------------------------------------------------------------------------
Next ==
    \/ \E w \in Writes : Write(w.author, w.content)
    \/ \E n \in DOMAIN comments : Delete(n) \/ Rerun(n)
    \/ \E n \in DOMAIN comments, w \in Writes : Edit(n, w.content)
    \/ Tick
    \/ StartRun
    \/ RunStep

Spec == Init /\ [][Next]_vars

\* The platform starts pending runs and every run goes on until it ends.
FairSpec == Spec /\ WF_vars(StartRun) /\ WF_vars(RunStep)

-----------------------------------------------------------------------------
\* Comments, the queue and the run in progress are of their types; a run
\* never counts MAX_API_ATTEMPTS failures and still goes on (receiver.ts:259-274).
TypeOK ==
    /\ comments \in Seq(Comment \cup {None})
    /\ now \in Nat /\ edits \in Nat /\ reruns \in Nat
    /\ wanted \subseteq DOMAIN comments
    /\ pending \in DOMAIN comments \cup {None}
    /\ results \subseteq (DOMAIN comments) \X Results
    /\ lost \subseteq wanted
    /\ run # None =>
          /\ run \in RunState /\ run.comment \in wanted /\ run.tries < MaxApiAttempts
          /\ run.phase = "post" => run.answer \in AnswerText

Answers == {i \in DOMAIN comments : comments[i] # None /\ comments[i].author = "bot"}

\* No comment is answered twice, however often its run is killed, fails or is
\* repeated, except by a retry of a post that seemed to fail
\* (receiver.ts:278-280).
AnsweredOnce ==
    \A i, j \in Answers :
        LET n == comments[i].content.of
        IN  comments[j].content.of = n => i = j \/ n \in lost

\* A run posts at most one reply (receive-comment.ts:2).
AtMostOneReply ==
    \A i, j \in Answers : comments[i].content.of = comments[j].content.of => i = j

\* A run that ended well left its comment answered: nobody but the bot can
\* make it believe that an earlier run did (receiver.ts:290).
SuccessIsAnswered ==
    \A n \in DOMAIN comments :
        \/ <<n, "posted">> \in results
        \/ <<n, "already_answered">> \in results
        => \E i \in Answers : comments[i].content.of = n

\* More ids than comments can get: answers are comments too.
CommentIds == 1..(MaxComments + (MaxComments + MaxReruns) * MaxApiAttempts)

\* Every run the platform accepts ends with a result that can be seen, or is
\* displaced while pending (receiver.ts:260-274, receive-comment.ts:3).
RunsEnd ==
    \A n \in CommentIds : n \in wanted ~> \E r \in Results : <<n, r>> \in results

-----------------------------------------------------------------------------
(***************************************************************************)
(* While nobody edits, the answers are those of one ledger that was told   *)
(* of each comment as it was written: a run that starts late, is repeated  *)
(* or overtaken recomputes the same answer (receiver.ts:4-5, 114).         *)
(***************************************************************************)
LedgerComments == {n \in DOMAIN comments : IsLedgerComment(comments[n])}

CurrentLedger == LedgerBefore(Len(comments) + 1)

Told_ == [n \in LedgerComments |->
            Verdict(LedgerBefore(n), comments[n].content, comments[n].created)]

Given == {<<comments[i].content.of, comments[i].content.kind>> : i \in Answers}

OneLedger ==
    INSTANCE CommentLedger WITH
        ledger <- CurrentLedger, verdicts <- Told_, answers <- Given,
        Payloads <- Payloads \cup {Malformed}, Times <- 0..MaxClock

ReplaysOneLedger ==
    OneLedger!Init /\ [][edits' = 0 => OneLedger!Next]_<<OneLedger!vars, edits>>

=============================================================================
