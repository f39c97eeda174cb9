------------------------------- MODULE Notify -------------------------------
(***************************************************************************)
(* The notification queue: notifyx/notifyx.go and notifyx/mailx.go.        *)
(*                                                                         *)
(* Callers push messages into a bounded channel.  One goroutine takes them *)
(* out, one a second, and starts a goroutine for every mail, which tries   *)
(* three times to deliver it.                                              *)
(*                                                                         *)
(* MailService is assumed to be set before the first Push; a task type     *)
(* that is not a string, which panics in run, is left out.                 *)
(***************************************************************************)
EXTENDS Naturals, Sequences, FiniteSets

CONSTANTS Msgs,      \* the messages that callers push, each once
          QueueCap,  \* capacity of queue (100 in the code)
          MaxTimes   \* maxTimes of Mail.send (3 in the code)

ASSUME QueueCapAssumption == QueueCap \in Nat \ {0}
ASSUME MaxTimesAssumption == MaxTimes \in Nat \ {0}

VARIABLES
  kind,       \* what a message asks for: "mail", "other" or "incomplete", once
              \* it was pushed
  push,       \* Push of the message: "new", "called" or "returned"
  queue,      \* the channel
  run,        \* the run goroutine: "recv" or "sleep"
  mail,       \* its mail: "none", "check", "dial", "hung", "sent", "refused", "failed"
  tries,      \* failed deliveries of the mail
  delivered   \* history: how often the mail server accepted the mail

notifyVars == <<kind, push, queue, run, mail, tries, delivered>>
mailVars == <<mail, tries, delivered>>

NotifyTypeOK ==
  /\ kind \in [Msgs -> {"mail", "other", "incomplete"}]
  /\ push \in [Msgs -> {"new", "called", "returned"}]
  /\ queue \in Seq(Msgs) /\ Len(queue) <= QueueCap
  /\ run \in {"recv", "sleep"}
  /\ mail \in [Msgs -> {"none", "check", "dial", "hung", "sent", "refused", "failed"}]
  /\ tries \in [Msgs -> 0..MaxTimes]
  /\ delivered \in [Msgs -> 0..MaxTimes]

NotifyInit ==
  /\ kind = [m \in Msgs |-> "other"]
  /\ push = [m \in Msgs |-> "new"]
  /\ queue = <<>>
  /\ run = "recv"
  /\ mail = [m \in Msgs |-> "none"]
  /\ tries = [m \in Msgs |-> 0]
  /\ delivered = [m \in Msgs |-> 0]

-----------------------------------------------------------------------------
\* A caller calls Push with some message.
CallPush(m) ==
  /\ push[m] = "new"
  /\ push' = [push EXCEPT ![m] = "called"]
  /\ \E k \in {"mail", "other", "incomplete"} : kind' = [kind EXCEPT ![m] = k]
  /\ UNCHANGED <<queue, run, mailVars>>

\* queue <- msg: it blocks while the channel is full.
Push(m) ==
  /\ push[m] = "called"
  /\ Len(queue) < QueueCap
  /\ queue' = Append(queue, m)
  /\ push' = [push EXCEPT ![m] = "returned"]
  /\ UNCHANGED <<kind, run, mailVars>>

\* One message: an incomplete one is dropped without a pause; a mail gets a
\* goroutine; then run sleeps.
Handle ==
  /\ run = "recv"
  /\ queue # <<>>
  /\ LET m == Head(queue) IN
     /\ queue' = Tail(queue)
     /\ mail' = IF kind[m] = "mail" THEN [mail EXCEPT ![m] = "check"] ELSE mail
     /\ run' = IF kind[m] = "incomplete" THEN "recv" ELSE "sleep"
  /\ UNCHANGED <<kind, push, tries, delivered>>

\* Mutant of Wake: the mail is sent by run itself and not by a goroutine.
Wake_Inline ==
  /\ run = "sleep"
  /\ \A m \in Msgs : mail[m] \notin {"check", "dial", "hung"}
  /\ run' = "recv"
  /\ UNCHANGED <<kind, push, queue, mailVars>>

\* The second of pause is over.
Wake ==
  /\ run = "sleep"
  /\ run' = "recv"
  /\ UNCHANGED <<kind, push, queue, mailVars>>

\* Mail.Send refuses an incomplete configuration, and nobody sees the error.
Check(m) ==
  /\ mail[m] = "check"
  /\ \E next \in {"dial", "refused"} : mail' = [mail EXCEPT ![m] = next]
  /\ UNCHANGED <<kind, push, queue, run, tries, delivered>>

\* DialAndSend: success ends the loop; an error, after which the server may
\* still have accepted the mail, counts as a try.
Dial(m) ==
  /\ mail[m] = "dial"
  /\ \/ /\ mail' = [mail EXCEPT ![m] = "sent"]
        /\ delivered' = [delivered EXCEPT ![m] = @ + 1]
        /\ UNCHANGED tries
     \/ /\ tries' = [tries EXCEPT ![m] = @ + 1]
        /\ mail' = [mail EXCEPT ![m] = IF tries[m] + 1 = MaxTimes THEN "failed" ELSE @]
        /\ \E accepted \in 0..1 : delivered' = [delivered EXCEPT ![m] = @ + accepted]
  /\ UNCHANGED <<kind, push, queue, run>>

\* The mail server never answers: DialAndSend has no timeout after the dial.
Hang(m) ==
  /\ mail[m] = "dial"
  /\ mail' = [mail EXCEPT ![m] = "hung"]
  /\ UNCHANGED <<kind, push, queue, run, tries, delivered>>

NotifyNext ==
  \/ Handle \/ Wake
  \/ \E m \in Msgs : CallPush(m) \/ Push(m) \/ Check(m) \/ Dial(m) \/ Hang(m)

\* Goroutines run, blocked senders of a channel are served, and a connection
\* to the mail server that does not hang succeeds or fails.
NotifyFairness ==
  /\ WF_notifyVars(Handle) /\ WF_notifyVars(Wake)
  /\ \A m \in Msgs : SF_notifyVars(Push(m)) /\ WF_notifyVars(Check(m)) /\ WF_notifyVars(Dial(m))

-----------------------------------------------------------------------------
(* Properties *)

\* Push returns although every connection to the mail server may hang, since
\* the mails are sent by goroutines of their own and the queue drains (run);
\* and a mail that was pushed is delivered, refused by its configuration, or
\* given up after three failures, unless its own connection hangs.
EveryMailEnds ==
  \A m \in Msgs :
    push[m] = "called" ~>
      /\ push[m] = "returned"
      /\ kind[m] = "mail" => mail[m] \in {"sent", "refused", "failed", "hung"}

=============================================================================
