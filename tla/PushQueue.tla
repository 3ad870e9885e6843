------------------------------ MODULE PushQueue ------------------------------
(***************************************************************************)
(* POST /notifications.  An email is sent by the call itself and an SMS by *)
(* nobody; a push becomes a job of a Bull queue in Redis, which the        *)
(* workers that run PushNotificationProcessor take, send, retry and write  *)
(* to the audit log.  The queue is modelled by the options and callbacks   *)
(* the code uses: a worker that lives keeps its lock on the job, and one   *)
(* that exits leaves a stalled job, which Bull puts back once.             *)
(***************************************************************************)
EXTENDS Integers, FiniteSets

CONSTANTS
    Requests,       \* POST /notifications calls, each made once
    Workers,        \* processes of the cluster
    Processors,     \* workers whose modules provide PushNotificationProcessor
    Attempts,       \* attempts of a job: the code says 3
    MaxStalled,     \* stalls that Bull forgives: 1 by default
    None

ASSUME QueueConstants ==
    /\ Processors \subseteq Workers
    /\ Attempts \in Nat \ {0} /\ MaxStalled \in Nat
    /\ None \notin Workers

\* OTHER is a channel that NotificationChannel does not name.
Channel == {"EMAIL", "SMS", "PUSH", "OTHER"}
Ended == {"completed", "failed"}

VARIABLES
    call,           \* where a call stands, and the worker it runs on
    channel,        \* its channel
    answer,         \* its HTTP answer
    job,            \* state of the call's job in the queue
    lock,           \* the worker that holds the job
    handler,        \* where handleSendPush stands: it runs on the lock's holder
    attemptsMade,   \* attempts of the job that failed
    stalled,        \* times the job was found stalled
    delivered,      \* messages that reached the recipient
    audit,          \* the audit log: the writer, and the job, event and attempt it is about
    alive           \* workers that run

vars == <<call, channel, answer, job, lock, handler, attemptsMade, stalled, delivered,
          audit, alive>>
queue == <<job, lock, handler, attemptsMade, stalled>>

Event == Requests \X {"PushNotificationSent", "PushNotificationFailed"} \X
            (0 .. Attempts + MaxStalled)

Init ==
    /\ call = [r \in Requests |-> [at |-> "idle", on |-> None]]
    /\ channel = [r \in Requests |-> None]
    /\ answer = [r \in Requests |-> "none"]
    /\ job = [r \in Requests |-> "none"]
    /\ lock = [r \in Requests |-> None]
    /\ handler = [r \in Requests |-> "none"]
    /\ attemptsMade = [r \in Requests |-> 0]
    /\ stalled = [r \in Requests |-> 0]
    /\ delivered = [r \in Requests |-> 0]
    /\ audit = {}
    /\ alive = Workers

-----------------------------------------------------------------------------
(* NotificationService.sendNotification                                    *)

Runs(r, at) == call[r].at = at /\ call[r].on \in alive

Arrive(r, ch, w) ==
    /\ call[r].at = "idle"
    /\ w \in alive
    /\ call' = [call EXCEPT ![r] = [at |-> "called", on |-> w]]
    /\ channel' = [channel EXCEPT ![r] = ch]
    /\ UNCHANGED <<answer, queue, delivered, audit, alive>>

\* The job is in Redis before the call goes on. add may fail, with the error lost
\* on its way back or not.
AddJob(r) ==
    /\ Runs(r, "called") /\ channel[r] = "PUSH"
    /\ \E added, error \in BOOLEAN :
         /\ added \/ error
         /\ job' = [job EXCEPT ![r] = IF added THEN "wait" ELSE @]
         /\ call' = [call EXCEPT ![r].at = IF error THEN "threw" ELSE "sent"]
    /\ UNCHANGED <<channel, answer, lock, handler, attemptsMade, stalled, delivered,
                   audit, alive>>

\* How a send may end: whether the message reaches the recipient, and whether the
\* sender sees an error. The answer of Firebase or of the mail server may be lost.
Remote == {o \in [reached : BOOLEAN, error : BOOLEAN] : o.reached \/ o.error}

\* The strategies' send. The one for SMS writes a line to the console.
PushSend == Remote
EmailSend == Remote
SmsSend == {[reached |-> FALSE, error |-> FALSE]}

\* NotificationFactory.getStrategy, and the send of what it returns; an unknown
\* channel is refused.
GetStrategy(ch) ==
    CASE ch = "EMAIL" -> EmailSend
      [] ch = "SMS" -> SmsSend
      [] OTHER -> {[reached |-> FALSE, error |-> TRUE]}

SendDirectly(r) ==
    /\ Runs(r, "called") /\ channel[r] # "PUSH"
    /\ \E o \in GetStrategy(channel[r]) :
         /\ delivered' = [delivered EXCEPT ![r] = IF o.reached THEN @ + 1 ELSE @]
         /\ call' = [call EXCEPT ![r].at = IF o.error THEN "threw" ELSE "sent"]
    /\ UNCHANGED <<channel, answer, queue, audit, alive>>

\* { message: 'Notification sent successfully' }, or the error as 400 or 500.
Answer(r) ==
    /\ Runs(r, "sent") \/ Runs(r, "threw")
    /\ answer' = [answer EXCEPT ![r] = IF call[r].at = "sent" THEN "sent" ELSE "error"]
    /\ call' = [call EXCEPT ![r] = [at |-> "done", on |-> None]]
    /\ UNCHANGED <<channel, queue, delivered, audit, alive>>

-----------------------------------------------------------------------------
(* The queue and PushNotificationProcessor                                 *)

\* A processor takes one job at a time.
Take(r, w) ==
    /\ w \in Processors \cap alive
    /\ job[r] = "wait"
    /\ \A q \in Requests : lock[q] # w
    /\ job' = [job EXCEPT ![r] = "active"]
    /\ lock' = [lock EXCEPT ![r] = w]
    /\ handler' = [handler EXCEPT ![r] = "sending"]
    /\ UNCHANGED <<call, channel, answer, attemptsMade, stalled, delivered, audit, alive>>

\* Mutant: the handler logs the error and does not throw it again.
HandleSendPushSwallows(r) ==
    /\ handler[r] = "sending" /\ lock[r] \in alive
    /\ \E o \in PushSend :
         delivered' = [delivered EXCEPT ![r] = IF o.reached THEN @ + 1 ELSE @]
    /\ handler' = [handler EXCEPT ![r] = "returned"]
    /\ UNCHANGED <<call, channel, answer, job, lock, attemptsMade, stalled, audit, alive>>

\* Awaits the strategy's send and throws its error again, for Bull to see.
HandleSendPush(r) ==
    /\ handler[r] = "sending" /\ lock[r] \in alive
    /\ \E o \in PushSend :
         /\ delivered' = [delivered EXCEPT ![r] = IF o.reached THEN @ + 1 ELSE @]
         /\ handler' = [handler EXCEPT ![r] = IF o.error THEN "threw" ELSE "returned"]
    /\ UNCHANGED <<call, channel, answer, job, lock, attemptsMade, stalled, audit, alive>>

Release(r, state) ==
    /\ job' = [job EXCEPT ![r] = state]
    /\ lock' = [lock EXCEPT ![r] = None]
    /\ handler' = [handler EXCEPT ![r] = "none"]

\* AuditService.log for these records: a record is saved, or it is lost because the
\* error is swallowed or the worker exits first. When it lands no one can tell.
LogAudit(records) == \E saved \in SUBSET records : audit' = audit \cup saved

\* The event of the present attempt: the attempts before it failed or stalled.
Sent(r) == <<r, "PushNotificationSent", attemptsMade[r] + stalled[r]>>
Failed(r) == <<r, "PushNotificationFailed", attemptsMade[r] + stalled[r]>>

\* Mutant: every worker listens, as @OnGlobalQueueCompleted would have it.
OnCompletedGlobally(r) ==
    /\ handler[r] = "returned" /\ lock[r] \in alive
    /\ Release(r, "completed")
    /\ LogAudit({<<w, Sent(r)>> : w \in Processors \cap alive})
    /\ UNCHANGED <<call, channel, answer, attemptsMade, stalled, delivered, alive>>

\* The job is completed; then onCompleted starts its audit write.
OnCompleted(r) ==
    /\ handler[r] = "returned" /\ lock[r] \in alive
    /\ Release(r, "completed")
    /\ LogAudit({<<lock[r], Sent(r)>>})
    /\ UNCHANGED <<call, channel, answer, attemptsMade, stalled, delivered, alive>>

\* Mutant: one attempt too many.
NextStateOneMore(made) == IF made <= Attempts THEN "delayed" ELSE "failed"

NextState(made) == IF made < Attempts THEN "delayed" ELSE "failed"

\* The attempt is counted and the job delayed or failed; onFailed is told of each.
OnFailed(r) ==
    /\ handler[r] = "threw" /\ lock[r] \in alive
    /\ attemptsMade' = [attemptsMade EXCEPT ![r] = @ + 1]
    /\ Release(r, NextState(attemptsMade[r] + 1))
    /\ LogAudit({<<lock[r], Failed(r)>>})
    /\ UNCHANGED <<call, channel, answer, stalled, delivered, alive>>

\* The backoff is over; the processors' queue objects watch it.
Promote(r) ==
    /\ job[r] = "delayed"
    /\ Processors \cap alive # {}
    /\ job' = [job EXCEPT ![r] = "wait"]
    /\ UNCHANGED <<call, channel, answer, lock, handler, attemptsMade, stalled, delivered,
                   audit, alive>>

\* Mutant: a worker looks after its own jobs only.
CheckStalledOwn(r, w) ==
    /\ w \in Processors \cap alive
    /\ job[r] = "active" /\ lock[r] = w /\ handler[r] = "none"
    /\ Release(r, "wait")
    /\ UNCHANGED <<call, channel, answer, attemptsMade, stalled, delivered, audit, alive>>

\* A living processor finds the lock of an exited one expired. One stall too many
\* fails the job, and onFailed hears of it.
CheckStalled(r, w) ==
    /\ w \in Processors \cap alive
    /\ job[r] = "active" /\ lock[r] \notin alive
    /\ stalled' = [stalled EXCEPT ![r] = @ + 1]
    /\ IF stalled[r] < MaxStalled
         THEN Release(r, "wait") /\ UNCHANGED audit
         ELSE /\ Release(r, "failed")
              /\ LogAudit({<<w, Failed(r)>>})
    /\ UNCHANGED <<call, channel, answer, attemptsMade, delivered, alive>>

Exit(w) ==
    /\ w \in alive
    /\ alive' = alive \ {w}
    /\ UNCHANGED <<call, channel, answer, queue, delivered, audit>>

-----------------------------------------------------------------------------
Call(r) == AddJob(r) \/ SendDirectly(r) \/ Answer(r)

Process(r) ==
    \/ \E w \in Workers : Take(r, w) \/ CheckStalled(r, w)
    \/ HandleSendPush(r) \/ OnCompleted(r) \/ OnFailed(r) \/ Promote(r)

Next ==
    \/ \E r \in Requests, ch \in Channel, w \in Workers : Arrive(r, ch, w)
    \/ \E r \in Requests : Call(r) \/ Process(r)
    \/ \E w \in Workers : Exit(w)

Spec == Init /\ [][Next]_vars

\* Calls and handlers go on when what they await settles, and Bull's timers fire in
\* a processor that lives: a job takes its step, or has none to take because every
\* processor is busy with a job that takes one.
FairSpec == Spec /\ \A r \in Requests : WF_vars(Call(r)) /\ WF_vars(Process(r))

-----------------------------------------------------------------------------
TypeOK ==
    /\ call \in [Requests -> [at : {"idle", "called", "sent", "threw", "done"},
                              on : Workers \cup {None}]]
    /\ channel \in [Requests -> Channel \cup {None}]
    /\ answer \in [Requests -> {"none", "sent", "error"}]
    /\ job \in [Requests -> {"none", "wait", "active", "delayed"} \cup Ended]
    /\ lock \in [Requests -> Workers \cup {None}]
    /\ handler \in [Requests -> {"none", "sending", "returned", "threw"}]
    /\ attemptsMade \in [Requests -> 0 .. Attempts]
    /\ stalled \in [Requests -> 0 .. MaxStalled + 1]
    /\ delivered \in [Requests -> Nat]
    /\ audit \subseteq Workers \X Event
    /\ alive \subseteq Workers

Records(r, event) == {l \in audit : l[2][1] = r /\ l[2][2] = event}

\* A job that is completed reached its recipient, and so did every notification
\* that the audit log calls sent, whatever was retried or stalled before.
SentWasDelivered ==
    \A r \in Requests :
        job[r] = "completed" \/ Records(r, "PushNotificationSent") # {} => delivered[r] > 0

\* The attempts of the queue's option and Bull's stalls bound how often a recipient
\* gets the same message, whatever answers are lost and whatever workers exit.
DeliveriesBounded ==
    \A r \in Requests : delivered[r] <= Attempts + MaxStalled

\* However many workers took turns at a job, the audit log tells one story of it: one
\* record of an attempt, and none of a failure from the attempt that was sent on.
AuditedOnce ==
    /\ \A l, m \in audit : l[2] = m[2] => l = m
    /\ \A r \in Requests :
         \A s \in Records(r, "PushNotificationSent"), f \in Records(r, "PushNotificationFailed") :
            f[2][3] < s[2][3]

\* Every job ends, completed or failed, as long as one processor lives: no exit of
\* another worker, failed attempt or full hands loses it.
JobsEnd ==
    \A r \in Requests :
        job[r] # "none" ~> (job[r] \in Ended \/ Processors \cap alive = {})

\* The fate of a message as the queue decides it; e-mails are not the queue's.
Fate(r) ==
    CASE job[r] = "none" -> "none"
      [] job[r] = "completed" -> "sent"
      [] job[r] = "failed" -> "givenUp"
      [] OTHER -> "pending"

Box == INSTANCE Outbox WITH
    Messages <- Requests,
    Copies <- Attempts + MaxStalled,
    fate <- [r \in Requests |-> Fate(r)],
    copies <- [r \in Requests |-> IF channel[r] = "PUSH" THEN delivered[r] ELSE 0]

\* Seen from outside, retries, stalls and exits are only copies: a job ends once, as
\* completed only if a copy arrived, and no worker sends another copy after the end.
KeepsOutbox == Box!Spec

\* What the answer says, 'Notification sent successfully', comes true as long as
\* somebody lives: a push that is answered so is tried until it is sent or given up.
AnsweredIsTaken ==
    \A r \in Requests :
        (channel[r] = "PUSH" /\ answer[r] = "sent") ~> (job[r] \in Ended \/ alive = {})
=============================================================================
