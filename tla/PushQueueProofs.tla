--------------------------- MODULE PushQueueProofs ---------------------------
(***************************************************************************)
(* Theorems of PushQueue, for any number of calls, workers and processors  *)
(* and any limits.  Inductive holds what the invariants of the runs need:  *)
(* where a job stands against its call, its counters and its deliveries,   *)
(* and each audit record against the counters of its job.                  *)
(***************************************************************************)
EXTENDS PushQueue, TLAPS

\* Attempts that are over, and the one whose message may be out already.
Tried(r) == attemptsMade[r] + stalled[r]
InHand(r) ==
    IF handler[r] \in {"returned", "threw"} \/ job[r] = "completed" \/ channel[r] # "PUSH"
      THEN 1 ELSE 0

\* Only a push has a job, from AddJob on; what reached the recipient is bounded by
\* the attempts, and the attempts by the limits.
JobAt(r) ==
    /\ handler[r] # "none" <=> job[r] = "active"
    /\ job[r] \in {"wait", "active", "delayed"} => attemptsMade[r] < Attempts /\ stalled[r] <= MaxStalled
    /\ job[r] # "none" => call[r].at \notin {"idle", "called"} /\ channel[r] = "PUSH"
    /\ job[r] = "none" => attemptsMade[r] = 0 /\ stalled[r] = 0
    /\ job[r] \in Ended => Tried(r) + InHand(r) <= Attempts + MaxStalled
    /\ call[r].at \in {"idle", "called"} => delivered[r] = 0
    /\ handler[r] = "returned" \/ job[r] = "completed" => delivered[r] > 0
    /\ delivered[r] <= Tried(r) + InHand(r)

\* A record of a failure is of an attempt that is over, and a record of a sending is
\* of the last one; two records are never of one attempt.
RecordsAgree ==
    /\ \A l \in audit :
         IF l[2][2] = "PushNotificationSent"
           THEN job[l[2][1]] = "completed" /\ l[2][3] = Tried(l[2][1])
           ELSE l[2][3] < Tried(l[2][1])
    /\ \A l, m \in audit : l[2] = m[2] => l = m

Inductive == TypeOK /\ (\A r \in Requests : JobAt(r)) /\ RecordsAgree

-----------------------------------------------------------------------------
LEMMA TypeStep ==
    ASSUME Inductive, [Next]_vars
    PROVE  TypeOK'
<1> USE QueueConstants DEF TypeOK, Inductive, queue, Ended, Event, JobAt
<1>1. ASSUME NEW r \in Requests, NEW ch \in Channel, NEW w \in Workers, Arrive(r, ch, w)
     PROVE  TypeOK'
  BY <1>1 DEF Arrive, Channel
<1>2. ASSUME NEW r \in Requests, AddJob(r)
     PROVE  TypeOK'
  BY <1>2 DEF AddJob, Runs
<1>3. ASSUME NEW r \in Requests, SendDirectly(r)
     PROVE  TypeOK'
  <2>1. PICK o \in GetStrategy(channel[r]) :
          /\ delivered' = [delivered EXCEPT ![r] = IF o.reached THEN @ + 1 ELSE @]
          /\ call' = [call EXCEPT ![r].at = IF o.error THEN "threw" ELSE "sent"]
    BY <1>3 DEF SendDirectly
  <2>2. UNCHANGED <<channel, answer, queue, audit, alive>>
    BY <1>3 DEF SendDirectly
  <2>3. delivered' \in [Requests -> Nat]
    BY <2>1
  <2>4. PICK x \in {"sent", "threw"} : call' = [call EXCEPT ![r].at = x]
    BY <2>1
  <2>5. call' \in [Requests -> [at : {"idle", "called", "sent", "threw", "done"},
                                on : Workers \cup {None}]]
    BY ONLY <2>4, TypeOK, r \in Requests DEF TypeOK
  <2>6. QED BY <2>2, <2>3, <2>5
<1>4. ASSUME NEW r \in Requests, Answer(r)
     PROVE  TypeOK'
  BY <1>4 DEF Answer, Runs
<1>5. ASSUME NEW r \in Requests, NEW w \in Workers, Take(r, w)
     PROVE  TypeOK'
  BY <1>5 DEF Take
<1>6. ASSUME NEW r \in Requests, HandleSendPush(r)
     PROVE  TypeOK'
  BY <1>6 DEF HandleSendPush, PushSend, Remote
<1>7. ASSUME NEW r \in Requests, OnCompleted(r)
     PROVE  TypeOK'
  BY <1>7 DEF OnCompleted, Release, LogAudit, Sent
<1>8. ASSUME NEW r \in Requests, OnFailed(r)
     PROVE  TypeOK'
  BY <1>8 DEF OnFailed, Release, NextState, LogAudit, Failed
<1>9. ASSUME NEW r \in Requests, Promote(r)
     PROVE  TypeOK'
  BY <1>9 DEF Promote
<1>10. ASSUME NEW r \in Requests, NEW w \in Workers, CheckStalled(r, w)
     PROVE  TypeOK'
  <2>1. stalled[r] \in 0 .. MaxStalled /\ attemptsMade[r] \in 0 .. Attempts
    BY <1>10 DEF CheckStalled
  <2>2. stalled' \in [Requests -> 0 .. MaxStalled + 1]
    BY <1>10, <2>1 DEF CheckStalled
  <2>3. /\ job' \in [Requests -> {"none", "wait", "active", "delayed"} \cup Ended]
        /\ lock' \in [Requests -> Workers \cup {None}]
        /\ handler' \in [Requests -> {"none", "sending", "returned", "threw"}]
    BY <1>10 DEF CheckStalled, Release
  <2>4. Failed(r) \in Event
    BY <2>1 DEF Failed
  <2>5. audit' \subseteq audit \cup {<<w, Failed(r)>>}
    BY <1>10 DEF CheckStalled, LogAudit
  <2>6. audit' \subseteq Workers \X Event
    <3> HIDE DEF Event
    <3>1. <<w, Failed(r)>> \in Workers \X Event
      BY <2>4
    <3>2. QED BY <2>5, <3>1
  <2>7. QED BY <1>10, <2>2, <2>3, <2>6 DEF CheckStalled
<1>11. ASSUME NEW w \in Workers, Exit(w)
     PROVE  TypeOK'
  BY <1>11 DEF Exit
<1>12. CASE UNCHANGED vars
  BY <1>12 DEF vars
<1>13. QED
  BY <1>1, <1>2, <1>3, <1>4, <1>5, <1>6, <1>7, <1>8, <1>9, <1>10, <1>11, <1>12 DEF Next, Call, Process

LEMMA JobStep ==
    ASSUME Inductive, [Next]_vars, TypeOK', NEW q \in Requests
    PROVE  JobAt(q)'
<1> USE QueueConstants DEF TypeOK, Inductive, queue, Ended, JobAt, InHand, Tried
<1>1. ASSUME NEW r \in Requests, NEW ch \in Channel, NEW w \in Workers, Arrive(r, ch, w)
     PROVE  JobAt(q)'
  BY <1>1 DEF Arrive, Channel
<1>2. ASSUME NEW r \in Requests, AddJob(r)
     PROVE  JobAt(q)'
  <2>1. CASE q = r
    <3>1. job[r] = "none" /\ handler[r] = "none" /\ delivered[r] = 0
      BY <1>2 DEF AddJob, Runs
    <3>2. job'[r] \in {"none", "wait"} /\ call'[r].at \in {"threw", "sent"}
      BY <1>2, <3>1 DEF AddJob, Runs
    <3>3. QED BY <1>2, <2>1, <3>1, <3>2 DEF AddJob, Runs
  <2>2. CASE q # r
    BY <1>2, <2>2 DEF AddJob
  <2>3. QED BY <2>1, <2>2
<1>3. ASSUME NEW r \in Requests, SendDirectly(r)
     PROVE  JobAt(q)'
  BY <1>3 DEF SendDirectly, GetStrategy, EmailSend, SmsSend, Remote, Runs
<1>4. ASSUME NEW r \in Requests, Answer(r)
     PROVE  JobAt(q)'
  BY <1>4 DEF Answer, Runs
<1>5. ASSUME NEW r \in Requests, NEW w \in Workers, Take(r, w)
     PROVE  JobAt(q)'
  BY <1>5 DEF Take
<1>6. ASSUME NEW r \in Requests, HandleSendPush(r)
     PROVE  JobAt(q)'
  BY <1>6 DEF HandleSendPush, PushSend, Remote
<1>7. ASSUME NEW r \in Requests, OnCompleted(r)
     PROVE  JobAt(q)'
  BY <1>7 DEF OnCompleted, Release, LogAudit, Sent
<1>8. ASSUME NEW r \in Requests, OnFailed(r)
     PROVE  JobAt(q)'
  BY <1>8 DEF OnFailed, Release, NextState, LogAudit, Failed
<1>9. ASSUME NEW r \in Requests, Promote(r)
     PROVE  JobAt(q)'
  <2>1. CASE q = r
    BY <1>9, <2>1 DEF Promote
  <2>2. CASE q # r
    BY <1>9, <2>2 DEF Promote
  <2>3. QED BY <2>1, <2>2
<1>10. ASSUME NEW r \in Requests, NEW w \in Workers, CheckStalled(r, w)
     PROVE  JobAt(q)'
  BY <1>10 DEF CheckStalled, Release, LogAudit, Failed
<1>11. ASSUME NEW w \in Workers, Exit(w)
     PROVE  JobAt(q)'
  BY <1>11 DEF Exit
<1>12. CASE UNCHANGED vars
  BY <1>12 DEF vars
<1>13. QED
  BY <1>1, <1>2, <1>3, <1>4, <1>5, <1>6, <1>7, <1>8, <1>9, <1>10, <1>11, <1>12 DEF Next, Call, Process

LEMMA RecordsStep ==
    ASSUME Inductive, [Next]_vars, TypeOK'
    PROVE  RecordsAgree'
<1> USE QueueConstants DEF TypeOK, Inductive, queue, Ended, Event, JobAt, RecordsAgree, Tried
<1>1. ASSUME NEW r \in Requests, NEW ch \in Channel, NEW w \in Workers, Arrive(r, ch, w)
     PROVE  RecordsAgree'
  BY <1>1 DEF Arrive, Channel
<1>2. ASSUME NEW r \in Requests, AddJob(r)
     PROVE  RecordsAgree'
  BY <1>2 DEF AddJob, Runs
<1>3. ASSUME NEW r \in Requests, SendDirectly(r)
     PROVE  RecordsAgree'
  BY <1>3 DEF SendDirectly, GetStrategy, EmailSend, SmsSend, Remote, Runs
<1>4. ASSUME NEW r \in Requests, Answer(r)
     PROVE  RecordsAgree'
  BY <1>4 DEF Answer, Runs
<1>5. ASSUME NEW r \in Requests, NEW w \in Workers, Take(r, w)
     PROVE  RecordsAgree'
  BY <1>5 DEF Take
<1>6. ASSUME NEW r \in Requests, HandleSendPush(r)
     PROVE  RecordsAgree'
  BY <1>6 DEF HandleSendPush, PushSend, Remote
<1>7. ASSUME NEW r \in Requests, OnCompleted(r)
     PROVE  RecordsAgree'
  BY <1>7 DEF OnCompleted, Release, LogAudit, Sent
<1>8. ASSUME NEW r \in Requests, OnFailed(r)
     PROVE  RecordsAgree'
  <2> DEFINE new == <<lock[r], Failed(r)>>
  <2>1. Tried(r) \in Nat /\ Tried(r)' = Tried(r) + 1
    BY <1>8 DEF OnFailed, Release
  <2>2. \A q \in Requests \ {r} : Tried(q)' = Tried(q) /\ job'[q] = job[q]
    BY <1>8 DEF OnFailed, Release
  <2>3. \A l \in audit : l[2][1] = r => l[2][3] < Tried(r)
    BY <1>8 DEF OnFailed
  <2>4. audit' \subseteq audit \cup {new}
    BY <1>8 DEF OnFailed, LogAudit
  <2>5. new[2][1] = r /\ new[2][2] = "PushNotificationFailed" /\ new[2][3] = Tried(r)
    BY DEF Failed
  <2> HIDE DEF new
  <2>6. \A l \in audit : l[2] # new[2]
    BY <2>1, <2>3, <2>5
  <2>7. \A l \in audit : l[2][1] \in Requests /\ l[2][3] \in Nat
    OBVIOUS
  <2>8. \A l \in audit : l[2][1] = r => l[2][2] # "PushNotificationSent"
    BY <1>8 DEF OnFailed
  <2> HIDE DEF Tried
  <2>9. \A l \in audit' :
          IF l[2][2] = "PushNotificationSent"
            THEN job'[l[2][1]] = "completed" /\ l[2][3] = Tried(l[2][1])'
            ELSE l[2][3] < Tried(l[2][1])'
    <3> SUFFICES ASSUME NEW l \in audit'
                 PROVE  IF l[2][2] = "PushNotificationSent"
                          THEN job'[l[2][1]] = "completed" /\ l[2][3] = Tried(l[2][1])'
                          ELSE l[2][3] < Tried(l[2][1])'
      OBVIOUS
    <3>1. CASE l = new
      BY <2>1, <2>5, <3>1
    <3>2. CASE l \in audit /\ l[2][1] = r
      BY <2>1, <2>3, <2>7, <2>8, <3>2
    <3>3. CASE l \in audit /\ l[2][1] # r
      BY <2>2, <2>7, <3>3
    <3>4. QED BY <2>4, <3>1, <3>2, <3>3
  <2>10. \A l, m \in audit' : l[2] = m[2] => l = m
    <3>1. \A l, m \in audit : l[2] = m[2] => l = m
      OBVIOUS
    <3>2. SUFFICES ASSUME NEW l \in audit', NEW m \in audit', l[2] = m[2] PROVE l = m
      OBVIOUS
    <3>3. l \in audit \/ l = new
      BY <2>4
    <3>4. m \in audit \/ m = new
      BY <2>4
    <3>5. QED BY <2>6, <3>1, <3>2, <3>3, <3>4
  <2>11. QED BY <2>9, <2>10
<1>9. ASSUME NEW r \in Requests, Promote(r)
     PROVE  RecordsAgree'
  BY <1>9 DEF Promote
<1>10. ASSUME NEW r \in Requests, NEW w \in Workers, CheckStalled(r, w)
     PROVE  RecordsAgree'
  <2>1. CASE stalled[r] < MaxStalled
    BY <1>10, <2>1 DEF CheckStalled, Release
  <2>2. CASE ~(stalled[r] < MaxStalled)
    <3> DEFINE new == <<w, Failed(r)>>
    <3>1. Tried(r) \in Nat /\ Tried(r)' = Tried(r) + 1
      BY <1>10, <2>2 DEF CheckStalled, Release
    <3>2. \A q \in Requests \ {r} : Tried(q)' = Tried(q) /\ job'[q] = job[q]
      BY <1>10, <2>2 DEF CheckStalled, Release
    <3>3. \A l \in audit : l[2][1] = r => l[2][3] < Tried(r)
      BY <1>10, <2>2 DEF CheckStalled
    <3>4. audit' \subseteq audit \cup {new}
      BY <1>10, <2>2 DEF CheckStalled, LogAudit
    <3>5. new[2][1] = r /\ new[2][2] = "PushNotificationFailed" /\ new[2][3] = Tried(r)
      BY DEF Failed
    <3> HIDE DEF new
    <3>6. \A l \in audit : l[2] # new[2]
      BY <3>1, <3>3, <3>5
    <3>7. \A l \in audit : l[2][1] \in Requests /\ l[2][3] \in Nat
      OBVIOUS
    <3>8. \A l \in audit : l[2][1] = r => l[2][2] # "PushNotificationSent"
      BY <1>10, <2>2 DEF CheckStalled
    <3> HIDE DEF Tried
    <3>9. \A l \in audit' :
            IF l[2][2] = "PushNotificationSent"
              THEN job'[l[2][1]] = "completed" /\ l[2][3] = Tried(l[2][1])'
              ELSE l[2][3] < Tried(l[2][1])'
      <4> SUFFICES ASSUME NEW l \in audit'
                   PROVE  IF l[2][2] = "PushNotificationSent"
                            THEN job'[l[2][1]] = "completed" /\ l[2][3] = Tried(l[2][1])'
                            ELSE l[2][3] < Tried(l[2][1])'
        OBVIOUS
      <4>1. CASE l = new
        BY <3>1, <3>5, <4>1
      <4>2. CASE l \in audit /\ l[2][1] = r
        BY <3>1, <3>3, <3>7, <3>8, <4>2
      <4>3. CASE l \in audit /\ l[2][1] # r
        BY <3>2, <3>7, <4>3
      <4>4. QED BY <3>4, <4>1, <4>2, <4>3
    <3>10. \A l, m \in audit' : l[2] = m[2] => l = m
      <4>1. \A l, m \in audit : l[2] = m[2] => l = m
        OBVIOUS
      <4>2. SUFFICES ASSUME NEW l \in audit', NEW m \in audit', l[2] = m[2] PROVE l = m
        OBVIOUS
      <4>3. l \in audit \/ l = new
        BY <3>4
      <4>4. m \in audit \/ m = new
        BY <3>4
      <4>5. QED BY <3>6, <4>1, <4>2, <4>3, <4>4
    <3>11. QED BY <3>9, <3>10
  <2>3. QED BY <2>1, <2>2
<1>11. ASSUME NEW w \in Workers, Exit(w)
     PROVE  RecordsAgree'
  BY <1>11 DEF Exit
<1>12. CASE UNCHANGED vars
  BY <1>12 DEF vars
<1>13. QED
  BY <1>1, <1>2, <1>3, <1>4, <1>5, <1>6, <1>7, <1>8, <1>9, <1>10, <1>11, <1>12 DEF Next, Call, Process
-----------------------------------------------------------------------------
\* A job, its call, its counters and its records agree at every step.
THEOREM InductiveHolds == Spec => []Inductive
<1>1. Init => Inductive
  BY QueueConstants DEF Init, Inductive, TypeOK, JobAt, RecordsAgree, InHand, Tried, Ended, Event
<1>2. Inductive /\ [Next]_vars => Inductive'
  BY TypeStep, JobStep, RecordsStep DEF Inductive
<1>3. QED BY <1>1, <1>2, PTL DEF Spec

\* Type correctness; that no counter passes its limit is part of it.
THEOREM TypeCorrect == Spec => []TypeOK
<1>1. Inductive => TypeOK
  BY DEF Inductive
<1>2. QED BY <1>1, InductiveHolds, PTL

\* What is completed, or recorded as sent, has reached its recipient.
THEOREM SentWasDeliveredHolds == Spec => []SentWasDelivered
<1>1. Inductive => SentWasDelivered
  <2> SUFFICES ASSUME Inductive, NEW r \in Requests,
                      job[r] = "completed" \/ Records(r, "PushNotificationSent") # {}
               PROVE  delivered[r] > 0
    BY DEF SentWasDelivered
  <2>1. job[r] = "completed"
    BY DEF Inductive, RecordsAgree, Records
  <2>2. QED BY <2>1 DEF Inductive, JobAt
<1>2. QED BY <1>1, InductiveHolds, PTL

\* No more copies of a message than attempts and forgiven stalls.
THEOREM DeliveriesBoundedHolds == Spec => []DeliveriesBounded
<1>1. Inductive => DeliveriesBounded
  BY QueueConstants DEF Inductive, TypeOK, JobAt, InHand, Tried, Ended, DeliveriesBounded
<1>2. QED BY <1>1, InductiveHolds, PTL

\* One record of an attempt, and no failure recorded of the attempt that was sent.
THEOREM AuditedOnceHolds == Spec => []AuditedOnce
<1>1. Inductive => AuditedOnce
  <2> SUFFICES ASSUME Inductive PROVE AuditedOnce
    OBVIOUS
  <2>1. \A l, m \in audit : l[2] = m[2] => l = m
    BY DEF Inductive, RecordsAgree
  <2>2. \A r \in Requests :
          \A s \in Records(r, "PushNotificationSent"), f \in Records(r, "PushNotificationFailed") :
             s[2][3] = Tried(r) /\ f[2][3] < Tried(r)
    BY DEF Inductive, RecordsAgree, Records
  <2>3. QED BY <2>1, <2>2 DEF AuditedOnce
<1>2. QED BY <1>1, InductiveHolds, PTL

\* A step of a job is a step of its message in the outbox, or leaves it as it is:
\* the abstract promise holds for any number of calls that compete for processors.
THEOREM KeepsOutboxHolds == Spec => KeepsOutbox
<1> DEFINE fates == [r \in Requests |-> Fate(r)]
           sent == [r \in Requests |-> IF channel[r] = "PUSH" THEN delivered[r] ELSE 0]
<1>1. Init => Box!Init
  BY QueueConstants DEF Init, Box!Init, Fate, Channel
<1>2. Inductive /\ Inductive' /\ [Next]_vars => [Box!Next]_(Box!vars)
  <2> SUFFICES ASSUME Inductive, Inductive', [Next]_vars
               PROVE  Box!Next \/ (fates' = fates /\ sent' = sent)
    BY DEF Box!vars
  <2>a. ASSUME NEW r \in Requests, NEW x, job' = [job EXCEPT ![r] = x]
        PROVE  fates' = [fates EXCEPT ![r] = CASE x = "none" -> "none"
                                               [] x = "completed" -> "sent"
                                               [] x = "failed" -> "givenUp"
                                               [] OTHER -> "pending"]
    BY <2>a DEF Inductive, TypeOK, Fate
  <2>b. ASSUME NEW r \in Requests, job[r] = "active"
        PROVE  fates[r] = "pending" /\ channel[r] = "PUSH" /\ sent[r] = delivered[r]
    BY <2>b DEF Inductive, JobAt, Fate
  <2> USE DEF Inductive, TypeOK, JobAt, Fate
  <2>1. ASSUME NEW r \in Requests, NEW ch \in Channel, NEW w \in Workers, Arrive(r, ch, w)
        PROVE  fates' = fates /\ sent' = sent
    BY <2>1 DEF Arrive, queue
  <2>2. ASSUME NEW r \in Requests, AddJob(r)
        PROVE  Box!Next \/ (fates' = fates /\ sent' = sent)
    <3>1. sent' = sent
      BY <2>2 DEF AddJob
    <3>2. CASE job' = job
      BY <3>1, <3>2
    <3>3. CASE job' = [job EXCEPT ![r] = "wait"]
      <4>1. fates[r] = "none" /\ fates' = [fates EXCEPT ![r] = "pending"]
        BY <2>2, <3>3 DEF AddJob, Runs
      <4>2. Box!Accept(r)
        BY <3>1, <4>1 DEF Box!Accept
      <4>3. QED BY <4>2 DEF Box!Next
    <3>4. job' = job \/ job' = [job EXCEPT ![r] = "wait"]
      <4>1. PICK added \in BOOLEAN : job' = [job EXCEPT ![r] = IF added THEN "wait" ELSE @]
        BY <2>2 DEF AddJob
      <4>2. QED BY <4>1
    <3>5. QED BY <3>2, <3>3, <3>4
  <2>3. ASSUME NEW r \in Requests, SendDirectly(r)
        PROVE  fates' = fates /\ sent' = sent
    BY <2>3 DEF SendDirectly, queue
  <2>4. ASSUME NEW r \in Requests, Answer(r)
        PROVE  fates' = fates /\ sent' = sent
    BY <2>4 DEF Answer, queue
  <2>5. ASSUME NEW r \in Requests, NEW w \in Workers, Take(r, w)
        PROVE  fates' = fates /\ sent' = sent
    BY <2>5 DEF Take
  <2>6. ASSUME NEW r \in Requests, HandleSendPush(r)
        PROVE  Box!Next \/ (fates' = fates /\ sent' = sent)
    <3>1. fates' = fates /\ fates[r] = "pending" /\ channel[r] = "PUSH" /\ channel' = channel
      BY <2>6 DEF HandleSendPush
    <3>2. CASE delivered' = delivered
      BY <3>1, <3>2
    <3>3. CASE delivered' = [delivered EXCEPT ![r] = @ + 1]
      <4>1. sent' = [sent EXCEPT ![r] = @ + 1]
        BY <3>1, <3>3
      <4>2. sent[r] < Attempts + MaxStalled
        BY <2>6, <3>1, QueueConstants DEF HandleSendPush, Tried, InHand
      <4>3. Box!Deliver(r)
        BY <3>1, <4>1, <4>2 DEF Box!Deliver
      <4>4. QED BY <4>3 DEF Box!Next
    <3>4. delivered' = delivered \/ delivered' = [delivered EXCEPT ![r] = @ + 1]
      <4>1. PICK o \in PushSend :
               delivered' = [delivered EXCEPT ![r] = IF o.reached THEN @ + 1 ELSE @]
        BY <2>6 DEF HandleSendPush
      <4>2. o.reached \in BOOLEAN
        BY DEF PushSend, Remote
      <4>3. QED BY <4>1, <4>2
    <3>5. QED BY <3>2, <3>3, <3>4
  <2>7. ASSUME NEW r \in Requests, OnCompleted(r)
        PROVE  Box!Next
    <3>1. sent' = sent /\ sent[r] > 0
      BY <2>7 DEF OnCompleted, Release
    <3>2. fates[r] = "pending" /\ fates' = [fates EXCEPT ![r] = "sent"]
      <4>1. job[r] = "active" /\ job' = [job EXCEPT ![r] = "completed"]
        BY <2>7 DEF OnCompleted, Release
      <4>2. QED BY <4>1, <2>a, <2>b
    <3>3. Box!Settle(r, "sent")
      BY <3>1, <3>2 DEF Box!Settle
    <3>4. QED BY <3>3 DEF Box!Next
  <2>8. ASSUME NEW r \in Requests, OnFailed(r)
        PROVE  Box!Next \/ (fates' = fates /\ sent' = sent)
    <3>1. sent' = sent /\ fates[r] = "pending"
      BY <2>8 DEF OnFailed
    <3>2. CASE NextState(attemptsMade[r] + 1) = "delayed"
      BY <2>8, <3>1, <3>2 DEF OnFailed, Release
    <3>3. CASE NextState(attemptsMade[r] + 1) = "failed"
      <4>1. fates' = [fates EXCEPT ![r] = "givenUp"]
        BY <2>8, <3>3 DEF OnFailed, Release
      <4>2. Box!Settle(r, "givenUp")
        BY <3>1, <4>1 DEF Box!Settle
      <4>3. QED BY <4>2 DEF Box!Next
    <3>4. QED BY <3>2, <3>3 DEF NextState
  <2>9. ASSUME NEW r \in Requests, Promote(r)
        PROVE  fates' = fates /\ sent' = sent
    BY <2>9 DEF Promote
  <2>10. ASSUME NEW r \in Requests, NEW w \in Workers, CheckStalled(r, w)
         PROVE  Box!Next \/ (fates' = fates /\ sent' = sent)
    <3>1. sent' = sent /\ fates[r] = "pending"
      BY <2>10 DEF CheckStalled
    <3>2. CASE stalled[r] < MaxStalled
      BY <2>10, <3>1, <3>2 DEF CheckStalled, Release
    <3>3. CASE ~(stalled[r] < MaxStalled)
      <4>1. fates' = [fates EXCEPT ![r] = "givenUp"]
        <5>1. job' = [job EXCEPT ![r] = "failed"]
          BY <2>10, <3>3 DEF CheckStalled, Release
        <5>2. QED BY <5>1, <2>a
      <4>2. Box!Settle(r, "givenUp")
        BY <3>1, <4>1 DEF Box!Settle
      <4>3. QED BY <4>2 DEF Box!Next
    <3>4. QED BY <3>2, <3>3
  <2>11. ASSUME NEW w \in Workers, Exit(w)
         PROVE  fates' = fates /\ sent' = sent
    BY <2>11 DEF Exit, queue
  <2>12. CASE UNCHANGED vars
    BY <2>12 DEF vars
  <2>13. QED
    BY <2>1, <2>2, <2>3, <2>4, <2>5, <2>6, <2>7, <2>8, <2>9, <2>10, <2>11, <2>12
       DEF Next, Call, Process
<1>3. QED BY <1>1, <1>2, InductiveHolds, PTL DEF Spec, KeepsOutbox, Box!Spec
=============================================================================
