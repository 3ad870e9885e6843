---------------------- MODULE TelemetryPipelineProofs ----------------------
(***************************************************************************)
(* Theorems of TelemetryPipeline, for every value of its constants.        *)
(* TypeOK comes first; Lifecycle, which ties the phase of a call to the     *)
(* tables, the answer and the history, is the strengthening the safety     *)
(* invariants follow from; Agreement ties the gateway's map to the rooms.  *)
(***************************************************************************)
EXTENDS TelemetryPipeline, TLAPS

\* What holds of a call at each phase of ingestTelemetry.
CallAt(r) ==
    /\ phase[r] = "idle" => answer[r] = "none" /\ earlier[r] = {}
    /\ phase[r] # "idle" => dto[r] \in Dto
    /\ phase[r] \notin {"idle", "absent"} => dto[r].vehicle \in vehicles \cup removed
    /\ answer[r] = "success" => phase[r] \in Ended
    /\ answer[r] \in {"notFound", "error"} => phase[r] = "absent"
    /\ r \in sent => phase[r] \notin {"idle", "absent", "found"}
    /\ phase[r] \in {"saving", "begun"} \cup Ended =>
         r \in sent \cup muted \/ dto[r].fleet = Blank
    /\ phase[r] = "refused" => dto[r].vehicle \in removed
    /\ phase[r] = "stored" => r \in telemetry
    /\ r \in telemetry => phase[r] \in {"stored", "failed"}
    /\ r \in pending => phase[r] = "failed" /\ r \notin telemetry
    /\ r \in telemetry \cup pending => dto[r].vehicle \in vehicles

Lifecycle == \A r \in Requests : CallAt(r)

\* What holds of the stamps of a device's successive readings.
StampedAt(r) ==
    /\ stamp[r] <= clock
    /\ \A q \in earlier[r] :
          /\ answer[q] = "success"
          /\ phase[r] = "begun" \/ r \in telemetry \cup pending => stamp[q] < stamp[r]

Stamped == \A r \in Requests : StampedAt(r)

\* What holds of what a socket was sent: only readings past their broadcast, and
\* those of one device in the order it took them.
InboxAt(s) ==
    /\ \A i \in DOMAIN inbox[s] : phase[inbox[s][i]] \in {"saving", "begun"} \cup Ended
    /\ \A i, j \in DOMAIN inbox[s] : inbox[s][j] \in earlier[inbox[s][i]] => j < i

InboxOrdered == \A s \in Sockets : InboxAt(s)

\* The map and the rooms hold the same fleets, none for a socket that is not open.
Agreement ==
    /\ joined = subscriptions
    /\ \A s \in Sockets : socket[s] # "open" => joined[s] = {}

-----------------------------------------------------------------------------
\* Type correctness: every variable keeps its type.
THEOREM TypeCorrect == Spec => []TypeOK
<1>1. Init => TypeOK
  BY PipelineNames DEF Init, TypeOK, Phase
<1>2. TypeOK /\ [Next]_vars => TypeOK'
  <2> SUFFICES ASSUME TypeOK, [Next]_vars PROVE TypeOK'
    OBVIOUS
  <2> USE DEF TypeOK, database, gateway, history, Phase, Ended
  <2>1. ASSUME NEW s \in Sockets, NEW w \in Workers, HandleConnection(s, w)
        PROVE  TypeOK'
    BY <2>1 DEF HandleConnection
  <2>2. ASSUME NEW s \in Sockets, HandleDisconnect(s) PROVE TypeOK'
    BY <2>2 DEF HandleDisconnect
  <2>3. ASSUME NEW s \in Sockets, NEW f \in Rooms \cup {Blank}, HandleSubscribe(s, f)
        PROVE  TypeOK'
    BY <2>3 DEF HandleSubscribe
  <2>4. ASSUME NEW s \in Sockets, NEW f \in Rooms, HandleUnsubscribe(s, f)
        PROVE  TypeOK'
    BY <2>4 DEF HandleUnsubscribe
  <2>5. ASSUME NEW r \in Requests, NEW d \in Dto, IngestLookup(r, d)
        PROVE  TypeOK'
    <3>1. phase' \in [Requests -> Phase]
      BY <2>5 DEF IngestLookup
    <3>2. answer' \in [Requests -> {"none", "success", "notFound", "error"}]
      BY <2>5 DEF IngestLookup
    <3>3. earlier' \in [Requests -> SUBSET Requests] /\ dto' \in [Requests -> Dto \cup {None}]
      BY <2>5 DEF IngestLookup
    <3>4. QED BY <2>5, <3>1, <3>2, <3>3 DEF IngestLookup
  <2>6. ASSUME NEW r \in Requests, IngestBroadcast(r) PROVE TypeOK'
    <3>1. inbox' \in [Sockets -> Seq(Requests)]
      <4>1. CASE UNCHANGED inbox
        BY <4>1
      <4>2. CASE BroadcastToFleet(r, dto[r].worker, PayloadFleet(dto[r]))
        <5>1. \A s \in Sockets : Append(inbox[s], r) \in Seq(Requests)
          OBVIOUS
        <5>2. QED BY <4>2, <5>1 DEF BroadcastToFleet
      <4>3. QED BY <2>6, <4>1, <4>2 DEF IngestBroadcast
    <3>2. QED BY <2>6, <3>1 DEF IngestBroadcast
  <2>7. ASSUME NEW r \in Requests, BeginSave(r) PROVE TypeOK'
    BY <2>7 DEF BeginSave
  <2>8. ASSUME NEW r \in Requests, CommitSave(r) PROVE TypeOK'
    BY <2>8 DEF CommitSave
  <2>9. ASSUME NEW r \in Requests, RefuseSave(r) \/ FailSave(r) PROVE TypeOK'
    BY <2>9 DEF RefuseSave, FailSave
  <2>10. ASSUME NEW r \in Requests, Answer(r) PROVE TypeOK'
    BY <2>10 DEF Answer
  <2>11. ASSUME NEW v \in Vehicles, RemoveVehicle(v) \/ ReinsertVehicle(v)
         PROVE  TypeOK'
    BY <2>11 DEF RemoveVehicle, ReinsertVehicle
  <2>12. ASSUME NEW w \in Workers, WorkerExit(w) PROVE TypeOK'
    BY <2>12 DEF WorkerExit
  <2>13. ASSUME NEW r \in Requests, LateCommit(r) \/ Rollback(r) PROVE TypeOK'
    BY <2>13 DEF LateCommit, Rollback
  <2>14. CASE UNCHANGED vars
    BY <2>14 DEF vars
  <2>15. QED
    BY <2>1, <2>2, <2>3, <2>4, <2>5, <2>6, <2>7, <2>8, <2>9, <2>10, <2>11, <2>12, <2>13, <2>14
    DEF Next, Socket, Ingest
<1>3. QED BY <1>1, <1>2, PTL DEF Spec

-----------------------------------------------------------------------------
\* The sockets and the exit of a worker leave alone what Lifecycle and Stamped
\* speak of.
callVars == <<database, phase, dto, answer, history>>

LEMMA OutsideIngest ==
    ASSUME Next
    PROVE  \/ UNCHANGED callVars
           \/ \E r \in Requests, d \in Dto : IngestLookup(r, d)
           \/ \E r \in Requests : Ingest(r) \/ LateCommit(r) \/ Rollback(r)
           \/ \E v \in Vehicles : RemoveVehicle(v) \/ ReinsertVehicle(v)
<1> USE DEF callVars, database, history
<1>1. ASSUME NEW s \in Sockets, Socket(s) PROVE UNCHANGED callVars
  BY <1>1 DEF Socket, HandleConnection, HandleDisconnect, HandleSubscribe, HandleUnsubscribe
<1>2. ASSUME NEW w \in Workers, WorkerExit(w) PROVE UNCHANGED callVars
  BY <1>2 DEF WorkerExit
<1>3. QED BY <1>1, <1>2 DEF Next

\* Lifecycle is inductive: whatever the calls, deletions and failures do, a
\* call's phase tells what the tables hold of it.
THEOREM LifecycleHolds == Spec => []Lifecycle
<1>1. Init => Lifecycle
  BY DEF Init, Lifecycle, CallAt, Ended
<1>2. TypeOK /\ Lifecycle /\ [Next]_vars => Lifecycle'
  <2> SUFFICES ASSUME TypeOK, Lifecycle, [Next]_vars PROVE Lifecycle'
    OBVIOUS
  <2> USE PipelineNames DEF TypeOK, Lifecycle, CallAt, database, history, Phase, Ended
  <2>1. ASSUME NEW r \in Requests, NEW d \in Dto, IngestLookup(r, d) PROVE Lifecycle'
    <3>1. \A q \in Requests \ {r} :
            /\ phase'[q] = phase[q] /\ answer'[q] = answer[q]
            /\ dto'[q] = dto[q] /\ earlier'[q] = earlier[q]
      BY <2>1 DEF IngestLookup
    <3>2. /\ dto'[r] = d
          /\ phase'[r] \in {"found", "absent"}
          /\ phase'[r] = "found" => d.vehicle \in vehicles
          /\ answer'[r] \in {"none", "notFound", "error"}
      BY <2>1 DEF IngestLookup
    <3>3. r \notin telemetry \cup pending
      BY <2>1 DEF IngestLookup
    <3>4. UNCHANGED <<vehicles, telemetry, pending, sent, muted, removed>> /\ r \notin sent
      BY <2>1 DEF IngestLookup
    <3>5. CallAt(r)'
      <4>1. answer'[r] # "none" => phase'[r] = "absent"
        BY <2>1 DEF IngestLookup
      <4>2. QED BY <3>2, <3>3, <3>4, <4>1
    <3>6. ASSUME NEW q \in Requests \ {r} PROVE CallAt(q)'
      BY <3>1, <3>4
    <3>7. QED BY <3>5, <3>6
  <2>2. ASSUME NEW r \in Requests, IngestBroadcast(r) PROVE Lifecycle'
    <3>1. PayloadFleet(dto[r]) = Blank => dto[r].fleet = Blank
      BY DEF PayloadFleet
    <3>2. sent \subseteq sent' /\ muted \subseteq muted'
      BY <2>2 DEF IngestBroadcast
    <3>3. r \in sent' \cup muted' \/ dto[r].fleet = Blank
      BY <2>2, <3>1 DEF IngestBroadcast
    <3>4. /\ phase' = [phase EXCEPT ![r] = "saving"]
          /\ UNCHANGED <<database, dto, answer, earlier, removed>>
          /\ phase[r] = "found"
          /\ sent' \subseteq sent \cup {r}
      BY <2>2 DEF IngestBroadcast
    <3>5. QED BY <3>2, <3>3, <3>4
  <2>3. ASSUME NEW r \in Requests, BeginSave(r) PROVE Lifecycle'
    BY <2>3 DEF BeginSave
  <2>4. ASSUME NEW r \in Requests, CommitSave(r) PROVE Lifecycle'
    BY <2>4 DEF CommitSave
  <2>5. ASSUME NEW r \in Requests, RefuseSave(r) PROVE Lifecycle'
    BY <2>5 DEF RefuseSave
  <2>6. ASSUME NEW r \in Requests, FailSave(r) PROVE Lifecycle'
    BY <2>6 DEF FailSave
  <2>7. ASSUME NEW r \in Requests, Answer(r) PROVE Lifecycle'
    BY <2>7 DEF Answer
  <2>8. ASSUME NEW v \in Vehicles, RemoveVehicle(v) PROVE Lifecycle'
    BY <2>8 DEF RemoveVehicle, RowsOf
  <2>9. ASSUME NEW v \in Vehicles, ReinsertVehicle(v) PROVE Lifecycle'
    BY <2>9 DEF ReinsertVehicle
  <2>10. ASSUME NEW r \in Requests, LateCommit(r) \/ Rollback(r) PROVE Lifecycle'
    BY <2>10 DEF LateCommit, Rollback
  <2>11. CASE UNCHANGED callVars
    BY <2>11 DEF callVars
  <2>12. CASE UNCHANGED vars
    BY <2>12 DEF vars
  <2>13. QED
    BY <2>1, <2>2, <2>3, <2>4, <2>5, <2>6, <2>7, <2>8, <2>9, <2>10, <2>11, <2>12, OutsideIngest
    DEF Ingest
<1>3. QED BY <1>1, <1>2, TypeCorrect, PTL DEF Spec

\* Every stored reading was emitted before, unless it named the empty fleet or its
\* emit threw.
COROLLARY StoredWasBroadcastHolds == Spec => []StoredWasBroadcast
<1>1. TypeOK /\ Lifecycle => StoredWasBroadcast
  BY DEF TypeOK, Lifecycle, CallAt, StoredWasBroadcast, Ended
<1>2. QED BY <1>1, TypeCorrect, LifecycleHolds, PTL

\* No reading outlives its vehicle, however deletions and ingests interleave.
COROLLARY NoOrphanReadingHolds == Spec => []NoOrphanReading
<1>1. TypeOK /\ Lifecycle => NoOrphanReading
  BY DEF TypeOK, Lifecycle, CallAt, NoOrphanReading
<1>2. QED BY <1>1, TypeCorrect, LifecycleHolds, PTL

\* An accepted reading is stored, or its save failed, or its vehicle was deleted.
COROLLARY AcceptedButNotStoredHolds == Spec => []AcceptedButNotStored
<1>1. Lifecycle => AcceptedButNotStored
  BY DEF Lifecycle, CallAt, AcceptedButNotStored, Ended
<1>2. QED BY <1>1, LifecycleHolds, PTL

-----------------------------------------------------------------------------
\* Stamped is inductive: a call that arrives after another was answered begins
\* its transaction after the other's.
THEOREM StampedHolds == Spec => []Stamped
<1>1. Init => Stamped
  BY DEF Init, Stamped, StampedAt
<1>2. TypeOK /\ Lifecycle /\ Stamped /\ [Next]_vars => Stamped'
  <2> SUFFICES ASSUME TypeOK, Lifecycle, Stamped, [Next]_vars PROVE Stamped'
    OBVIOUS
  <2> USE DEF TypeOK, Lifecycle, CallAt, Stamped, StampedAt, database, history, Ended
  <2>1. ASSUME NEW r \in Requests, NEW d \in Dto, IngestLookup(r, d) PROVE Stamped'
    <3>1. \A q \in Requests \ {r} :
            answer'[q] = answer[q] /\ earlier'[q] = earlier[q] /\ phase'[q] = phase[q]
      BY <2>1 DEF IngestLookup
    <3>2. /\ phase'[r] \in {"found", "absent"}
          /\ r \notin telemetry \cup pending
          /\ \A q \in earlier'[r] : answer[q] = "success" /\ q \in Requests \ {r}
      <4>1. phase'[r] \in {"found", "absent"} /\ r \notin telemetry \cup pending
        BY <2>1 DEF IngestLookup
      <4>2. answer[r] = "none"
        BY <2>1 DEF IngestLookup
      <4>3. earlier'[r] = {q \in Requests : answer[q] = "success" /\ dto[q].vehicle = d.vehicle}
        BY <2>1 DEF IngestLookup
      <4>4. QED BY <4>1, <4>2, <4>3
    <3>3. UNCHANGED <<stamp, clock, telemetry, pending>>
      BY <2>1 DEF IngestLookup
    <3>4. StampedAt(r)'
      BY <3>1, <3>2, <3>3
    <3>5. ASSUME NEW p \in Requests \ {r} PROVE StampedAt(p)'
      <4>1. r \notin earlier[p]
        BY <2>1 DEF IngestLookup
      <4>2. QED BY <3>1, <3>3, <4>1
    <3>6. QED BY <3>4, <3>5
  <2>2. ASSUME NEW r \in Requests, IngestBroadcast(r) PROVE Stamped'
    <3>1. /\ phase' = [phase EXCEPT ![r] = "saving"]
          /\ UNCHANGED <<stamp, clock, telemetry, pending, answer, earlier>>
      BY <2>2 DEF IngestBroadcast
    <3>2. QED BY <3>1
  <2>3. ASSUME NEW r \in Requests, BeginSave(r) PROVE Stamped'
    <3>1. /\ clock' = clock + 1
          /\ stamp'[r] = clock + 1 /\ phase'[r] = "begun" /\ phase[r] = "saving"
          /\ \A q \in Requests \ {r} : stamp'[q] = stamp[q] /\ phase'[q] = phase[q]
          /\ UNCHANGED <<answer, earlier, telemetry, pending>>
      BY <2>3 DEF BeginSave
    <3>2. /\ clock \in Nat
          /\ \A q \in Requests : stamp[q] \in Nat /\ stamp[q] <= clock
      OBVIOUS
    <3>3. \A p \in Requests : \A q \in earlier[p] : q \in Requests \ {r} /\ answer[q] = "success"
      BY <3>1
    <3>4. \A p \in Requests \ {r} : \A q \in earlier[p] :
             phase[p] = "begun" \/ p \in telemetry \cup pending => stamp[q] < stamp[p]
      OBVIOUS
    <3> HIDE DEF TypeOK, Lifecycle, CallAt, Stamped
    <3>5. StampedAt(r)'
      BY <3>1, <3>2, <3>3
    <3>6. ASSUME NEW p \in Requests \ {r} PROVE StampedAt(p)'
      BY <3>1, <3>2, <3>3, <3>4
    <3>7. QED BY <3>5, <3>6 DEF Stamped
  <2>4. ASSUME NEW r \in Requests, CommitSave(r) \/ RefuseSave(r) \/ FailSave(r)
        PROVE  Stamped'
    BY <2>4 DEF CommitSave, RefuseSave, FailSave
  <2>5. ASSUME NEW r \in Requests, Answer(r) PROVE Stamped'
    BY <2>5 DEF Answer
  <2>6. ASSUME NEW v \in Vehicles, RemoveVehicle(v) \/ ReinsertVehicle(v) PROVE Stamped'
    BY <2>6 DEF RemoveVehicle, ReinsertVehicle
  <2>7. ASSUME NEW r \in Requests, LateCommit(r) \/ Rollback(r) PROVE Stamped'
    BY <2>7 DEF LateCommit, Rollback
  <2>8. CASE UNCHANGED callVars
    BY <2>8 DEF callVars
  <2>9. CASE UNCHANGED vars
    BY <2>9 DEF vars
  <2>10. QED
    BY <2>1, <2>2, <2>3, <2>4, <2>5, <2>6, <2>7, <2>8, <2>9, OutsideIngest DEF Ingest
<1>3. QED BY <1>1, <1>2, TypeCorrect, LifecycleHolds, PTL DEF Spec

\* Only a broadcast writes an inbox, and it appends its own reading.
LEMMA InboxGrowth ==
    ASSUME TypeOK, Next
    PROVE  \/ UNCHANGED inbox
           \/ \E r \in Requests :
                /\ IngestBroadcast(r)
                /\ r \in sent'
                /\ BroadcastToFleet(r, dto[r].worker, PayloadFleet(dto[r]))
<1> USE DEF database, history, gateway
<1>1. ASSUME NEW s \in Sockets, Socket(s) PROVE UNCHANGED inbox
  BY <1>1 DEF Socket, HandleConnection, HandleDisconnect, HandleSubscribe, HandleUnsubscribe
<1>2. ASSUME NEW r \in Requests, NEW d \in Dto, IngestLookup(r, d) PROVE UNCHANGED inbox
  BY <1>2 DEF IngestLookup
<1>3. ASSUME NEW r \in Requests, Ingest(r), ~IngestBroadcast(r) PROVE UNCHANGED inbox
  BY <1>3 DEF Ingest, BeginSave, CommitSave, RefuseSave, FailSave, Answer
<1>4. ASSUME NEW v \in Vehicles, RemoveVehicle(v) \/ ReinsertVehicle(v)
      PROVE  UNCHANGED inbox
  BY <1>4 DEF RemoveVehicle, ReinsertVehicle
<1>5. ASSUME NEW w \in Workers, WorkerExit(w) PROVE UNCHANGED inbox
  BY <1>5 DEF WorkerExit
<1>6. ASSUME NEW r \in Requests, IngestBroadcast(r)
      PROVE  \/ UNCHANGED inbox
             \/ r \in sent' /\ BroadcastToFleet(r, dto[r].worker, PayloadFleet(dto[r]))
  BY <1>6 DEF IngestBroadcast
<1>7. ASSUME NEW r \in Requests, LateCommit(r) \/ Rollback(r) PROVE UNCHANGED inbox
  BY <1>7 DEF LateCommit, Rollback
<1>8. QED BY <1>1, <1>2, <1>3, <1>4, <1>5, <1>6, <1>7 DEF Next

\* A call's phase never steps back before its broadcast, and its history is
\* written once, before that.
LEMMA PhaseAdvances ==
    ASSUME TypeOK, Next, NEW r \in Requests
    PROVE  /\ phase[r] \in {"saving", "begun"} \cup Ended =>
                 phase'[r] \in {"saving", "begun"} \cup Ended
           /\ phase[r] # "idle" => earlier'[r] = earlier[r]
<1> USE DEF TypeOK, Ended, database, history
<1>1. CASE UNCHANGED callVars
  BY <1>1 DEF callVars
<1>2. ASSUME NEW q \in Requests, NEW d \in Dto, IngestLookup(q, d)
      PROVE  /\ phase[r] # "idle" => phase'[r] = phase[r]
             /\ phase[r] # "idle" => earlier'[r] = earlier[r]
  BY <1>2 DEF IngestLookup
<1>3. ASSUME NEW q \in Requests, Ingest(q)
      PROVE  /\ phase' = phase \/ \E p \in {"saving", "begun"} \cup Ended :
                                      phase' = [phase EXCEPT ![q] = p]
             /\ UNCHANGED earlier
  BY <1>3 DEF Ingest, IngestBroadcast, BeginSave, CommitSave, RefuseSave, FailSave, Answer
<1>4. ASSUME NEW v \in Vehicles, RemoveVehicle(v) \/ ReinsertVehicle(v)
      PROVE  UNCHANGED <<phase, earlier>>
  BY <1>4 DEF RemoveVehicle, ReinsertVehicle
<1>5. ASSUME NEW q \in Requests, LateCommit(q) \/ Rollback(q)
      PROVE  UNCHANGED <<phase, earlier>>
  BY <1>5 DEF LateCommit, Rollback
<1>6. QED BY <1>1, <1>2, <1>3, <1>4, <1>5, OutsideIngest

\* InboxOrdered is inductive.
THEOREM InboxOrderedHolds == Spec => []InboxOrdered
<1>1. Init => InboxOrdered
  BY DEF Init, InboxOrdered, InboxAt
<1>2. TypeOK /\ Lifecycle /\ Stamped /\ InboxOrdered /\ [Next]_vars => InboxOrdered'
  <2> SUFFICES ASSUME TypeOK, Lifecycle, Stamped, InboxOrdered, [Next]_vars,
                      NEW s \in Sockets
               PROVE  InboxAt(s)'
    BY DEF InboxOrdered
  <2> inbox[s] \in Seq(Requests)
    BY DEF TypeOK
  <2>1. InboxAt(s)
    BY DEF InboxOrdered
  <2>2. CASE UNCHANGED vars
    BY <2>1, <2>2 DEF InboxAt, vars, history
  <2>3. CASE Next /\ UNCHANGED inbox
    <3>1. \A i \in DOMAIN inbox[s] : inbox[s][i] \in Requests
      OBVIOUS
    <3>2. QED BY <2>1, <2>3, <3>1, PhaseAdvances DEF InboxAt, Ended
  <2>4. ASSUME Next, NEW r \in Requests, IngestBroadcast(r),
               BroadcastToFleet(r, dto[r].worker, PayloadFleet(dto[r]))
        PROVE  InboxAt(s)'
    <3>1. CASE inbox'[s] = inbox[s]
      <4>1. \A i \in DOMAIN inbox[s] : inbox[s][i] \in Requests
        OBVIOUS
      <4>2. QED BY <2>1, <2>4, <3>1, <4>1, PhaseAdvances DEF InboxAt, Ended
    <3>2. CASE inbox'[s] = Append(inbox[s], r)
      <4>1. phase[r] = "found" /\ phase'[r] = "saving" /\ UNCHANGED earlier
        BY <2>4 DEF IngestBroadcast, TypeOK
      <4>2. \A i \in DOMAIN inbox[s] : inbox[s][i] \in Requests \ {r}
        BY <2>1, <4>1 DEF InboxAt, Ended
      <4>3. \A q \in Requests : r \notin earlier[q]
        BY <4>1 DEF Lifecycle, CallAt, Stamped, StampedAt, TypeOK, Ended
      <4>4. /\ DOMAIN inbox'[s] = 1 .. Len(inbox[s]) + 1
            /\ DOMAIN inbox[s] = 1 .. Len(inbox[s])
            /\ inbox'[s][Len(inbox[s]) + 1] = r
            /\ \A i \in 1 .. Len(inbox[s]) : inbox'[s][i] = inbox[s][i]
            /\ Len(inbox[s]) \in Nat
        BY <3>2
      <4>5. ASSUME NEW i \in DOMAIN inbox'[s]
            PROVE  phase'[inbox'[s][i]] \in {"saving", "begun"} \cup Ended
        <5>1. CASE i = Len(inbox[s]) + 1
          BY <4>1, <4>4, <5>1
        <5>2. CASE i \in DOMAIN inbox[s]
          BY <2>1, <2>4, <4>2, <4>4, <5>2, PhaseAdvances DEF InboxAt
        <5>3. QED BY <4>4, <4>5, <5>1, <5>2
      <4>6. ASSUME NEW i \in DOMAIN inbox'[s], NEW j \in DOMAIN inbox'[s],
                   inbox'[s][j] \in earlier'[inbox'[s][i]]
            PROVE  j < i
        <5>1. inbox'[s][i] \in Requests
          BY <4>2, <4>4
        <5>2. inbox'[s][j] # r
          BY <4>1, <4>3, <4>6, <5>1
        <5>3. j \in DOMAIN inbox[s]
          BY <4>4, <5>2
        <5>4. CASE i = Len(inbox[s]) + 1
          BY <4>4, <5>3, <5>4
        <5>5. CASE i \in DOMAIN inbox[s]
          BY <2>1, <4>1, <4>4, <4>6, <5>3, <5>5 DEF InboxAt
        <5>6. QED BY <4>4, <5>4, <5>5
      <4>7. QED BY <4>5, <4>6 DEF InboxAt
    <3>3. QED BY <2>4, <3>1, <3>2 DEF BroadcastToFleet
  <2>5. QED BY <2>2, <2>3, <2>4, InboxGrowth
<1>3. QED BY <1>1, <1>2, TypeCorrect, LifecycleHolds, StampedHolds, PTL DEF Spec

\* A device that awaits each answer finds its readings in the order it took them,
\* in the table and on every dashboard.
THEOREM DeviceOrderKeptHolds == Spec => []DeviceOrderKept
<1>1. TypeOK /\ Lifecycle /\ Stamped /\ InboxOrdered => DeviceOrderKept
  BY DEF TypeOK, Lifecycle, CallAt, Stamped, StampedAt, InboxOrdered, InboxAt, DeviceOrderKept
<1>2. QED BY <1>1, TypeCorrect, LifecycleHolds, StampedHolds, InboxOrderedHolds, PTL

-----------------------------------------------------------------------------
\* Agreement is inductive: every handler, and the loss of a worker, changes the
\* gateway's map and the rooms alike.
THEOREM AgreementHolds == Spec => []Agreement
<1>1. Init => Agreement
  BY DEF Init, Agreement
<1>2. TypeOK /\ Agreement /\ [Next]_vars => Agreement'
  <2> SUFFICES ASSUME TypeOK, Agreement, [Next]_vars PROVE Agreement'
    OBVIOUS
  <2> USE DEF TypeOK, Agreement, gateway
  <2>1. ASSUME NEW s \in Sockets, Socket(s) PROVE Agreement'
    <3>1. ASSUME NEW w \in Workers, HandleConnection(s, w) PROVE Agreement'
      BY <3>1 DEF HandleConnection
    <3>2. CASE HandleDisconnect(s)
      BY <3>2 DEF HandleDisconnect
    <3>3. ASSUME NEW f \in Rooms \cup {Blank}, HandleSubscribe(s, f) PROVE Agreement'
      BY <3>3 DEF HandleSubscribe
    <3>4. ASSUME NEW f \in Rooms, HandleUnsubscribe(s, f) PROVE Agreement'
      BY <3>4 DEF HandleUnsubscribe
    <3>5. QED BY <2>1, <3>1, <3>2, <3>3, <3>4 DEF Socket
  <2>2. ASSUME NEW r \in Requests, NEW d \in Dto, IngestLookup(r, d) PROVE Agreement'
    BY <2>2 DEF IngestLookup
  <2>3. ASSUME NEW r \in Requests, Ingest(r) PROVE Agreement'
    BY <2>3 DEF Ingest, IngestBroadcast, BeginSave, CommitSave, RefuseSave, FailSave, Answer
  <2>4. ASSUME NEW v \in Vehicles, RemoveVehicle(v) \/ ReinsertVehicle(v)
        PROVE  Agreement'
    BY <2>4 DEF RemoveVehicle, ReinsertVehicle
  <2>5. ASSUME NEW w \in Workers, WorkerExit(w) PROVE Agreement'
    BY <2>5 DEF WorkerExit
  <2>6. ASSUME NEW r \in Requests, LateCommit(r) \/ Rollback(r) PROVE Agreement'
    BY <2>6 DEF LateCommit, Rollback
  <2>7. CASE UNCHANGED vars
    BY <2>7 DEF vars
  <2>8. QED BY <2>1, <2>2, <2>3, <2>4, <2>5, <2>6, <2>7 DEF Next
<1>3. QED BY <1>1, <1>2, TypeCorrect, PTL DEF Spec

\* A socket is handed a reading only while it is open and its entry in the
\* gateway's map holds the reading's fleet.
THEOREM DeliveredOnlyToSubscribersHolds == Spec => DeliveredOnlyToSubscribers
<1> DEFINE Delivery ==
      \A s \in Sockets : inbox'[s] # inbox[s] =>
          /\ socket[s] = "open"
          /\ \E r \in Requests :
               /\ inbox'[s] = Append(inbox[s], r)
               /\ PayloadFleet(dto[r]) \in subscriptions[s]
<1>1. TypeOK /\ Agreement /\ [Next]_vars => [Delivery]_vars
  <2> SUFFICES ASSUME TypeOK, Agreement, Next PROVE Delivery
    OBVIOUS
  <2>1. CASE UNCHANGED inbox
    BY <2>1
  <2>2. ASSUME NEW r \in Requests,
               BroadcastToFleet(r, dto[r].worker, PayloadFleet(dto[r]))
        PROVE  Delivery
    <3> SUFFICES ASSUME NEW s \in Sockets, inbox'[s] # inbox[s]
                 PROVE  /\ socket[s] = "open"
                        /\ inbox'[s] = Append(inbox[s], r)
                        /\ PayloadFleet(dto[r]) \in subscriptions[s]
      OBVIOUS
    <3>1. /\ PayloadFleet(dto[r]) \in joined[s]
          /\ inbox'[s] = Append(inbox[s], r)
      BY <2>2 DEF BroadcastToFleet
    <3>2. QED BY <3>1 DEF Agreement
  <2>3. QED BY <2>1, <2>2, InboxGrowth
<1>2. QED BY <1>1, TypeCorrect, AgreementHolds, PTL DEF Spec, DeliveredOnlyToSubscribers

-----------------------------------------------------------------------------
\* What ReadingLog sees of the pipeline.
logVars == <<sent, inbox, telemetry, pending, answer>>

\* The pipeline implements ReadingLog: with the steps in between hidden, a call
\* shows its reading, keeps it and is answered, each at most once and in that order,
\* but for a save that the database failed with its COMMIT on the way.
THEOREM KeepsReadingLogHolds == Spec => KeepsReadingLog
<1>1. Init => Log!Init
  BY DEF Init, Log!Init
<1>2. TypeOK /\ Lifecycle /\ [Next]_vars => [Log!Next]_(Log!vars)
  <2> SUFFICES ASSUME TypeOK, Lifecycle, [Next]_vars
               PROVE  Log!Next \/ UNCHANGED logVars
    BY DEF Log!vars, logVars
  <2> USE DEF database, history, gateway, logVars
  <2>1. ASSUME NEW s \in Sockets, Socket(s)
        PROVE  UNCHANGED logVars
    BY <2>1 DEF Socket, HandleConnection, HandleDisconnect, HandleSubscribe,
                HandleUnsubscribe
  <2>2. ASSUME NEW r \in Requests, NEW d \in Dto, IngestLookup(r, d)
        PROVE  Log!Next \/ UNCHANGED logVars
    <3>1. answer[r] = "none" /\ r \notin sent \cup telemetry \cup pending
      BY <2>2 DEF IngestLookup, Lifecycle, CallAt
    <3>2. UNCHANGED <<sent, inbox, telemetry, pending>>
      BY <2>2 DEF IngestLookup
    <3>3. CASE UNCHANGED answer
      BY <3>2, <3>3
    <3>4. ASSUME NEW a \in {"notFound", "error"}, answer' = [answer EXCEPT ![r] = a]
          PROVE  Log!Next
      <4>1. Log!Reply(r, a)
        BY <3>1, <3>2, <3>4 DEF Log!Reply
      <4>2. QED BY <4>1 DEF Log!Next
    <3>5. QED BY <2>2, <3>3, <3>4 DEF IngestLookup
  <2>3. ASSUME NEW r \in Requests, IngestBroadcast(r)
        PROVE  Log!Next \/ UNCHANGED logVars
    <3>1. Log!Open(r) /\ r \notin sent
      BY <2>3 DEF IngestBroadcast, Lifecycle, CallAt, TypeOK, Ended, Log!Open
    <3>2. UNCHANGED <<telemetry, pending, answer>>
      BY <2>3 DEF IngestBroadcast
    <3>3. CASE UNCHANGED <<inbox, sent>>
      BY <3>2, <3>3
    <3>4. CASE /\ sent' = sent \cup {r}
               /\ BroadcastToFleet(r, dto[r].worker, PayloadFleet(dto[r]))
      <4> DEFINE followers ==
            {s \in Sockets : home[s] = dto[r].worker /\ PayloadFleet(dto[r]) \in joined[s]}
      <4>1. inbox' = [s \in Sockets |->
                        IF s \in followers THEN Append(inbox[s], r) ELSE inbox[s]]
        BY <3>4 DEF BroadcastToFleet
      <4>2. followers \in SUBSET Sockets
        OBVIOUS
      <4> HIDE DEF followers
      <4>3. Log!Show(r)
        BY <3>1, <3>2, <3>4, <4>1, <4>2 DEF Log!Show
      <4>4. QED BY <4>3 DEF Log!Next
    <3>5. QED BY <2>3, <3>3, <3>4 DEF IngestBroadcast
  <2>4. ASSUME NEW r \in Requests, CommitSave(r) PROVE Log!Next
    <3>1. Log!Open(r)
      BY <2>4 DEF CommitSave, Lifecycle, CallAt, TypeOK, Ended, Log!Open
    <3>2. Log!Keep(r)
      BY <2>4, <3>1 DEF CommitSave, Log!Keep, Log!Open
    <3>3. QED BY <3>2 DEF Log!Next
  <2>5. ASSUME NEW r \in Requests, BeginSave(r) \/ RefuseSave(r)
        PROVE  UNCHANGED logVars
    BY <2>5 DEF BeginSave, RefuseSave
  <2>6. ASSUME NEW r \in Requests, Answer(r) PROVE Log!Next
    <3>1. Log!Reply(r, "success")
      BY <2>6 DEF Answer, Log!Reply
    <3>2. QED BY <3>1 DEF Log!Next
  <2>7. ASSUME NEW v \in Vehicles, RemoveVehicle(v) \/ ReinsertVehicle(v)
        PROVE  UNCHANGED logVars
    BY <2>7 DEF RemoveVehicle, ReinsertVehicle
  <2>8. ASSUME NEW w \in Workers, WorkerExit(w)
        PROVE  UNCHANGED logVars
    BY <2>8 DEF WorkerExit
  <2>9. ASSUME NEW r \in Requests, FailSave(r) PROVE Log!Next \/ UNCHANGED logVars
    <3>1. Log!Open(r)
      BY <2>9 DEF FailSave, Lifecycle, CallAt, TypeOK, Ended, Log!Open
    <3>2. CASE UNCHANGED pending
      BY <2>9, <3>2 DEF FailSave
    <3>3. CASE pending' = pending \cup {r}
      <4>1. Log!Doubt(r)
        BY <2>9, <3>1, <3>3 DEF FailSave, Log!Doubt
      <4>2. QED BY <4>1 DEF Log!Next
    <3>4. QED BY <2>9, <3>2, <3>3 DEF FailSave
  <2>10. ASSUME NEW r \in Requests, LateCommit(r) PROVE Log!Next
    <3>1. Log!Keep(r)
      BY <2>10 DEF LateCommit, Log!Keep
    <3>2. QED BY <3>1 DEF Log!Next
  <2>11. ASSUME NEW r \in Requests, Rollback(r) PROVE Log!Next
    <3>1. Log!Drop(r)
      BY <2>11 DEF Rollback, Log!Drop
    <3>2. QED BY <3>1 DEF Log!Next
  <2>12. CASE UNCHANGED vars
    BY <2>12 DEF vars
  <2>13. QED
    BY <2>1, <2>2, <2>3, <2>4, <2>5, <2>6, <2>7, <2>8, <2>9, <2>10, <2>11, <2>12
    DEF Next, Ingest
<1>3. QED
  BY <1>1, <1>2, TypeCorrect, LifecycleHolds, PTL DEF Spec, KeepsReadingLog, Log!Spec

-----------------------------------------------------------------------------
\* What getLatest reads of a stored reading is final, and the table grows by one
\* row at a time.
LEMMA StoredIsFinal ==
    ASSUME TypeOK, Lifecycle, Next
    PROVE  /\ \A r \in telemetry : dto'[r] = dto[r] /\ stamp'[r] = stamp[r]
           /\ \/ telemetry' = telemetry
              \/ \E x \in Requests : /\ telemetry' = telemetry \cup {x}
                                     /\ UNCHANGED <<dto, stamp>>
<1> USE DEF TypeOK, database, history
<1>1. \A r \in telemetry : r \in Requests /\ phase[r] \in {"stored", "failed"}
  BY DEF Lifecycle, CallAt
<1>2. CASE UNCHANGED callVars
  BY <1>2 DEF callVars
<1>3. ASSUME NEW q \in Requests, NEW d \in Dto, IngestLookup(q, d)
      PROVE  /\ UNCHANGED <<telemetry, stamp>>
             /\ \A r \in telemetry : dto'[r] = dto[r]
  BY <1>1, <1>3 DEF IngestLookup
<1>4. ASSUME NEW q \in Requests, BeginSave(q)
      PROVE  /\ UNCHANGED <<telemetry, dto>>
             /\ \A r \in telemetry : stamp'[r] = stamp[r]
  BY <1>1, <1>4 DEF BeginSave
<1>5. ASSUME NEW q \in Requests, CommitSave(q) \/ LateCommit(q)
      PROVE  telemetry' = telemetry \cup {q} /\ UNCHANGED <<dto, stamp>>
  BY <1>5 DEF CommitSave, LateCommit
<1>6. ASSUME NEW q \in Requests,
             IngestBroadcast(q) \/ RefuseSave(q) \/ FailSave(q) \/ Answer(q) \/ Rollback(q)
      PROVE  UNCHANGED <<telemetry, dto, stamp>>
  BY <1>6 DEF IngestBroadcast, RefuseSave, FailSave, Answer, Rollback
<1>7. ASSUME NEW v \in Vehicles, RemoveVehicle(v) \/ ReinsertVehicle(v)
      PROVE  UNCHANGED <<telemetry, dto, stamp>>
  BY <1>7 DEF RemoveVehicle, ReinsertVehicle
<1>8. QED
  BY <1>2, <1>3, <1>4, <1>5, <1>6, <1>7, OutsideIngest DEF Ingest

\* GET /telemetry/:vehicleId/latest never steps back to an older reading, in
\* whatever order the transactions of the readings began and committed.
THEOREM LatestNeverGoesBackHolds == Spec => LatestNeverGoesBack
<1> DEFINE Forward ==
      \A v \in Vehicles : \A r \in GetLatest(v) :
          \E q \in GetLatest(v)' : stamp'[q] >= stamp[r]
<1>1. TypeOK /\ Lifecycle /\ [Next]_vars => [Forward]_vars
  <2> SUFFICES ASSUME TypeOK, Lifecycle, Next,
                      NEW v \in Vehicles, NEW r \in GetLatest(v)
               PROVE  \E q \in GetLatest(v)' : stamp'[q] >= stamp[r]
    OBVIOUS
  <2>1. \A q \in telemetry : dto'[q] = dto[q] /\ stamp'[q] = stamp[q]
    BY StoredIsFinal
  <2>2. /\ r \in RowsOf(v)
        /\ \A q \in RowsOf(v) : stamp[q] <= stamp[r]
    BY DEF GetLatest
  <2>3. RowsOf(v) \subseteq telemetry /\ telemetry \subseteq Requests
    BY DEF RowsOf, TypeOK
  <2>4. \A q \in Requests : stamp[q] \in Nat
    BY DEF TypeOK
  <2>5. ASSUME RowsOf(v)' = RowsOf(v)
        PROVE  r \in GetLatest(v)' /\ stamp'[r] = stamp[r]
    BY <2>1, <2>2, <2>3, <2>5 DEF GetLatest
  <2>6. CASE telemetry' = telemetry
    <3>1. RowsOf(v)' = RowsOf(v)
      BY <2>1, <2>6 DEF RowsOf
    <3>2. QED BY <2>2, <2>3, <2>4, <2>5, <3>1
  <2>7. ASSUME NEW x \in Requests, telemetry' = telemetry \cup {x},
               UNCHANGED <<dto, stamp>>
        PROVE  \E q \in GetLatest(v)' : stamp'[q] >= stamp[r]
    <3>1. CASE dto[x].vehicle # v
      <4>1. RowsOf(v)' = RowsOf(v)
        BY <2>7, <3>1 DEF RowsOf
      <4>2. QED BY <2>2, <2>3, <2>4, <2>5, <4>1
    <3>2. CASE dto[x].vehicle = v
      <4>1. RowsOf(v)' = RowsOf(v) \cup {x}
        BY <2>7, <3>2 DEF RowsOf
      <4>2. stamp' = stamp
        BY <2>7
      <4>3. stamp[x] \in Nat /\ stamp[r] \in Nat /\ \A q \in RowsOf(v) : stamp[q] \in Nat
        BY <2>2, <2>3, <2>4
      <4>4. CASE stamp[x] >= stamp[r]
        <5>1. \A q \in RowsOf(v)' : stamp'[q] <= stamp'[x]
          BY <2>2, <4>1, <4>2, <4>3, <4>4
        <5>2. x \in GetLatest(v)'
          BY <4>1, <5>1 DEF GetLatest
        <5>3. QED BY <4>2, <4>4, <5>2
      <4>5. CASE stamp[x] < stamp[r]
        <5>1. \A q \in RowsOf(v)' : stamp'[q] <= stamp'[r]
          BY <2>2, <4>1, <4>2, <4>3, <4>5
        <5>2. r \in GetLatest(v)'
          BY <2>2, <4>1, <5>1 DEF GetLatest
        <5>3. QED BY <4>2, <4>3, <5>2
      <4>6. QED BY <4>3, <4>4, <4>5
    <3>3. QED BY <3>1, <3>2
  <2>8. QED BY <2>6, <2>7, StoredIsFinal
<1>2. QED BY <1>1, TypeCorrect, LifecycleHolds, PTL DEF Spec, LatestNeverGoesBack

-----------------------------------------------------------------------------
\* A socket that has connected is held by one of the workers.
Homed == \A s \in Sockets : socket[s] # "new" => home[s] \in Workers

\* Homed is inductive: no handler moves a socket.
LEMMA HomedHolds == Spec => []Homed
<1>1. Init => Homed
  BY DEF Init, Homed
<1>2. TypeOK /\ Homed /\ [Next]_vars => Homed'
  <2> SUFFICES ASSUME TypeOK, Homed, [Next]_vars PROVE Homed'
    OBVIOUS
  <2> USE DEF TypeOK, Homed, gateway
  <2>1. ASSUME NEW s \in Sockets, NEW w \in Workers, HandleConnection(s, w) PROVE Homed'
    BY <2>1 DEF HandleConnection
  <2>2. ASSUME NEW s \in Sockets, NEW f,
               HandleDisconnect(s) \/ HandleSubscribe(s, f) \/ HandleUnsubscribe(s, f)
        PROVE  Homed'
    BY <2>2 DEF HandleDisconnect, HandleSubscribe, HandleUnsubscribe
  <2>3. ASSUME NEW r \in Requests, NEW d \in Dto, IngestLookup(r, d) PROVE Homed'
    BY <2>3 DEF IngestLookup
  <2>4. ASSUME NEW r \in Requests, Ingest(r) PROVE Homed'
    BY <2>4 DEF Ingest, IngestBroadcast, BeginSave, CommitSave, RefuseSave, FailSave, Answer
  <2>5. ASSUME NEW v \in Vehicles, RemoveVehicle(v) \/ ReinsertVehicle(v)
        PROVE  Homed'
    BY <2>5 DEF RemoveVehicle, ReinsertVehicle
  <2>6. ASSUME NEW w \in Workers, WorkerExit(w) PROVE Homed'
    BY <2>6 DEF WorkerExit
  <2>7. ASSUME NEW r \in Requests, LateCommit(r) \/ Rollback(r) PROVE Homed'
    BY <2>7 DEF LateCommit, Rollback
  <2>8. CASE UNCHANGED vars
    BY <2>8 DEF vars
  <2>9. QED BY <2>1, <2>2, <2>3, <2>4, <2>5, <2>6, <2>7, <2>8 DEF Next, Socket
<1>3. QED BY <1>1, <1>2, TypeCorrect, PTL DEF Spec

\* With one worker, as in development mode (cluster.ts:12), a reading that is emitted
\* reaches every open socket that has subscribed to its fleet.  With two workers it
\* does not (run pipeline_two_workers).
THEOREM EverySubscriberServedByOneWorker ==
    ASSUME NEW only, Workers = {only}
    PROVE  Spec => EverySubscriberServed
<1> DEFINE Served ==
      \A r \in sent' \ sent : \A s \in Sockets :
          socket[s] = "open" /\ PayloadFleet(dto[r]) \in subscriptions[s] =>
              inbox'[s] = Append(inbox[s], r)
<1>1. TypeOK /\ Lifecycle /\ Agreement /\ Homed /\ [Next]_vars => [Served]_vars
  <2> SUFFICES ASSUME TypeOK, Lifecycle, Agreement, Homed, Next,
                      NEW r \in sent' \ sent, NEW s \in Sockets, socket[s] = "open",
                      PayloadFleet(dto[r]) \in subscriptions[s]
               PROVE  inbox'[s] = Append(inbox[s], r)
    OBVIOUS
  <2>1. PICK q \in Requests : IngestBroadcast(q)
    <3> USE DEF history
    <3>1. ASSUME NEW t \in Sockets PROVE ~Socket(t)
      BY DEF Socket, HandleConnection, HandleDisconnect, HandleSubscribe, HandleUnsubscribe
    <3>2. ASSUME NEW t \in Requests, NEW d \in Dto PROVE ~IngestLookup(t, d)
      BY DEF IngestLookup
    <3>3. ASSUME NEW t \in Requests, Ingest(t) PROVE IngestBroadcast(t)
      BY <3>3 DEF Ingest, BeginSave, CommitSave, RefuseSave, FailSave, Answer
    <3>4. ASSUME NEW v \in Vehicles
          PROVE  ~(RemoveVehicle(v) \/ ReinsertVehicle(v))
      BY DEF RemoveVehicle, ReinsertVehicle
    <3>5. ASSUME NEW w \in Workers PROVE ~WorkerExit(w)
      BY DEF WorkerExit
    <3>6. ASSUME NEW t \in Requests PROVE ~(LateCommit(t) \/ Rollback(t))
      BY DEF LateCommit, Rollback
    <3>7. QED BY <3>1, <3>2, <3>3, <3>4, <3>5, <3>6 DEF Next
  <2>2. /\ q = r
        /\ BroadcastToFleet(r, dto[r].worker, PayloadFleet(dto[r]))
    BY <2>1 DEF IngestBroadcast
  <2>3. dto[r] \in Dto
    BY <2>1, <2>2 DEF IngestBroadcast, Lifecycle, CallAt
  <2>4. home[s] = dto[r].worker
    BY <2>3 DEF Homed, Dto
  <2>5. PayloadFleet(dto[r]) \in joined[s]
    BY DEF Agreement
  <2>6. QED BY <2>2, <2>4, <2>5 DEF BroadcastToFleet
<1>2. QED
  BY <1>1, TypeCorrect, LifecycleHolds, AgreementHolds, HomedHolds, PTL
  DEF Spec, EverySubscriberServed
=============================================================================
