--------------------------- MODULE JobQueueProofs ---------------------------
(***************************************************************************)
(* Proofs of the safety properties of JobQueue, for any messages, workers  *)
(* and number of deliveries.                                               *)
(***************************************************************************)
EXTENDS JobQueue, FiniteSetTheorems, TLAPS

\* A run that has not ended yet, and a run beyond the validation of its message.
Unended == {"received", "prepared"} \cup Phases

Running == {"prepared", "finished", "failing"} \cup Phases

\* A busy worker has a message, past validation that of a job.
WorkersHaveMessages ==
  \A w \in Workers : /\ pc[w] = "idle" <=> msg[w] = None
                     /\ pc[w] \in Running => msg[w] \in Jobs

DeliveriesLeft ==
  \A m \in Messages : /\ place[m] = "queued" => deliveries[m] < MaxDeliveries
                      /\ place[m] = "absent" => deliveries[m] = 0

\* The workers on a run of j that has not ended.
Pending(j) == {w \in Workers : msg[w] = j /\ pc[w] \in Unended}

\* Each run is a delivery: what ended and what may still end was delivered.
RunsAreDeliveries ==
  \A j \in Jobs : /\ IsFiniteSet(Pending(j))
                  /\ ended[j] + Cardinality(Pending(j)) <= deliveries[j]

TypeInv == TypeOK /\ WorkersHaveMessages /\ DeliveriesLeft /\ RunsAreDeliveries

-----------------------------------------------------------------------------
(* Steps of the queue and of a worker.                                     *)

LEMMA PcKinds ==
  /\ Unended \subseteq PCs /\ Running \subseteq PCs
  /\ {"idle", "received", "prepared", "bootstrap", "finished", "failing"} \subseteq PCs
  /\ "idle" \notin Unended \cup Running
  /\ {"finished", "failing"} \cap Unended = {}
  /\ {"received", "prepared"} \subseteq Unended /\ Phases \subseteq Unended \cap Running
  /\ "received" \notin Running /\ {"prepared", "bootstrap", "finished", "failing"} \subseteq Running
  BY DEF Unended, Running, PCs, Phases

\* The queue with the part of TypeOK that is about it.
QueueOK ==
  /\ place \in [Messages -> Places]
  /\ holder \in [Messages -> Workers \cup {None}]
  /\ \A m \in Messages : place[m] = "locked" <=> holder[m] # None
  /\ deliveries \in [Messages -> 0..MaxDeliveries]
  /\ DeliveriesLeft

\* A message leaves its worker.
Released(m) == Unlock(m) \/ Settle(m, "completed") \/ Settle(m, "deadletter")

LEMMA ReleasedQueueOK ==
  ASSUME QueueOK, NEW m \in Messages, Released(m)
  PROVE  /\ QueueOK'
         /\ deliveries' = deliveries
         /\ holder'[m] = None
         /\ place'[m] \in {"queued", "completed", "deadletter"}
         /\ \A n \in Messages \ {m} : place'[n] = place[n] /\ holder'[n] = holder[n]
<1>1. PICK there \in {"queued", "completed", "deadletter"} :
        /\ there = "queued" => deliveries[m] < MaxDeliveries
        /\ place' = [place EXCEPT ![m] = there]
        /\ holder' = [holder EXCEPT ![m] = None]
        /\ deliveries' = deliveries
  BY DEF Released, Unlock, Settle
<1>2. place' \in [Messages -> Places] /\ holder' \in [Messages -> Workers \cup {None}]
  BY <1>1 DEF QueueOK, Places
<1>3. \A n \in Messages : place'[n] = "locked" <=> holder'[n] # None
  BY <1>1 DEF QueueOK
<1>4. DeliveriesLeft'
  BY <1>1 DEF QueueOK, DeliveriesLeft
<1> QED BY <1>1, <1>2, <1>3, <1>4 DEF QueueOK

\* A step of a worker on its message.
LEMMA WorkerStep ==
  ASSUME TypeInv, NEW w \in Workers, Work(w) \/ Crash(w)
  PROVE  /\ pc[w] # "idle" /\ msg[w] \in Messages
         /\ \A v \in Workers \ {w} : pc'[v] = pc[v] /\ msg'[v] = msg[v]
         /\ \/ pc'[w] = "idle" /\ msg'[w] = None
            \/ /\ msg'[w] = msg[w] /\ msg[w] \in Jobs /\ pc'[w] \in Running
               /\ pc'[w] \in Unended => pc[w] \in Unended
         /\ pc' \in [Workers -> PCs] /\ msg' \in [Workers -> Messages \cup {None}]
         /\ UNCHANGED queue \/ (Holds(w) /\ Released(msg[w]))
         /\ UNCHANGED <<row, lost>>
         /\ \/ UNCHANGED ended
            \/ /\ pc[w] \in Unended /\ pc'[w] = "finished" /\ msg[w] \in Jobs
               /\ ended' = [ended EXCEPT ![msg[w]] = @ + 1]
         /\ cloned' \in [Workers -> SUBSET Remote]
<1>1. pc[w] # "idle"
  BY DEF Work, Crash, CompleteInvalid, Prepare, PrepareFails, ResolveCredentials, RunPhase,
         PhaseFails, Complete, Fail, Phases
<1>2. msg[w] \in Messages
  BY <1>1 DEF TypeInv, TypeOK, WorkersHaveMessages
<1>3. /\ pc \in [Workers -> PCs] /\ msg \in [Workers -> Messages \cup {None}]
      /\ cloned \in [Workers -> SUBSET Remote]
      /\ pc[w] \in Running => msg[w] \in Jobs
  BY DEF TypeInv, TypeOK, WorkersHaveMessages
<1>4. ASSUME Idle(w)
      PROVE  /\ \A v \in Workers \ {w} : pc'[v] = pc[v] /\ msg'[v] = msg[v]
             /\ pc'[w] = "idle" /\ msg'[w] = None
             /\ pc' \in [Workers -> PCs] /\ msg' \in [Workers -> Messages \cup {None}]
  BY <1>3, <1>4, PcKinds DEF Idle
<1>5. ASSUME NEW there \in Running, GoTo(w, there)
      PROVE  /\ \A v \in Workers \ {w} : pc'[v] = pc[v] /\ msg'[v] = msg[v]
             /\ pc'[w] = there /\ msg'[w] = msg[w]
             /\ pc' \in [Workers -> PCs] /\ msg' \in [Workers -> Messages \cup {None}]
  BY <1>3, <1>5, PcKinds DEF GoTo
<1>6. ASSUME Throws(w)
      PROVE  Idle(w) /\ (UNCHANGED queue \/ (Holds(w) /\ Released(msg[w])))
  BY <1>6 DEF Throws, Released
<1>7. CASE CompleteInvalid(w)
  BY <1>1, <1>2, <1>3, <1>4, <1>6, <1>7 DEF CompleteInvalid, Released
<1>8. CASE PrepareFails(w)
  BY <1>1, <1>2, <1>3, <1>4, <1>6, <1>8 DEF PrepareFails
<1>9. CASE Fail(w)
  BY <1>1, <1>2, <1>3, <1>4, <1>6, <1>9 DEF Fail, Released
<1>10. CASE Crash(w)
  <2>1. cloned' \in [Workers -> SUBSET Remote]
    BY <1>3, <1>10 DEF Crash
  <2> QED BY <1>1, <1>2, <1>3, <1>4, <1>10, <2>1 DEF Crash
<1>11. CASE Prepare(w)
  <2>1. /\ pc[w] \in Unended /\ msg[w] \in Jobs /\ "prepared" \in Running
        /\ GoTo(w, "prepared") /\ UNCHANGED <<queue, row, lost, ended>>
    BY <1>11, PcKinds DEF Prepare
  <2>2. cloned' \in [Workers -> SUBSET Remote]
    BY <1>3, <1>11 DEF Prepare
  <2> QED BY <1>1, <1>2, <1>5, <2>1, <2>2
<1>12. CASE ResolveCredentials(w)
  <2>1. /\ pc[w] \in Unended \cap Running /\ "bootstrap" \in Running
        /\ GoTo(w, "bootstrap") /\ UNCHANGED <<queue, row, lost, ended, cloned>>
    BY <1>12, PcKinds DEF ResolveCredentials
  <2> QED BY <1>1, <1>2, <1>3, <1>5, <2>1
<1>13. CASE PhaseFails(w)
  <2>1. /\ pc[w] \in Unended \cap Running /\ "failing" \in Running
        /\ GoTo(w, "failing") /\ UNCHANGED <<queue, row, lost, ended, cloned>>
    BY <1>13, PcKinds DEF PhaseFails
  <2> QED BY <1>1, <1>2, <1>3, <1>5, <2>1
<1>14. CASE RunPhase(w)
  <2>1. pc[w] \in Unended \cap Running /\ NextPhase(w) \in Running
    BY <1>14, PcKinds DEF RunPhase, NextPhase, Running, Phases
  <2>2. /\ GoTo(w, NextPhase(w)) /\ UNCHANGED <<queue, row, lost, cloned>>
        /\ ended' = IF NextPhase(w) = "finished" THEN [ended EXCEPT ![msg[w]] = @ + 1] ELSE ended
    BY <1>14 DEF RunPhase, FinishPhase
  <2>3. /\ \A v \in Workers \ {w} : pc'[v] = pc[v] /\ msg'[v] = msg[v]
        /\ pc'[w] = NextPhase(w) /\ msg'[w] = msg[w]
        /\ pc' \in [Workers -> PCs] /\ msg' \in [Workers -> Messages \cup {None}]
    BY <1>5, <2>1, <2>2
  <2> QED BY <1>1, <1>2, <1>3, <2>1, <2>2, <2>3
<1>15. CASE Complete(w)
  <2>1. pc[w] \in Running /\ "failing" \in Running /\ "failing" \notin Unended
    BY <1>15, PcKinds DEF Complete
  <2>2. /\ Idle(w) \/ GoTo(w, "failing")
        /\ UNCHANGED queue \/ (Holds(w) /\ Released(msg[w]))
        /\ UNCHANGED <<row, lost, ended, cloned>>
    BY <1>15 DEF Complete, Released
  <2> QED BY <1>1, <1>2, <1>3, <1>4, <1>5, <2>1, <2>2
<1> QED
  BY <1>7, <1>8, <1>9, <1>10, <1>11, <1>12, <1>13, <1>14, <1>15 DEF Work

-----------------------------------------------------------------------------
(* Types.                                                                  *)

LEMMA InitTypeInv == Init => TypeInv
<1> SUFFICES ASSUME Init PROVE TypeInv
  OBVIOUS
<1>1. \A j \in Jobs : Pending(j) = {}
  BY PcKinds DEF Init, Pending
<1>2. RunsAreDeliveries
  <2>1. \A j \in Jobs : IsFiniteSet(Pending(j)) /\ Cardinality(Pending(j)) = 0
    BY <1>1, FS_EmptySet
  <2>2. \A j \in Jobs : ended[j] = 0 /\ deliveries[j] = 0
    BY DEF Init, Messages
  <2> QED BY <2>1, <2>2 DEF RunsAreDeliveries
<1>3. WorkersHaveMessages /\ DeliveriesLeft
  BY QueueAssumption, PcKinds DEF Init, WorkersHaveMessages, DeliveriesLeft
<1>4. /\ place \in [Messages -> Places] /\ holder \in [Messages -> Workers \cup {None}]
      /\ \A m \in Messages : place[m] = "locked" <=> holder[m] # None
  BY DEF Init, Places
<1>5. deliveries \in [Messages -> 0..MaxDeliveries] /\ ended \in [Jobs -> 0..MaxDeliveries]
  BY QueueAssumption DEF Init
<1>6. /\ pc \in [Workers -> PCs] /\ msg \in [Workers -> Messages \cup {None}]
      /\ cloned \in [Workers -> SUBSET Remote]
      /\ posts \subseteq Jobs \X {"bundle_ready", "job_completed"}
      /\ row \in [Jobs -> Active \cup Terminal] /\ lapsed \subseteq Messages /\ lost \subseteq Jobs
  BY PcKinds DEF Init, Active
<1> QED BY <1>2, <1>3, <1>4, <1>5, <1>6 DEF TypeInv, TypeOK

\* The parts of the type invariant, put together after a step.
LEMMA TypeInvParts ==
  ASSUME QueueOK', WorkersHaveMessages', RunsAreDeliveries',
         pc' \in [Workers -> PCs], msg' \in [Workers -> Messages \cup {None}],
         cloned' \in [Workers -> SUBSET Remote],
         posts' \subseteq Jobs \X {"bundle_ready", "job_completed"},
         row' \in [Jobs -> Active \cup Terminal], ended' \in [Jobs -> Nat],
         lapsed' \subseteq Messages, lost' \subseteq Jobs
  PROVE  TypeInv'
<1>1. ASSUME NEW j \in Jobs
      PROVE  ended'[j] \in 0..MaxDeliveries
  <2>1. deliveries'[j] \in 0..MaxDeliveries /\ MaxDeliveries \in Nat
    BY QueueAssumption DEF QueueOK, Messages
  <2>2. IsFiniteSet(Pending(j)') /\ ended'[j] + Cardinality(Pending(j)') <= deliveries'[j]
    BY DEF RunsAreDeliveries
  <2>3. Cardinality(Pending(j)') \in Nat
    BY <2>2, FS_CardinalityType
  <2> QED BY <2>1, <2>2, <2>3
<1>2. ended' \in [Jobs -> 0..MaxDeliveries]
  BY <1>1
<1> QED BY <1>2 DEF TypeInv, TypeOK, QueueOK

\* A step that adds nobody to the runs that have not ended, and ends at most the one
\* that it takes away.
LEMMA PendingStep ==
  ASSUME TypeInv, NEW j \in Jobs, Pending(j)' \subseteq Pending(j), deliveries'[j] = deliveries[j],
         \/ ended'[j] = ended[j]
         \/ \E w \in Pending(j) : w \notin Pending(j)' /\ ended'[j] = ended[j] + 1
  PROVE  IsFiniteSet(Pending(j)') /\ ended'[j] + Cardinality(Pending(j)') <= deliveries'[j]
<1>1. /\ IsFiniteSet(Pending(j)) /\ ended[j] + Cardinality(Pending(j)) <= deliveries[j]
      /\ ended[j] \in Nat /\ deliveries[j] \in Nat
  BY DEF TypeInv, TypeOK, RunsAreDeliveries, Messages
<1>2. /\ IsFiniteSet(Pending(j)') /\ Cardinality(Pending(j)') \in Nat /\ Cardinality(Pending(j)) \in Nat
      /\ Cardinality(Pending(j)') <= Cardinality(Pending(j))
  BY <1>1, FS_Subset, FS_CardinalityType
<1>3. CASE ended'[j] = ended[j]
  BY <1>1, <1>2, <1>3
<1>4. ASSUME NEW w \in Pending(j), w \notin Pending(j)', ended'[j] = ended[j] + 1
      PROVE  ended'[j] + Cardinality(Pending(j)') <= deliveries'[j]
  <2>1. /\ IsFiniteSet(Pending(j) \ {w})
        /\ Cardinality(Pending(j) \ {w}) = Cardinality(Pending(j)) - 1
    BY <1>1, <1>4, FS_RemoveElement
  <2>2. Pending(j)' \subseteq Pending(j) \ {w}
    BY <1>4
  <2>3. Cardinality(Pending(j)') <= Cardinality(Pending(j)) - 1
    BY <2>1, <2>2, FS_Subset
  <2> QED BY <1>1, <1>2, <1>4, <2>3
<1> QED BY <1>2, <1>3, <1>4

LEMMA WorkerTypeInv ==
  ASSUME TypeInv, NEW w \in Workers, Work(w) \/ Crash(w)
  PROVE  TypeInv'
<1>1. QueueOK
  BY DEF TypeInv, TypeOK, QueueOK
<1>2. QueueOK' /\ deliveries' = deliveries
  <2>1. CASE UNCHANGED queue
    BY <1>1, <2>1 DEF QueueOK, DeliveriesLeft, queue
  <2>2. CASE Released(msg[w])
    BY <1>1, <2>2, WorkerStep, ReleasedQueueOK
  <2> QED BY <2>1, <2>2, WorkerStep
<1>3. WorkersHaveMessages'
  <2>1. msg[w] # None
    BY QueueAssumption, WorkerStep DEF Messages
  <2> QED BY <2>1, WorkerStep, PcKinds DEF TypeInv, WorkersHaveMessages
<1>4. ended' \in [Jobs -> Nat]
  <2>1. ended \in [Jobs -> Nat]
    BY DEF TypeInv, TypeOK
  <2> QED BY <2>1, WorkerStep
<1>5. ASSUME NEW j \in Jobs
      PROVE  IsFiniteSet(Pending(j)') /\ ended'[j] + Cardinality(Pending(j)') <= deliveries'[j]
  <2>1. None \notin Jobs /\ "finished" \notin Unended
    BY QueueAssumption, PcKinds DEF Messages
  <2>2. Pending(j)' \subseteq Pending(j)
    BY <2>1, WorkerStep DEF Pending
  <2>3. \/ ended'[j] = ended[j]
        \/ \E v \in Pending(j) : v \notin Pending(j)' /\ ended'[j] = ended[j] + 1
    <3>1. ended \in [Jobs -> Nat]
      BY DEF TypeInv, TypeOK
    <3>2. CASE UNCHANGED ended
      BY <3>2
    <3>3. CASE /\ pc[w] \in Unended /\ pc'[w] = "finished" /\ msg[w] \in Jobs
               /\ ended' = [ended EXCEPT ![msg[w]] = @ + 1]
      <4>1. CASE msg[w] = j
        BY <2>1, <3>1, <3>3, <4>1 DEF Pending
      <4>2. CASE msg[w] # j
        BY <3>1, <3>3, <4>2
      <4> QED BY <4>1, <4>2
    <3> QED BY <3>2, <3>3, WorkerStep
  <2> QED BY <1>2, <2>2, <2>3, PendingStep
<1>6. RunsAreDeliveries'
  BY <1>5 DEF RunsAreDeliveries
<1>7. lapsed' \subseteq Messages
  <2>1. msg[w] \in Messages /\ lapsed \subseteq Messages
    BY WorkerStep DEF TypeInv, TypeOK
  <2> QED
    BY <2>1 DEF Work, Crash, CompleteInvalid, Throws, Prepare, PrepareFails, ResolveCredentials,
                RunPhase, PhaseFails, Complete, Fail
<1>8. posts' \subseteq Jobs \X {"bundle_ready", "job_completed"}
  <2>1. posts \subseteq Jobs \X {"bundle_ready", "job_completed"}
    BY DEF TypeInv, TypeOK
  <2>2. CASE RunPhase(w)
    <3>1. msg[w] \in Jobs
      BY <2>2, PcKinds DEF RunPhase, TypeInv, WorkersHaveMessages
    <3>2. \E types \in SUBSET {"bundle_ready", "job_completed"} :
            posts' = posts \cup ({msg[w]} \X types)
      BY <2>2 DEF RunPhase, FinishPhase, Post
    <3> QED BY <2>1, <3>1, <3>2
  <2>3. CASE UNCHANGED posts
    BY <2>1, <2>3
  <2> QED
    BY <2>2, <2>3 DEF Work, Crash, CompleteInvalid, Prepare, PrepareFails, ResolveCredentials,
                      PhaseFails, Complete, Fail
<1>9. /\ pc' \in [Workers -> PCs] /\ msg' \in [Workers -> Messages \cup {None}]
      /\ cloned' \in [Workers -> SUBSET Remote]
      /\ row' \in [Jobs -> Active \cup Terminal] /\ lost' \subseteq Jobs
  BY WorkerStep DEF TypeInv, TypeOK
<1> QED BY <1>2, <1>3, <1>4, <1>6, <1>7, <1>8, <1>9, TypeInvParts

LEMMA LapseTypeInv ==
  ASSUME TypeInv, NEW m \in Messages, LockLapses(m)
  PROVE  TypeInv'
<1>1. QueueOK
  BY DEF TypeInv, TypeOK, QueueOK
<1>2. QueueOK' /\ deliveries' = deliveries
  BY <1>1, ReleasedQueueOK DEF LockLapses, Released
<1>3. WorkersHaveMessages' /\ RunsAreDeliveries'
  BY <1>2 DEF LockLapses, worker, TypeInv, WorkersHaveMessages, RunsAreDeliveries, Pending
<1>4. ended' \in [Jobs -> Nat] /\ lapsed' \subseteq Messages
  BY DEF LockLapses, TypeInv, TypeOK
<1> QED BY <1>2, <1>3, <1>4, TypeInvParts DEF LockLapses, worker, TypeInv, TypeOK

LEMMA ReceiveTypeInv ==
  ASSUME TypeInv, NEW w \in Workers, NEW m \in Messages, Receive(w, m)
  PROVE  TypeInv'
<1>1. /\ pc[w] = "idle" /\ msg[w] = None /\ w \notin Pending(m)
      /\ deliveries[m] \in Nat /\ deliveries[m] < MaxDeliveries
  BY PcKinds DEF Receive, TypeInv, TypeOK, WorkersHaveMessages, DeliveriesLeft, Pending
<1>2. QueueOK'
  <2>1. place' \in [Messages -> Places] /\ holder' \in [Messages -> Workers \cup {None}]
    BY DEF Receive, TypeInv, TypeOK, Places
  <2>2. \A n \in Messages : place'[n] = "locked" <=> holder'[n] # None
    BY QueueAssumption DEF Receive, TypeInv, TypeOK
  <2>3. ASSUME NEW n \in Messages
        PROVE  deliveries'[n] \in 0..MaxDeliveries
    BY <1>1, QueueAssumption DEF Receive, TypeInv, TypeOK
  <2>4. deliveries' \in [Messages -> 0..MaxDeliveries]
    BY <2>3 DEF Receive, TypeInv, TypeOK
  <2>5. DeliveriesLeft'
    BY DEF Receive, TypeInv, TypeOK, DeliveriesLeft
  <2> QED BY <2>1, <2>2, <2>4, <2>5 DEF QueueOK
<1>3. WorkersHaveMessages'
  <2>1. m # None
    BY QueueAssumption DEF Messages
  <2> QED BY <2>1, PcKinds DEF Receive, TypeInv, TypeOK, WorkersHaveMessages
<1>4. ASSUME NEW j \in Jobs
      PROVE  IsFiniteSet(Pending(j)') /\ ended'[j] + Cardinality(Pending(j)') <= deliveries'[j]
  <2>1. /\ IsFiniteSet(Pending(j)) /\ ended[j] + Cardinality(Pending(j)) <= deliveries[j]
        /\ ended[j] \in Nat /\ deliveries[j] \in Nat /\ Cardinality(Pending(j)) \in Nat
    BY FS_CardinalityType DEF TypeInv, TypeOK, RunsAreDeliveries, Messages
  <2>2. CASE j = m
    <3>1. Pending(j)' = Pending(j) \cup {w}
      BY <1>1, <2>2, PcKinds DEF Receive, Pending, TypeInv, TypeOK
    <3>2. /\ IsFiniteSet(Pending(j) \cup {w})
          /\ Cardinality(Pending(j) \cup {w}) = Cardinality(Pending(j)) + 1
      BY <1>1, <2>1, <2>2, FS_AddElement
    <3>3. ended'[j] = ended[j] /\ deliveries'[j] = deliveries[j] + 1
      BY <2>2 DEF Receive, TypeInv, TypeOK
    <3> QED BY <2>1, <3>1, <3>2, <3>3
  <2>3. CASE j # m
    <3>1. Pending(j)' = Pending(j)
      BY <1>1, <2>3, PcKinds DEF Receive, Pending, TypeInv, TypeOK
    <3>2. ended'[j] = ended[j] /\ deliveries'[j] = deliveries[j]
      BY <2>3 DEF Receive, TypeInv, TypeOK, Messages
    <3> QED BY <2>1, <3>1, <3>2
  <2> QED BY <2>2, <2>3
<1>5. RunsAreDeliveries'
  BY <1>4 DEF RunsAreDeliveries
<1>6. pc' \in [Workers -> PCs] /\ msg' \in [Workers -> Messages \cup {None}]
  BY PcKinds DEF Receive, TypeInv, TypeOK
<1>7. ended' \in [Jobs -> Nat]
  BY DEF Receive, TypeInv, TypeOK
<1> QED BY <1>2, <1>3, <1>5, <1>6, <1>7, TypeInvParts DEF Receive, TypeInv, TypeOK

\* The steps of the API, which leave the workers and the deliveries alone.
LEMMA ApiTypeInv ==
  ASSUME TypeInv,
         \/ \E p \in posts : Arrive(p) \/ Lose(p)
         \/ \E m \in Cancels : Cancel(m)
         \/ UNCHANGED vars
  PROVE  TypeInv'
<1>1. UNCHANGED <<holder, deliveries, worker, ended, lapsed>>
  BY DEF Arrive, Lose, Cancel, vars, queue
<1>2. QueueOK'
  <2>1. CASE UNCHANGED place
    BY <1>1, <2>1 DEF QueueOK, DeliveriesLeft, TypeInv, TypeOK
  <2>2. ASSUME NEW m \in Cancels, Cancel(m)
        PROVE  QueueOK'
    <3>1. m \in Messages /\ place[m] = "absent" /\ deliveries[m] = 0 /\ MaxDeliveries > 0
      BY <2>2, QueueAssumption DEF Cancel, TypeInv, DeliveriesLeft, Messages
    <3>2. place' \in [Messages -> Places] /\ place' = [place EXCEPT ![m] = "queued"]
      BY <2>2, <3>1 DEF Cancel, TypeInv, TypeOK, Places
    <3>3. \A n \in Messages : place'[n] = "locked" <=> holder'[n] # None
      BY <1>1, <3>1, <3>2 DEF TypeInv, TypeOK
    <3>4. DeliveriesLeft'
      BY <1>1, <3>1, <3>2 DEF TypeInv, TypeOK, DeliveriesLeft
    <3> QED BY <1>1, <3>2, <3>3, <3>4 DEF QueueOK, TypeInv, TypeOK
  <2> QED BY <2>1, <2>2 DEF Arrive, Lose, vars, queue
<1>3. WorkersHaveMessages' /\ RunsAreDeliveries'
  BY <1>1 DEF worker, TypeInv, WorkersHaveMessages, RunsAreDeliveries, Pending
<1>4. row' \in [Jobs -> Active \cup Terminal]
  BY DEF Arrive, Lose, Cancel, vars, TypeInv, TypeOK, Terminal
<1>5. posts' \subseteq Jobs \X {"bundle_ready", "job_completed"} /\ lost' \subseteq Jobs
  BY DEF Arrive, Lose, Cancel, vars, TypeInv, TypeOK
<1>6. ended' \in [Jobs -> Nat]
  BY <1>1 DEF TypeInv, TypeOK
<1> QED BY <1>1, <1>2, <1>3, <1>4, <1>5, <1>6, TypeInvParts DEF worker, TypeInv, TypeOK

\* Who makes a step: a worker, the queue, or the API.
LEMMA Steps ==
  ASSUME [Next]_vars
  PROVE  \/ \E w \in Workers : Work(w) \/ Crash(w)
         \/ \E w \in Workers, m \in Messages : Receive(w, m)
         \/ \E m \in Messages : LockLapses(m)
         \/ \E p \in posts : Arrive(p) \/ Lose(p)
         \/ \E m \in Cancels : Cancel(m)
         \/ UNCHANGED vars
  BY DEF Next

LEMMA TypeInvAlways == Spec => []TypeInv
<1>1. TypeInv /\ [Next]_vars => TypeInv'
  BY Steps, WorkerTypeInv, LapseTypeInv, ReceiveTypeInv, ApiTypeInv
<1> QED BY <1>1, InitTypeInv, PTL DEF Spec

\* The variables of the queue, its workers and the API have their types in every
\* reachable state, and a message is locked exactly while some worker holds it: the
\* number of runs that end well stays within the deliveries the queue makes.
THEOREM TypeCorrect == Spec => []TypeOK
<1>1. TypeInv => TypeOK
  BY DEF TypeInv
<1> QED BY <1>1, TypeInvAlways, PTL

-----------------------------------------------------------------------------
(* Acknowledgements.                                                       *)

\* Nothing says that a job was done before a run of it ended well: neither its message
\* and its row, nor an event on its way, nor a worker about to complete the message.
AckInv ==
  /\ AckedAfterOutcome
  /\ \A j \in Jobs : <<j, "job_completed">> \in posts => ended[j] > 0
  /\ \A w \in Workers : pc[w] = "finished" => ended[msg[w]] > 0

\* A worker completes the message of a job only when its run is finished, and says that
\* it is only in the step that ends it.
LEMMA WorkerAcks ==
  ASSUME TypeInv, NEW w \in Workers, Work(w) \/ Crash(w), NEW j \in Jobs
  PROVE  /\ ended[j] \in Nat /\ ended'[j] \in Nat /\ ended'[j] >= ended[j]
         /\ place'[j] = "completed" => place[j] = "completed" \/ (pc[w] = "finished" /\ msg[w] = j)
         /\ <<j, "job_completed">> \in posts' => <<j, "job_completed">> \in posts \/ ended'[j] > 0
         /\ pc'[w] = "finished" /\ msg'[w] = j => ended'[j] > 0
<1>1. /\ ended \in [Jobs -> Nat] /\ msg[w] \in Messages /\ j \in Messages
      /\ pc \in [Workers -> PCs] /\ place \in [Messages -> Places]
  BY WorkerStep DEF TypeInv, TypeOK, Messages
<1>2. ended'[j] \in Nat /\ ended'[j] >= ended[j]
  <2>1. CASE UNCHANGED ended
    BY <1>1, <2>1
  <2>2. CASE ended' = [ended EXCEPT ![msg[w]] = @ + 1]
    BY <1>1, <2>2
  <2> QED BY <2>1, <2>2, WorkerStep
<1>3. ASSUME Throws(w)
      PROVE  place'[j] = "completed" => place[j] = "completed"
  BY <1>1, <1>3 DEF Throws, Unlock, queue
<1>4. place'[j] = "completed" => place[j] = "completed" \/ (pc[w] = "finished" /\ msg[w] = j)
  <2>1. CASE CompleteInvalid(w)
    BY <1>1, <1>3, <2>1, QueueAssumption DEF CompleteInvalid, Settle
  <2>2. CASE PrepareFails(w)
    BY <1>3, <2>2 DEF PrepareFails
  <2>3. CASE Complete(w)
    BY <1>1, <2>3 DEF Complete, Settle, queue
  <2>4. CASE Fail(w)
    BY <1>1, <1>3, <2>4 DEF Fail, Unlock, Settle
  <2>5. CASE UNCHANGED queue
    BY <2>5 DEF queue
  <2> QED
    BY <2>1, <2>2, <2>3, <2>4, <2>5
    DEF Work, Crash, Prepare, ResolveCredentials, RunPhase, PhaseFails
<1>5. CASE RunPhase(w)
  <2>1. /\ ended' = IF NextPhase(w) = "finished" THEN [ended EXCEPT ![msg[w]] = @ + 1] ELSE ended
        /\ pc' = [pc EXCEPT ![w] = NextPhase(w)] /\ msg' = msg
    BY <1>5 DEF RunPhase, FinishPhase, GoTo
  <2>2. <<j, "job_completed">> \in posts' =>
          <<j, "job_completed">> \in posts \/ (NextPhase(w) = "finished" /\ msg[w] = j)
    BY <1>5 DEF RunPhase, FinishPhase, Post
  <2>3. NextPhase(w) = "finished" /\ msg[w] = j => ended'[j] > 0
    BY <1>1, <2>1
  <2>4. pc'[w] = NextPhase(w) /\ msg'[w] = msg[w]
    BY <1>1, <2>1
  <2> QED BY <1>1, <1>2, <1>4, <2>2, <2>3, <2>4
<1>6. CASE ~RunPhase(w)
  <2>1. posts' = posts /\ pc'[w] # "finished"
    BY <1>1, <1>6 DEF Work, Crash, CompleteInvalid, Throws, Idle, GoTo, Prepare, PrepareFails,
                      ResolveCredentials, PhaseFails, Complete, Fail
  <2> QED BY <1>1, <1>2, <1>4, <2>1
<1> QED BY <1>5, <1>6

LEMMA WorkerAckInv ==
  ASSUME TypeInv, AckInv, NEW w \in Workers, Work(w) \/ Crash(w)
  PROVE  AckInv'
<1>1. ASSUME NEW j \in Jobs
      PROVE  /\ place'[j] = "completed" \/ row'[j] = "completed" => ended'[j] > 0
             /\ <<j, "job_completed">> \in posts' => ended'[j] > 0
  <2>1. row' = row
    BY WorkerStep
  <2>2. ended[j] \in Nat /\ ended'[j] \in Nat /\ ended'[j] >= ended[j]
    BY WorkerAcks
  <2>3. ended[j] > 0 => ended'[j] > 0
    BY <2>2
  <2>4. /\ place'[j] = "completed" => place[j] = "completed" \/ (pc[w] = "finished" /\ msg[w] = j)
        /\ <<j, "job_completed">> \in posts' => <<j, "job_completed">> \in posts \/ ended'[j] > 0
    BY WorkerAcks
  <2> QED BY <2>1, <2>3, <2>4 DEF AckInv, AckedAfterOutcome
<1>2. ASSUME NEW v \in Workers, pc'[v] = "finished"
      PROVE  ended'[msg'[v]] > 0
  <2>1. CASE v = w
    <3>1. msg'[w] \in Jobs
      BY <1>2, <2>1, WorkerStep, PcKinds
    <3> QED BY <1>2, <2>1, <3>1, WorkerAcks
  <2>2. CASE v # w
    <3>1. pc[v] = "finished" /\ msg'[v] = msg[v]
      BY <1>2, <2>2, WorkerStep
    <3>2. msg[v] \in Jobs
      BY <3>1, PcKinds DEF TypeInv, WorkersHaveMessages
    <3>3. ended[msg[v]] > 0
      BY <3>1 DEF AckInv
    <3>4. ended[msg[v]] \in Nat /\ ended'[msg[v]] \in Nat /\ ended'[msg[v]] >= ended[msg[v]]
      BY <3>2, WorkerAcks
    <3> QED BY <3>1, <3>3, <3>4
  <2> QED BY <2>1, <2>2
<1> QED BY <1>1, <1>2 DEF AckInv, AckedAfterOutcome

LEMMA OtherAckInv ==
  ASSUME TypeInv, AckInv,
         \/ \E w \in Workers, m \in Messages : Receive(w, m)
         \/ \E m \in Messages : LockLapses(m)
         \/ \E p \in posts : Arrive(p) \/ Lose(p)
         \/ \E m \in Cancels : Cancel(m)
         \/ UNCHANGED vars
  PROVE  AckInv'
<1>1. ended' = ended /\ posts' \subseteq posts
  BY DEF Receive, LockLapses, Arrive, Lose, Cancel, vars
<1>2. ASSUME NEW j \in Jobs
      PROVE  place'[j] = "completed" => place[j] = "completed"
  BY QueueAssumption DEF Receive, LockLapses, Unlock, Arrive, Lose, Cancel, vars, queue, TypeInv, TypeOK, Messages
<1>3. ASSUME NEW j \in Jobs
      PROVE  row'[j] = "completed" => row[j] = "completed" \/ <<j, "job_completed">> \in posts
  <2>1. ASSUME NEW p \in posts, Arrive(p)
        PROVE  row'[j] = "completed" => row[j] = "completed" \/ <<j, "job_completed">> \in posts
    <3>1. p = <<p[1], p[2]>>
      BY DEF TypeInv, TypeOK
    <3> QED BY <2>1, <3>1 DEF Arrive, TypeInv, TypeOK
  <2>2. ASSUME NEW m \in Cancels, Cancel(m)
        PROVE  row'[j] = "completed" => row[j] = "completed"
    BY <2>2 DEF Cancel, TypeInv, TypeOK
  <2>3. CASE UNCHANGED row
    BY <2>3
  <2> QED BY <2>1, <2>2, <2>3 DEF Receive, LockLapses, Lose, vars
<1>4. ASSUME NEW v \in Workers, pc'[v] = "finished"
      PROVE  pc[v] = "finished" /\ msg'[v] = msg[v]
  BY <1>4 DEF Receive, LockLapses, Arrive, Lose, Cancel, worker, vars, TypeInv, TypeOK
<1> QED BY <1>1, <1>2, <1>3, <1>4 DEF AckInv, AckedAfterOutcome

\* However often runs fail, workers crash, locks lapse and messages are delivered again,
\* a job message is completed and a row turns completed only after a run of the job.
THEOREM AcksFollowOutcomes == Spec => []AckedAfterOutcome
<1>1. Init => AckInv
  BY QueueAssumption DEF Init, AckInv, AckedAfterOutcome, Messages
<1>2. TypeInv /\ AckInv /\ [Next]_vars => AckInv'
  BY Steps, WorkerAckInv, OtherAckInv
<1>3. AckInv => AckedAfterOutcome
  BY DEF AckInv
<1> QED BY <1>1, <1>2, <1>3, TypeInvAlways, PTL DEF Spec

-----------------------------------------------------------------------------
(* Outcomes.                                                               *)

\* While the queue has lost no lock on j and no settlement of it, one worker at most has
\* it, the one that holds the lock, and j is open for another run only while none ended.
SingleRun(j) ==
  /\ ended[j] \in {0, 1}
  /\ place[j] = "queued" => ended[j] = 0
  /\ \A w \in Workers :
       msg[w] = j => /\ holder[j] = w
                     /\ pc[w] \in Unended \cup {"failing"} => ended[j] = 0

LapseInv == \A j \in Jobs : j \notin lapsed => SingleRun(j)

\* A worker's step on another message.
LEMMA StepElsewhere ==
  ASSUME TypeInv, NEW w \in Workers, Work(w) \/ Crash(w),
         NEW j \in Jobs, SingleRun(j), msg[w] # j
  PROVE  SingleRun(j)'
<1>1. /\ ended \in [Jobs -> Nat] /\ place \in [Messages -> Places] /\ j \in Messages
      /\ msg[w] \in Messages /\ holder \in [Messages -> Workers \cup {None}]
  BY WorkerStep DEF TypeInv, TypeOK, Messages
<1>2. ended'[j] = ended[j]
  <2>1. CASE UNCHANGED ended
    BY <2>1
  <2>2. CASE ended' = [ended EXCEPT ![msg[w]] = @ + 1]
    BY <1>1, <2>2
  <2> QED BY <2>1, <2>2, WorkerStep
<1>3. place'[j] = place[j] /\ holder'[j] = holder[j]
  <2>1. CASE UNCHANGED queue
    BY <2>1 DEF queue
  <2>2. CASE Released(msg[w])
    BY <1>1, <2>2, ReleasedQueueOK DEF QueueOK, TypeInv, TypeOK
  <2> QED BY <2>1, <2>2, WorkerStep
<1>4. \A v \in Workers : msg'[v] = j => msg[v] = j /\ pc'[v] = pc[v]
  <2>1. msg'[w] # j
    BY QueueAssumption, WorkerStep DEF Messages
  <2> QED BY <2>1, WorkerStep
<1> QED BY <1>2, <1>3, <1>4 DEF SingleRun

\* A worker's step on j: the worker is the only one on j, and if it gives j back to the
\* queue the run has not ended, or the lock or the settlement was lost.
LEMMA StepOnIt ==
  ASSUME TypeInv, NEW w \in Workers, Work(w) \/ Crash(w),
         NEW j \in Jobs, SingleRun(j), msg[w] = j, j \notin lapsed'
  PROVE  SingleRun(j)'
<1>1. /\ ended \in [Jobs -> Nat] /\ place \in [Messages -> Places] /\ j \in Messages
      /\ holder \in [Messages -> Workers \cup {None}] /\ holder[j] = w /\ place[j] = "locked"
      /\ pc \in [Workers -> PCs] /\ msg \in [Workers -> Messages \cup {None}] /\ None # j
      /\ \A v \in Workers \ {w} : msg[v] # j
      /\ j \notin Cancels
  BY QueueAssumption DEF TypeInv, TypeOK, SingleRun, Messages
<1>2. \A v \in Workers : msg'[v] = j => v = w
  BY <1>1, WorkerStep
<1>3. ASSUME Idle(w), ended' = ended, place'[j] = "queued" => ended[j] = 0
      PROVE  SingleRun(j)'
  <2>1. msg'[w] # j
    BY <1>1, <1>3 DEF Idle
  <2> QED BY <1>2, <1>3, <2>1 DEF SingleRun
<1>4. ASSUME Throws(w)
      PROVE  Idle(w)
  BY <1>4 DEF Throws
<1>5. ~CompleteInvalid(w)
  BY <1>1 DEF CompleteInvalid
<1>6. CASE Prepare(w) \/ ResolveCredentials(w) \/ PhaseFails(w)
  <2>1. /\ pc[w] \in Unended /\ UNCHANGED <<queue, ended>>
    BY <1>6, PcKinds DEF Prepare, ResolveCredentials, PhaseFails
  <2>2. ended[j] = 0
    BY <2>1 DEF SingleRun
  <2> QED BY <1>1, <1>2, <2>1, <2>2 DEF SingleRun, queue
<1>7. CASE PrepareFails(w)
  <2>1. pc[w] \in Unended /\ Idle(w) /\ ended' = ended
    BY <1>4, <1>7, PcKinds DEF PrepareFails
  <2>2. ended[j] = 0
    BY <2>1 DEF SingleRun
  <2> QED BY <1>3, <2>1, <2>2
<1>8. CASE RunPhase(w)
  <2>1. /\ pc[w] \in Unended /\ UNCHANGED queue
        /\ ended' = IF NextPhase(w) = "finished" THEN [ended EXCEPT ![j] = @ + 1] ELSE ended
        /\ pc'[w] = NextPhase(w) /\ NextPhase(w) # "failing"
    BY <1>1, <1>8, PcKinds DEF RunPhase, FinishPhase, GoTo, NextPhase
  <2>2. ended[j] = 0
    BY <2>1 DEF SingleRun
  <2>3. CASE NextPhase(w) = "finished"
    <3>1. ended'[j] = 1 /\ pc'[w] \notin Unended \cup {"failing"}
      BY <1>1, <2>1, <2>2, <2>3, PcKinds
    <3> QED BY <1>1, <1>2, <2>1, <3>1 DEF SingleRun, queue
  <2>4. CASE NextPhase(w) # "finished"
    BY <1>1, <1>2, <2>1, <2>2, <2>4 DEF SingleRun, queue
  <2> QED BY <2>3, <2>4
<1>9. CASE Complete(w)
  <2>1. Idle(w) /\ ended' = ended /\ place'[j] = "completed"
    BY <1>1, <1>9 DEF Complete, Settle
  <2> QED BY <1>3, <2>1
<1>10. CASE Fail(w)
  <2>1. pc[w] = "failing" /\ Idle(w) /\ ended' = ended
    BY <1>4, <1>10 DEF Fail
  <2>2. ended[j] = 0
    BY <2>1 DEF SingleRun
  <2> QED BY <1>3, <2>1, <2>2
<1>11. CASE Crash(w)
  <2>1. Idle(w) /\ ended' = ended /\ place' = place
    BY <1>11 DEF Crash, queue
  <2> QED BY <1>1, <1>3, <2>1
<1> QED
  BY <1>5, <1>6, <1>7, <1>8, <1>9, <1>10, <1>11 DEF Work

LEMMA WorkerLapseInv ==
  ASSUME TypeInv, LapseInv, NEW w \in Workers, Work(w) \/ Crash(w)
  PROVE  LapseInv'
<1>1. lapsed \subseteq lapsed'
  BY DEF Work, Crash, CompleteInvalid, Throws, Prepare, PrepareFails, ResolveCredentials,
         RunPhase, PhaseFails, Complete, Fail
<1>2. ASSUME NEW j \in Jobs, j \notin lapsed'
      PROVE  SingleRun(j)'
  <2>1. SingleRun(j)
    BY <1>1, <1>2 DEF LapseInv
  <2> QED BY <1>2, <2>1, StepElsewhere, StepOnIt
<1> QED BY <1>2 DEF LapseInv

LEMMA OtherLapseInv ==
  ASSUME TypeInv, LapseInv,
         \/ \E w \in Workers, m \in Messages : Receive(w, m)
         \/ \E m \in Messages : LockLapses(m)
         \/ \E p \in posts : Arrive(p) \/ Lose(p)
         \/ \E m \in Cancels : Cancel(m)
         \/ UNCHANGED vars
  PROVE  LapseInv'
<1> SUFFICES ASSUME NEW j \in Jobs, j \notin lapsed'
             PROVE  SingleRun(j)'
  BY DEF LapseInv
<1>1. /\ j \in Messages /\ j # None /\ j \notin Cancels /\ None \notin Workers
      /\ place \in [Messages -> Places] /\ holder \in [Messages -> Workers \cup {None}]
      /\ pc \in [Workers -> PCs] /\ msg \in [Workers -> Messages \cup {None}]
      /\ place[j] = "locked" <=> holder[j] # None
  BY QueueAssumption DEF TypeInv, TypeOK, Messages
<1>2. lapsed \subseteq lapsed' /\ ended' = ended
  BY DEF Receive, LockLapses, Arrive, Lose, Cancel, vars
<1>3. SingleRun(j)
  BY <1>2 DEF LapseInv
<1>4. ASSUME NEW w \in Workers, NEW m \in Messages, Receive(w, m)
      PROVE  SingleRun(j)'
  <2>1. CASE m = j
    <3>1. place[j] = "queued" /\ ended[j] = 0
      BY <1>3, <1>4, <2>1 DEF Receive, SingleRun
    <3>2. \A v \in Workers : msg[v] # j
      BY <1>1, <1>3, <3>1 DEF SingleRun
    <3>3. /\ place'[j] = "locked" /\ holder'[j] = w
          /\ \A v \in Workers : msg'[v] = j => v = w
      BY <1>1, <1>4, <2>1, <3>2 DEF Receive
    <3> QED BY <1>2, <3>1, <3>3 DEF SingleRun
  <2>2. CASE m # j
    <3>1. place'[j] = place[j] /\ holder'[j] = holder[j]
      BY <1>1, <1>4, <2>2 DEF Receive
    <3>2. \A v \in Workers : msg'[v] = j => msg[v] = j /\ pc'[v] = pc[v]
      BY <1>1, <1>4, <2>2 DEF Receive
    <3> QED BY <1>2, <1>3, <3>1, <3>2 DEF SingleRun
  <2> QED BY <2>1, <2>2
<1>5. ASSUME NEW m \in Messages, LockLapses(m)
      PROVE  SingleRun(j)'
  <2>1. m # j /\ UNCHANGED worker
    BY <1>5 DEF LockLapses
  <2>2. place'[j] = place[j] /\ holder'[j] = holder[j]
    BY <1>1, <1>5, <2>1 DEF LockLapses, Unlock
  <2> QED BY <1>2, <1>3, <2>1, <2>2 DEF SingleRun, worker
<1>6. ASSUME \/ \E p \in posts : Arrive(p) \/ Lose(p)
             \/ \E m \in Cancels : Cancel(m)
             \/ UNCHANGED vars
      PROVE  SingleRun(j)'
  <2>1. place'[j] = place[j] /\ UNCHANGED <<holder, worker>>
    BY <1>1, <1>6 DEF Arrive, Lose, Cancel, vars, queue
  <2> QED BY <1>2, <1>3, <2>1 DEF SingleRun, worker
<1> QED BY <1>4, <1>5, <1>6

\* Whatever crashes, failures and redeliveries there are, a job ends well twice only if
\* a lock on its message, or a settlement of it, was lost: the peek lock is what stands
\* between a job and its second outcome.
THEOREM LocksGuardOutcomes == Spec => []SecondOutcomeNeedsLapse
<1>1. Init => LapseInv
  BY QueueAssumption DEF Init, LapseInv, SingleRun, Messages
<1>2. TypeInv /\ LapseInv /\ [Next]_vars => LapseInv'
  BY Steps, WorkerLapseInv, OtherLapseInv
<1>3. LapseInv => SecondOutcomeNeedsLapse
  BY DEF LapseInv, SingleRun, SecondOutcomeNeedsLapse
<1> QED BY <1>1, <1>2, <1>3, TypeInvAlways, PTL DEF Spec
============================================================================
