-------------------------- MODULE JobServiceProofs --------------------------
(***************************************************************************)
(* Proofs about JobService for every set of organizations, jobs and        *)
(* requests and every limit.                                               *)
(***************************************************************************)
EXTENDS JobService, TLAPS, FiniteSetTheorems

\* AnyJob, the job named in idle and finished requests, is a job.
LEMMA AnyJobType == AnyJob \in Jobs
  BY JobsAssumption DEF AnyJob

LEMMA FinishedType == IdleRequest \in RequestStates /\ Finished \in RequestStates
  BY AnyJobType DEF IdleRequest, Finished, RequestStates, RequestPCs, Statuses

-----------------------------------------------------------------------------
(* Type correctness.                                                       *)

LEMMA InitType == Init => TypeOK
  BY FinishedType, LimitsAssumption
  DEF Init, TypeOK, Statuses, CreatePCs, RequestStates

LEMMA NextStatusType ==
  ASSUME TypeOK, NEW r \in Requests
  PROVE  /\ NextStatus(r) \in Statuses
         /\ NextStatus(r) # req[r].read => NextStatus(r) \in Terminal
  BY DEF TypeOK, NextStatus, RequestStates, Statuses, Terminal, WorkerEvents

LEMMA CompleteJobType ==
  ASSUME TypeOK, NEW j \in Jobs, CompleteJob(j)
  PROVE  /\ activeJobs' \in [Orgs -> 0..MaxConcurrentJobs]
         /\ released' \in [Jobs -> Nat]
  <1> DEFINE o == OrgOf[j]
  <1>1. /\ o \in Orgs
        /\ activeJobs[o] \in 0..MaxConcurrentJobs
        /\ MaxConcurrentJobs \in Nat
    BY JobsAssumption, LimitsAssumption DEF TypeOK
  <1>2. (IF activeJobs[o] = 0 THEN 0 ELSE activeJobs[o] - 1) \in 0..MaxConcurrentJobs
    BY <1>1
  <1>3. activeJobs' \in [Orgs -> 0..MaxConcurrentJobs]
    BY <1>1, <1>2 DEF TypeOK, CompleteJob
  <1>4. released' \in [Jobs -> Nat]
    BY DEF TypeOK, CompleteJob
  <1>5. QED
    BY <1>3, <1>4

LEMMA CreateType ==
  ASSUME TypeOK, NEW j \in Jobs, CreateAdmit(j) \/ CreateStep(j)
  PROVE  TypeOK'
  <1> USE JobsAssumption, LimitsAssumption DEF TypeOK, memory
  <1>1. CASE CreateAdmit(j)
    BY <1>1 DEF CreateAdmit, CreatePCs
  <1>2. CASE CreateCheck(j)
    BY <1>2 DEF CreateCheck, CreatePCs
  <1>7. CASE CreateReserve(j)
    BY <1>7 DEF CreateReserve, CreatePCs, OverLimit, TakeSlot
  <1>3. CASE CreateInsert(j)
    BY <1>3 DEF CreateInsert, CreatePCs, Statuses, Active
  <1>4. CASE CreateInsertFails(j)
    BY <1>4 DEF CreateInsertFails, CreatePCs, Statuses, Active
  <1>5. CASE CreateUndo(j)
    BY <1>5, CompleteJobType DEF CreateUndo, CreatePCs
  <1>6. CASE CreateEnqueue(j)
    BY <1>6 DEF CreateEnqueue, CreatePCs, Messages, WorkerEvents
  <1>8. QED
    BY <1>1, <1>2, <1>7, <1>3, <1>4, <1>5, <1>6 DEF CreateStep

LEMMA RequestType ==
  ASSUME TypeOK, NEW r \in Requests, RequestStep(r)
  PROVE  TypeOK'
  <1> USE FinishedType DEF TypeOK, memory
  <1>0. req[r] \in RequestStates /\ req[r].job \in Jobs
    BY DEF RequestStates
  <1>1. ASSUME NEW pc \in RequestPCs
        PROVE  [req EXCEPT ![r].pc = pc] \in [Requests -> RequestStates]
    BY DEF RequestStates
  <1>2. CASE EventPublish(r)
    <2>1. req[r].kind \in WorkerEvents
      BY <1>0, <1>2 DEF EventPublish, RequestStates
    <2>2. req' \in [Requests -> RequestStates]
      BY <1>1, <1>2 DEF EventPublish, Goto, RequestPCs
    <2>3. hub' \in [Jobs -> SUBSET WorkerEvents]
      BY <1>0, <1>2, <2>1 DEF EventPublish
    <2>4. agentRuns' \in [Orgs -> Nat]
      <3>1. OrgOf[req[r].job] \in Orgs /\ agentRuns[OrgOf[req[r].job]] + 1 \in Nat
        BY <1>0, JobsAssumption
      <3>2. QED
        BY <1>2, <3>1 DEF EventPublish
    <2>5. QED
      BY <1>2, <2>2, <2>3, <2>4 DEF EventPublish
  <1>3. ASSUME CommitStatus(r)
        PROVE  status' \in [Jobs -> Statuses]
    BY <1>0, <1>3, NextStatusType DEF CommitStatus
  <1>4. CASE Save(r)
    BY <1>1, <1>3, <1>4 DEF Save, RequestPCs
  <1>5. CASE SaveFails(r)
    BY <1>5 DEF SaveFails, Finish
  <1>6. CASE SaveAborts(r)
    BY <1>1, <1>3, <1>6 DEF SaveAborts, Finish, RequestPCs
  <1>7. CASE Release(r)
    <2>1. hub' \in [Jobs -> SUBSET WorkerEvents]
      BY <1>0, <1>7 DEF Release, WorkerEvents
    <2>2. QED
      BY <1>0, <1>1, <1>7, <2>1, CompleteJobType DEF Release, Goto, RequestPCs
  <1>8. CASE CancelEnqueue(r)
    BY <1>0, <1>8 DEF CancelEnqueue, Finish, Messages
  <1>9. CASE EventPersist(r)
    BY <1>0, <1>9 DEF EventPersist, Finish, RequestStates
  <1>10. QED
    BY <1>2, <1>4, <1>5, <1>6, <1>7, <1>8, <1>9 DEF RequestStep

LEMMA LoadType ==
  ASSUME TypeOK, NEW r \in Requests, NEW j \in Jobs, NEW k \in WorkerEvents,
         CancelLoad(r, j) \/ EventLoad(r, j, k)
  PROVE  TypeOK'
  BY FinishedType
  DEF TypeOK, memory, CancelLoad, EventLoad, Finish, Loaded, RequestStates, RequestPCs

LEMMA NextType == TypeOK /\ [Next]_vars => TypeOK'
  <1> SUFFICES ASSUME TypeOK, [Next]_vars PROVE TypeOK'
    OBVIOUS
  <1>1. ASSUME NEW j \in Jobs, CreateAdmit(j) \/ CreateStep(j) PROVE TypeOK'
    BY <1>1, CreateType
  <1>2. ASSUME NEW r \in Requests, NEW j \in Jobs, CancelLoad(r, j) PROVE TypeOK'
    BY <1>2, LoadType DEF WorkerEvents
  <1>3. ASSUME NEW r \in Requests, NEW j \in Jobs, NEW k \in WorkerEvents,
               EventLoad(r, j, k)
        PROVE TypeOK'
    BY <1>3, LoadType
  <1>4. ASSUME NEW r \in Requests, RequestStep(r) PROVE TypeOK'
    BY <1>4, RequestType
  <1>5. ASSUME NEW o \in Orgs, WindowEnds(o) PROVE TypeOK'
    BY <1>5 DEF TypeOK, WindowEnds
  <1>6. CASE Restart
    BY <1>6, FinishedType, LimitsAssumption DEF TypeOK, Restart, CreatePCs
  <1>7. CASE UNCHANGED vars
    BY <1>7 DEF TypeOK, vars
  <1>8. QED
    BY <1>1, <1>2, <1>3, <1>4, <1>5, <1>6, <1>7 DEF Next

\* JobService is type correct; in particular the limiter's counter never leaves
\* 0..MaxConcurrentJobs, whatever is released and however often.
THEOREM TypeCorrect == Spec => []TypeOK
  BY InitType, NextType, PTL DEF Spec

-----------------------------------------------------------------------------
(* What a request has loaded, and which rows exist.                        *)

\* A request that has loaded a row.
Busy(r) == req[r].pc \in {"loaded", "published", "saved", "released", "aborted"}

\* Where a create request stands before its insert.
BeforeInsert == {"idle", "admitted", "checked", "reserved"}

USE DEF BeforeInsert

\* There is no row for a job before its create request inserts it.
NoRowYet ==
  \A j \in Jobs : create[j] \in BeforeInsert => status[j] = "absent"

\* Past its insert the create request has a row, and so has every request at work
\* on a job; a status that was terminal when loaded still is.
RowsExist ==
  /\ \A j \in Jobs : create[j] = "inserted" => status[j] # "absent"
  /\ \A r \in Requests :
       Busy(r) => /\ status[req[r].job] # "absent"
                  /\ req[r].read \in Terminal => status[req[r].job] \in Terminal

RowInv == NoRowYet /\ RowsExist /\ MessageHasRow

LEMMA InitRow == Init => RowInv
  BY DEF Init, RowInv, NoRowYet, RowsExist, MessageHasRow, Busy, IdleRequest

\* Rows are created by the insert alone, and a terminal status stays terminal.
LEMMA StatusStep ==
  ASSUME TypeOK, RowInv, [Next]_vars
  PROVE  \/ status' = status
         \/ \E j \in Jobs : /\ status[j] = "absent"
                            /\ status' = [status EXCEPT ![j] = "queued"]
                            /\ create[j] = "reserved"
                            /\ create'[j] \notin BeforeInsert
         \/ \E j \in Jobs, s \in Terminal : /\ status[j] # "absent"
                                            /\ status' = [status EXCEPT ![j] = s]
  <1> SUFFICES ASSUME status' # status
               PROVE  \/ \E j \in Jobs :
                           /\ status[j] = "absent"
                           /\ status' = [status EXCEPT ![j] = "queued"]
                           /\ create[j] = "reserved"
                           /\ create'[j] \notin BeforeInsert
                      \/ \E j \in Jobs, s \in Terminal :
                           /\ status[j] # "absent"
                           /\ status' = [status EXCEPT ![j] = s]
    OBVIOUS
  <1>1. ASSUME NEW k \in Jobs, CreateInsert(k) \/ CreateInsertFails(k)
        PROVE  /\ status[k] = "absent"
               /\ status' = [status EXCEPT ![k] = "queued"]
               /\ create[k] = "reserved"
               /\ create'[k] \notin BeforeInsert
    BY <1>1 DEF CreateInsert, CreateInsertFails, TypeOK, RowInv, NoRowYet
  <1>2. ASSUME NEW r \in Requests, AtSave(r), CommitStatus(r)
        PROVE  \E j \in Jobs, s \in Terminal : /\ status[j] # "absent"
                                               /\ status' = [status EXCEPT ![j] = s]
    <2>1. /\ NextStatus(r) # req[r].read
          /\ status' = [status EXCEPT ![req[r].job] = NextStatus(r)]
      BY <1>2 DEF CommitStatus
    <2>2. Busy(r) /\ req[r].job \in Jobs
      BY <1>2 DEF AtSave, Busy, TypeOK, RequestStates
    <2>3. QED
      BY <2>1, <2>2, NextStatusType DEF RowInv, RowsExist
  <1>3. CASE \E k \in Jobs : CreateAdmit(k) \/ CreateStep(k)
    BY <1>1, <1>3 DEF CreateAdmit, CreateStep, CreateCheck, CreateReserve, CreateUndo, CreateEnqueue
  <1>4. CASE \E r \in Requests, k \in Jobs :
               CancelLoad(r, k) \/ \E e \in WorkerEvents : EventLoad(r, k, e)
    BY <1>4 DEF CancelLoad, EventLoad
  <1>5. CASE \E r \in Requests : RequestStep(r)
    BY <1>2, <1>5 DEF RequestStep, EventPublish, Save, SaveFails, SaveAborts, Release,
                      CancelEnqueue, EventPersist
  <1>6. CASE (\E o \in Orgs : WindowEnds(o)) \/ Restart \/ UNCHANGED vars
    BY <1>6 DEF WindowEnds, Restart, vars
  <1>7. QED
    BY <1>3, <1>4, <1>5, <1>6 DEF Next

\* The same, job by job.
LEMMA StatusAt ==
  ASSUME TypeOK, RowInv, [Next]_vars
  PROVE  \A j \in Jobs :
           \/ status'[j] = status[j]
           \/ /\ status[j] = "absent" /\ status'[j] = "queued"
              /\ create[j] = "reserved" /\ create'[j] \notin BeforeInsert
           \/ status[j] # "absent" /\ status'[j] \in Terminal
  BY StatusStep DEF TypeOK

\* What a step does to a request: it leaves it, ends it, loads a job with a row,
\* or moves it on without touching what it loaded.
LEMMA RequestStepShape ==
  ASSUME TypeOK, [Next]_vars
  PROVE  \A r \in Requests :
           \/ req'[r] = req[r]
           \/ req'[r] = Finished
           \/ \E j \in Jobs : /\ status[j] # "absent" /\ status' = status
                              /\ req'[r].job = j /\ req'[r].read = status[j]
           \/ Busy(r) /\ req'[r].job = req[r].job /\ req'[r].read = req[r].read
  <1> SUFFICES ASSUME NEW q \in Requests, req'[q] # req[q], req'[q] # Finished
               PROVE  \/ \E j \in Jobs : /\ status[j] # "absent" /\ status' = status
                                         /\ req'[q].job = j /\ req'[q].read = status[j]
                      \/ /\ Busy(q) /\ req'[q].job = req[q].job
                         /\ req'[q].read = req[q].read
    OBVIOUS
  <1>1. CASE \E j \in Jobs : CreateAdmit(j) \/ CreateStep(j)
    BY <1>1 DEF CreateAdmit, CreateStep, CreateCheck, CreateReserve, CreateInsert, CreateInsertFails,
                CreateUndo, CreateEnqueue
  <1>2. ASSUME NEW r \in Requests, NEW j \in Jobs, CancelLoad(r, j)
        PROVE  /\ status[j] # "absent" /\ status' = status
               /\ req'[q].job = j /\ req'[q].read = status[j]
    BY <1>2 DEF CancelLoad, Finish, Loaded, Active, TypeOK
  <1>3. ASSUME NEW r \in Requests, NEW j \in Jobs, NEW k \in WorkerEvents,
               EventLoad(r, j, k)
        PROVE  /\ status[j] # "absent" /\ status' = status
               /\ req'[q].job = j /\ req'[q].read = status[j]
    BY <1>3 DEF EventLoad, Finish, Loaded, TypeOK
  <1>4. ASSUME NEW r \in Requests, RequestStep(r)
        PROVE  Busy(q) /\ req'[q].job = req[q].job /\ req'[q].read = req[q].read
    <2>1. \A pc \in RequestPCs :
            req' = [req EXCEPT ![r].pc = pc] /\ Busy(r) =>
              Busy(q) /\ req'[q].job = req[q].job /\ req'[q].read = req[q].read
      BY DEF TypeOK, RequestStates
    <2>2. CASE EventPublish(r)
      BY <2>1, <2>2 DEF EventPublish, Goto, Busy, RequestPCs
    <2>3. CASE Save(r) \/ SaveAborts(r)
      BY <2>1, <2>3 DEF Save, SaveAborts, AtSave, Finish, Busy, RequestPCs, TypeOK
    <2>4. CASE Release(r)
      BY <2>1, <2>4 DEF Release, Goto, Busy, RequestPCs
    <2>5. CASE SaveFails(r) \/ CancelEnqueue(r) \/ EventPersist(r)
      BY <2>5 DEF SaveFails, CancelEnqueue, EventPersist, Finish, TypeOK
    <2>6. QED
      BY <1>4, <2>2, <2>3, <2>4, <2>5 DEF RequestStep
  <1>5. CASE Restart
    BY <1>5 DEF Restart, TypeOK
  <1>6. CASE (\E o \in Orgs : WindowEnds(o)) \/ UNCHANGED vars
    BY <1>6 DEF WindowEnds, vars
  <1>7. QED
    BY <1>1, <1>2, <1>3, <1>4, <1>5, <1>6 DEF Next

LEMMA CreateShape ==
  ASSUME TypeOK, [Next]_vars
  PROVE  \A j \in Jobs :
           \/ create'[j] = create[j]
           \/ create'[j] \in {"undo", "done"}
           \/ /\ create[j] \in {"idle", "admitted", "checked"}
              /\ create'[j] \in {"admitted", "checked", "reserved"}
           \/ create'[j] = "inserted" /\ status'[j] = "queued"
  <1>1. CASE \E j \in Jobs : CreateAdmit(j) \/ CreateStep(j)
    BY <1>1 DEF CreateAdmit, CreateStep, CreateCheck, CreateReserve, CreateInsert, CreateInsertFails,
                CreateUndo, CreateEnqueue, TypeOK
  <1>2. CASE \E r \in Requests, j \in Jobs :
               CancelLoad(r, j) \/ \E k \in WorkerEvents : EventLoad(r, j, k)
    BY <1>2 DEF CancelLoad, EventLoad
  <1>3. CASE \E r \in Requests : RequestStep(r)
    BY <1>3 DEF RequestStep, EventPublish, Save, SaveFails, SaveAborts, Release,
                CancelEnqueue, EventPersist
  <1>4. CASE Restart
    BY <1>4 DEF Restart
  <1>5. CASE (\E o \in Orgs : WindowEnds(o)) \/ UNCHANGED vars
    BY <1>5 DEF WindowEnds, vars
  <1>6. QED
    BY <1>1, <1>2, <1>3, <1>4, <1>5 DEF Next

\* A message is only sent about a job whose row is there.
LEMMA SentShape ==
  ASSUME TypeOK, RowInv, [Next]_vars, NEW m \in sent', m \notin sent
  PROVE  status[m.job] # "absent"
  <1>1. ASSUME NEW j \in Jobs, CreateEnqueue(j)
        PROVE  status[m.job] # "absent"
    BY <1>1 DEF CreateEnqueue, RowInv, RowsExist
  <1>2. ASSUME NEW r \in Requests, CancelEnqueue(r)
        PROVE  status[m.job] # "absent"
    BY <1>2 DEF CancelEnqueue, RowInv, RowsExist, Busy
  <1>3. CASE \E j \in Jobs : CreateAdmit(j) \/ CreateStep(j)
    BY <1>1, <1>3 DEF CreateAdmit, CreateStep, CreateCheck, CreateReserve, CreateInsert,
                      CreateInsertFails, CreateUndo
  <1>4. CASE \E r \in Requests, j \in Jobs :
               CancelLoad(r, j) \/ \E k \in WorkerEvents : EventLoad(r, j, k)
    BY <1>4 DEF CancelLoad, EventLoad
  <1>5. CASE \E r \in Requests : RequestStep(r)
    BY <1>2, <1>5 DEF RequestStep, EventPublish, Save, SaveFails, SaveAborts, Release,
                      EventPersist
  <1>6. CASE (\E o \in Orgs : WindowEnds(o)) \/ Restart \/ UNCHANGED vars
    BY <1>6 DEF WindowEnds, Restart, vars
  <1>7. QED
    BY <1>3, <1>4, <1>5, <1>6 DEF Next

LEMMA NextRow == TypeOK /\ RowInv /\ [Next]_vars => RowInv'
  <1> SUFFICES ASSUME TypeOK, RowInv, [Next]_vars PROVE RowInv'
    OBVIOUS
  <1>0. TypeOK'
    BY NextType
  <1>1. NoRowYet'
    BY StatusAt, CreateShape DEF RowInv, NoRowYet
  <1>2. ASSUME NEW j \in Jobs, create'[j] = "inserted" PROVE status'[j] # "absent"
    BY <1>2, StatusAt, CreateShape DEF RowInv, RowsExist, Terminal
  <1>3. ASSUME NEW r \in Requests, Busy(r)'
        PROVE  /\ status'[req'[r].job] # "absent"
               /\ req'[r].read \in Terminal => status'[req'[r].job] \in Terminal
    <2>1. CASE req'[r] = req[r] \/ (Busy(r) /\ req'[r].job = req[r].job
                                             /\ req'[r].read = req[r].read)
      <3>1. Busy(r) /\ req'[r].job = req[r].job /\ req'[r].read = req[r].read
        BY <1>3, <2>1 DEF Busy
      <3>2. req[r].job \in Jobs
        BY DEF TypeOK, RequestStates
      <3>3. QED
        BY <3>1, <3>2, StatusAt DEF RowInv, RowsExist, Terminal
    <2>2. CASE req'[r] = Finished
      BY <1>3, <2>2 DEF Busy, Finished, IdleRequest
    <2>3. CASE \E j \in Jobs : /\ status[j] # "absent" /\ status' = status
                               /\ req'[r].job = j /\ req'[r].read = status[j]
      BY <2>3
    <2>4. QED
      BY <2>1, <2>2, <2>3, RequestStepShape
  <1>4. ASSUME NEW m \in sent' PROVE status'[m.job] # "absent"
    <2>1. m.job \in Jobs
      BY <1>0, <1>4 DEF TypeOK, Messages
    <2>2. status[m.job] # "absent"
      BY <1>4, SentShape DEF RowInv, MessageHasRow
    <2>3. QED
      BY <2>1, <2>2, StatusAt DEF Terminal
  <1>5. QED
    BY <1>1, <1>2, <1>3, <1>4 DEF RowInv, RowsExist, MessageHasRow

\* Every message on the queue is about a job whose row is committed, for any number
\* of jobs and requests and across restarts.
THEOREM MessagesHaveRows == Spec => []MessageHasRow
  <1>1. Spec => []RowInv
    BY InitRow, NextRow, TypeCorrect, PTL DEF Spec
  <1>2. RowInv => MessageHasRow
    BY DEF RowInv
  <1>3. QED
    BY <1>1, <1>2, PTL
-----------------------------------------------------------------------------
(* The order in which a job's outcome is published, written and stored.    *)

Outcomes == {"job_completed", "job_failed"}

\* An outcome that a handler has written has settled the row.
WrittenIsSettled ==
  \A r \in Requests :
    req[r].pc \in {"saved", "released"} /\ req[r].kind \in Outcomes =>
      status[req[r].job] \in Terminal

\* An event about to be written has been published, unless the hub was emptied since.
PublishedIsInHub ==
  restarts = 0 =>
    \A r \in Requests : req[r].pc = "published" => req[r].kind \in hub[req[r].job]

OrderInv == WrittenIsSettled /\ PublishedIsInHub /\ ReplayedOutcomeIsSettled /\ OutcomeIsAnnounced

LEMMA InitOrder == Init => OrderInv
  BY DEF Init, OrderInv, WrittenIsSettled, PublishedIsInHub, ReplayedOutcomeIsSettled,
         OutcomeIsAnnounced, IdleRequest

\* A settled row stays settled.
LEMMA SettledStays ==
  ASSUME TypeOK, RowInv, [Next]_vars, NEW j \in Jobs, status[j] \in Terminal
  PROVE  status'[j] \in Terminal
  BY StatusAt DEF Terminal

\* A step that leaves the requests and the stored events alone, and settles nothing.
LEMMA OrderUntouched ==
  ASSUME TypeOK, RowInv, OrderInv, [Next]_vars,
         req' = req, persisted' = persisted, restarts' = restarts,
         \A j \in Jobs : hub[j] \subseteq hub'[j],
         \A j \in Jobs : status'[j] \in {status[j], "queued"}
  PROVE  OrderInv'
  <1>0. \A r \in Requests : req[r].job \in Jobs
    BY DEF TypeOK, RequestStates
  <1>1. WrittenIsSettled'
    BY <1>0, SettledStays DEF OrderInv, WrittenIsSettled
  <1>2. PublishedIsInHub'
    BY <1>0 DEF OrderInv, PublishedIsInHub
  <1>3. ReplayedOutcomeIsSettled'
    BY SettledStays DEF OrderInv, ReplayedOutcomeIsSettled
  <1>4. OutcomeIsAnnounced'
    BY DEF OrderInv, OutcomeIsAnnounced
  <1>5. QED
    BY <1>1, <1>2, <1>3, <1>4 DEF OrderInv

\* What a handler writes agrees with what it published.
LEMMA OrderAtCommit ==
  ASSUME TypeOK, RowInv, OrderInv, [Next]_vars, NEW r \in Requests,
         AtSave(r), CommitStatus(r), hub' = hub, restarts' = restarts
  PROVE  /\ req[r].kind \in Outcomes => status'[req[r].job] \in Terminal
         /\ OutcomeIsAnnounced'
  <1>0. req[r] \in RequestStates /\ req[r].job \in Jobs
    BY DEF TypeOK, RequestStates
  <1>1. CASE NextStatus(r) = req[r].read
    <2>1. status' = status
      BY <1>1 DEF CommitStatus
    <2>2. req[r].kind \in Outcomes => req[r].read \in Terminal
      BY <1>1 DEF NextStatus, Outcomes, Terminal
    <2>3. Busy(r)
      BY DEF AtSave, Busy
    <2>4. QED
      BY <2>1, <2>2, <2>3 DEF RowInv, RowsExist, OrderInv, OutcomeIsAnnounced
  <1>2. CASE NextStatus(r) # req[r].read
    <2>1. status' = [status EXCEPT ![req[r].job] = NextStatus(r)]
      BY <1>2 DEF CommitStatus
    <2>2. status'[req[r].job] = NextStatus(r)
      BY <1>0, <2>1 DEF TypeOK
    <2>3. NextStatus(r) \in Terminal
      BY <1>2, NextStatusType
    <2>4. /\ NextStatus(r) = "completed" => req[r].kind = "job_completed"
          /\ NextStatus(r) = "failed" => req[r].kind = "job_failed"
      BY <1>2, <1>0 DEF NextStatus, RequestStates, WorkerEvents
    <2>5. restarts = 0 /\ req[r].kind # "cancel" => req[r].kind \in hub[req[r].job]
      BY DEF AtSave, OrderInv, PublishedIsInHub
    <2>6. ASSUME restarts' = 0, NEW j \in Jobs
          PROVE  /\ status'[j] = "completed" => "job_completed" \in hub'[j]
                 /\ status'[j] = "failed" => "job_failed" \in hub'[j]
      <3>1. CASE j = req[r].job
        BY <2>2, <2>4, <2>5, <2>6, <3>1
      <3>2. CASE j # req[r].job
        BY <2>1, <2>6, <3>2 DEF OrderInv, OutcomeIsAnnounced, TypeOK
      <3>3. QED
        BY <3>1, <3>2
    <2>7. QED
      BY <2>2, <2>3, <2>6 DEF OutcomeIsAnnounced
  <1>3. QED
    BY <1>1, <1>2

LEMMA RequestKeepsOrder ==
  ASSUME TypeOK, RowInv, OrderInv, [Next]_vars, NEW r \in Requests, RequestStep(r)
  PROVE  OrderInv'
  <1>0. \A q \in Requests : req[q].job \in Jobs /\ req[q] \in RequestStates
    BY DEF TypeOK, RequestStates
  <1>t. ASSUME NEW q \in Requests, req'[q] = req[q],
               req[q].pc \in {"saved", "released"} /\ req[q].kind \in Outcomes
        PROVE  status'[req'[q].job] \in Terminal
    BY <1>0, <1>t, SettledStays DEF OrderInv, WrittenIsSettled
  <1>f. Finished.pc = "done"
    BY DEF Finished, IdleRequest
  <1>1. CASE EventPublish(r)
    <2>1. /\ req' = [req EXCEPT ![r].pc = "published"] /\ status' = status
          /\ persisted' = persisted /\ restarts' = restarts
          /\ hub' = [hub EXCEPT ![req[r].job] = @ \cup {req[r].kind}]
      BY <1>1 DEF EventPublish, Goto
    <2>2. /\ req'[r].pc = "published" /\ req'[r].kind = req[r].kind /\ req'[r].job = req[r].job
          /\ \A q \in Requests \ {r} : req'[q] = req[q]
      BY <1>0, <2>1 DEF TypeOK, RequestStates
    <2>3. /\ \A j \in Jobs : hub[j] \subseteq hub'[j]
          /\ req[r].kind \in hub'[req[r].job]
      BY <1>0, <2>1 DEF TypeOK
    <2>4. WrittenIsSettled'
      BY <1>t, <2>2 DEF WrittenIsSettled
    <2>5. PublishedIsInHub'
      BY <1>0, <2>1, <2>2, <2>3 DEF OrderInv, PublishedIsInHub
    <2>6. ReplayedOutcomeIsSettled' /\ OutcomeIsAnnounced'
      BY <2>1, <2>3 DEF OrderInv, ReplayedOutcomeIsSettled, OutcomeIsAnnounced
    <2>7. QED
      BY <2>4, <2>5, <2>6 DEF OrderInv
  <1>2. CASE Save(r) \/ SaveAborts(r)
    <2>1. /\ AtSave(r) /\ CommitStatus(r) /\ hub' = hub /\ restarts' = restarts
          /\ persisted' = persisted
      BY <1>2 DEF Save, SaveAborts, memory
    <2>2. /\ \A q \in Requests \ {r} : req'[q] = req[q]
          /\ req'[r].pc \in {"saved", "released"} =>
               req'[r].kind = req[r].kind /\ req'[r].job = req[r].job
          /\ req'[r].pc # "published"
      BY <1>0, <1>2, <1>f DEF Save, SaveAborts, Finish, TypeOK, RequestStates
    <2>3. WrittenIsSettled'
      BY <1>t, <2>1, <2>2, OrderAtCommit DEF WrittenIsSettled
    <2>4. PublishedIsInHub'
      BY <2>1, <2>2 DEF OrderInv, PublishedIsInHub
    <2>5. ReplayedOutcomeIsSettled'
      BY <2>1, SettledStays DEF OrderInv, ReplayedOutcomeIsSettled
    <2>6. QED
      BY <2>1, <2>3, <2>4, <2>5, OrderAtCommit DEF OrderInv
  <1>3. CASE SaveFails(r) \/ CancelEnqueue(r) \/ EventPersist(r)
    <2>1. /\ \A q \in Requests \ {r} : req'[q] = req[q]
          /\ req'[r].pc = "done" /\ status' = status /\ hub' = hub /\ restarts' = restarts
      BY <1>3, <1>f DEF SaveFails, CancelEnqueue, EventPersist, Finish, TypeOK, memory
    <2>2. \/ persisted' = persisted
          \/ /\ persisted' = [persisted EXCEPT ![req[r].job] = @ \cup {req[r].kind}]
             /\ req[r].pc = "released"
      BY <1>3 DEF SaveFails, CancelEnqueue, EventPersist
    <2>3. WrittenIsSettled'
      BY <1>t, <2>1 DEF WrittenIsSettled
    <2>4. PublishedIsInHub' /\ OutcomeIsAnnounced'
      BY <2>1 DEF OrderInv, PublishedIsInHub, OutcomeIsAnnounced
    <2>5. ReplayedOutcomeIsSettled'
      BY <1>0, <2>1, <2>2
      DEF OrderInv, ReplayedOutcomeIsSettled, WrittenIsSettled, Outcomes, TypeOK
    <2>6. QED
      BY <2>3, <2>4, <2>5 DEF OrderInv
  <1>4. CASE Release(r)
    <2>1. /\ req[r].pc = "saved" /\ req' = [req EXCEPT ![r].pc = "released"]
          /\ status' = status /\ persisted' = persisted /\ restarts' = restarts
      BY <1>4 DEF Release, Goto
    <2>2. /\ req'[r].pc = "released" /\ req'[r].kind = req[r].kind /\ req'[r].job = req[r].job
          /\ \A q \in Requests \ {r} : req'[q] = req[q]
      BY <1>0, <2>1 DEF TypeOK, RequestStates
    <2>3. \A j \in Jobs : hub[j] \subseteq hub'[j]
      BY <1>4 DEF Release, TypeOK
    <2>4. WrittenIsSettled'
      BY <1>t, <2>1, <2>2 DEF OrderInv, WrittenIsSettled
    <2>5. PublishedIsInHub'
      BY <1>0, <2>1, <2>2, <2>3 DEF OrderInv, PublishedIsInHub
    <2>6. ReplayedOutcomeIsSettled' /\ OutcomeIsAnnounced'
      BY <2>1, <2>3 DEF OrderInv, ReplayedOutcomeIsSettled, OutcomeIsAnnounced
    <2>7. QED
      BY <2>4, <2>5, <2>6 DEF OrderInv
  <1>5. QED
    BY <1>1, <1>2, <1>3, <1>4 DEF RequestStep

LEMMA NextOrder == TypeOK /\ RowInv /\ OrderInv /\ [Next]_vars => OrderInv'
  <1> SUFFICES ASSUME TypeOK, RowInv, OrderInv, [Next]_vars PROVE OrderInv'
    OBVIOUS
  <1>1. CASE \E j \in Jobs : CreateAdmit(j) \/ CreateStep(j)
    <2>1. /\ req' = req /\ persisted' = persisted /\ restarts' = restarts
          /\ \A j \in Jobs : hub[j] \subseteq hub'[j]
          /\ \A j \in Jobs : status'[j] \in {status[j], "queued"}
      BY <1>1 DEF CreateAdmit, CreateStep, CreateCheck, CreateReserve, CreateInsert,
                  CreateInsertFails, CreateUndo, CreateEnqueue, TypeOK, memory
    <2>2. QED
      BY <2>1, OrderUntouched
  <1>2. CASE \E r \in Requests, j \in Jobs :
               CancelLoad(r, j) \/ \E k \in WorkerEvents : EventLoad(r, j, k)
    <2>1. /\ status' = status /\ hub' = hub /\ persisted' = persisted /\ restarts' = restarts
          /\ \A q \in Requests : req'[q] = req[q] \/ req'[q].pc \in {"loaded", "done"}
      BY <1>2 DEF CancelLoad, EventLoad, Finish, Finished, IdleRequest, Loaded, memory, TypeOK
    <2>2. WrittenIsSettled' /\ PublishedIsInHub'
      BY <2>1 DEF OrderInv, WrittenIsSettled, PublishedIsInHub
    <2>3. QED
      BY <2>1, <2>2 DEF OrderInv, ReplayedOutcomeIsSettled, OutcomeIsAnnounced
  <1>3. CASE \E r \in Requests : RequestStep(r)
    BY <1>3, RequestKeepsOrder
  <1>4. CASE (\E o \in Orgs : WindowEnds(o)) \/ UNCHANGED vars
    BY <1>4, OrderUntouched DEF WindowEnds, vars
  <1>5. CASE Restart
    <2>1. /\ status' = status /\ persisted' = persisted /\ restarts' # 0
          /\ \A q \in Requests : req'[q].pc \in {"idle", "done"}
      BY <1>5 DEF Restart, Finished, IdleRequest, TypeOK
    <2>2. QED
      BY <2>1 DEF OrderInv, WrittenIsSettled, PublishedIsInHub, ReplayedOutcomeIsSettled,
                  OutcomeIsAnnounced
  <1>6. QED
    BY <1>1, <1>2, <1>3, <1>4, <1>5 DEF Next

\* Messages, live streams and the replayed table are told of a job in step with its row,
\* for any number of jobs and requests and across restarts.
THEOREM ToldInOrder == Spec => []TellsInOrder
  <1>1. Spec => []OrderInv
    BY InitRow, NextRow, InitOrder, NextOrder, TypeCorrect, PTL DEF Spec
  <1>2. OrderInv /\ MessageHasRow => TellsInOrder
    BY DEF OrderInv, TellsInOrder
  <1>3. QED
    BY <1>1, <1>2, MessagesHaveRows, PTL

-----------------------------------------------------------------------------
(* The handlers implement the promise of JobStatus.                        *)

\* The API implements JobStatus whatever the interleaving of its handlers, their
\* failures and the restarts: rows appear queued, settle, and stay settled.
THEOREM KeepsStatusPromise == Spec => StatusPromise
  <1>1. Init => JS!Init
    BY DEF Init, JS!Init
  <1>2. TypeOK /\ RowInv /\ [Next]_vars => [JS!Next]_status
    <2> SUFFICES ASSUME TypeOK, RowInv, [Next]_vars PROVE [JS!Next]_status
      OBVIOUS
    <2>1. CASE status' = status
      BY <2>1
    <2>2. ASSUME NEW j \in Jobs, status[j] = "absent",
                 status' = [status EXCEPT ![j] = "queued"]
          PROVE  JS!Next
      BY <2>2 DEF JS!Next, JS!Submit
    <2>3. ASSUME NEW j \in Jobs, NEW s \in Terminal, status[j] # "absent",
                 status' = [status EXCEPT ![j] = s]
          PROVE  JS!Next
      BY <2>3 DEF JS!Next, JS!Settle, JS!Terminal, Terminal
    <2>4. QED
      BY <2>1, <2>2, <2>3, StatusStep
  <1>3. QED
    BY <1>1, <1>2, InitRow, NextRow, TypeCorrect, PTL DEF Spec, StatusPromise, JS!Spec
-----------------------------------------------------------------------------
(* Slot accounting: the limiter never counts more slots than are held.     *)

LEMMA HoldersFinite ==
  ASSUME NEW o \in Orgs
  PROVE  /\ IsFiniteSet(JobHolders(o)) /\ IsFiniteSet(RequestHolders(o))
         /\ Cardinality(JobHolders(o)) \in Nat /\ Cardinality(RequestHolders(o)) \in Nat
         /\ IsFiniteSet(JobHolders(o)') /\ IsFiniteSet(RequestHolders(o)')
         /\ Cardinality(JobHolders(o)') \in Nat /\ Cardinality(RequestHolders(o)') \in Nat
  <1>1. /\ JobHolders(o) \in SUBSET Jobs /\ JobHolders(o)' \in SUBSET Jobs
        /\ RequestHolders(o) \in SUBSET Requests /\ RequestHolders(o)' \in SUBSET Requests
    BY DEF JobHolders, JobsOf, RequestHolders
  <1>2. QED
    BY <1>1, JobsAssumption, FS_Subset, FS_CardinalityType

\* Losing at most one element costs at most one.
LEMMA LoseOne ==
  ASSUME NEW S, NEW T, NEW x, IsFiniteSet(S), IsFiniteSet(T), S \ {x} \subseteq T
  PROVE  Cardinality(T) >= Cardinality(S) - 1
  <1>1. /\ IsFiniteSet(S \ {x})
        /\ Cardinality(S \ {x}) = IF x \in S THEN Cardinality(S) - 1 ELSE Cardinality(S)
    BY FS_RemoveElement
  <1>2. /\ Cardinality(S) \in Nat /\ Cardinality(T) \in Nat
        /\ Cardinality(S \ {x}) \in Nat
    BY <1>1, FS_CardinalityType
  <1>3. Cardinality(S \ {x}) <= Cardinality(T)
    BY FS_Subset
  <1>4. QED
    BY <1>1, <1>2, <1>3

LEMMA GainOne ==
  ASSUME NEW S, NEW T, NEW x, IsFiniteSet(S), x \notin S, T = S \cup {x}
  PROVE  Cardinality(T) = Cardinality(S) + 1
  BY FS_AddElement

\* The slots held for organization o.
Held(o) == Cardinality(JobHolders(o)) + Cardinality(RequestHolders(o))

\* A step that changes neither who holds a slot nor the counter.
LEMMA QuietStep ==
  ASSUME TypeOK, RowInv, NoSlotLeak, NEW o \in Orgs, activeJobs' = activeJobs,
         JobHolders(o)' = JobHolders(o), RequestHolders(o)' = RequestHolders(o)
  PROVE  activeJobs'[o] <= Held(o)'
  BY DEF NoSlotLeak, Held

\* What happens to the slots when a request commits the status it computed.
LEMMA SlotsAtCommit ==
  ASSUME TypeOK, RowInv, NoSlotLeak, NEW r \in Requests, NEW o \in Orgs,
         AtSave(r), CommitStatus(r), UNCHANGED <<create, activeJobs>>,
         \/ /\ MustRelease(r)
            /\ \E pc \in {"saved", "aborted"} : req' = [req EXCEPT ![r].pc = pc]
         \/ /\ ~MustRelease(r)
            /\ \/ req' = [req EXCEPT ![r].pc = "released"]
               \/ req' = [req EXCEPT ![r] = Finished]
  PROVE  activeJobs'[o] <= Held(o)'
  <1> DEFINE j == req[r].job
  <1>1. j \in Jobs /\ req[r].pc \notin {"saved", "aborted"} /\ Busy(r)
    BY DEF AtSave, Busy, TypeOK, RequestStates
  <1>2. JobHolders(o) \ {j} \subseteq JobHolders(o)'
    BY <1>1 DEF JobHolders, JobsOf, CommitStatus, TypeOK
  <1>3. CASE MustRelease(r)
    <2>1. PICK pc \in {"saved", "aborted"} : req' = [req EXCEPT ![r].pc = pc]
      BY <1>3
    <2>2. CASE OrgOf[j] = o
      <3>1. RequestHolders(o)' = RequestHolders(o) \cup {r}
        BY <1>1, <2>1, <2>2 DEF RequestHolders, TypeOK, RequestStates
      <3>2. r \notin RequestHolders(o)
        BY <1>1 DEF RequestHolders
      <3>3. Cardinality(RequestHolders(o)') = Cardinality(RequestHolders(o)) + 1
        BY <3>1, <3>2, HoldersFinite, GainOne
      <3>4. Cardinality(JobHolders(o)') >= Cardinality(JobHolders(o)) - 1
        BY <1>2, HoldersFinite, LoseOne
      <3>5. QED
        BY <3>3, <3>4, HoldersFinite DEF NoSlotLeak, Held, TypeOK
    <2>3. CASE OrgOf[j] # o
      <3>1. RequestHolders(o)' = RequestHolders(o)
        BY <1>1, <2>1, <2>3 DEF RequestHolders, TypeOK, RequestStates
      <3>2. JobHolders(o)' = JobHolders(o)
        BY <1>1, <2>3 DEF JobHolders, JobsOf, CommitStatus, TypeOK
      <3>3. QED
        BY <3>1, <3>2, QuietStep
    <2>4. QED
      BY <2>2, <2>3
  <1>4. CASE ~MustRelease(r)
    <2>1. RequestHolders(o)' = RequestHolders(o)
      BY <1>1, <1>4 DEF RequestHolders, TypeOK, RequestStates, Finished, IdleRequest
    <2>2. status' = status \/ (/\ status[j] \in Terminal /\ NextStatus(r) \in Terminal
                               /\ status' = [status EXCEPT ![j] = NextStatus(r)])
      BY <1>1, <1>4, NextStatusType DEF CommitStatus, MustRelease, RowInv, RowsExist
    <2>3. JobHolders(o)' = JobHolders(o)
      BY <1>1, <2>2 DEF JobHolders, JobsOf, TypeOK, Active, Terminal
    <2>4. QED
      BY <2>1, <2>3, QuietStep
  <1>5. QED
    BY <1>3, <1>4

LEMMA CreateKeepsSlots ==
  ASSUME TypeOK, RowInv, NoSlotLeak, NEW j \in Jobs, CreateAdmit(j) \/ CreateStep(j),
         NEW o \in Orgs
  PROVE  activeJobs'[o] <= Held(o)'
  <1> USE DEF memory
  <1>1. RequestHolders(o)' = RequestHolders(o)
    BY DEF CreateAdmit, CreateStep, CreateCheck, CreateReserve, CreateInsert, CreateInsertFails,
           CreateUndo, CreateEnqueue, RequestHolders
  <1>2. CASE CreateAdmit(j) \/ CreateCheck(j)
    <2>1. JobHolders(o)' = JobHolders(o)
      BY <1>2 DEF CreateAdmit, CreateCheck, JobHolders, JobsOf, TypeOK
    <2>2. QED
      BY <1>1, <1>2, <2>1, QuietStep DEF CreateAdmit, CreateCheck
  <1>3. CASE CreateReserve(j) /\ OverLimit(OrgOf[j])
    <2>1. JobHolders(o)' = JobHolders(o)
      BY <1>3 DEF CreateReserve, JobHolders, JobsOf, TypeOK
    <2>2. QED
      BY <1>1, <1>3, <2>1, QuietStep DEF CreateReserve
  <1>4. CASE CreateReserve(j) /\ ~OverLimit(OrgOf[j]) /\ OrgOf[j] # o
    <2>1. JobHolders(o)' = JobHolders(o)
      BY <1>4 DEF CreateReserve, JobHolders, JobsOf, TypeOK
    <2>2. activeJobs'[o] = activeJobs[o]
      BY <1>4 DEF CreateReserve, TakeSlot, TypeOK
    <2>3. QED
      BY <1>1, <2>1, <2>2 DEF NoSlotLeak, Held
  <1>5. CASE CreateReserve(j) /\ ~OverLimit(OrgOf[j]) /\ OrgOf[j] = o
    <2>1. /\ JobHolders(o)' = JobHolders(o) \cup {j}
          /\ j \notin JobHolders(o)
      BY <1>5 DEF CreateReserve, JobHolders, JobsOf, TypeOK, RowInv, NoRowYet, Active
    <2>2. Cardinality(JobHolders(o)') = Cardinality(JobHolders(o)) + 1
      BY <2>1, HoldersFinite, GainOne
    <2>3. activeJobs'[o] = activeJobs[o] + 1
      BY <1>5 DEF CreateReserve, TakeSlot, TypeOK
    <2>4. QED
      BY <1>1, <2>2, <2>3, HoldersFinite DEF NoSlotLeak, Held, TypeOK
  <1>6. CASE CreateInsert(j) \/ CreateInsertFails(j)
    <2>1. JobHolders(o)' = JobHolders(o)
      BY <1>6 DEF CreateInsert, CreateInsertFails, JobHolders, JobsOf, TypeOK, Active
    <2>2. QED
      BY <1>1, <1>6, <2>1, QuietStep DEF CreateInsert, CreateInsertFails
  <1>7. CASE CreateUndo(j) /\ OrgOf[j] = o
    <2>1. JobHolders(o) \ {j} \subseteq JobHolders(o)'
      BY <1>7 DEF CreateUndo, JobHolders, JobsOf, TypeOK
    <2>2. Cardinality(JobHolders(o)') >= Cardinality(JobHolders(o)) - 1
      BY <2>1, HoldersFinite, LoseOne
    <2>3. activeJobs'[o] = IF activeJobs[o] = 0 THEN 0 ELSE activeJobs[o] - 1
      BY <1>7 DEF CreateUndo, CompleteJob, TypeOK
    <2>4. QED
      BY <1>1, <2>2, <2>3, HoldersFinite DEF NoSlotLeak, Held, TypeOK
  <1>8. CASE CreateUndo(j) /\ OrgOf[j] # o
    <2>1. JobHolders(o)' = JobHolders(o)
      BY <1>8 DEF CreateUndo, JobHolders, JobsOf, TypeOK
    <2>2. activeJobs'[o] = activeJobs[o]
      BY <1>8, JobsAssumption DEF CreateUndo, CompleteJob, TypeOK
    <2>3. QED
      BY <1>1, <2>1, <2>2 DEF NoSlotLeak, Held
  <1>9. CASE CreateEnqueue(j)
    <2>1. JobHolders(o)' = JobHolders(o)
      BY <1>9 DEF CreateEnqueue, JobHolders, JobsOf, TypeOK
    <2>2. QED
      BY <1>1, <1>9, <2>1, QuietStep DEF CreateEnqueue
  <1>10. QED
    BY <1>2, <1>3, <1>4, <1>5, <1>6, <1>7, <1>8, <1>9 DEF CreateStep

LEMMA ReleaseKeepsSlots ==
  ASSUME TypeOK, NoSlotLeak, NEW r \in Requests, Release(r), NEW o \in Orgs
  PROVE  activeJobs'[o] <= Held(o)'
  <1>1. JobHolders(o)' = JobHolders(o)
    BY DEF Release, JobHolders
  <1>2. CASE OrgOf[req[r].job] = o
    <2>1. RequestHolders(o) \ {r} \subseteq RequestHolders(o)'
      BY DEF Release, Goto, RequestHolders, TypeOK
    <2>2. Cardinality(RequestHolders(o)') >= Cardinality(RequestHolders(o)) - 1
      BY <2>1, HoldersFinite, LoseOne
    <2>3. activeJobs'[o] = IF activeJobs[o] = 0 THEN 0 ELSE activeJobs[o] - 1
      BY <1>2 DEF Release, CompleteJob, TypeOK
    <2>4. QED
      BY <1>1, <2>2, <2>3, HoldersFinite DEF NoSlotLeak, Held, TypeOK
  <1>3. CASE OrgOf[req[r].job] # o
    <2>1. RequestHolders(o)' = RequestHolders(o)
      BY <1>3 DEF Release, Goto, RequestHolders, TypeOK, RequestStates
    <2>2. activeJobs'[o] = activeJobs[o]
      BY <1>3, JobsAssumption DEF Release, CompleteJob, TypeOK, RequestStates
    <2>3. QED
      BY <1>1, <2>1, <2>2 DEF NoSlotLeak, Held
  <1>4. QED
    BY <1>2, <1>3

LEMMA RequestKeepsSlots ==
  ASSUME TypeOK, RowInv, NoSlotLeak, NEW r \in Requests, RequestStep(r), NEW o \in Orgs
  PROVE  activeJobs'[o] <= Held(o)'
  <1> USE DEF memory
  <1>1. CASE Save(r)
    <2>1. \/ MustRelease(r) /\ req' = [req EXCEPT ![r].pc = "saved"]
          \/ ~MustRelease(r) /\ req' = [req EXCEPT ![r].pc = "released"]
      BY <1>1 DEF Save
    <2>2. QED
      BY <1>1, <2>1, SlotsAtCommit DEF Save
  <1>2. CASE SaveAborts(r)
    BY <1>2, SlotsAtCommit DEF SaveAborts, Finish
  <1>3. CASE Release(r)
    BY <1>3, ReleaseKeepsSlots
  <1>4. CASE EventPublish(r) \/ SaveFails(r) \/ CancelEnqueue(r) \/ EventPersist(r)
    <2>1. JobHolders(o)' = JobHolders(o)
      BY <1>4 DEF EventPublish, SaveFails, CancelEnqueue, EventPersist, JobHolders
    <2>2. /\ req[r].pc \notin {"saved", "aborted"}
          /\ \/ req' = [req EXCEPT ![r].pc = "published"]
             \/ req' = [req EXCEPT ![r] = Finished]
      BY <1>4 DEF EventPublish, SaveFails, AtSave, CancelEnqueue, EventPersist, Goto, Finish
    <2>3. RequestHolders(o)' = RequestHolders(o)
      BY <2>2 DEF RequestHolders, TypeOK, RequestStates, Finished, IdleRequest
    <2>4. QED
      BY <1>4, <2>1, <2>3, QuietStep
      DEF EventPublish, SaveFails, CancelEnqueue, EventPersist
  <1>5. QED
    BY <1>1, <1>2, <1>3, <1>4 DEF RequestStep

LEMMA NextSlots == TypeOK /\ RowInv /\ NoSlotLeak /\ [Next]_vars => NoSlotLeak'
  <1> SUFFICES ASSUME TypeOK, RowInv, NoSlotLeak, [Next]_vars, NEW o \in Orgs
               PROVE  activeJobs'[o] <= Held(o)'
    BY DEF NoSlotLeak, Held
  <1>1. CASE \E j \in Jobs : CreateAdmit(j) \/ CreateStep(j)
    BY <1>1, CreateKeepsSlots
  <1>2. CASE \E r \in Requests, j \in Jobs :
               CancelLoad(r, j) \/ \E k \in WorkerEvents : EventLoad(r, j, k)
    <2>1. PICK r \in Requests, j \in Jobs :
                 CancelLoad(r, j) \/ \E k \in WorkerEvents : EventLoad(r, j, k)
      BY <1>2
    <2>2. req[r].pc = "idle" /\ UNCHANGED <<status, create, activeJobs>>
      BY <2>1 DEF CancelLoad, EventLoad, memory
    <2>3. req'[r].pc \in {"loaded", "done"}
      BY <2>1 DEF CancelLoad, EventLoad, Finish, Loaded, Finished, IdleRequest, TypeOK
    <2>4. \A q \in Requests \ {r} : req'[q] = req[q]
      BY <2>1 DEF CancelLoad, EventLoad, Finish, TypeOK
    <2>5. RequestHolders(o)' = RequestHolders(o)
      BY <2>2, <2>3, <2>4 DEF RequestHolders
    <2>6. JobHolders(o)' = JobHolders(o)
      BY <2>2 DEF JobHolders
    <2>7. QED
      BY <2>2, <2>5, <2>6, QuietStep
  <1>3. CASE \E r \in Requests : RequestStep(r)
    BY <1>3, RequestKeepsSlots
  <1>4. CASE (\E p \in Orgs : WindowEnds(p)) \/ UNCHANGED vars
    <2>1. JobHolders(o)' = JobHolders(o) /\ RequestHolders(o)' = RequestHolders(o)
      BY <1>4 DEF WindowEnds, vars, JobHolders, RequestHolders
    <2>2. QED
      BY <1>4, <2>1, QuietStep DEF WindowEnds, vars
  <1>5. CASE Restart
    BY <1>5, HoldersFinite DEF Restart, Held
  <1>6. QED
    BY <1>1, <1>2, <1>3, <1>4, <1>5 DEF Next

\* No slot leaks: for any number of organizations, jobs and requests, a slot the
\* limiter counts is accounted for by a job or by a request.
THEOREM SlotsAreAccountedFor == Spec => []NoSlotLeak
  <1>1. Init => NoSlotLeak
    BY HoldersFinite DEF Init, NoSlotLeak
  <1>2. QED
    BY <1>1, InitRow, NextRow, NextSlots, TypeCorrect, PTL DEF Spec
-----------------------------------------------------------------------------
(* The cap: without a restart or a double release the counter is exact.    *)

\* Jobs that took a slot which was not given back.
Outstanding(o) ==
  {j \in JobsOf(o) : /\ released[j] = 0
                     /\ create[j] \in {"reserved", "undo"} \/ status[j] # "absent"}

ReleasedOnce(o) == restarts = 0 /\ \A j \in JobsOf(o) : released[j] <= 1

ExactCount == \A o \in Orgs : ReleasedOnce(o) => activeJobs[o] = Cardinality(Outstanding(o))

\* Nothing is released for a job before its create request passed the insert.
NotReleasedYet ==
  \A j \in Jobs : create[j] \in BeforeInsert => released[j] = 0

CapInv == NotReleasedYet /\ ExactCount

LEMMA OutstandingFinite ==
  ASSUME NEW o \in Orgs
  PROVE  IsFiniteSet(Outstanding(o)) /\ Cardinality(Outstanding(o)) \in Nat
  <1>1. Outstanding(o) \in SUBSET Jobs
    BY DEF Outstanding, JobsOf
  <1>2. QED
    BY <1>1, JobsAssumption, FS_Subset, FS_CardinalityType

LEMMA InitCap == Init => CapInv
  <1> SUFFICES ASSUME Init PROVE CapInv
    OBVIOUS
  <1>1. \A o \in Orgs : Outstanding(o) = {}
    BY DEF Init, Outstanding, JobsOf
  <1>2. ExactCount
    BY <1>1, FS_EmptySet DEF Init, ExactCount
  <1>3. QED
    BY <1>2 DEF Init, CapInv, NotReleasedYet

\* A release of a job that had taken a slot and not given it back yet lowers both
\* sides of the count; any other release is a second one.
LEMMA ReleaseCounts ==
  ASSUME TypeOK, CapInv, NEW j \in Jobs, CompleteJob(j), UNCHANGED restarts,
         create[j] = "undo" \/ status[j] # "absent",
         UNCHANGED status,
         \A k \in Jobs : create'[k] = create[k] \/ (k = j /\ create'[k] = "done"),
         NEW o \in Orgs, ReleasedOnce(o)'
  PROVE  activeJobs'[o] = Cardinality(Outstanding(o)')
  <1>1. \A k \in Jobs : released'[k] = IF k = j THEN released[j] + 1 ELSE released[k]
    BY DEF CompleteJob, TypeOK
  <1>2. ReleasedOnce(o)
    BY <1>1 DEF ReleasedOnce, JobsOf, TypeOK
  <1>3. activeJobs[o] = Cardinality(Outstanding(o))
    BY <1>2 DEF CapInv, ExactCount
  <1>4. CASE OrgOf[j] = o
    <2>1. released[j] = 0
      BY <1>1, <1>4 DEF ReleasedOnce, JobsOf, TypeOK
    <2>2. j \in Outstanding(o)
      BY <1>4, <2>1 DEF Outstanding, JobsOf
    <2>3. Outstanding(o)' = Outstanding(o) \ {j}
      BY <1>1, <2>1 DEF Outstanding, JobsOf, TypeOK
    <2>4. Cardinality(Outstanding(o)') = Cardinality(Outstanding(o)) - 1
      BY <2>2, <2>3, OutstandingFinite, FS_RemoveElement
    <2>5. Cardinality(Outstanding(o)) # 0
      BY <2>2, OutstandingFinite, FS_EmptySet
    <2>6. activeJobs'[o] = activeJobs[o] - 1
      BY <1>3, <1>4, <2>5 DEF CompleteJob, TypeOK
    <2>7. QED
      BY <1>3, <2>4, <2>6
  <1>5. CASE OrgOf[j] # o
    <2>1. Outstanding(o)' = Outstanding(o)
      BY <1>1, <1>5 DEF Outstanding, JobsOf
    <2>2. activeJobs'[o] = activeJobs[o]
      BY <1>5, JobsAssumption DEF CompleteJob, TypeOK
    <2>3. QED
      BY <1>3, <2>1, <2>2
  <1>6. QED
    BY <1>4, <1>5

\* A step that neither takes nor releases a slot leaves the count alone.
LEMMA CountUnchanged ==
  ASSUME CapInv, UNCHANGED <<activeJobs, released, restarts>>,
         \A k \in Jobs :
           (create'[k] \in {"reserved", "undo"} \/ status'[k] # "absent")
             <=> (create[k] \in {"reserved", "undo"} \/ status[k] # "absent"),
         NEW o \in Orgs, ReleasedOnce(o)'
  PROVE  activeJobs'[o] = Cardinality(Outstanding(o)')
  <1>1. Outstanding(o)' = Outstanding(o) /\ ReleasedOnce(o)
    BY DEF Outstanding, JobsOf, ReleasedOnce
  <1>2. QED
    BY <1>1 DEF CapInv, ExactCount

LEMMA CreateCounts ==
  ASSUME TypeOK, RowInv, CapInv, NEW j \in Jobs, CreateAdmit(j) \/ CreateStep(j),
         NEW o \in Orgs, ReleasedOnce(o)'
  PROVE  activeJobs'[o] = Cardinality(Outstanding(o)')
  <1> USE DEF memory
  <1>1. CASE CreateReserve(j) /\ ~OverLimit(OrgOf[j])
    <2>1. activeJobs'[o] = IF OrgOf[j] = o THEN activeJobs[o] + 1 ELSE activeJobs[o]
      BY <1>1, JobsAssumption DEF CreateReserve, TakeSlot, TypeOK
    <2>2. ReleasedOnce(o)
      BY <1>1 DEF CreateReserve, ReleasedOnce
    <2>3. released[j] = 0 /\ status[j] = "absent"
      BY <1>1 DEF CreateReserve, CapInv, NotReleasedYet, RowInv, NoRowYet
    <2>4. CASE OrgOf[j] = o
      <3>1. Outstanding(o)' = Outstanding(o) \cup {j} /\ j \notin Outstanding(o)
        BY <1>1, <2>3, <2>4 DEF CreateReserve, Outstanding, JobsOf, TypeOK
      <3>2. Cardinality(Outstanding(o)') = Cardinality(Outstanding(o)) + 1
        BY <3>1, OutstandingFinite, GainOne
      <3>3. QED
        BY <2>1, <2>2, <2>4, <3>2 DEF CapInv, ExactCount
    <2>5. CASE OrgOf[j] # o
      <3>1. Outstanding(o)' = Outstanding(o)
        BY <1>1, <2>5 DEF CreateReserve, Outstanding, JobsOf, TypeOK
      <3>2. QED
        BY <2>1, <2>2, <2>5, <3>1 DEF CapInv, ExactCount
    <2>6. QED
      BY <2>4, <2>5
  <1>2. CASE CreateUndo(j)
    BY <1>2, ReleaseCounts DEF CreateUndo, TypeOK
  <1>3. CASE \/ CreateAdmit(j) \/ CreateCheck(j)
             \/ CreateReserve(j) /\ OverLimit(OrgOf[j])
    BY <1>3, CountUnchanged DEF CreateAdmit, CreateCheck, CreateReserve, TypeOK
  <1>4. CASE CreateInsert(j) \/ CreateInsertFails(j)
    BY <1>4, CountUnchanged DEF CreateInsert, CreateInsertFails, TypeOK
  <1>5. CASE CreateEnqueue(j)
    BY <1>5, CountUnchanged DEF CreateEnqueue, TypeOK
  <1>6. QED
    BY <1>1, <1>2, <1>3, <1>4, <1>5 DEF CreateStep

LEMMA RequestCounts ==
  ASSUME TypeOK, RowInv, CapInv, NEW r \in Requests, RequestStep(r),
         NEW o \in Orgs, ReleasedOnce(o)'
  PROVE  activeJobs'[o] = Cardinality(Outstanding(o)')
  <1> USE DEF memory
  <1>1. CASE Release(r)
    <2>1. req[r].job \in Jobs /\ status[req[r].job] # "absent"
      BY <1>1 DEF Release, Goto, Busy, RowInv, RowsExist, TypeOK, RequestStates
    <2>2. QED
      BY <1>1, <2>1, ReleaseCounts DEF Release
  <1>2. CASE Save(r) \/ SaveAborts(r)
    <2>1. AtSave(r) /\ CommitStatus(r) /\ req[r].job \in Jobs /\ Busy(r)
      BY <1>2 DEF Save, SaveAborts, AtSave, Busy, TypeOK, RequestStates
    <2>2. \A k \in Jobs : status'[k] # "absent" <=> status[k] # "absent"
      BY <2>1, NextStatusType DEF CommitStatus, TypeOK, RowInv, RowsExist, Terminal
    <2>3. QED
      BY <1>2, <2>2, CountUnchanged DEF Save, SaveAborts
  <1>3. CASE EventPublish(r) \/ SaveFails(r) \/ CancelEnqueue(r) \/ EventPersist(r)
    BY <1>3, CountUnchanged DEF EventPublish, SaveFails, CancelEnqueue, EventPersist
  <1>4. QED
    BY <1>1, <1>2, <1>3 DEF RequestStep

LEMMA NextExact == TypeOK /\ RowInv /\ CapInv /\ [Next]_vars => ExactCount'
  <1> SUFFICES ASSUME TypeOK, RowInv, CapInv, [Next]_vars, NEW o \in Orgs,
                      ReleasedOnce(o)'
               PROVE  activeJobs'[o] = Cardinality(Outstanding(o)')
    BY DEF ExactCount
  <1>1. CASE \E j \in Jobs : CreateAdmit(j) \/ CreateStep(j)
    BY <1>1, CreateCounts
  <1>2. CASE \E r \in Requests, j \in Jobs :
               CancelLoad(r, j) \/ \E k \in WorkerEvents : EventLoad(r, j, k)
    BY <1>2, CountUnchanged DEF CancelLoad, EventLoad, memory
  <1>3. CASE \E r \in Requests : RequestStep(r)
    BY <1>3, RequestCounts
  <1>4. CASE (\E p \in Orgs : WindowEnds(p)) \/ UNCHANGED vars
    BY <1>4, CountUnchanged DEF WindowEnds, vars
  <1>5. CASE Restart
    BY <1>5 DEF Restart, ReleasedOnce, TypeOK
  <1>6. QED
    BY <1>1, <1>2, <1>3, <1>4, <1>5 DEF Next

LEMMA NextNotReleased == TypeOK /\ RowInv /\ CapInv /\ [Next]_vars => NotReleasedYet'
  <1> SUFFICES ASSUME TypeOK, RowInv, CapInv, [Next]_vars, NEW j \in Jobs,
                      create'[j] \in BeforeInsert
               PROVE  released'[j] = 0
    BY DEF NotReleasedYet
  <1>1. create[j] \in BeforeInsert
    BY CreateShape
  <1>2. released[j] = 0 /\ status[j] = "absent"
    BY <1>1 DEF CapInv, NotReleasedYet, RowInv, NoRowYet
  <1>3. ASSUME NEW k \in Jobs, CreateUndo(k) PROVE released'[j] = 0
    BY <1>1, <1>2, <1>3 DEF CreateUndo, CompleteJob, TypeOK
  <1>4. ASSUME NEW r \in Requests, Release(r) PROVE released'[j] = 0
    <2>1. req[r].job # j /\ req[r].job \in Jobs
      BY <1>2, <1>4 DEF Release, Goto, Busy, RowInv, RowsExist, TypeOK, RequestStates
    <2>2. QED
      BY <1>2, <1>4, <2>1 DEF Release, CompleteJob, TypeOK
  <1>5. CASE UNCHANGED released
    BY <1>2, <1>5
  <1>6. CASE \E k \in Jobs : CreateAdmit(k) \/ CreateStep(k)
    BY <1>3, <1>5, <1>6 DEF CreateAdmit, CreateStep, CreateCheck, CreateReserve, CreateInsert,
                            CreateInsertFails, CreateEnqueue
  <1>7. CASE \E r \in Requests : RequestStep(r)
    BY <1>4, <1>5, <1>7 DEF RequestStep, EventPublish, Save, SaveFails, SaveAborts,
                            CancelEnqueue, EventPersist
  <1>8. CASE \E r \in Requests, k \in Jobs :
               CancelLoad(r, k) \/ \E e \in WorkerEvents : EventLoad(r, k, e)
    BY <1>5, <1>8 DEF CancelLoad, EventLoad
  <1>9. CASE (\E o \in Orgs : WindowEnds(o)) \/ Restart \/ UNCHANGED vars
    BY <1>5, <1>9 DEF WindowEnds, Restart, vars
  <1>10. QED
    BY <1>6, <1>7, <1>8, <1>9 DEF Next

\* The limit on concurrent jobs holds of the rows in the database, for any number of
\* organizations, jobs and requests, until the API restarts or some slot is released
\* twice, or released for a row that stays active.
THEOREM CapHolds == Spec => []CapUnlessDoubleRelease
  <1>1. TypeOK /\ RowInv /\ CapInv /\ [Next]_vars => CapInv'
    BY NextExact, NextNotReleased DEF CapInv
  <1>2. TypeOK /\ CapInv => CapUnlessDoubleRelease
    <2> SUFFICES ASSUME TypeOK, CapInv, NEW o \in Orgs, ReleasedOnce(o),
                        \A j \in JobsOf(o) : status[j] \in Active => released[j] = 0
                 PROVE  Cardinality(ActiveRows(o)) <= MaxConcurrentJobs
      BY DEF CapUnlessDoubleRelease, ReleasedOnce
    <2>1. ActiveRows(o) \subseteq Outstanding(o)
      BY DEF ActiveRows, Outstanding, JobsOf, Active
    <2>2. /\ Cardinality(ActiveRows(o)) <= Cardinality(Outstanding(o))
          /\ Cardinality(ActiveRows(o)) \in Nat
      BY <2>1, OutstandingFinite, FS_Subset, FS_CardinalityType
    <2>3. Cardinality(Outstanding(o)) <= MaxConcurrentJobs
      BY DEF CapInv, ExactCount, TypeOK
    <2>4. QED
      BY <2>2, <2>3, OutstandingFinite, LimitsAssumption
  <1>3. QED
    BY <1>1, <1>2, InitCap, InitRow, NextRow, TypeCorrect, PTL DEF Spec
============================================================================
