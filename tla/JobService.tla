----------------------------- MODULE JobService -----------------------------
(***************************************************************************)
(* The job API of apps/api: BrownfieldJobService (create, cancel, worker   *)
(* event), the OrgRateLimiter it charges, the BrownfieldJobs table, the    *)
(* event hub and event table as far as job outcomes go, and the Service    *)
(* Bus queue as the set of messages ever sent.                             *)
(*                                                                         *)
(* ASP.NET runs one handler per HTTP request, and handlers interleave at   *)
(* every await.  A create request is identified with the job id it would   *)
(* draw; cancel requests and worker events are the elements of Requests.   *)
(* An action is what a handler does between two awaits.  Requests are      *)
(* one-shot, so the number of requests bounds the run.                     *)
(*                                                                         *)
(* A SaveChangesAsync may fail in two ways: without having committed, or   *)
(* (a timeout or an aborted request while the answer is on its way) after. *)
(***************************************************************************)
EXTENDS Naturals, FiniteSets

CONSTANTS
  Orgs,                 \* organizations (tenants)
  Jobs,                 \* job ids: one create request each
  OrgOf,                \* OrgOf[j]: organization whose user posts the create request of j
  TargetOf,             \* TargetOf[j]: its normalised repoUrl and branch
  Requests,             \* the cancel requests and worker events of the run
  MaxConcurrentJobs,    \* OrgRateLimiter.MaxConcurrentJobs (10)
  MaxAgentRunsPerHour,  \* OrgRateLimiter.MaxAgentRunsPerHour (50)
  MaxRestarts           \* bound: restarts of the API process in one run

ASSUME JobsAssumption ==
  /\ IsFiniteSet(Jobs) /\ Jobs # {}
  /\ IsFiniteSet(Requests)
  /\ OrgOf \in [Jobs -> Orgs]

ASSUME LimitsAssumption ==
  /\ MaxConcurrentJobs \in Nat \ {0}
  /\ MaxAgentRunsPerHour \in Nat \ {0}
  /\ MaxRestarts \in Nat

VARIABLES
  status,      \* BrownfieldJobs.Status, "absent" when there is no row
  create,      \* create[j]: where the create request of j stands
  req,         \* req[r]: where the cancel request or worker event r stands
  activeJobs,  \* OrgRateLimiter: ActiveJobs of each organization (memory)
  agentRuns,   \* OrgRateLimiter: AgentRunsInWindow of each organization (memory)
  hub,         \* hub[j]: types of the worker events published to the hub (memory)
  persisted,   \* persisted[j]: types of the worker events stored in PostgreSQL
  sent,        \* messages the API has sent to the Service Bus queue
  restarts,    \* number of restarts so far
  released     \* history: released[j] is how often a slot was released for j

vars == <<status, create, req, activeJobs, agentRuns, hub, persisted, sent,
          restarts, released>>

memory == <<activeJobs, agentRuns, hub>>

-----------------------------------------------------------------------------
(* Statuses, requests and the bookkeeping the invariants speak of.         *)

\* TerminalJobStatuses.
Terminal == {"completed", "failed", "cancelled"}

\* ActiveJobStatuses, as far as HTTP requests can write them: "queued" stands
\* for every active status (see NextStatus).
Active == {"queued"}

Statuses == {"absent"} \cup Active \cup Terminal

\* AllowedEventTypes, as far as the handler tells them apart: "phase_started"
\* stands for the event types that neither charge the budget nor end a job.
WorkerEvents == {"phase_started", "agent_started", "job_completed", "job_failed"}

CreatePCs == {"idle", "admitted", "checked", "reserved", "undo", "inserted", "done"}

RequestPCs == {"idle", "loaded", "published", "saved", "released", "aborted", "done"}

RequestStates ==
  [pc : RequestPCs, kind : WorkerEvents \cup {"cancel"}, job : Jobs, read : Statuses]

Messages == [type : {"start", "cancel"}, job : Jobs]

AnyJob == CHOOSE j \in Jobs : TRUE

IdleRequest == [pc |-> "idle", kind |-> "cancel", job |-> AnyJob, read |-> "absent"]

Finished == [IdleRequest EXCEPT !.pc = "done"]

JobsOf(o) == {j \in Jobs : OrgOf[j] = o}

ActiveRows(o) == {j \in JobsOf(o) : status[j] \in Active}

\* Jobs that account for a slot: a create request holds one between reserving
\* it and inserting its row (or giving it back), and an active row holds one.
JobHolders(o) ==
  {j \in JobsOf(o) : create[j] \in {"reserved", "undo"} \/ status[j] \in Active}

\* Requests that account for a slot: they wrote a terminal status and have not
\* released the slot yet, or died between the commit and the release.
RequestHolders(o) ==
  {r \in Requests : req[r].pc \in {"saved", "aborted"} /\ OrgOf[req[r].job] = o}

-----------------------------------------------------------------------------
(* OrgRateLimiter.  Its lock makes each call atomic.                       *)

\* Mutant: the comparison with the limit is off by one.
OverLimitOffByOne(o) ==
  \/ activeJobs[o] > MaxConcurrentJobs
  \/ agentRuns[o] >= MaxAgentRunsPerHour

OverLimit(o) ==
  \/ activeJobs[o] >= MaxConcurrentJobs
  \/ agentRuns[o] >= MaxAgentRunsPerHour

\* TryStartJob, once the limits are known not to be reached.
TakeSlot(o) == activeJobs' = [activeJobs EXCEPT ![o] = @ + 1]

\* CompleteJob: never below zero.
CompleteJob(j) ==
  /\ activeJobs' =
       [activeJobs EXCEPT ![OrgOf[j]] = IF @ = 0 THEN 0 ELSE @ - 1]
  /\ released' = [released EXCEPT ![j] = @ + 1]

\* PruneWindow: the hour of the window is over; the next call starts from zero.
WindowEnds(o) ==
  /\ agentRuns[o] > 0
  /\ agentRuns' = [agentRuns EXCEPT ![o] = 0]
  /\ UNCHANGED <<status, create, req, activeJobs, hub, persisted, sent, restarts, released>>

-----------------------------------------------------------------------------
(* POST /v1/brownfield-jobs.  The early returns for a missing claim, an    *)
(* invalid body or an unknown connection change nothing: the request is    *)
(* as if never made.                                                       *)

DuplicateActive(j) ==
  \E k \in Jobs : /\ OrgOf[k] = OrgOf[j]
                  /\ TargetOf[k] = TargetOf[j]
                  /\ status[k] \in Active

\* OrgRateLimitMiddleware: 429 over the limit, nothing charged.
CreateAdmit(j) ==
  /\ create[j] = "idle"
  /\ create' = [create EXCEPT ![j] = IF OverLimit(OrgOf[j]) THEN "done" ELSE "admitted"]
  /\ UNCHANGED <<status, req, memory, persisted, sent, restarts, released>>

\* The query for an active job on the same target: 409, or on to the limiter.
CreateCheck(j) ==
  /\ create[j] = "admitted"
  /\ create' = [create EXCEPT ![j] = IF DuplicateActive(j) THEN "done" ELSE "checked"]
  /\ UNCHANGED <<status, req, memory, persisted, sent, restarts, released>>

\* Mutant: the limit is only checked at the HTTP boundary, and charged here.
CreateReserveUnchecked(j) ==
  /\ create[j] = "checked"
  /\ create' = [create EXCEPT ![j] = "reserved"]
  /\ TakeSlot(OrgOf[j])
  /\ UNCHANGED <<status, req, agentRuns, hub, persisted, sent, restarts, released>>

\* TryStartJob: 429 over the limit, otherwise one slot is taken.
CreateReserve(j) ==
  /\ create[j] = "checked"
  /\ IF OverLimit(OrgOf[j])
     THEN /\ create' = [create EXCEPT ![j] = "done"]
          /\ UNCHANGED activeJobs
     ELSE /\ create' = [create EXCEPT ![j] = "reserved"]
          /\ TakeSlot(OrgOf[j])
  /\ UNCHANGED <<status, req, agentRuns, hub, persisted, sent, restarts, released>>

\* The insert commits and SaveChangesAsync returns.
CreateInsert(j) ==
  /\ create[j] = "reserved"
  /\ status' = [status EXCEPT ![j] = "queued"]
  /\ create' = [create EXCEPT ![j] = "inserted"]
  /\ UNCHANGED <<req, memory, persisted, sent, restarts, released>>

\* Mutant: the message is sent before the row is saved.
CreateInsertFailsAfterSend(j) ==
  /\ create[j] = "reserved"
  /\ create' = [create EXCEPT ![j] = "undo"]
  /\ sent' = sent \cup {[type |-> "start", job |-> j]}
  /\ UNCHANGED <<status, req, memory, persisted, restarts, released>>

\* SaveChangesAsync throws, the row committed or not.
CreateInsertFails(j) ==
  /\ create[j] = "reserved"
  /\ \/ UNCHANGED status
     \/ status' = [status EXCEPT ![j] = "queued"]
  /\ create' = [create EXCEPT ![j] = "undo"]
  /\ UNCHANGED <<req, memory, persisted, sent, restarts, released>>

\* Mutant: the catch block rethrows without giving the slot back.
CreateUndoForgotten(j) ==
  /\ create[j] = "undo"
  /\ create' = [create EXCEPT ![j] = "done"]
  /\ UNCHANGED <<status, req, memory, persisted, sent, restarts, released>>

\* The catch block gives the slot back and rethrows.
CreateUndo(j) ==
  /\ create[j] = "undo"
  /\ CompleteJob(j)
  /\ create' = [create EXCEPT ![j] = "done"]
  /\ UNCHANGED <<status, req, agentRuns, hub, persisted, sent, restarts>>

\* Publishes the queued event and enqueues the start message.  The send may
\* throw, and without a connection string nothing is sent: either way the row
\* and the slot stay.
CreateEnqueue(j) ==
  /\ create[j] = "inserted"
  /\ sent' \in {sent, sent \cup {[type |-> "start", job |-> j]}}
  /\ hub' = [hub EXCEPT ![j] = @ \cup {"phase_started"}]
  /\ create' = [create EXCEPT ![j] = "done"]
  /\ UNCHANGED <<status, req, activeJobs, agentRuns, persisted, restarts, released>>

-----------------------------------------------------------------------------
(* Requests on an existing job: POST .../cancel and POST .../events.       *)

\* Request r, standing at pc, goes on at next.
Goto(r, pc, next) ==
  /\ req[r].pc = pc
  /\ req' = [req EXCEPT ![r].pc = next]

Finish(r) == req' = [req EXCEPT ![r] = Finished]

Loaded(k, j) == [pc |-> "loaded", kind |-> k, job |-> j, read |-> status[j]]

\* Mutant: the phase is read from the JSON value, as in-process callers pass it.
NextStatusFromPhase(r) ==
  CASE req[r].kind = "cancel"        -> "cancelled"
    [] req[r].kind = "job_completed" -> "completed"
    [] req[r].kind = "job_failed"    -> "failed"
    [] req[r].kind = "phase_started" -> "queued"
    [] OTHER                         -> req[r].read

\* What the handler assigns to the Status property of the entity it loaded.
\* The phase of a phase_started event reaches the handler as a JsonElement, so
\* its `phase is string` test fails for every HTTP request.
NextStatus(r) ==
  CASE req[r].kind = "cancel"        -> "cancelled"
    [] req[r].kind = "job_completed" -> "completed"
    [] req[r].kind = "job_failed"    -> "failed"
    [] OTHER                         -> req[r].read

\* UPDATE writes the columns that changed since the row was loaded, without
\* looking at what the row holds now.
CommitStatus(r) ==
  status' = IF NextStatus(r) = req[r].read THEN status
            ELSE [status EXCEPT ![req[r].job] = NextStatus(r)]

\* Mutant: only a job that completes gives its slot back.
MustReleaseOnCompletion(r) ==
  req[r].read \notin Terminal /\ NextStatus(r) = "completed"

\* !wasTerminal and now terminal; a cancel past its guard always releases.
MustRelease(r) == req[r].read \notin Terminal /\ NextStatus(r) \in Terminal

\* CancelAsync up to its guard: 404, 409, or on with the loaded entity.
CancelLoad(r, j) ==
  /\ req[r].pc = "idle"
  /\ IF status[j] \in Active
     THEN req' = [req EXCEPT ![r] = Loaded("cancel", j)]
     ELSE Finish(r)
  /\ UNCHANGED <<status, create, memory, persisted, sent, restarts, released>>

\* PublishWorkerEventAsync up to the row: a worker posts events of a job whose
\* start message it received; 404 without a row.
EventLoad(r, j, k) ==
  /\ req[r].pc = "idle"
  /\ [type |-> "start", job |-> j] \in sent
  /\ IF status[j] = "absent" THEN Finish(r)
     ELSE req' = [req EXCEPT ![r] = Loaded(k, j)]
  /\ UNCHANGED <<status, create, memory, persisted, sent, restarts, released>>

\* Mutant: the event is stored for replay before the job row is updated.
EventPublishAndPersist(r) ==
  /\ req[r].kind # "cancel"
  /\ Goto(r, "loaded", "published")
  /\ hub' = [hub EXCEPT ![req[r].job] = @ \cup {req[r].kind}]
  /\ persisted' = [persisted EXCEPT ![req[r].job] = @ \cup {req[r].kind}]
  /\ UNCHANGED <<status, create, activeJobs, agentRuns, sent, restarts, released>>

\* Mutant: the event is not published until the row is updated.
EventPublishLater(r) ==
  /\ req[r].kind # "cancel"
  /\ Goto(r, "loaded", "published")
  /\ UNCHANGED <<status, create, memory, persisted, sent, restarts, released>>

\* agent_started charges the hourly budget; every event goes to the hub.
EventPublish(r) ==
  /\ req[r].kind # "cancel"
  /\ Goto(r, "loaded", "published")
  /\ hub' = [hub EXCEPT ![req[r].job] = @ \cup {req[r].kind}]
  /\ agentRuns' = IF req[r].kind = "agent_started"
                  THEN [agentRuns EXCEPT ![OrgOf[req[r].job]] = @ + 1]
                  ELSE agentRuns
  /\ UNCHANGED <<status, create, activeJobs, persisted, sent, restarts, released>>

AtSave(r) ==
  \/ req[r].kind = "cancel" /\ req[r].pc = "loaded"
  \/ req[r].kind # "cancel" /\ req[r].pc = "published"

\* SaveChangesAsync returns.
Save(r) ==
  /\ AtSave(r)
  /\ CommitStatus(r)
  /\ req' = [req EXCEPT ![r].pc = IF MustRelease(r) THEN "saved" ELSE "released"]
  /\ UNCHANGED <<create, memory, persisted, sent, restarts, released>>

\* SaveChangesAsync throws before the commit, or the handler does (a null score in the
\* metrics of job_completed, see JobProgress).
SaveFails(r) ==
  /\ AtSave(r)
  /\ Finish(r)
  /\ UNCHANGED <<status, create, memory, persisted, sent, restarts, released>>

\* SaveChangesAsync throws after the commit: the release is skipped.
SaveAborts(r) ==
  /\ AtSave(r)
  /\ CommitStatus(r)
  /\ IF MustRelease(r)
     THEN req' = [req EXCEPT ![r].pc = "aborted"]
     ELSE Finish(r)
  /\ UNCHANGED <<create, memory, persisted, sent, restarts, released>>

\* CompleteJob; a cancel goes on to publish its phase event.
Release(r) ==
  /\ Goto(r, "saved", "released")
  /\ CompleteJob(req[r].job)
  /\ hub' = IF req[r].kind = "cancel"
            THEN [hub EXCEPT ![req[r].job] = @ \cup {"phase_started"}]
            ELSE hub
  /\ UNCHANGED <<status, create, agentRuns, persisted, sent, restarts>>

\* The cancel handler of Program.cs enqueues a cancel message, or throws.
CancelEnqueue(r) ==
  /\ req[r].kind = "cancel" /\ req[r].pc = "released"
  /\ sent' \in {sent, sent \cup {[type |-> "cancel", job |-> req[r].job]}}
  /\ Finish(r)
  /\ UNCHANGED <<status, create, memory, persisted, restarts, released>>

\* PersistEventAsync stores the event for replay, or throws.
EventPersist(r) ==
  /\ req[r].kind # "cancel" /\ req[r].pc = "released"
  /\ \/ persisted' = [persisted EXCEPT ![req[r].job] = @ \cup {req[r].kind}]
     \/ UNCHANGED persisted
  /\ Finish(r)
  /\ UNCHANGED <<status, create, memory, sent, restarts, released>>

-----------------------------------------------------------------------------
\* The API process dies and comes back: its memory and the handlers in flight
\* are gone, the database and the queue are not.
Restart ==
  /\ restarts < MaxRestarts
  /\ restarts' = restarts + 1
  /\ create' = [j \in Jobs |-> IF create[j] = "idle" THEN "idle" ELSE "done"]
  /\ req' = [r \in Requests |-> IF req[r].pc = "idle" THEN req[r] ELSE Finished]
  /\ activeJobs' = [o \in Orgs |-> 0]
  /\ agentRuns' = [o \in Orgs |-> 0]
  /\ hub' = [j \in Jobs |-> {}]
  /\ UNCHANGED <<status, persisted, sent, released>>

Init ==
  /\ status = [j \in Jobs |-> "absent"]
  /\ create = [j \in Jobs |-> "idle"]
  /\ req = [r \in Requests |-> IdleRequest]
  /\ activeJobs = [o \in Orgs |-> 0]
  /\ agentRuns = [o \in Orgs |-> 0]
  /\ hub = [j \in Jobs |-> {}]
  /\ persisted = [j \in Jobs |-> {}]
  /\ sent = {}
  /\ restarts = 0
  /\ released = [j \in Jobs |-> 0]

CreateStep(j) ==
  \/ CreateCheck(j)
  \/ CreateReserve(j)
  \/ CreateInsert(j)
  \/ CreateInsertFails(j)
  \/ CreateUndo(j)
  \/ CreateEnqueue(j)

RequestStep(r) ==
  \/ EventPublish(r)
  \/ Save(r)
  \/ SaveFails(r)
  \/ SaveAborts(r)
  \/ Release(r)
  \/ CancelEnqueue(r)
  \/ EventPersist(r)

Next ==
  \/ \E j \in Jobs : CreateAdmit(j) \/ CreateStep(j)
  \/ \E r \in Requests, j \in Jobs :
       CancelLoad(r, j) \/ \E k \in WorkerEvents : EventLoad(r, j, k)
  \/ \E r \in Requests : RequestStep(r)
  \/ \E o \in Orgs : WindowEnds(o)
  \/ Restart

Spec == Init /\ [][Next]_vars

\* A handler that has begun is scheduled until it returns: its awaits complete,
\* normally or by throwing.  Nobody has to make a request.
FairSpec ==
  /\ Spec
  /\ \A j \in Jobs : WF_vars(CreateStep(j))
  /\ \A r \in Requests : WF_vars(RequestStep(r))

-----------------------------------------------------------------------------
(* Properties.                                                             *)

\* Types of all variables; the limiter's counter stays within 0..MaxConcurrentJobs.
TypeOK ==
  /\ status \in [Jobs -> Statuses]
  /\ create \in [Jobs -> CreatePCs]
  /\ req \in [Requests -> RequestStates]
  /\ activeJobs \in [Orgs -> 0..MaxConcurrentJobs]
  /\ agentRuns \in [Orgs -> Nat]
  /\ hub \in [Jobs -> SUBSET WorkerEvents]
  /\ persisted \in [Jobs -> SUBSET WorkerEvents]
  /\ sent \subseteq Messages
  /\ restarts \in 0..MaxRestarts
  /\ released \in [Jobs -> Nat]

\* The limiter never counts a slot nobody accounts for: every slot it counts
\* belongs to a create in flight, to an active row, to a request about to release
\* it, or to a request that died between its commit and its release.
NoSlotLeak ==
  \A o \in Orgs :
    activeJobs[o] <= Cardinality(JobHolders(o)) + Cardinality(RequestHolders(o))

\* The limit on concurrent jobs binds the database rows themselves, as long as
\* the counter was not lost in a restart and no slot was released twice, or
\* released although the row stayed active.
CapUnlessDoubleRelease ==
  \A o \in Orgs :
    (/\ restarts = 0
     /\ \A j \in JobsOf(o) : /\ released[j] <= 1
                             /\ status[j] \in Active => released[j] = 0)
    => Cardinality(ActiveRows(o)) <= MaxConcurrentJobs

\* The row is committed before any message about the job is sent, so a worker
\* that picks up a message posts its events to a job the API knows.
MessageHasRow == \A m \in sent : status[m.job] # "absent"

\* The event table never tells a subscriber that a job has ended while the job's
\* row is (still, or again) active: the outcome is stored after the status.
ReplayedOutcomeIsSettled ==
  \A j \in Jobs :
    persisted[j] \cap {"job_completed", "job_failed"} # {} => status[j] \in Terminal

\* A job is not seen completed or failed in the database before the event that
\* says so was published to the live streams (until a restart empties the hub).
OutcomeIsAnnounced ==
  restarts = 0 =>
    \A j \in Jobs : /\ status[j] = "completed" => "job_completed" \in hub[j]
                    /\ status[j] = "failed"    => "job_failed" \in hub[j]

\* What the API tells others about a job and what its row says agree at every await of
\* every handler, whatever fails in between: the queue, the live streams and the replayed
\* table each learn of it in their turn.
TellsInOrder == MessageHasRow /\ ReplayedOutcomeIsSettled /\ OutcomeIsAnnounced

\* The handlers, whatever their interleaving, implement the promise of JobStatus:
\* in particular a late or repeated worker event never makes a settled job active.
JS == INSTANCE JobStatus WITH Jobs <- Jobs, status <- status
StatusPromise == JS!Spec

\* Once an organization has no active rows left for good and no request of it died
\* holding a slot, the limiter eventually counts no slot for it.
SlotsDrain ==
  \A o \in Orgs :
    <>[](/\ ActiveRows(o) = {}
         /\ \A r \in Requests : req[r].pc = "aborted" => OrgOf[req[r].job] # o)
      => <>[](activeJobs[o] = 0)
============================================================================
