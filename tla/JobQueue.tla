------------------------------ MODULE JobQueue ------------------------------
(***************************************************************************)
(* The brownfield-jobs queue and the workers that consume it: from a job   *)
(* message to its settlement, and from the events of a run to the job row. *)
(*                                                                         *)
(* The queue is a Service Bus queue in peek-lock mode (external): it locks *)
(* a message for one worker, delivers it again when the lock lapses or the *)
(* message is abandoned, and dead-letters it after MaxDeliveries.  A lock  *)
(* may lapse at any time, for it is renewed only for a while.  A worker    *)
(* takes one message at a time.  Its events are posted to the API without  *)
(* waiting: they arrive in any order or are lost.                          *)
(***************************************************************************)
EXTENDS Naturals, FiniteSets

CONSTANTS
  Jobs,           \* job messages, one for every job
  Cancels,        \* cancel messages: they have no options
  JobOf,          \* the job a cancel message is about
  Remote,         \* jobs whose repository the worker clones
  OpensPr,        \* jobs with delivery.openPr
  Workers,        \* worker processes, each on a machine of its own
  MaxDeliveries,  \* maxDeliveryCount of the queue (5)
  AbandonOnError, \* ServiceBusConsumerOptions.abandonOnError
  None

Messages == Jobs \cup Cancels

ASSUME QueueAssumption ==
  /\ Jobs \cap Cancels = {}
  /\ JobOf \in [Cancels -> Jobs]
  /\ Remote \subseteq Jobs /\ OpensPr \subseteq Jobs
  /\ MaxDeliveries \in Nat \ {0}
  /\ AbandonOnError \in BOOLEAN
  /\ None \notin Messages \cup Workers

VARIABLES
  place,       \* place[m]: where the queue has message m
  holder,      \* holder[m]: the worker whose lock on m is valid, or None
  deliveries,  \* deliveries[m]: delivery count
  pc,          \* pc[w]: what worker w is doing
  msg,         \* msg[w]: the message it is doing it for
  cloned,      \* cloned[w]: jobs whose clone is on the machine of w
  posts,       \* events on their way to the API
  row,         \* row[j]: status of the job row
  ended,       \* history: ended[j] runs of j have posted job_completed
  lapsed,      \* history: messages whose lock or settlement was lost
  lost         \* history: jobs some event of which was lost

queue == <<place, holder, deliveries>>

worker == <<pc, msg, cloned>>

vars == <<queue, worker, posts, row, ended, lapsed, lost>>

Places == {"absent", "queued", "locked", "completed", "deadletter"}

Phases == {"bootstrap", "commit_walk", "bundle_packaging", "pr_delivery"}

PCs == {"idle", "received", "prepared", "finished", "failing"} \cup Phases

Active == {"queued"}

Terminal == {"completed", "cancelled"}

-----------------------------------------------------------------------------
(* The queue.                                                              *)

\* Mutant: the message goes back to the queue but the lock is kept.
UnlockNot(m) ==
  /\ place' = [place EXCEPT ![m] = IF deliveries[m] < MaxDeliveries THEN "queued" ELSE "deadletter"]
  /\ UNCHANGED <<holder, deliveries>>

\* A lock ends without a settlement: the next delivery, or the dead-letter queue.
Unlock(m) ==
  /\ place' = [place EXCEPT ![m] = IF deliveries[m] < MaxDeliveries THEN "queued" ELSE "deadletter"]
  /\ holder' = [holder EXCEPT ![m] = None]
  /\ UNCHANGED deliveries

Settle(m, there) ==
  /\ place' = [place EXCEPT ![m] = there]
  /\ holder' = [holder EXCEPT ![m] = None]
  /\ UNCHANGED deliveries

Holds(w) == holder[msg[w]] = w

LockLapses(m) ==
  /\ place[m] = "locked"
  /\ Unlock(m)
  /\ lapsed' = lapsed \cup {m}
  /\ UNCHANGED <<worker, posts, row, ended, lost>>

\* Of a worker that no longer works on the message, nobody renews the lock.
Orphaned(m) == \A w \in Workers : holder[m] = w => msg[w] # m

-----------------------------------------------------------------------------
(* processMessage.                                                         *)

Idle(w) ==
  /\ pc' = [pc EXCEPT ![w] = "idle"]
  /\ msg' = [msg EXCEPT ![w] = None]

GoTo(w, where) ==
  /\ pc' = [pc EXCEPT ![w] = where]
  /\ UNCHANGED msg

Receive(w, m) ==
  /\ pc[w] = "idle"
  /\ place[m] = "queued"
  /\ place' = [place EXCEPT ![m] = "locked"]
  /\ holder' = [holder EXCEPT ![m] = w]
  /\ deliveries' = [deliveries EXCEPT ![m] = @ + 1]
  /\ pc' = [pc EXCEPT ![w] = "received"]
  /\ msg' = [msg EXCEPT ![w] = m]
  /\ UNCHANGED <<cloned, posts, row, ended, lapsed, lost>>

\* Mutant: the message of a handler that throws is completed all the same.
ThrowsAndCompletes(w) ==
  /\ Idle(w)
  /\ IF Holds(w) THEN Settle(msg[w], "completed") ELSE UNCHANGED queue
  /\ UNCHANGED lapsed

\* processMessage throws: the receiver abandons the message, if it can.
Throws(w) ==
  /\ Idle(w)
  /\ \/ Holds(w) /\ Unlock(msg[w]) /\ UNCHANGED lapsed
     \/ UNCHANGED queue /\ lapsed' = lapsed \cup {msg[w]}

\* A message without options, such as a cancel: it is completed and nothing else.
CompleteInvalid(w) ==
  /\ pc[w] = "received"
  /\ msg[w] \in Cancels
  /\ \/ Holds(w) /\ Settle(msg[w], "completed") /\ Idle(w) /\ UNCHANGED lapsed
     \/ Throws(w)
  /\ UNCHANGED <<cloned, posts, row, ended, lost>>

\* Outside the try block: the directory, and the clone of a remote repository, which
\* git refuses when an earlier delivery left one.
Prepare(w) ==
  /\ pc[w] = "received"
  /\ msg[w] \in Jobs
  /\ msg[w] \in Remote => msg[w] \notin cloned[w]
  /\ cloned' = [cloned EXCEPT ![w] = @ \cup ({msg[w]} \cap Remote)]
  /\ GoTo(w, "prepared")
  /\ UNCHANGED <<queue, posts, row, ended, lapsed, lost>>

PrepareFails(w) ==
  /\ pc[w] = "received"
  /\ msg[w] \in Jobs
  /\ Throws(w)
  /\ UNCHANGED <<cloned, posts, row, ended, lost>>

\* Mutant: a run that has lost its lock waits for it.
ResolveWhileLocked(w) ==
  /\ pc[w] = "prepared"
  /\ Holds(w)
  /\ GoTo(w, "bootstrap")
  /\ UNCHANGED <<queue, cloned, posts, row, ended, lapsed, lost>>

\* A failing resolve is swallowed: the run goes on, with mock agents if the worker has no
\* key of its own.
ResolveCredentials(w) ==
  /\ pc[w] = "prepared"
  /\ GoTo(w, "bootstrap")
  /\ UNCHANGED <<queue, cloned, posts, row, ended, lapsed, lost>>

-----------------------------------------------------------------------------
(* runBrownfieldJob: each phase may throw.                                 *)

Post(w, types) == posts' = posts \cup ({msg[w]} \X types)

NextPhase(w) ==
  CASE pc[w] = "bootstrap" -> "commit_walk"
    [] pc[w] = "commit_walk" -> "bundle_packaging"
    [] pc[w] = "bundle_packaging" /\ msg[w] \in OpensPr -> "pr_delivery"
    [] OTHER -> "finished"

\* Mutant: a run that opens a pull request posts no outcome after it.
FinishPhaseQuietly(w) ==
  LET next == NextPhase(w)
      types == (IF pc[w] = "bundle_packaging" THEN {"bundle_ready"} ELSE {})
                 \cup (IF next = "finished" /\ pc[w] # "pr_delivery" THEN {"job_completed"} ELSE {})
  IN /\ Post(w, types)
     /\ ended' = IF next = "finished" THEN [ended EXCEPT ![msg[w]] = @ + 1] ELSE ended
     /\ GoTo(w, next)

FinishPhase(w) ==
  LET next == NextPhase(w)
      types == (IF pc[w] = "bundle_packaging" THEN {"bundle_ready"} ELSE {})
                 \cup (IF next = "finished" THEN {"job_completed"} ELSE {})
  IN /\ Post(w, types)
     /\ ended' = IF next = "finished" THEN [ended EXCEPT ![msg[w]] = @ + 1] ELSE ended
     /\ GoTo(w, next)

RunPhase(w) ==
  /\ pc[w] \in Phases
  /\ FinishPhase(w)
  /\ UNCHANGED <<queue, cloned, row, lapsed, lost>>

\* No event tells of it: the exception goes to the catch block.
PhaseFails(w) ==
  /\ pc[w] \in Phases
  /\ GoTo(w, "failing")
  /\ UNCHANGED <<queue, cloned, posts, row, ended, lapsed, lost>>

\* Mutant: the message goes back to the queue whatever the run did.
CompleteByAbandon(w) ==
  /\ pc[w] = "finished"
  /\ Holds(w)
  /\ Unlock(msg[w])
  /\ Idle(w)
  /\ UNCHANGED <<cloned, posts, row, ended, lapsed, lost>>

\* completeMessage; without the lock, or when the call or its answer is lost, it throws
\* into the catch block although the run has ended well.
Complete(w) ==
  /\ pc[w] = "finished"
  /\ \/ Holds(w) /\ Settle(msg[w], "completed") /\ Idle(w) /\ UNCHANGED lapsed
     \/ /\ GoTo(w, "failing") /\ lapsed' = lapsed \cup {msg[w]}
        /\ \/ Holds(w) /\ Settle(msg[w], "completed")
           \/ UNCHANGED queue
  /\ UNCHANGED <<cloned, posts, row, ended, lost>>

\* The catch block: dead-letter, or abandon, which in turn may throw.
Fail(w) ==
  /\ pc[w] = "failing"
  /\ \/ /\ Holds(w) /\ Idle(w) /\ UNCHANGED lapsed
        /\ IF AbandonOnError THEN Unlock(msg[w]) ELSE Settle(msg[w], "deadletter")
     \/ Throws(w)
  /\ UNCHANGED <<cloned, posts, row, ended, lost>>

\* The process dies with its work; the machine may come back without its disk.
Crash(w) ==
  /\ pc[w] # "idle"
  /\ Idle(w)
  /\ \E disk \in {cloned[w], {}} : cloned' = [cloned EXCEPT ![w] = disk]
  /\ UNCHANGED <<queue, posts, row, ended, lapsed, lost>>

-----------------------------------------------------------------------------
(* The API.                                                                *)

\* A posted event reaches the API, which completes a job that is active.
Arrive(p) ==
  /\ posts' = posts \ {p}
  /\ row' = [row EXCEPT ![p[1]] =
               IF p[2] = "job_completed" /\ @ \in Active THEN "completed" ELSE @]
  /\ UNCHANGED <<queue, worker, ended, lapsed, lost>>

\* The post or its handler fails: the relay logs it and forgets it.
Lose(p) ==
  /\ posts' = posts \ {p}
  /\ lost' = lost \cup {p[1]}
  /\ UNCHANGED <<queue, worker, row, ended, lapsed>>

\* A user cancels an active job: the row is settled and a cancel message is sent.
Cancel(m) ==
  /\ place[m] = "absent"
  /\ row[JobOf[m]] \in Active
  /\ row' = [row EXCEPT ![JobOf[m]] = "cancelled"]
  /\ place' = [place EXCEPT ![m] = "queued"]
  /\ UNCHANGED <<holder, deliveries, worker, posts, ended, lapsed, lost>>

-----------------------------------------------------------------------------
Init ==
  /\ place = [m \in Messages |-> IF m \in Jobs THEN "queued" ELSE "absent"]
  /\ holder = [m \in Messages |-> None]
  /\ deliveries = [m \in Messages |-> 0]
  /\ pc = [w \in Workers |-> "idle"]
  /\ msg = [w \in Workers |-> None]
  /\ cloned = [w \in Workers |-> {}]
  /\ posts = {}
  /\ row = [j \in Jobs |-> "queued"]
  /\ ended = [j \in Jobs |-> 0]
  /\ lapsed = {}
  /\ lost = {}

Work(w) ==
  \/ CompleteInvalid(w) \/ Prepare(w) \/ PrepareFails(w) \/ ResolveCredentials(w)
  \/ RunPhase(w) \/ PhaseFails(w) \/ Complete(w) \/ Fail(w)

Next ==
  \/ \E w \in Workers : Work(w) \/ Crash(w)
  \/ \E m \in Messages : LockLapses(m) \/ \E w \in Workers : Receive(w, m)
  \/ \E p \in posts : Arrive(p) \/ Lose(p)
  \/ \E m \in Cancels : Cancel(m)

Spec == Init /\ [][Next]_vars

\* A busy worker goes on, an idle one receives, a lock nobody renews lapses, and a posted
\* event arrives or is lost.  Locks in use, crashes and cancels owe nothing.
FairSpec ==
  /\ Spec
  /\ \A w \in Workers : WF_vars(Work(w))
  /\ \A m \in Messages : /\ SF_vars(\E w \in Workers : Receive(w, m))
                         /\ WF_vars(Orphaned(m) /\ LockLapses(m))
  /\ \A p \in Jobs \X {"bundle_ready", "job_completed"} :
       WF_vars(p \in posts /\ (Arrive(p) \/ Lose(p)))

-----------------------------------------------------------------------------
(* Properties.                                                             *)

\* Types of all variables; a message is locked exactly while some worker holds it.
TypeOK ==
  /\ place \in [Messages -> Places]
  /\ holder \in [Messages -> Workers \cup {None}]
  /\ \A m \in Messages : place[m] = "locked" <=> holder[m] # None
  /\ deliveries \in [Messages -> 0..MaxDeliveries]
  /\ pc \in [Workers -> PCs]
  /\ msg \in [Workers -> Messages \cup {None}]
  /\ cloned \in [Workers -> SUBSET Remote]
  /\ posts \subseteq Jobs \X {"bundle_ready", "job_completed"}
  /\ row \in [Jobs -> Active \cup Terminal]
  /\ ended \in [Jobs -> 0..MaxDeliveries]
  /\ lapsed \subseteq Messages /\ lost \subseteq Jobs

\* A job message is completed, and a row turns completed, only after a run of the job
\* has gone through all its phases: no failure, crash or redelivery acknowledges a job
\* that was not done.
AckedAfterOutcome ==
  \A j \in Jobs : place[j] = "completed" \/ row[j] = "completed" => ended[j] > 0

\* A job ends well a second time, and posts a second outcome, only if the lock on its
\* message or a settlement of it was lost.
SecondOutcomeNeedsLapse == \A j \in Jobs : ended[j] > 1 => j \in lapsed

\* Every message is settled in the end: completed or dead-lettered, whatever fails.
MessagesAreSettled ==
  \A m \in Messages : place[m] = "queued" ~> place[m] \in {"completed", "deadletter"}

\* A job whose message was completed is terminal for the API in the end, unless one of
\* its events was lost on the way.
CompletedJobIsReported ==
  \A j \in Jobs : place[j] = "completed" ~> (row[j] \in Terminal \/ j \in lost)
============================================================================
