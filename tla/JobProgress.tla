---------------------------- MODULE JobProgress -----------------------------
(***************************************************************************)
(* What the events of one job leave behind in the API: the progress        *)
(* columns of its row, the job_commits and job_phase_runs rows of          *)
(* JobProgressWriter, the JobArtifactStore, and the report and bundle that *)
(* GetReportAsync and GetBundleRedirectAsync make of them.                 *)
(*                                                                         *)
(* The worker posts its events without waiting, so their handlers overlap  *)
(* and run in any order; an event that is never handled was lost.  Each is *)
(* posted once.  An action is what a handler does between two awaits; a    *)
(* save fails, or throws after its commit, or returns.  A handler ends     *)
(* "done" where its code ends, by a return or an exception of its own, and *)
(* "failed" where a database call fails or the process dies.               *)
(***************************************************************************)
EXTENDS Naturals, FiniteSets

CONSTANTS
  Job,         \* the job
  Skips,       \* commits the walk skips: one commit_skipped event each
  Verdicts,    \* audited rounds: one audit_verdict event each
  Runs,        \* runs of agents: an agent_started and an agent_completed event each
  Processed,   \* commits the walk processes
  Emissions,   \* the sets of events the worker may emit for a job
  MaxRestarts, \* bound: restarts of the API process in one run
  None

\* The events of the job, as <<type, what it is about>>.
Skipping == {"commit_skipped"} \X Skips
Auditing == {"audit_verdict"} \X Verdicts
Starting == {"agent_started"} \X Runs
Completing == {"agent_completed"} \X Runs
BundleReady == <<"bundle_ready", Job>>
JobCompleted == <<"job_completed", Job>>

Counting == Skipping \cup Auditing

Events == Counting \cup Starting \cup Completing \cup {BundleReady, JobCompleted}

ASSUME ProgressAssumption ==
  /\ IsFiniteSet(Skips) /\ IsFiniteSet(Verdicts)
  /\ Processed \in Nat /\ MaxRestarts \in Nat
  /\ Emissions \subseteq SUBSET Events
  /\ None \notin Events

VARIABLES
  emitted,    \* the events the worker emits for the job
  row,        \* the progress columns of BrownfieldJobs
  pc,         \* pc[e]: where the handler of e stands
  read,       \* read[e]: the row as that handler loaded it, until it saves
  commitRows, \* job_commits: the commit_skipped events stored
  runRows,    \* job_phase_runs
  found,      \* found[e]: the row agent_completed found, by the event that made it
  artifacts,  \* JobArtifactStore (memory)
  realAgents, \* whether the agents are real or mocked
  restarts,   \* number of restarts so far
  counted,    \* history: counting events whose update committed
  overlapped, \* history: whether the handlers of two counting events overlapped
  late,       \* history: whether a count was saved after job_completed loaded the row
  overtaken   \* history: runs whose end was looked up before their start was stored

vars == <<emitted, row, pc, read, commitRows, runRows, found, artifacts, realAgents,
          restarts, counted, overlapped, late, overtaken>>

given == <<emitted, realAgents>>

history == <<counted, overlapped, late, overtaken>>

\* metrics stands for TokenEstimateStart, TokenEstimateCurrent and MeanQaScore.
Rows == [skipped : Nat, processed : Nat, completed : BOOLEAN, metrics : BOOLEAN, blob : BOOLEAN]

EmptyRow == [skipped |-> 0, processed |-> 0, completed |-> FALSE, metrics |-> FALSE, blob |-> FALSE]

RunRows == [by : Starting \cup Completing, closed : Completing \cup {None}]

Goto(e, from, to) == pc[e] = from /\ pc' = [pc EXCEPT ![e] = to]

-----------------------------------------------------------------------------
(* PublishWorkerEventAsync up to its first save.                           *)

\* JobArtifactStore.RecordEvent
RecordEvent(e) ==
  artifacts' = [report |-> artifacts.report \/ e = JobCompleted,
                blob   |-> artifacts.blob \/ e = BundleReady]

\* The row is loaded; the handler goes on to RecordEvent and to the update.
Load(e) ==
  /\ e \in emitted
  /\ Goto(e, "posted", "loaded")
  /\ read' = [read EXCEPT ![e] = row]
  /\ RecordEvent(e)
  /\ overlapped' = (overlapped \/ (e \in Counting /\ \E f \in Counting : pc[f] = "loaded"))
  /\ UNCHANGED <<row, commitRows, runRows, found, given, restarts, counted, late, overtaken>>

-----------------------------------------------------------------------------
(* ApplyEventToJobAsync.                                                   *)

\* What the walk counted, in the metrics of job_completed; every processed commit is
\* audited, and without one the mean score is null.
SkippedTotal == Cardinality(emitted \cap Skipping)
ProcessedTotal == IF emitted \cap Auditing = {} THEN 0 ELSE Processed
NoScore == ProcessedTotal = 0

\* Mutant: the counts in the metrics are taken only where nothing was counted.
CompletionMetricsIfUncounted(r) ==
  [r EXCEPT !.metrics = TRUE,
            !.skipped = IF @ = 0 THEN SkippedTotal ELSE @,
            !.processed = IF @ = 0 THEN ProcessedTotal ELSE @]

\* Mutant: a metric looked up by a wrong name clears its column.
CompletionMetricsCleared(r) ==
  [r EXCEPT !.metrics = TRUE, !.skipped = SkippedTotal, !.processed = None]

\* ApplyMetricsElement: what the walk counted replaces what the events counted.
CompletionMetrics(r) ==
  [r EXCEPT !.metrics = TRUE, !.skipped = SkippedTotal, !.processed = ProcessedTotal]

\* The entity r after event e.  The agent role and commit of agent_started and the
\* phase of phase_started arrive as JSON elements, which are no strings: they change
\* nothing.  An audit_verdict is posted every round and counts as a commit.
Updated(r, e) ==
  CASE e \in Skipping    -> [r EXCEPT !.skipped = @ + 1]
    [] e \in Auditing    -> [r EXCEPT !.processed = @ + 1]
    [] e = BundleReady   -> [r EXCEPT !.blob = TRUE]
    [] e = JobCompleted  -> CompletionMetrics([r EXCEPT !.completed = TRUE])
    [] OTHER             -> r

\* Mutant: all columns are written, as an update of a detached entity does.
WriteRow(old, new) == new

\* The columns that differ from what was loaded are written, whatever the row holds now.
WriteChanges(old, new) == [c \in DOMAIN row |-> IF new[c] = old[c] THEN row[c] ELSE new[c]]

\* TryGetSingle throws on a JSON null, before anything is saved.
Throws(e) ==
  /\ e = JobCompleted /\ NoScore
  /\ pc[e] = "loaded"
  /\ pc' = [pc EXCEPT ![e] = "done"]
  /\ read' = [read EXCEPT ![e] = EmptyRow]
  /\ UNCHANGED <<row, commitRows, runRows, found, artifacts, given, restarts, history>>

\* The update commits; SaveChangesAsync returns, or throws all the same.
Save(e) ==
  /\ ~(e = JobCompleted /\ NoScore)
  /\ pc[e] = "loaded"
  /\ \E next \in {"saved", "failed"} : pc' = [pc EXCEPT ![e] = next]
  /\ row' = WriteChanges(read[e], Updated(read[e], e))
  /\ read' = [read EXCEPT ![e] = EmptyRow]
  /\ counted' = counted \cup ({e} \cap Counting)
  /\ late' = (late \/ (e \in Counting /\ pc[JobCompleted] # "posted"))
  /\ UNCHANGED <<commitRows, runRows, found, artifacts, given, restarts,
                 overlapped, overtaken>>

\* SaveChangesAsync throws and nothing is committed, or the row cannot be loaded.
Fails(e) ==
  /\ e \in emitted
  /\ pc[e] \in {"posted", "loaded"}
  /\ pc' = [pc EXCEPT ![e] = "failed"]
  /\ read' = [read EXCEPT ![e] = EmptyRow]
  /\ UNCHANGED <<row, commitRows, runRows, found, artifacts, given, restarts, history>>

-----------------------------------------------------------------------------
(* JobProgressWriter.PersistEventAsync.                                    *)

\* AgentSession.run gives both events of a mocked run one id.  Of a real run the start
\* carries an id of its own and the end that of the SDK.
SameRunId(start, end) == ~realAgents /\ start[2] = end[2]

\* Mutant: the run is looked up by its role alone.
OpenRunsOfRole(e) == {r \in runRows : r.closed = None}

\* The query of RecordAgentCompletedAsync: no two open rows have one run id.
OpenRuns(e) == {r \in runRows : r.closed = None /\ r.by \in Starting /\ SameRunId(r.by, e)}

FindRun(e) ==
  /\ e \in Completing
  /\ Goto(e, "saved", "found")
  /\ found' = [found EXCEPT ![e] =
                 IF OpenRuns(e) = {} THEN None ELSE (CHOOSE r \in OpenRuns(e) : TRUE).by]
  /\ overtaken' = IF pc[<<"agent_started", e[2]>>] \in {"done", "failed"} THEN overtaken
                  ELSE overtaken \cup {e[2]}
  /\ UNCHANGED <<row, read, commitRows, runRows, artifacts, given, restarts,
                 counted, overlapped, late>>

\* RecordAgentCompletedAsync: the row that was found is closed, or a closed one added.
CloseRun(e) ==
  runRows' = IF found[e] = None THEN runRows \cup {[by |-> e, closed |-> e]}
             ELSE {IF r.by = found[e] THEN [r EXCEPT !.closed = e] ELSE r : r \in runRows}

\* The event is stored with the rows it adds or closes, all in one save.
Store(e) ==
  /\ Goto(e, IF e \in Completing THEN "found" ELSE "saved", "done")
  /\ commitRows' = commitRows \cup ({e} \cap Skipping)
  /\ CASE e \in Starting   -> runRows' = runRows \cup {[by |-> e, closed |-> None]}
       [] e \in Completing -> CloseRun(e)
       [] OTHER            -> UNCHANGED runRows
  /\ UNCHANGED <<row, read, found, artifacts, given, restarts, history>>

\* The query or the save throws: event and rows are lost.
StoreFails(e) ==
  /\ pc[e] \in {"saved", "found"}
  /\ pc' = [pc EXCEPT ![e] = "failed"]
  /\ UNCHANGED <<row, read, commitRows, runRows, found, artifacts, given, restarts, history>>

-----------------------------------------------------------------------------
\* The API process dies and comes back: its memory and the handlers in flight are gone.
Restart ==
  /\ restarts < MaxRestarts
  /\ restarts' = restarts + 1
  /\ artifacts' = [report |-> FALSE, blob |-> FALSE]
  /\ pc' = [e \in Events |-> IF pc[e] \in {"posted", "done"} THEN pc[e] ELSE "failed"]
  /\ read' = [e \in Events |-> EmptyRow]
  /\ UNCHANGED <<row, commitRows, runRows, found, given, history>>

Init ==
  /\ row = EmptyRow
  /\ emitted \in Emissions
  /\ pc = [e \in Events |-> "posted"]
  /\ read = [e \in Events |-> EmptyRow]
  /\ commitRows = {}
  /\ runRows = {}
  /\ found = [e \in Completing |-> None]
  /\ artifacts = [report |-> FALSE, blob |-> FALSE]
  /\ realAgents \in BOOLEAN
  /\ restarts = 0
  /\ counted = {}
  /\ overlapped = FALSE
  /\ late = FALSE
  /\ overtaken = {}

Handle(e) == Load(e) \/ Save(e) \/ Throws(e) \/ Fails(e) \/ FindRun(e) \/ Store(e) \/ StoreFails(e)

Next == (\E e \in Events : Handle(e)) \/ Restart

Spec == Init /\ [][Next]_vars

-----------------------------------------------------------------------------
(* What clients read.                                                      *)

\* GetReportAsync: from memory if it is there, where a null score throws, else from the row.
ReportStatus ==
  CASE artifacts.report /\ NoScore   -> 500
    [] artifacts.report /\ ~NoScore  -> 200
    [] ~artifacts.report /\ row.metrics -> 200
    [] OTHER -> 404

\* GetBundleRedirectAsync, with blob storage configured.
BundleStatus ==
  IF row.blob \/ artifacts.blob THEN 302 ELSE IF row.completed THEN 404 ELSE 409

-----------------------------------------------------------------------------
(* Properties.                                                             *)

\* Types of all variables.
TypeOK ==
  /\ emitted \in Emissions
  /\ row \in Rows
  /\ pc \in [Events -> {"posted", "loaded", "saved", "found", "done", "failed"}]
  /\ read \in [Events -> Rows]
  /\ commitRows \subseteq Skipping
  /\ runRows \subseteq RunRows
  /\ found \in [Completing -> Starting \cup {None}]
  /\ artifacts \in [report : BOOLEAN, blob : BOOLEAN]
  /\ realAgents \in BOOLEAN
  /\ restarts \in 0..MaxRestarts
  /\ counted \subseteq Counting
  /\ overlapped \in BOOLEAN /\ late \in BOOLEAN
  /\ overtaken \subseteq Runs

\* The counts of the row are those of the events as long as their handlers do not overlap,
\* and those of the walk once the job is completed, unless a count is saved later than
\* job_completed loads the row.  A commit stored as skipped has been counted.
CountsAreRight ==
  /\ pc[JobCompleted] = "posted" /\ ~overlapped =>
       /\ row.skipped = Cardinality(counted \cap Skipping)
       /\ row.processed = Cardinality(counted \cap Auditing)
  /\ row.completed /\ ~late =>
       row.skipped = SkippedTotal /\ row.processed = ProcessedTotal
  /\ commitRows \subseteq counted

\* A report or a bundle that a client could read stays readable, whatever handlers save
\* the rows they loaded before; only a restart withdraws it, and only if the save of its
\* event had not returned.
Returned(e) == pc[e] \in {"saved", "done"}

ResultsAreNotWithdrawn ==
  [][/\ ReportStatus = 200 =>
          ReportStatus' = 200 \/ (restarts' > restarts /\ ~Returned(JobCompleted))
     /\ BundleStatus = 302 =>
          BundleStatus' = 302 \/ (restarts' > restarts /\ ~Returned(BundleReady))]_vars

\* A run of a mocked agent has one row, closed by its own end, unless its end was looked up
\* before its start was stored.
RunsAreRecordedOnce ==
  ~realAgents =>
    \A a, b \in runRows :
      /\ a.closed # None => a.closed[2] = a.by[2]
      /\ a.by[2] = b.by[2] => a = b \/ a.by[2] \in overtaken

\* What docs/PLUGIN_USAGE.md says of job_completed, "Terminal state": an event that was
\* handled, with no database call failing, leaves the job completed.
CompletedEventCompletesJob == pc[JobCompleted] = "done" => row.completed
============================================================================
