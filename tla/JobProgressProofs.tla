------------------------- MODULE JobProgressProofs --------------------------
(***************************************************************************)
(* Proofs of the safety properties of JobProgress, for any set of events.  *)
(***************************************************************************)
EXTENDS JobProgress, FiniteSetTheorems, TLAPS

Pcs == {"posted", "loaded", "saved", "found", "done", "failed"}

-----------------------------------------------------------------------------
(* The events and the row.                                                 *)

LEMMA EventKinds ==
  ASSUME NEW e \in Events
  PROVE  /\ \/ e \in Skipping \/ e \in Auditing \/ e \in Starting
            \/ e \in Completing \/ e = BundleReady \/ e = JobCompleted
         /\ e \in Skipping => e \notin Auditing \cup Starting \cup Completing
         /\ e \in Auditing => e \notin Starting \cup Completing
         /\ e \in Starting => e \notin Completing
         /\ {BundleReady, JobCompleted} \cap (Counting \cup Starting \cup Completing) = {}
         /\ BundleReady # JobCompleted
  BY DEF Events, Counting, Skipping, Auditing, Starting, Completing, BundleReady, JobCompleted

\* The totals of the walk are numbers.
LEMMA Totals ==
  ASSUME emitted \in Emissions
  PROVE  SkippedTotal \in Nat /\ ProcessedTotal \in Nat
<1>1. IsFiniteSet(Skipping)
  <2>1. IsFiniteSet({"commit_skipped"}) /\ IsFiniteSet(Skips)
    BY FS_Singleton, ProgressAssumption
  <2> QED BY <2>1, FS_Product DEF Skipping
<1>2. IsFiniteSet(emitted \cap Skipping)
  BY <1>1, FS_Subset
<1>3. SkippedTotal \in Nat
  BY <1>2, FS_CardinalityType DEF SkippedTotal
<1>4. ProcessedTotal \in Nat
  BY ProgressAssumption DEF ProcessedTotal
<1> QED BY <1>3, <1>4

\* Of a row that is written back only the changed columns move.
LEMMA Written ==
  ASSUME row \in Rows, NEW old \in Rows, NEW new \in Rows
  PROVE  LET w == WriteChanges(old, new)
         IN  /\ w \in Rows
             /\ w.skipped = IF new.skipped = old.skipped THEN row.skipped ELSE new.skipped
             /\ w.processed = IF new.processed = old.processed THEN row.processed ELSE new.processed
             /\ w.completed = IF new.completed = old.completed THEN row.completed ELSE new.completed
             /\ w.metrics = IF new.metrics = old.metrics THEN row.metrics ELSE new.metrics
             /\ w.blob = IF new.blob = old.blob THEN row.blob ELSE new.blob
<1>1. DOMAIN row = {"skipped", "processed", "completed", "metrics", "blob"}
  BY DEF Rows
<1> QED BY <1>1 DEF WriteChanges, Rows

\* The entity after an event.
LEMMA UpdatedColumns ==
  ASSUME emitted \in Emissions, NEW e \in Events, NEW r \in Rows
  PROVE  LET u == Updated(r, e)
         IN  /\ u \in Rows
             /\ u.skipped = IF e \in Skipping THEN r.skipped + 1
                            ELSE IF e = JobCompleted THEN SkippedTotal ELSE r.skipped
             /\ u.processed = IF e \in Auditing THEN r.processed + 1
                              ELSE IF e = JobCompleted THEN ProcessedTotal ELSE r.processed
             /\ u.completed = IF e = JobCompleted THEN TRUE ELSE r.completed
             /\ u.metrics = IF e = JobCompleted THEN TRUE ELSE r.metrics
             /\ u.blob = IF e = BundleReady THEN TRUE ELSE r.blob
<1>1. SkippedTotal \in Nat /\ ProcessedTotal \in Nat
  BY Totals
<1>2. CASE e \in Skipping
  <2>1. e \notin Auditing /\ e # BundleReady /\ e # JobCompleted
    BY <1>2, EventKinds DEF Counting
  <2>2. Updated(r, e) = [r EXCEPT !.skipped = @ + 1]
    BY <1>2, <2>1 DEF Updated
  <2> QED BY <1>2, <2>1, <2>2 DEF Rows
<1>3. CASE e \in Auditing
  <2>1. e \notin Skipping /\ e # BundleReady /\ e # JobCompleted
    BY <1>3, EventKinds DEF Counting
  <2>2. Updated(r, e) = [r EXCEPT !.processed = @ + 1]
    BY <1>3, <2>1 DEF Updated
  <2> QED BY <1>3, <2>1, <2>2 DEF Rows
<1>4. CASE e = BundleReady
  BY <1>4, EventKinds DEF Updated, Rows, Counting
<1>5. CASE e = JobCompleted
  <2>1. e \notin Skipping /\ e \notin Auditing /\ e # BundleReady
    BY <1>5, EventKinds DEF Counting
  <2>2. Updated(r, e) = CompletionMetrics([r EXCEPT !.completed = TRUE])
    BY <1>5, <2>1 DEF Updated
  <2> QED BY <1>1, <1>5, <2>1, <2>2 DEF CompletionMetrics, Rows
<1>6. CASE e \in Starting \cup Completing
  BY <1>6, EventKinds DEF Updated, Rows, Counting
<1> QED BY <1>2, <1>3, <1>4, <1>5, <1>6, EventKinds

\* The row after a save.
LEMMA SavedRow ==
  ASSUME TypeOK, NEW e \in Events, Save(e)
  PROVE  LET old == read[e]
         IN  /\ row' \in Rows
             /\ row'.skipped = IF e \in Skipping THEN old.skipped + 1
                               ELSE IF e = JobCompleted /\ SkippedTotal # old.skipped
                               THEN SkippedTotal ELSE row.skipped
             /\ row'.processed = IF e \in Auditing THEN old.processed + 1
                                 ELSE IF e = JobCompleted /\ ProcessedTotal # old.processed
                                 THEN ProcessedTotal ELSE row.processed
             /\ row'.completed = IF e = JobCompleted /\ ~old.completed THEN TRUE ELSE row.completed
             /\ row'.metrics = IF e = JobCompleted /\ ~old.metrics THEN TRUE ELSE row.metrics
             /\ row'.blob = IF e = BundleReady /\ ~old.blob THEN TRUE ELSE row.blob
<1> DEFINE old == read[e]
           u == Updated(old, e)
<1>1. old \in Rows /\ row \in Rows /\ emitted \in Emissions
  BY DEF TypeOK
<1>2. /\ u \in Rows
      /\ u.skipped = IF e \in Skipping THEN old.skipped + 1
                     ELSE IF e = JobCompleted THEN SkippedTotal ELSE old.skipped
      /\ u.processed = IF e \in Auditing THEN old.processed + 1
                       ELSE IF e = JobCompleted THEN ProcessedTotal ELSE old.processed
      /\ u.completed = IF e = JobCompleted THEN TRUE ELSE old.completed
      /\ u.metrics = IF e = JobCompleted THEN TRUE ELSE old.metrics
      /\ u.blob = IF e = BundleReady THEN TRUE ELSE old.blob
  BY <1>1, UpdatedColumns
<1>3. row' = WriteChanges(old, u)
  BY DEF Save
<1>4. u \in Rows
  BY <1>2
<1> HIDE DEF u, old
<1>5. /\ row' \in Rows
      /\ row'.skipped = IF u.skipped = old.skipped THEN row.skipped ELSE u.skipped
      /\ row'.processed = IF u.processed = old.processed THEN row.processed ELSE u.processed
      /\ row'.completed = IF u.completed = old.completed THEN row.completed ELSE u.completed
      /\ row'.metrics = IF u.metrics = old.metrics THEN row.metrics ELSE u.metrics
      /\ row'.blob = IF u.blob = old.blob THEN row.blob ELSE u.blob
  BY <1>1, <1>4, <1>3, Written
<1>6. /\ old.skipped \in Nat /\ old.processed \in Nat
      /\ old.completed \in BOOLEAN /\ old.metrics \in BOOLEAN /\ old.blob \in BOOLEAN
  BY <1>1 DEF Rows
<1>7. e \in Skipping \cup Auditing => e # JobCompleted
  BY EventKinds DEF Counting
<1>8. row'.skipped = IF e \in Skipping THEN old.skipped + 1
                     ELSE IF e = JobCompleted /\ SkippedTotal # old.skipped
                     THEN SkippedTotal ELSE row.skipped
  BY <1>2, <1>5, <1>6, <1>7
<1>9. row'.processed = IF e \in Auditing THEN old.processed + 1
                       ELSE IF e = JobCompleted /\ ProcessedTotal # old.processed
                       THEN ProcessedTotal ELSE row.processed
  BY <1>2, <1>5, <1>6, <1>7
<1>10. /\ row'.completed = IF e = JobCompleted /\ ~old.completed THEN TRUE ELSE row.completed
       /\ row'.metrics = IF e = JobCompleted /\ ~old.metrics THEN TRUE ELSE row.metrics
       /\ row'.blob = IF e = BundleReady /\ ~old.blob THEN TRUE ELSE row.blob
  BY <1>2, <1>5, <1>6
<1> QED BY <1>5, <1>8, <1>9, <1>10 DEF old

-----------------------------------------------------------------------------
(* Types.                                                                  *)

LEMMA InitTypeOK == Init => TypeOK
<1> SUFFICES ASSUME Init PROVE TypeOK
  OBVIOUS
<1>1. EmptyRow \in Rows
  BY DEF EmptyRow, Rows
<1>2. artifacts \in [report : BOOLEAN, blob : BOOLEAN]
  BY DEF Init
<1>3. /\ emitted \in Emissions /\ row \in Rows
      /\ pc \in [Events -> Pcs] /\ read \in [Events -> Rows]
      /\ found \in [Completing -> Starting \cup {None}]
  BY <1>1 DEF Init, Pcs
<1>4. /\ commitRows \subseteq Skipping /\ runRows \subseteq RunRows
      /\ counted \subseteq Counting /\ overtaken \subseteq Runs
      /\ realAgents \in BOOLEAN /\ overlapped \in BOOLEAN /\ late \in BOOLEAN
  BY DEF Init
<1>5. restarts \in 0..MaxRestarts
  BY ProgressAssumption DEF Init
<1> QED BY <1>2, <1>3, <1>4, <1>5 DEF TypeOK, Pcs

\* What a handler does to the variables that every step of it changes.
LEMMA HandlerPcs ==
  ASSUME TypeOK, NEW e \in Events, Handle(e)
  PROVE  /\ pc' \in [Events -> Pcs]
         /\ \A f \in Events : f # e => pc'[f] = pc[f]
         /\ UNCHANGED <<given, restarts>>
  BY DEF TypeOK, Pcs, Handle, Goto, Load, Save, Throws, Fails, FindRun, Store, StoreFails, given

LEMMA HandlerTypeOK ==
  ASSUME TypeOK, NEW e \in Events, Handle(e)
  PROVE  TypeOK'
<1>1. EmptyRow \in Rows
  BY DEF EmptyRow, Rows
<1>2. /\ pc' \in [Events -> Pcs]
      /\ UNCHANGED <<emitted, realAgents, restarts>>
  BY HandlerPcs DEF given
<1>3. row' \in Rows
  <2>1. CASE Save(e)
    BY <2>1, SavedRow
  <2>2. CASE UNCHANGED row
    BY <2>2 DEF TypeOK
  <2> QED BY <2>1, <2>2 DEF Handle, Load, Throws, Fails, FindRun, Store, StoreFails
<1>4. read' \in [Events -> Rows]
  <2>1. row \in Rows /\ read \in [Events -> Rows]
    BY DEF TypeOK
  <2> QED BY <1>1, <2>1 DEF Handle, Load, Save, Throws, Fails, FindRun, Store, StoreFails
<1>5. artifacts' \in [report : BOOLEAN, blob : BOOLEAN]
  <2>1. CASE Load(e)
    BY <2>1 DEF Load, RecordEvent, TypeOK
  <2>2. CASE UNCHANGED artifacts
    BY <2>2 DEF TypeOK
  <2> QED BY <2>1, <2>2 DEF Handle, Save, Throws, Fails, FindRun, Store, StoreFails
<1>6. commitRows' \subseteq Skipping /\ counted' \subseteq Counting
  BY DEF TypeOK, Handle, Load, Save, Throws, Fails, FindRun, Store, StoreFails, history
<1>7. overtaken' \subseteq Runs
  <2>1. CASE FindRun(e)
    <3>1. e[2] \in Runs
      BY <2>1 DEF FindRun, Completing
    <3> QED BY <2>1, <3>1 DEF TypeOK, FindRun
  <2>2. CASE UNCHANGED overtaken
    BY <2>2 DEF TypeOK
  <2> QED BY <2>1, <2>2 DEF Handle, Load, Save, Throws, Fails, Store, StoreFails, history
<1>8. found' \in [Completing -> Starting \cup {None}]
  <2>1. CASE FindRun(e)
    <3>1. OpenRuns(e) # {} => (CHOOSE r \in OpenRuns(e) : TRUE) \in OpenRuns(e)
      OBVIOUS
    <3>2. OpenRuns(e) # {} => (CHOOSE r \in OpenRuns(e) : TRUE).by \in Starting
      BY <3>1 DEF OpenRuns
    <3> QED BY <2>1, <3>2 DEF TypeOK, FindRun
  <2>2. CASE UNCHANGED found
    BY <2>2 DEF TypeOK
  <2> QED BY <2>1, <2>2 DEF Handle, Load, Save, Throws, Fails, Store, StoreFails
<1>9. runRows' \subseteq RunRows
  <2>1. CASE Store(e)
    <3>1. CASE e \in Starting
      <4>1. [by |-> e, closed |-> None] \in RunRows
        BY <3>1 DEF RunRows
      <4> QED BY <2>1, <3>1, <4>1, EventKinds DEF Store, TypeOK
    <3>2. CASE e \in Completing
      <4>1. runRows' = IF found[e] = None THEN runRows \cup {[by |-> e, closed |-> e]}
                       ELSE {IF r.by = found[e] THEN [r EXCEPT !.closed = e] ELSE r : r \in runRows}
        BY <2>1, <3>2, EventKinds DEF Store, CloseRun
      <4>2. [by |-> e, closed |-> e] \in RunRows
        BY <3>2 DEF RunRows
      <4>3. \A r \in RunRows : [r EXCEPT !.closed = e] \in RunRows
        BY <3>2 DEF RunRows
      <4> QED BY <4>1, <4>2, <4>3 DEF TypeOK
    <3>3. CASE e \notin Starting \cup Completing
      BY <2>1, <3>3 DEF Store, TypeOK
    <3> QED BY <3>1, <3>2, <3>3
  <2>2. CASE UNCHANGED runRows
    BY <2>2 DEF TypeOK
  <2> QED BY <2>1, <2>2 DEF Handle, Load, Save, Throws, Fails, FindRun, StoreFails
<1>10. overlapped' \in BOOLEAN /\ late' \in BOOLEAN
  BY DEF TypeOK, Handle, Load, Save, Throws, Fails, FindRun, Store, StoreFails, history
<1> QED BY <1>2, <1>3, <1>4, <1>5, <1>6, <1>7, <1>8, <1>9, <1>10 DEF TypeOK, Pcs

LEMMA RestartTypeOK ==
  ASSUME TypeOK, Restart
  PROVE  TypeOK'
<1>1. EmptyRow \in Rows
  BY DEF EmptyRow, Rows
<1>2. pc' \in [Events -> Pcs] /\ read' \in [Events -> Rows]
  BY <1>1 DEF TypeOK, Restart, Pcs
<1>3. artifacts' \in [report : BOOLEAN, blob : BOOLEAN]
  BY DEF Restart
<1>4. restarts' \in 0..MaxRestarts
  BY ProgressAssumption DEF TypeOK, Restart
<1>5. UNCHANGED <<emitted, row, commitRows, runRows, found, realAgents,
                  counted, overlapped, late, overtaken>>
  BY DEF Restart, given, history
<1> QED BY <1>2, <1>3, <1>4, <1>5 DEF TypeOK, Pcs

LEMMA StutterTypeOK ==
  ASSUME TypeOK, UNCHANGED vars
  PROVE  TypeOK'
  BY DEF TypeOK, vars

\* Type correctness.
THEOREM TypeCorrect == Spec => []TypeOK
<1>1. TypeOK /\ [Next]_vars => TypeOK'
  BY HandlerTypeOK, RestartTypeOK, StutterTypeOK DEF Next
<1> QED BY InitTypeOK, <1>1, PTL DEF Spec

\* A step of a handler begins where the handler has not ended, and leaves the others alone.
LEMMA HandlerMoves ==
  ASSUME TypeOK, NEW e \in Events, Handle(e)
  PROVE  /\ pc[e] \in {"posted", "loaded", "saved", "found"}
         /\ pc'[e] \in {"loaded", "saved", "found", "done", "failed"}
         /\ \A f \in Events \ {e} : pc'[f] = pc[f] /\ read'[f] = read[f]
  BY DEF TypeOK, Handle, Goto, Load, Save, Throws, Fails, FindRun, Store, StoreFails

LEMMA RestartMoves ==
  ASSUME TypeOK, Restart
  PROVE  /\ \A f \in Events : pc'[f] = IF pc[f] \in {"posted", "done"} THEN pc[f] ELSE "failed"
         /\ \A f \in Events : read'[f] = EmptyRow
         /\ restarts' > restarts
         /\ UNCHANGED <<emitted, row, commitRows, runRows, found, realAgents, history>>
  BY DEF TypeOK, Restart, given

LEMMA KnownEvents ==
  /\ BundleReady \in Events /\ JobCompleted \in Events /\ Counting \subseteq Events
  /\ Starting \subseteq Events /\ Completing \subseteq Events
  BY DEF Events

-----------------------------------------------------------------------------
(* Report and bundle.                                                      *)

\* What a handler loaded is never ahead of the row, and what was saved is in the row.
ResultInv ==
  /\ row.metrics => ~NoScore
  /\ \A e \in Events : /\ read[e].metrics => row.metrics
                       /\ read[e].blob => row.blob
  /\ Returned(JobCompleted) => row.metrics \/ NoScore
  /\ Returned(BundleReady) => row.blob

LEMMA InitResultInv == Init => ResultInv
  BY KnownEvents DEF Init, ResultInv, EmptyRow, Returned

\* Handlers only add metrics and blob.
LEMMA ResultsGrow ==
  ASSUME TypeOK, ResultInv, NEW e \in Events, Handle(e)
  PROVE  /\ row.metrics => row'.metrics
         /\ row.blob => row'.blob
         /\ artifacts.report => artifacts'.report
         /\ artifacts.blob => artifacts'.blob
         /\ NoScore' = NoScore
<1>1. NoScore' = NoScore
  BY HandlerPcs DEF given, NoScore, ProcessedTotal
<1>2. (row.metrics => row'.metrics) /\ (row.blob => row'.blob)
  <2>1. CASE Save(e)
    BY <2>1, SavedRow
  <2>2. CASE UNCHANGED row
    BY <2>2
  <2> QED BY <2>1, <2>2 DEF Handle, Load, Throws, Fails, FindRun, Store, StoreFails
<1>3. (artifacts.report => artifacts'.report) /\ (artifacts.blob => artifacts'.blob)
  <2>1. CASE Load(e)
    BY <2>1 DEF Load, RecordEvent
  <2>2. CASE UNCHANGED artifacts
    BY <2>2
  <2> QED BY <2>1, <2>2 DEF Handle, Save, Throws, Fails, FindRun, Store, StoreFails
<1> QED BY <1>1, <1>2, <1>3

LEMMA HandlerResultInv ==
  ASSUME TypeOK, ResultInv, NEW e \in Events, Handle(e)
  PROVE  ResultInv'
<1>1. /\ row.metrics => row'.metrics
      /\ row.blob => row'.blob
      /\ NoScore' = NoScore
  BY ResultsGrow
<1>2. \A f \in Events \ {e} : pc'[f] = pc[f] /\ read'[f] = read[f]
  BY HandlerMoves
<1>3. (row'.metrics => ~NoScore)
  <2>1. CASE Save(e)
    BY <2>1, SavedRow DEF ResultInv, Save
  <2>2. CASE UNCHANGED row
    BY <2>2 DEF ResultInv
  <2> QED BY <2>1, <2>2 DEF Handle, Load, Throws, Fails, FindRun, Store, StoreFails
<1>4. read'[e] \in {EmptyRow, row, read[e]}
  BY DEF TypeOK, Handle, Load, Save, Throws, Fails, FindRun, Store, StoreFails
<1>5. (read'[e].metrics => row'.metrics) /\ (read'[e].blob => row'.blob)
  BY <1>1, <1>4 DEF EmptyRow, ResultInv
<1>6. ASSUME Returned(JobCompleted)'
      PROVE  row'.metrics \/ NoScore
  <2>1. CASE Returned(JobCompleted)
    BY <1>1, <2>1 DEF ResultInv
  <2>2. CASE ~Returned(JobCompleted)
    <3>1. e = JobCompleted
      BY <1>2, <1>6, <2>2, KnownEvents DEF Returned
    <3>2. Save(e) \/ Throws(e)
      <4>1. e \notin Completing
        BY <3>1, EventKinds
      <4>2. pc'[e] \in {"saved", "done"} /\ pc[e] \notin {"saved", "done"}
        BY <1>6, <2>2, <3>1 DEF Returned
      <4> QED BY <4>1, <4>2 DEF TypeOK, Handle, Goto, Load, Fails, FindRun, Store, StoreFails
    <3>3. CASE Save(e)
      BY <3>1, <3>3, SavedRow DEF ResultInv
    <3>4. CASE Throws(e)
      BY <3>4 DEF Throws
    <3> QED BY <3>2, <3>3, <3>4
  <2> QED BY <2>1, <2>2
<1>7. ASSUME Returned(BundleReady)'
      PROVE  row'.blob
  <2>1. CASE Returned(BundleReady)
    BY <1>1, <2>1 DEF ResultInv
  <2>2. CASE ~Returned(BundleReady)
    <3>1. e = BundleReady
      BY <1>2, <1>7, <2>2, KnownEvents DEF Returned
    <3>2. Save(e)
      <4>1. e \notin Completing /\ e # JobCompleted
        BY <3>1, EventKinds
      <4>2. pc'[e] \in {"saved", "done"} /\ pc[e] \notin {"saved", "done"}
        BY <1>7, <2>2, <3>1 DEF Returned
      <4> QED BY <4>1, <4>2 DEF TypeOK, Handle, Goto, Load, Throws, Fails, FindRun, Store, StoreFails
    <3> QED BY <3>1, <3>2, SavedRow DEF ResultInv
  <2> QED BY <2>1, <2>2
<1>8. \A f \in Events : (read'[f].metrics => row'.metrics) /\ (read'[f].blob => row'.blob)
  BY <1>1, <1>2, <1>5 DEF ResultInv
<1> QED BY <1>1, <1>3, <1>6, <1>7, <1>8 DEF ResultInv

LEMMA RestartResultInv ==
  ASSUME TypeOK, ResultInv, Restart
  PROVE  ResultInv'
<1>1. NoScore' = NoScore /\ UNCHANGED row
  BY RestartMoves DEF NoScore, ProcessedTotal
<1>2. \A f \in Events : ~read'[f].metrics /\ ~read'[f].blob
  BY RestartMoves DEF EmptyRow
<1>3. \A f \in Events : Returned(f)' => Returned(f)
  BY RestartMoves DEF Returned
<1> QED BY <1>1, <1>2, <1>3, KnownEvents DEF ResultInv

LEMMA StutterResultInv ==
  ASSUME ResultInv, UNCHANGED vars
  PROVE  ResultInv'
  BY DEF ResultInv, vars, given, Returned, NoScore, ProcessedTotal

LEMMA ResultInvHolds == Spec => [](TypeOK /\ ResultInv)
<1>1. TypeOK /\ ResultInv /\ [Next]_vars => ResultInv'
  BY HandlerResultInv, RestartResultInv, StutterResultInv DEF Next
<1> QED BY TypeCorrect, InitResultInv, <1>1, PTL DEF Spec

\* Only a restart withdraws a report or a bundle, and only if its save had not returned.
THEOREM ResultsStay == Spec => ResultsAreNotWithdrawn
<1> DEFINE Kept ==
      /\ ReportStatus = 200 =>
           ReportStatus' = 200 \/ (restarts' > restarts /\ ~Returned(JobCompleted))
      /\ BundleStatus = 302 =>
           BundleStatus' = 302 \/ (restarts' > restarts /\ ~Returned(BundleReady))
<1>1. ASSUME TypeOK, ResultInv, ResultInv', Next
      PROVE  Kept
  <2>1. /\ (ReportStatus = 200) <=> (~NoScore /\ (artifacts.report \/ row.metrics))
        /\ (BundleStatus = 302) <=> (row.blob \/ artifacts.blob)
    BY <1>1 DEF ResultInv, ReportStatus, BundleStatus
  <2>2. /\ (ReportStatus' = 200) <=> (~NoScore' /\ (artifacts'.report \/ row'.metrics))
        /\ (BundleStatus' = 302) <=> (row'.blob \/ artifacts'.blob)
    BY <1>1 DEF ResultInv, ReportStatus, BundleStatus
  <2>3. ASSUME NEW e \in Events, Handle(e)
        PROVE  Kept
    BY <1>1, <2>1, <2>2, <2>3, ResultsGrow
  <2>4. CASE Restart
    <3>1. NoScore' = NoScore /\ UNCHANGED row /\ restarts' > restarts
      BY <1>1, <2>4, RestartMoves DEF NoScore, ProcessedTotal
    <3>2. Returned(JobCompleted) => row.metrics \/ NoScore
      BY <1>1 DEF ResultInv
    <3>3. Returned(BundleReady) => row.blob
      BY <1>1 DEF ResultInv
    <3> QED BY <2>1, <2>2, <3>1, <3>2, <3>3
  <2> QED BY <1>1, <2>3, <2>4 DEF Next
<1>2. ASSUME UNCHANGED vars
      PROVE  Kept
  BY <1>2 DEF vars, given, ReportStatus, BundleStatus, NoScore, ProcessedTotal
<1>3. TypeOK /\ ResultInv /\ ResultInv' /\ [Next]_vars => [Kept]_vars
  BY <1>1, <1>2
<1> QED BY ResultInvHolds, <1>3, PTL DEF Spec, ResultsAreNotWithdrawn

-----------------------------------------------------------------------------
(* Agent runs.                                                             *)

StartOf(e) == <<"agent_started", e[2]>>

\* Rows come from stored events, one each; a closed row was closed by the end of its run.
RowsFromStored ==
  /\ \A r \in runRows :
       /\ pc[r.by] = "done"
       /\ r.by \in Completing => r.closed = r.by
       /\ r.closed # None => pc[r.closed] = "done" /\ r.closed[2] = r.by[2]
  /\ \A a, b \in runRows : a.by = b.by => a = b

\* What a lookup found is still there; where it found nothing and overtook nothing, the
\* run has no row and its start adds none.
LookupsHold ==
  \A e \in Completing :
    /\ pc[e] = "found" /\ found[e] # None => found[e][2] = e[2]
    /\ pc[e] \in {"found", "done"} /\ e[2] \notin overtaken =>
         pc[StartOf(e)] \in {"done", "failed"}
    /\ pc[e] = "found" /\ found[e] = None /\ e[2] \notin overtaken =>
         \A r \in runRows : r.by[2] # e[2]

OneRowEach ==
  \A a, b \in runRows : a.by[2] = b.by[2] => a = b \/ a.by[2] \in overtaken

RunInv == ~realAgents => RowsFromStored /\ LookupsHold /\ OneRowEach

LEMMA InitRunInv == Init => RunInv
  BY KnownEvents DEF Init, RunInv, RowsFromStored, LookupsHold, OneRowEach

\* An event is known by its type and the run it is about.
LEMMA RunEvents ==
  /\ \A e \in Completing : /\ StartOf(e) \in Starting /\ e[2] \in Runs
                           /\ \A f \in Completing : f[2] = e[2] => f = e
  /\ \A s \in Starting : /\ s[2] \in Runs
                         /\ \A t \in Starting : s[2] = t[2] => s = t
                         /\ \A e \in Completing : e[2] = s[2] => StartOf(e) = s
  /\ None \notin Starting /\ None \notin Completing
  BY ProgressAssumption, KnownEvents DEF Starting, Completing, StartOf

\* Steps that leave the rows and lookups alone.
LEMMA QuietRunInv ==
  ASSUME TypeOK, RunInv, UNCHANGED <<runRows, realAgents, overtaken, found>>,
         \A f \in Events : pc[f] \in {"done", "failed"} => pc'[f] = pc[f],
         \A f \in Completing : pc'[f] \in {"found", "done"} => pc'[f] = pc[f]
  PROVE  RunInv'
<1> SUFFICES ASSUME ~realAgents PROVE RowsFromStored' /\ LookupsHold' /\ OneRowEach'
  BY DEF RunInv
<1>1. RowsFromStored /\ LookupsHold /\ OneRowEach
  BY DEF RunInv
<1>2. \A r \in runRows : r.by \in Events /\ (r.closed # None => r.closed \in Events)
  BY KnownEvents DEF TypeOK, RunRows
<1>3. RowsFromStored'
  BY <1>1, <1>2 DEF RowsFromStored
<1>4. LookupsHold'
  BY <1>1, RunEvents, KnownEvents DEF LookupsHold
<1>5. OneRowEach'
  BY <1>1 DEF OneRowEach
<1> QED BY <1>3, <1>4, <1>5

LEMMA FindRunInv ==
  ASSUME TypeOK, RunInv, NEW e \in Events, FindRun(e)
  PROVE  RunInv'
<1> SUFFICES ASSUME ~realAgents PROVE RowsFromStored' /\ LookupsHold' /\ OneRowEach'
  BY DEF RunInv, FindRun, given
<1>1. RowsFromStored /\ LookupsHold /\ OneRowEach
  BY DEF RunInv
<1>2. \A r \in runRows : /\ r.by \in Starting \cup Completing
                         /\ r.closed \in Completing \cup {None}
  BY DEF TypeOK, RunRows
<1>3. /\ e \in Completing /\ pc[e] = "saved"
      /\ pc' = [pc EXCEPT ![e] = "found"]
      /\ runRows' = runRows
      /\ pc \in [Events -> Pcs]
  BY DEF FindRun, Goto, TypeOK, Pcs
<1>4. overtaken' = IF pc[StartOf(e)] \in {"done", "failed"} THEN overtaken
                   ELSE overtaken \cup {e[2]}
  BY DEF FindRun, StartOf
<1>5. RowsFromStored'
  BY <1>1, <1>2, <1>3, KnownEvents, RunEvents DEF RowsFromStored
<1>6. \A f \in Completing \ {e} : found'[f] = found[f]
  BY DEF FindRun, TypeOK
<1>7. found'[e] # None => found'[e][2] = e[2]
  <2>1. CASE OpenRuns(e) = {}
    BY <2>1, <1>3 DEF FindRun, TypeOK
  <2>2. CASE OpenRuns(e) # {}
    <3>1. PICK r \in OpenRuns(e) : found'[e] = r.by
      BY <2>2, <1>3 DEF FindRun, TypeOK
    <3> QED BY <3>1 DEF OpenRuns, SameRunId
  <2> QED BY <2>1, <2>2
<1>8. ASSUME found'[e] = None, e[2] \notin overtaken', NEW r \in runRows, r.by[2] = e[2]
      PROVE  FALSE
  <2>1. OpenRuns(e) = {}
    <3> SUFFICES ASSUME OpenRuns(e) # {} PROVE FALSE
      OBVIOUS
    <3>1. PICK q \in OpenRuns(e) : found'[e] = q.by
      BY <1>3 DEF FindRun, TypeOK
    <3> QED BY <3>1, <1>8, RunEvents DEF OpenRuns
  <2>2. r.by # e
    BY <1>1, <1>3, <1>8 DEF RowsFromStored
  <2>3. r.by \in Starting
    BY <1>2, <1>3, <1>8, <2>2, RunEvents
  <2>4. r.closed # None
    BY <2>1, <2>3, <1>8 DEF OpenRuns, SameRunId
  <2>5. r.closed \in Completing /\ r.closed[2] = e[2] /\ pc[r.closed] = "done"
    BY <1>1, <1>2, <1>8, <2>4 DEF RowsFromStored
  <2> QED BY <2>5, <1>3, RunEvents
<1>9. LookupsHold'
  <2> SUFFICES ASSUME NEW f \in Completing
               PROVE  /\ pc'[f] = "found" /\ found'[f] # None => found'[f][2] = f[2]
                      /\ pc'[f] \in {"found", "done"} /\ f[2] \notin overtaken' =>
                           pc'[StartOf(f)] \in {"done", "failed"}
                      /\ pc'[f] = "found" /\ found'[f] = None /\ f[2] \notin overtaken' =>
                           \A r \in runRows' : r.by[2] # f[2]
    BY DEF LookupsHold, StartOf
  <2>1. StartOf(f) \in Events /\ StartOf(f) # e
    BY <1>3, RunEvents, KnownEvents, EventKinds
  <2>2. CASE f = e
    BY <2>1, <2>2, <1>3, <1>4, <1>7, <1>8, KnownEvents
  <2>3. CASE f # e
    BY <2>1, <2>3, <1>1, <1>3, <1>4, <1>6, KnownEvents DEF LookupsHold
  <2> QED BY <2>2, <2>3
<1>10. OneRowEach'
  BY <1>1, <1>3, <1>4 DEF OneRowEach
<1> QED BY <1>5, <1>9, <1>10

\* A start adds an open row: its run has none yet, unless its end overtook it.
LEMMA StoreStartInv ==
  ASSUME TypeOK, RunInv, NEW e \in Starting, Store(e)
  PROVE  RunInv'
<1> SUFFICES ASSUME ~realAgents PROVE RowsFromStored' /\ LookupsHold' /\ OneRowEach'
  BY DEF RunInv, Store, given
<1>1. RowsFromStored /\ LookupsHold /\ OneRowEach
  BY DEF RunInv
<1>2. \A r \in runRows : /\ r.by \in Starting \cup Completing
                         /\ r.closed \in Completing \cup {None}
  BY DEF TypeOK, RunRows
<1> DEFINE n == [by |-> e, closed |-> None]
<1>3. e \in Events /\ e \notin Completing
  BY KnownEvents, EventKinds
<1>4. /\ pc[e] = "saved"
      /\ pc' = [pc EXCEPT ![e] = "done"]
      /\ runRows' = runRows \cup {n}
      /\ UNCHANGED <<found, overtaken>>
      /\ pc \in [Events -> Pcs]
  BY <1>3 DEF Store, Goto, TypeOK, Pcs, history
<1>5. ASSUME NEW r \in runRows, r.by[2] = e[2]
      PROVE  e[2] \in overtaken
  <2>1. r.by # e
    BY <1>1, <1>4 DEF RowsFromStored
  <2>2. r.by \in Completing /\ StartOf(r.by) = e /\ pc[r.by] = "done"
    BY <1>1, <1>2, <1>5, <2>1, RunEvents DEF RowsFromStored
  <2> QED BY <1>1, <1>4, <1>5, <2>2 DEF LookupsHold
<1>6. \A r \in runRows : r.by # e
  BY <1>1, <1>4 DEF RowsFromStored
<1>7. RowsFromStored'
  BY <1>1, <1>2, <1>3, <1>4, <1>6, KnownEvents DEF RowsFromStored
<1>8. LookupsHold'
  <2> SUFFICES ASSUME NEW f \in Completing
               PROVE  /\ pc'[f] = "found" /\ found'[f] # None => found'[f][2] = f[2]
                      /\ pc'[f] \in {"found", "done"} /\ f[2] \notin overtaken' =>
                           pc'[StartOf(f)] \in {"done", "failed"}
                      /\ pc'[f] = "found" /\ found'[f] = None /\ f[2] \notin overtaken' =>
                           \A r \in runRows' : r.by[2] # f[2]
    BY DEF LookupsHold, StartOf
  <2>1. f \in Events /\ pc'[f] = pc[f] /\ StartOf(f) \in Events
    BY <1>3, <1>4, RunEvents, KnownEvents
  <2>2. pc[f] \in {"found", "done"} /\ f[2] \notin overtaken => f[2] # e[2]
    BY <1>1, <1>4, RunEvents DEF LookupsHold
  <2> QED BY <1>1, <1>4, <2>1, <2>2 DEF LookupsHold
<1>9. OneRowEach'
  BY <1>1, <1>4, <1>5 DEF OneRowEach
<1> QED BY <1>7, <1>8, <1>9

\* An end closes the row it found, or adds a closed one.
LEMMA StoreEndInv ==
  ASSUME TypeOK, RunInv, NEW e \in Completing, Store(e)
  PROVE  RunInv'
<1> SUFFICES ASSUME ~realAgents PROVE RowsFromStored' /\ LookupsHold' /\ OneRowEach'
  BY DEF RunInv, Store, given
<1>1. RowsFromStored /\ LookupsHold /\ OneRowEach
  BY DEF RunInv
<1>2. \A r \in runRows : /\ r.by \in Starting \cup Completing
                         /\ r.closed \in Completing \cup {None}
                         /\ [r EXCEPT !.closed = e].by = r.by
                         /\ [r EXCEPT !.closed = e].closed = e
  BY DEF TypeOK, RunRows
<1>3. e \in Events /\ e \notin Starting
  BY KnownEvents, EventKinds
<1>4. /\ pc[e] = "found"
      /\ pc' = [pc EXCEPT ![e] = "done"]
      /\ CloseRun(e)
      /\ UNCHANGED <<found, overtaken>>
      /\ pc \in [Events -> Pcs]
      /\ found[e] \in Starting \cup {None}
  BY <1>3 DEF Store, Goto, TypeOK, Pcs, history
\* Every row of the next state is an old one, perhaps closed, or the new one.
<1>5. CASE found[e] = None
  <2> DEFINE n == [by |-> e, closed |-> e]
  <2>1. runRows' = runRows \cup {n}
    BY <1>4, <1>5 DEF CloseRun
  <2>2. \A r \in runRows : r.by # e
    BY <1>1, <1>4 DEF RowsFromStored
  <2>3. \A r \in runRows : r.by[2] = e[2] => e[2] \in overtaken
    BY <1>1, <1>4, <1>5 DEF LookupsHold
  <2>4. RowsFromStored'
    BY <1>1, <1>2, <1>3, <1>4, <2>1, <2>2, KnownEvents DEF RowsFromStored
  <2>5. OneRowEach'
    BY <1>1, <1>4, <2>1, <2>3 DEF OneRowEach
  <2>6. \A f \in Completing : f # e => f[2] # e[2]
    BY RunEvents
  <2>7. ASSUME NEW f \in Completing, f # e, pc'[f] = "found", found'[f] = None, f[2] \notin overtaken'
        PROVE  \A r \in runRows' : r.by[2] # f[2]
    BY <1>1, <1>4, <2>1, <2>6, <2>7, KnownEvents DEF LookupsHold
  <2>8. \A f \in Completing : pc'[f] = "found" => f # e
    BY <1>3, <1>4
  <2>9. LookupsHold'
    BY <1>1, <1>3, <1>4, <2>7, <2>8, RunEvents, KnownEvents DEF LookupsHold, StartOf
  <2> QED BY <2>4, <2>5, <2>9
<1>6. CASE found[e] # None
  <2> DEFINE c(r) == IF r.by = found[e] THEN [r EXCEPT !.closed = e] ELSE r
  <2>1. runRows' = {c(r) : r \in runRows}
    BY <1>4, <1>6 DEF CloseRun
  <2>2. \A r \in runRows : c(r).by = r.by
    BY <1>2
  <2>3. found[e] \in Starting /\ found[e][2] = e[2]
    BY <1>1, <1>4, <1>6 DEF LookupsHold
  <2>4. ASSUME NEW r \in runRows
        PROVE  /\ pc'[c(r).by] = "done"
               /\ c(r).by \in Completing => c(r).closed = c(r).by
               /\ c(r).closed # None => pc'[c(r).closed] = "done" /\ c(r).closed[2] = c(r).by[2]
    <3>1. pc[r.by] = "done" /\ r.by \in Events /\ r.by # e
      BY <1>1, <1>2, <1>4, KnownEvents DEF RowsFromStored
    <3>2. CASE r.by = found[e]
      BY <1>2, <1>3, <1>4, <2>3, <3>1, <3>2, EventKinds
    <3>3. CASE r.by # found[e]
      BY <1>1, <1>2, <1>4, <3>1, <3>3, KnownEvents DEF RowsFromStored
    <3> QED BY <3>2, <3>3
  <2>5. \A a, b \in runRows : c(a).by = c(b).by => c(a) = c(b)
    BY <1>1, <2>2 DEF RowsFromStored
  <2>6. \A a, b \in runRows : c(a).by[2] = c(b).by[2] => c(a) = c(b) \/ c(a).by[2] \in overtaken
    BY <1>1, <2>2 DEF OneRowEach
  <2>7. \A f \in Completing : \A r \in runRows : r.by[2] # f[2] => c(r).by[2] # f[2]
    BY <2>2
  <2> HIDE DEF c
  <2>8. RowsFromStored'
    BY <2>1, <2>4, <2>5 DEF RowsFromStored
  <2>9. OneRowEach'
    BY <1>4, <2>1, <2>6 DEF OneRowEach
  <2>10. \A f \in Completing : pc'[f] = "found" => f # e
    BY <1>3, <1>4
  <2>11. ASSUME NEW f \in Completing, pc'[f] = "found", found'[f] = None, f[2] \notin overtaken'
         PROVE  \A r \in runRows' : r.by[2] # f[2]
    BY <1>1, <1>4, <2>1, <2>7, <2>10, <2>11, KnownEvents DEF LookupsHold
  <2>12. LookupsHold'
    BY <1>1, <1>3, <1>4, <2>10, <2>11, RunEvents, KnownEvents DEF LookupsHold, StartOf
  <2> QED BY <2>8, <2>9, <2>12
<1> QED BY <1>5, <1>6

LEMMA HandlerRunInv ==
  ASSUME TypeOK, RunInv, NEW e \in Events, Handle(e)
  PROVE  RunInv'
<1>1. CASE FindRun(e)
  BY <1>1, FindRunInv
<1>2. CASE Store(e) /\ e \in Starting
  BY <1>2, StoreStartInv
<1>3. CASE Store(e) /\ e \in Completing
  BY <1>3, StoreEndInv
<1>4. CASE ~FindRun(e) /\ ~(Store(e) /\ e \in Starting \cup Completing)
  <2>1. UNCHANGED <<runRows, realAgents, overtaken, found>>
    BY <1>4 DEF Handle, Load, Save, Throws, Fails, Store, StoreFails, history, given
  <2>2. \A f \in Events : pc[f] \in {"done", "failed"} => pc'[f] = pc[f]
    BY HandlerMoves
  <2>3. \A f \in Completing : pc'[f] \in {"found", "done"} => pc'[f] = pc[f]
    <3>1. e \in Completing => pc'[e] \notin {"found", "done"}
      BY <1>4, EventKinds DEF Handle, Goto, Load, Save, Throws, Fails, StoreFails, TypeOK
    <3> QED BY <3>1, HandlerMoves, KnownEvents
  <2> QED BY <2>1, <2>2, <2>3, QuietRunInv
<1> QED BY <1>1, <1>2, <1>3, <1>4

LEMMA RestartRunInv ==
  ASSUME TypeOK, RunInv, Restart
  PROVE  RunInv'
<1>1. UNCHANGED <<runRows, realAgents, overtaken, found>>
  BY DEF Restart, given, history
<1>2. \A f \in Events : pc[f] \in {"done", "failed"} => pc'[f] = pc[f]
  BY RestartMoves
<1>3. \A f \in Completing : pc'[f] \in {"found", "done"} => pc'[f] = pc[f]
  BY RestartMoves, KnownEvents
<1> QED BY <1>1, <1>2, <1>3, QuietRunInv

\* A run of a mocked agent has one row, closed by its own end, unless its end overtook
\* its start.
THEOREM RunsOnce == Spec => []RunsAreRecordedOnce
<1>1. TypeOK /\ RunInv /\ UNCHANGED vars => RunInv'
  BY QuietRunInv DEF vars, given
<1>2. TypeOK /\ RunInv /\ [Next]_vars => RunInv'
  BY <1>1, HandlerRunInv, RestartRunInv DEF Next
<1>3. RunInv => RunsAreRecordedOnce
  BY DEF RunInv, RowsFromStored, OneRowEach, RunsAreRecordedOnce
<1> QED BY TypeCorrect, InitRunInv, <1>2, <1>3, PTL DEF Spec

-----------------------------------------------------------------------------
(* Counts.                                                                 *)

SameCounts(r, t) == r.skipped = t.skipped /\ r.processed = t.processed

\* An event is counted when its save commits, and stored later.
CountedOnSave ==
  /\ \A e \in Counting : /\ pc[e] \in {"posted", "loaded"} => e \notin counted
                         /\ pc[e] \in {"saved", "done"} => e \in counted
  /\ commitRows \subseteq counted

\* A handler whose count or total will be right has the counts of the row.
LoadedIsFresh ==
  /\ pc[JobCompleted] = "loaded" /\ ~late => SameCounts(read[JobCompleted], row)
  /\ ~overlapped =>
       \A e \in Counting :
         pc[e] = "loaded" =>
           /\ pc[JobCompleted] = "posted" => SameCounts(read[e], row)
           /\ \A f \in Counting : pc[f] = "loaded" => f = e

CompletedWasLoaded == row.completed => pc[JobCompleted] # "posted"

CountInv == CountedOnSave /\ LoadedIsFresh /\ CompletedWasLoaded /\ CountsAreRight

LEMMA InitCountInv == Init => CountInv
<1> SUFFICES ASSUME Init PROVE CountInv
  OBVIOUS
<1>1. /\ row = EmptyRow /\ commitRows = {} /\ counted = {}
      /\ \A e \in Events : pc[e] = "posted"
  BY DEF Init
<1>2. Cardinality(counted \cap Skipping) = 0 /\ Cardinality(counted \cap Auditing) = 0
  BY <1>1, FS_EmptySet
<1> QED
  BY <1>1, <1>2, KnownEvents
  DEF CountInv, CountedOnSave, LoadedIsFresh, CompletedWasLoaded, CountsAreRight, EmptyRow

\* Steps that leave the row and the counted events alone.
LEMMA QuietCounts ==
  ASSUME CountsAreRight, pc'[JobCompleted] = "posted" => pc[JobCompleted] = "posted",
         UNCHANGED <<emitted, row, counted, late>>, overlapped => overlapped',
         overlapped \in BOOLEAN, overlapped' \in BOOLEAN, commitRows' \subseteq counted'
  PROVE  CountsAreRight'
  BY DEF CountsAreRight, SkippedTotal, ProcessedTotal

LEMMA LoadCountInv ==
  ASSUME TypeOK, CountInv, NEW e \in Events, Load(e)
  PROVE  CountInv'
<1>1. /\ CountedOnSave /\ LoadedIsFresh /\ CompletedWasLoaded /\ CountsAreRight
  BY DEF CountInv
<1>2. /\ pc[e] = "posted" /\ pc'[e] = "loaded"
      /\ \A f \in Events \ {e} : pc'[f] = pc[f] /\ read'[f] = read[f]
      /\ read'[e] = row
      /\ UNCHANGED <<emitted, row, counted, late, commitRows>>
      /\ overlapped' = (overlapped \/ (e \in Counting /\ \E f \in Counting : pc[f] = "loaded"))
  BY DEF Load, Goto, TypeOK, given
<1>3. CountedOnSave'
  BY <1>1, <1>2, KnownEvents DEF CountedOnSave
<1>4. pc'[JobCompleted] = "loaded" /\ ~late' => SameCounts(read'[JobCompleted], row')
  <2>1. CASE e = JobCompleted
    BY <1>2, <2>1 DEF SameCounts
  <2>2. CASE e # JobCompleted
    BY <1>1, <1>2, <2>2, KnownEvents DEF LoadedIsFresh
  <2> QED BY <2>1, <2>2
<1>5. ASSUME ~overlapped', NEW f \in Counting, pc'[f] = "loaded"
      PROVE  /\ pc'[JobCompleted] = "posted" => SameCounts(read'[f], row')
             /\ \A g \in Counting : pc'[g] = "loaded" => g = f
  <2>1. pc'[JobCompleted] = "posted" => pc[JobCompleted] = "posted"
    BY <1>2, KnownEvents
  <2>2. CASE f = e
    BY <1>2, <1>5, <2>2, KnownEvents DEF SameCounts
  <2>3. CASE f # e
    BY <1>1, <1>2, <1>5, <2>1, <2>3, KnownEvents DEF LoadedIsFresh
  <2> QED BY <2>2, <2>3
<1>6. LoadedIsFresh'
  BY <1>4, <1>5 DEF LoadedIsFresh, SameCounts
<1>7. pc'[JobCompleted] = "posted" => pc[JobCompleted] = "posted"
  BY <1>2, KnownEvents
<1>8. CompletedWasLoaded'
  BY <1>1, <1>2, <1>7 DEF CompletedWasLoaded
<1>9. CountsAreRight'
  BY <1>1, <1>2, <1>3, <1>7, QuietCounts DEF TypeOK, CountedOnSave
<1> QED BY <1>3, <1>6, <1>8, <1>9 DEF CountInv

\* One more element is counted.
LEMMA OneMore ==
  ASSUME NEW S, NEW e, IsFiniteSet(S), e \notin S
  PROVE  Cardinality(S \cup {e}) = Cardinality(S) + 1
  BY FS_AddElement

LEMMA FiniteCounts ==
  IsFiniteSet(counted \cap Skipping) /\ IsFiniteSet(counted \cap Auditing)
<1>1. IsFiniteSet({"commit_skipped"}) /\ IsFiniteSet({"audit_verdict"})
  BY FS_Singleton
<1>2. IsFiniteSet(Skipping) /\ IsFiniteSet(Auditing)
  BY <1>1, FS_Product, ProgressAssumption DEF Skipping, Auditing
<1> QED BY <1>2, FS_Subset

LEMMA SaveCountInv ==
  ASSUME TypeOK, CountInv, NEW e \in Events, Save(e)
  PROVE  CountInv'
<1>1. /\ CountedOnSave /\ LoadedIsFresh /\ CompletedWasLoaded /\ CountsAreRight
  BY DEF CountInv
<1>2. /\ pc[e] = "loaded" /\ pc'[e] \in {"saved", "failed"}
      /\ \A f \in Events \ {e} : pc'[f] = pc[f] /\ read'[f] = read[f]
      /\ UNCHANGED <<emitted, commitRows, overlapped>>
      /\ counted' = counted \cup ({e} \cap Counting)
      /\ late' = (late \/ (e \in Counting /\ pc[JobCompleted] # "posted"))
  BY DEF Save, TypeOK, given
<1>3. /\ row'.skipped = IF e \in Skipping THEN read[e].skipped + 1
                        ELSE IF e = JobCompleted /\ SkippedTotal # read[e].skipped
                        THEN SkippedTotal ELSE row.skipped
      /\ row'.processed = IF e \in Auditing THEN read[e].processed + 1
                          ELSE IF e = JobCompleted /\ ProcessedTotal # read[e].processed
                          THEN ProcessedTotal ELSE row.processed
      /\ row'.completed => row.completed \/ e = JobCompleted
  BY SavedRow
<1>4. SkippedTotal' = SkippedTotal /\ ProcessedTotal' = ProcessedTotal
  BY <1>2 DEF SkippedTotal, ProcessedTotal
<1>5. e \notin Counting => SameCounts(row', row) \/ e = JobCompleted
  BY <1>3 DEF SameCounts, Counting
<1>6. pc'[JobCompleted] = "posted" <=> pc[JobCompleted] = "posted"
  BY <1>2, KnownEvents
<1>7. CountedOnSave'
  BY <1>1, <1>2, KnownEvents DEF CountedOnSave
<1>8. CompletedWasLoaded'
  BY <1>1, <1>2, <1>3, <1>6 DEF CompletedWasLoaded
<1>9. LoadedIsFresh'
  <2>1. pc'[JobCompleted] = "loaded" /\ ~late' => SameCounts(read'[JobCompleted], row')
    BY <1>1, <1>2, <1>5, KnownEvents DEF LoadedIsFresh, SameCounts
  <2>2. ASSUME ~overlapped', NEW f \in Counting, pc'[f] = "loaded"
        PROVE  /\ pc'[JobCompleted] = "posted" => SameCounts(read'[f], row')
               /\ \A g \in Counting : pc'[g] = "loaded" => g = f
    <3>1. f # e /\ pc[f] = "loaded" /\ read'[f] = read[f]
      BY <1>2, <2>2, KnownEvents
    <3>2. e \notin Counting
      BY <1>1, <1>2, <2>2, <3>1 DEF LoadedIsFresh
    <3>3. pc'[JobCompleted] = "posted" => SameCounts(row', row)
      BY <1>2, <1>5, <1>6, <3>2
    <3>4. \A g \in Counting : pc'[g] = "loaded" => pc[g] = "loaded"
      BY <1>2, KnownEvents
    <3> QED BY <1>1, <1>2, <1>6, <2>2, <3>1, <3>3, <3>4 DEF LoadedIsFresh, SameCounts
  <2> QED BY <2>1, <2>2 DEF LoadedIsFresh, SameCounts
<1>10. ASSUME pc'[JobCompleted] = "posted", ~overlapped'
       PROVE  /\ row'.skipped = Cardinality(counted' \cap Skipping)
              /\ row'.processed = Cardinality(counted' \cap Auditing)
  <2>1. /\ row.skipped = Cardinality(counted \cap Skipping)
        /\ row.processed = Cardinality(counted \cap Auditing)
    BY <1>1, <1>2, <1>6, <1>10 DEF CountsAreRight
  <2>2. e \in Counting => SameCounts(read[e], row) /\ e \notin counted
    BY <1>1, <1>2, <1>6, <1>10 DEF LoadedIsFresh, CountedOnSave
  <2>3. e # JobCompleted
    BY <1>2, <1>10
  <2>4. CASE e \in Skipping
    <3>1. /\ counted' \cap Skipping = (counted \cap Skipping) \cup {e}
          /\ counted' \cap Auditing = counted \cap Auditing
      BY <1>2, <2>4, EventKinds DEF Counting
    <3>2. Cardinality(counted' \cap Skipping) = Cardinality(counted \cap Skipping) + 1
      BY <2>2, <2>4, <3>1, FiniteCounts, OneMore DEF Counting
    <3>3. e \notin Auditing /\ e \in Counting
      BY <2>4, EventKinds DEF Counting
    <3> QED BY <1>3, <2>1, <2>2, <2>3, <2>4, <3>1, <3>2, <3>3 DEF SameCounts
  <2>5. CASE e \in Auditing
    <3>1. /\ counted' \cap Auditing = (counted \cap Auditing) \cup {e}
          /\ counted' \cap Skipping = counted \cap Skipping
      BY <1>2, <2>5, EventKinds DEF Counting
    <3>2. Cardinality(counted' \cap Auditing) = Cardinality(counted \cap Auditing) + 1
      BY <2>2, <2>5, <3>1, FiniteCounts, OneMore DEF Counting
    <3>3. e \notin Skipping /\ e \in Counting
      BY <2>5, EventKinds DEF Counting
    <3> QED BY <1>3, <2>1, <2>2, <2>3, <2>5, <3>1, <3>2, <3>3 DEF SameCounts
  <2>6. CASE e \notin Counting
    BY <1>2, <1>5, <2>1, <2>3, <2>6 DEF SameCounts
  <2> QED BY <2>4, <2>5, <2>6 DEF Counting
<1>11. ASSUME row'.completed, ~late'
       PROVE  row'.skipped = SkippedTotal' /\ row'.processed = ProcessedTotal'
  <2>1. ~late
    BY <1>2, <1>11
  <2>2. CASE e = JobCompleted
    <3>1. SameCounts(read[e], row)
      BY <1>1, <1>2, <2>1, <2>2 DEF LoadedIsFresh
    <3>2. e \notin Skipping /\ e \notin Auditing
      BY <2>2, EventKinds DEF Counting
    <3> QED BY <1>3, <1>4, <2>2, <3>1, <3>2 DEF SameCounts
  <2>3. CASE e # JobCompleted
    <3>1. row.completed /\ e \notin Counting
      BY <1>1, <1>2, <1>3, <1>11, <2>3 DEF CompletedWasLoaded
    <3> QED BY <1>1, <1>4, <1>5, <2>1, <2>3, <3>1 DEF CountsAreRight, SameCounts
  <2> QED BY <2>2, <2>3
<1>12. CountsAreRight'
  BY <1>7, <1>10, <1>11 DEF CountsAreRight, CountedOnSave
<1> QED BY <1>7, <1>8, <1>9, <1>12 DEF CountInv

\* The other steps of a handler, and a restart, neither load nor save the row.
LEMMA QuietCountInv ==
  ASSUME TypeOK, TypeOK', CountInv, UNCHANGED <<emitted, row, counted, late, overlapped>>,
         commitRows' \subseteq counted',
         \A f \in Events : /\ pc'[f] = "posted" => pc[f] = "posted"
                           /\ pc'[f] = "loaded" => pc[f] = "loaded" /\ read'[f] = read[f]
                           /\ pc[f] = "posted" => pc'[f] \in {"posted", "failed"},
         \A f \in Counting : pc'[f] \in {"saved", "done"} => pc[f] \in {"saved", "done"}
  PROVE  CountInv'
<1>1. /\ CountedOnSave /\ LoadedIsFresh /\ CompletedWasLoaded /\ CountsAreRight
  BY DEF CountInv
<1>2. CountedOnSave'
  BY <1>1, KnownEvents DEF CountedOnSave
<1>3. CompletedWasLoaded'
  BY <1>1, KnownEvents DEF CompletedWasLoaded
<1>4. pc'[JobCompleted] = "loaded" /\ ~late' => SameCounts(read'[JobCompleted], row')
  BY <1>1, KnownEvents DEF LoadedIsFresh, SameCounts
<1>5. ASSUME ~overlapped', NEW e \in Counting, pc'[e] = "loaded"
      PROVE  /\ pc'[JobCompleted] = "posted" => SameCounts(read'[e], row')
             /\ \A f \in Counting : pc'[f] = "loaded" => f = e
  BY <1>1, <1>5, KnownEvents DEF LoadedIsFresh, SameCounts
<1>6. LoadedIsFresh'
  BY <1>4, <1>5 DEF LoadedIsFresh, SameCounts
<1>7. CountsAreRight'
  BY <1>1, KnownEvents, QuietCounts DEF TypeOK
<1> QED BY <1>2, <1>3, <1>6, <1>7 DEF CountInv

LEMMA HandlerCountInv ==
  ASSUME TypeOK, TypeOK', CountInv, NEW e \in Events, Handle(e)
  PROVE  CountInv'
<1>1. CASE Load(e)
  BY <1>1, LoadCountInv
<1>2. CASE Save(e)
  BY <1>2, SaveCountInv
<1>3. CASE ~Load(e) /\ ~Save(e)
  <2>1. UNCHANGED <<emitted, row, counted, late, overlapped>>
    BY <1>3 DEF Handle, Throws, Fails, FindRun, Store, StoreFails, history, given
  <2>2. \A f \in Events \ {e} : pc'[f] = pc[f] /\ read'[f] = read[f]
    BY HandlerMoves
  <2>3. /\ pc'[e] \in {"found", "done", "failed"}
        /\ pc[e] = "posted" => pc'[e] = "failed"
        /\ e \in Counting /\ pc'[e] = "done" => pc[e] = "saved"
    BY <1>3, EventKinds DEF TypeOK, Handle, Goto, Throws, Fails, FindRun, Store, StoreFails, Counting
  <2>4. commitRows' \subseteq counted'
    <3>1. CASE Store(e)
      <4>1. e \in Skipping => pc[e] = "saved"
        BY <3>1, EventKinds DEF Store, Goto
      <4> QED BY <3>1, <2>1, <4>1 DEF Store, CountInv, CountedOnSave, Counting
    <3>2. CASE UNCHANGED commitRows
      BY <2>1, <3>2 DEF CountInv, CountedOnSave
    <3> QED BY <1>3, <3>1, <3>2 DEF Handle, Throws, Fails, FindRun, StoreFails
  <2>5. \A f \in Events : /\ pc'[f] = "posted" => pc[f] = "posted"
                          /\ pc'[f] = "loaded" => pc[f] = "loaded" /\ read'[f] = read[f]
                          /\ pc[f] = "posted" => pc'[f] \in {"posted", "failed"}
    BY <2>2, <2>3
  <2>6. \A f \in Counting : pc'[f] \in {"saved", "done"} => pc[f] \in {"saved", "done"}
    BY <2>2, <2>3, KnownEvents
  <2> QED BY <2>1, <2>4, <2>5, <2>6, QuietCountInv
<1> QED BY <1>1, <1>2, <1>3

LEMMA RestartCountInv ==
  ASSUME TypeOK, TypeOK', CountInv, Restart
  PROVE  CountInv'
<1>1. UNCHANGED <<emitted, row, counted, late, overlapped, commitRows>>
  BY DEF Restart, given, history
<1>2. commitRows' \subseteq counted'
  BY <1>1 DEF CountInv, CountedOnSave
<1> QED BY <1>1, <1>2, RestartMoves, KnownEvents, QuietCountInv

\* The counts of a job are those of its events while these do not overlap, and those of
\* the walk once it is completed, unless a count was saved late.
THEOREM CountsHold == Spec => []CountsAreRight
<1>1. TypeOK /\ TypeOK' /\ CountInv /\ UNCHANGED vars => CountInv'
  <2> SUFFICES ASSUME TypeOK, TypeOK', CountInv, UNCHANGED vars PROVE CountInv'
    OBVIOUS
  <2>1. commitRows' \subseteq counted'
    BY DEF CountInv, CountedOnSave, vars, given
  <2> QED BY <2>1, QuietCountInv DEF vars, given
<1>2. TypeOK /\ TypeOK' /\ CountInv /\ [Next]_vars => CountInv'
  BY <1>1, HandlerCountInv, RestartCountInv DEF Next
<1>3. CountInv => CountsAreRight
  BY DEF CountInv
<1> QED BY TypeCorrect, InitCountInv, <1>2, <1>3, PTL DEF Spec
============================================================================
