---------------------------- MODULE Calibration -----------------------------
(***************************************************************************)
(* The commit walk of a job and the calibration loop it runs for every     *)
(* commit with a Jira key: curator and auditor agents in rounds, and the   *)
(* approved patches of the last round applied to the knowledge store.      *)
(*                                                                         *)
(* The agents are external: a proposal is any of Proposals, a verdict any  *)
(* answer of the auditor to each patch, including none.  It composes the   *)
(* loop with KnowledgeStore; one job runs the two, one step at a time.     *)
(***************************************************************************)
EXTENDS KnowledgeStore

CONSTANTS
  Commits,      \* number of commits walkCommits returns
  Proposals,    \* the lists of patches a curator may propose
  RoundOptions  \* values of validation.maxRoundsPerCommit

ASSUME CalibrationAssumption ==
  /\ Commits \in Nat
  /\ Proposals \subseteq Seq(Patches)
  /\ RoundOptions \subseteq Int

VARIABLES
  pc,          \* where the walk stands
  hasKey,      \* hasKey[i]: commit i has a Jira key
  maxRounds,   \* the clamped option
  commit,      \* the commit the walk is at
  round,       \* rounds begun for it
  proposal,    \* lastCurationPatches
  verdict,     \* finalAuditedPatches: the answer to each patch of the proposal
  finalPass,   \* overallPass of the last verdict
  selected,    \* patchesToApply
  results      \* the calibration summaries of the commits processed

loopVars == <<round, proposal, verdict, finalPass, selected>>

vars == <<storeVars, pc, hasKey, maxRounds, commit, loopVars, results>>

PCs == {"bootstrap", "walk", "rounds", "audit", "apply", "done", "failed"}

Answers == {"approved", "rejected", "none"}

\* Mutant: the option is taken as it comes.
Unclamped(rounds) == rounds

\* clamp(maxRoundsPerCommit, 1, 3)
ClampRounds(rounds) == IF rounds < 1 THEN 1 ELSE IF rounds > 3 THEN 3 ELSE rounds

-----------------------------------------------------------------------------
Bootstrap ==
  /\ pc = "bootstrap"
  /\ BootstrapStep
  /\ pc' = IF store' = "idle" THEN "walk" ELSE "bootstrap"
  /\ UNCHANGED <<hasKey, maxRounds, commit, loopVars, results>>

\* A commit without a Jira key is skipped.
SkipCommit ==
  /\ pc = "walk"
  /\ commit <= Commits
  /\ ~hasKey[commit]
  /\ commit' = commit + 1
  /\ UNCHANGED <<storeVars, pc, hasKey, maxRounds, loopVars, results>>

\* Historian, calibrator and prober have run: the rounds begin.
StartCommit ==
  /\ pc = "walk"
  /\ commit <= Commits
  /\ hasKey[commit]
  /\ pc' = "rounds"
  /\ round' = 0
  /\ proposal' = <<>>
  /\ verdict' = <<>>
  /\ finalPass' = FALSE
  /\ UNCHANGED <<storeVars, hasKey, maxRounds, commit, selected, results>>

FinishWalk ==
  /\ pc = "walk"
  /\ commit > Commits
  /\ pc' = "done"
  /\ UNCHANGED <<storeVars, hasKey, maxRounds, commit, loopVars, results>>

ApprovedTargets == {proposal[i].target : i \in {k \in DOMAIN verdict : verdict[k] = "approved"}}

MoreRounds == round < maxRounds /\ ~finalPass

Curate ==
  /\ pc = "rounds"
  /\ MoreRounds
  /\ round' = round + 1
  /\ proposal' \in Proposals
  /\ pc' = "audit"
  /\ UNCHANGED <<storeVars, hasKey, maxRounds, commit, verdict, finalPass, selected, results>>

\* Mutant: a failing last round starts the rounds again.
AuditAgain ==
  /\ pc = "audit"
  /\ verdict' \in [DOMAIN proposal -> Answers]
  /\ finalPass' \in BOOLEAN
  /\ round' = IF round = maxRounds /\ ~finalPass' THEN 0 ELSE round
  /\ pc' = "rounds"
  /\ UNCHANGED <<storeVars, hasKey, maxRounds, commit, proposal, selected, results>>

\* resolveAuditVerdictFromAgent keeps the answers about proposed targets; overallPass is
\* the auditor's own word, or its scores against the threshold.
Audit ==
  /\ pc = "audit"
  /\ verdict' \in [DOMAIN proposal -> Answers]
  /\ finalPass' \in BOOLEAN
  /\ pc' = "rounds"
  /\ UNCHANGED <<storeVars, hasKey, maxRounds, commit, round, proposal, selected, results>>

\* Mutant: patches are kept unless they were rejected.
NotRejected == Chosen(proposal, {i \in DOMAIN proposal : verdict[i] # "rejected"})

PatchesToApply == Chosen(proposal, {i \in DOMAIN proposal : proposal[i].target \in ApprovedTargets})

TokenDelta(patches) == ListSum([k \in DOMAIN patches |-> patches[k].delta])

RejectedCount == Len(SelectSeq(verdict, LAMBDA answer : answer = "rejected"))

\* Mutant: the delta counts every patch that was proposed.
ResultOfProposal(patches, appliedCount, skippedCount) ==
  [commit |-> commit, rounds |-> round, pass |-> finalPass, tokenDelta |-> TokenDelta(proposal),
   approved |-> appliedCount, rejected |-> RejectedCount + skippedCount]

\* The summary of a commit: the delta counts every patch that was to be applied.
Result(patches, appliedCount, skippedCount) ==
  [commit |-> commit, rounds |-> round, pass |-> finalPass, tokenDelta |-> TokenDelta(patches),
   approved |-> appliedCount, rejected |-> RejectedCount + skippedCount]

\* The rounds are over: the approved patches of the last one are applied, if there are any.
StartApply ==
  /\ pc = "rounds"
  /\ ~MoreRounds
  /\ PatchesToApply # <<>>
  /\ selected' = PatchesToApply
  /\ StartBatch(selected')
  /\ pc' = "apply"
  /\ UNCHANGED <<hasKey, maxRounds, commit, round, proposal, verdict, finalPass, results>>

NothingToApply ==
  /\ pc = "rounds"
  /\ ~MoreRounds
  /\ PatchesToApply = <<>>
  /\ results' = Append(results, Result(<<>>, 0, 0))
  /\ commit' = commit + 1
  /\ pc' = "walk"
  /\ UNCHANGED <<storeVars, hasKey, maxRounds, loopVars>>

Apply ==
  /\ pc = "apply"
  /\ BatchStep
  /\ IF store' = "idle"
     THEN /\ results' = Append(results, Result(selected, applied, skipped))
          /\ commit' = commit + 1
          /\ pc' = "walk"
     ELSE UNCHANGED <<results, commit, pc>>
  /\ UNCHANGED <<hasKey, maxRounds, loopVars>>

\* An agent or a git call throws: the exception ends the walk and the job.
AgentFails ==
  /\ pc \in {"walk", "rounds", "audit"}
  /\ pc' = "failed"
  /\ UNCHANGED <<storeVars, hasKey, maxRounds, commit, loopVars, results>>

\* The store throws.
FileFails ==
  /\ \/ pc = "bootstrap" /\ BootstrapFails
     \/ pc = "rounds" /\ ~MoreRounds /\ PatchesToApply # <<>> /\ StartBatchFails
     \/ pc = "apply" /\ FinishBatchFails
  /\ pc' = "failed"
  /\ UNCHANGED <<hasKey, maxRounds, commit, loopVars, results>>

-----------------------------------------------------------------------------
Init ==
  /\ StoreInit
  /\ pc = "bootstrap"
  /\ hasKey \in [1..Commits -> BOOLEAN]
  /\ \E rounds \in RoundOptions : maxRounds = ClampRounds(rounds)
  /\ commit = 1
  /\ round = 0
  /\ proposal = <<>>
  /\ verdict = <<>>
  /\ finalPass = FALSE
  /\ selected = <<>>
  /\ results = <<>>

Walk == SkipCommit \/ StartCommit \/ FinishWalk

Loop == Curate \/ Audit \/ StartApply \/ NothingToApply \/ Apply

Next == Bootstrap \/ Walk \/ Loop \/ AgentFails \/ FileFails

Spec == Init /\ [][Next]_vars

\* The job is one sequence of awaits, each of which returns or throws.
FairSpec == Spec /\ WF_vars(Bootstrap \/ Walk \/ Loop)

-----------------------------------------------------------------------------
(* Properties.                                                             *)

\* Types of the loop and of the store.
TypeOK ==
  /\ StoreTypeOK
  /\ pc \in PCs
  /\ hasKey \in [1..Commits -> BOOLEAN]
  /\ maxRounds \in 1..3
  /\ commit \in 1..(Commits + 1)
  /\ round \in 0..maxRounds
  /\ proposal \in Seq(Patches)
  /\ verdict \in Seq(Answers)
  /\ finalPass \in BOOLEAN
  /\ selected \in Seq(Patches)
  /\ Len(results) <= Commits

\* Once the store is bootstrapped, a shard file changes only if the auditor approved its
\* target in the last round of the current commit, whatever earlier rounds or commits
\* proposed and approved.  (Its target: a rejected patch of an approved shard is applied.)
OnlyApprovedShardsChange ==
  [][\A f \in Files :
       pc # "bootstrap" /\ files'[f] # files[f] =>
         \E i \in DOMAIN verdict :
           /\ verdict[i] = "approved"
           /\ FileOf[proposal[i].target] = f
           /\ \A k \in DOMAIN selected : selected[k] \in ToSet(proposal)]_vars

\* Whatever the agents and the files do, the walk is as CommitWalk promises, and ends.
Promise == INSTANCE CommitWalk WITH
  linked <- hasKey,
  position <- commit - 1,
  processed <- [k \in DOMAIN results |-> results[k].commit],
  outcome <- IF pc = "done" THEN "ended" ELSE IF pc = "failed" THEN "failed" ELSE "walking"

ImplementsCommitWalk == Promise!Spec /\ Promise!Ends

\* When a batch is done, the delta in the summary of the commit is what the token total of
\* the manifest has changed by: at most if the total was cut off at zero on the way, and
\* maybe not at all if a patch was skipped, whose delta is claimed all the same.
TokenTotals ==
  [][store = "applying" /\ store' = "idle" /\ skipped = 0 =>
       LET total == manifestFile.tokenEstimateTotal
           claimed == total + results'[Len(results')].tokenDelta
           cutOff == \E k \in DOMAIN selected : total + TokenDelta(SubSeq(selected, 1, k)) < 0
       IN IF cutOff THEN manifestFile'.tokenEstimateTotal >= claimed
          ELSE manifestFile'.tokenEstimateTotal = claimed]_vars
============================================================================
