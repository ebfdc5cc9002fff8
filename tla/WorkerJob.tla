----------------------------- MODULE WorkerJob ------------------------------
(***************************************************************************)
(* One run of a job in the knowledge worker, from the clone to the pull    *)
(* request: runBrownfieldJob with its three phases, and what each stage    *)
(* reads and leaves in the workspace that is packed and delivered.         *)
(*                                                                         *)
(* The run is one sequence of awaits.  Agents are external: they may       *)
(* answer with any text, and a real one may write files where it works:    *)
(* architect and historian in the repository, calibrator, prober, curator  *)
(* and auditor in the workspace.  git, Atlassian and GitHub are external   *)
(* too.  The rounds of curator and auditor are here for what               *)
(* becomes of the answers; the store they patch is in Calibration, the     *)
(* requests of the delivery in PullRequestDelivery.                        *)
(***************************************************************************)
EXTENDS CommitWalker, StackDetect, AtlassianClient, AgentAnswers, BundlePacker, FiniteSetsExt

CONSTANTS
  Repository,     \* the commits of the repository, the last one the tip of the branch
  Keys,           \* Jira keys
  BranchKey,      \* the key in the name of the branch, or NoKey
  OptionSets,     \* the options a job may have, as records
  MaxPageIds,     \* MAX_PAGE_IDS (25)
  MaxPrFiles,     \* MAX_PR_FILES (500)
  MockShard,      \* the shard of synthesizeBootstrapArtifacts
  AgentStores,    \* what a real architect may write: truth documents, shards, a manifest
  LeftFiles,      \* files a real agent may leave in the workspace beside those of the worker
  LargeFiles,     \* files of a workspace that are over MAX_PR_FILE_BYTES
  Mentions,       \* the sets of paths a spec of a real historian may mention
  QuestionTexts,  \* the texts a question prober may answer with
  CuratorTexts,   \* the texts a curator may answer with
  AuditorTexts    \* the texts an auditor may answer with

Tip == Len(Repository)

ASSUME JobAssumption ==
  /\ MaxPageIds \in Nat \ {0} /\ MaxPrFiles \in Nat \ {0}
  /\ NoKey \notin Keys /\ BranchKey \in Keys \cup {NoKey}
  /\ \A o \in OptionSets : /\ o.head \in 1..Tip /\ o.depth \in Nat /\ o.order \in Orders
                           /\ o.pages \in Seq(ToSet(o.pages))
                           /\ {o.questionCount, o.minAnswerScore, o.maxRounds} \subseteq Int

ASSUME RepositoryAssumption ==
  /\ Tip \in Nat \ {0} /\ DOMAIN Repository = 1..Tip
  /\ \A c \in 1..Tip : /\ DOMAIN Repository[c] = {"parents", "tree", "key"}
                       /\ Repository[c].key \in Keys \cup {NoKey}

\* A spec is of the commit it describes, 0 for one older than the job, with the paths it
\* mentions, bare or quoted.
FeatureSpecs == [about : 0..Tip, bare : SUBSET Paths, quoted : Mentions \cup {{}}]

ASSUME NothingAssumption == Nothing \notin FeatureSpecs

\* A text and a repository mention finitely many paths.
ASSUME PathAssumption == IsFiniteSet(Paths) /\ \A mentioned \in Mentions : IsFiniteSet(mentioned)

\* What is an array in JSON is a list; a path is a list of names.
ASSUME AgentAssumption ==
  /\ \A store \in AgentStores : /\ store.docs \subseteq TruthDocs
                               /\ store.shards \in Seq(ToSet(store.shards))
  /\ \A text \in QuestionTexts : HasLists(text, {"questions"})
  /\ \A text \in CuratorTexts : HasLists(text, {"answers", "patches"})
  /\ \A text \in AuditorTexts : HasLists(text, {"patches"})

ASSUME FileAssumption ==
  /\ \A f \in Kit \cup LeftFiles : f \in Seq(ToSet(f))
  /\ MockShard \in Seq(ToSet(MockShard)) /\ MockShard # <<"manifest.json">>

VARIABLES
  options,      \* the options of the job
  pc,           \* the stage the run is at
  profile,      \* stack-profile.json
  fetched,      \* Confluence pages fetched
  missing,      \* Confluence pages not found
  inRepo,       \* inRepo[k]: the feature_spec.md of key k in the repository
  specs,        \* specs[k]: the one in the workspace
  docs,         \* truth documents in the workspace
  shards,       \* shard files in the workspace, in the order of the manifest
  hasManifest,  \* there is a knowledge manifest
  bootShards,   \* shardCount after the bootstrap
  reports,      \* files below .sdd/reports
  left,         \* files agents left in the workspace
  next,         \* commits handled
  current,      \* the calibration of the current commit
  records,      \* the records of the commits handled
  bundle,       \* the zip and its manifest
  blob,         \* the zip in Blob Storage
  pr            \* the files of the pull request

workspace == <<inRepo, specs, docs, shards, hasManifest, bootShards, reports, left>>

walkVars == <<next, current, records>>

results == <<bundle, blob, pr>>

vars == <<options, pc, scanVars, profile, clientVars, fetched, missing, workspace, walkVars, results>>

PCs == {"clone", "stack_detect", "confluence", "commit_walk", "commit", "issue", "historian",
        "calibrator", "prober", "curator", "auditor", "apply", "pack", "upload", "deliver",
        "completed", "failed"}

Ended == {"completed", "failed"}

Goto(stage) == pc' = stage

-----------------------------------------------------------------------------
(* What the options come to.                                               *)

\* A clone of the tip has no other commit.
HistoryOf(o) == IF o.cloned THEN ShallowClone(Repository, Tip) ELSE Repository

\* enrichWithJiraKeys(walkCommits), with what diffCommit finds for each commit.
Enriched ==
  [o \in OptionSets |->
    LET history == HistoryOf(o)
        walk == WalkCommits(history, o.head, o.depth, o.order)
    IN [i \in DOMAIN walk |-> [commit |-> walk[i],
                               key |-> ExtractJiraKey(history[walk[i]], o.sources, BranchKey),
                               changed |-> ChangedPaths(history, walk[i])]]]

Walk == Enriched[options]

HeadIsThere == options.cloned => options.head = Tip

\* buildConfluenceContext: no page twice, and not too many.
PageIds ==
  LET pages == options.pages
  IN FirstN(Chosen(pages, {i \in DOMAIN pages : \A k \in 1..(i - 1) : pages[k] # pages[i]}), MaxPageIds)

PagesLeft == Chosen(PageIds, {i \in DOMAIN PageIds : PageIds[i] \notin fetched \cup missing})

SpecFile(k) == <<".sdd", "features", "completed", k, "feature_spec.md">>

ShardFile(s) == <<".sdd", "knowledge">> \o s

KnowledgeManifest == <<".sdd", "knowledge", "manifest.json">>

ReportFile(c, name) == <<".sdd", "reports", "calibration", ToString(c)>> \o name

OnboardingReport == <<".sdd", "reports", "onboarding.json">>

WorkspaceFiles ==
  docs \cup {ShardFile(s) : s \in ToSet(shards)} \cup (IF hasManifest THEN {KnowledgeManifest} ELSE {})
    \cup {SpecFile(k) : k \in {l \in Keys : specs[l] # Nothing}} \cup reports \cup left \cup VendorSddKit

\* manifest.shards, or no shards if the manifest cannot be read.
KnownShardPaths == IF hasManifest THEN shards ELSE <<>>

-----------------------------------------------------------------------------
(* bootstrapKnowledgeAtHead.                                               *)

Clone ==
  /\ pc = "clone"
  /\ Goto("stack_detect")
  /\ UNCHANGED <<options, scanVars, profile, clientVars, fetched, missing, workspace, walkVars, results>>

DetectStack ==
  /\ pc = "stack_detect"
  /\ ScanStep
  /\ UNCHANGED <<options, pc, profile, clientVars, fetched, missing, workspace, walkVars, results>>

WriteStackProfile ==
  /\ pc = "stack_detect"
  /\ ScanDone
  /\ profile' = Profile
  /\ Goto("confluence")
  /\ UNCHANGED <<options, scanVars, clientVars, fetched, missing, workspace, walkVars, results>>

AskForPage ==
  /\ pc = "confluence"
  /\ PagesLeft # <<>>
  /\ Ask
  /\ UNCHANGED <<options, pc, scanVars, profile, fetched, missing, workspace, walkVars, results>>

\* getPages tolerates a refusal only.
TakePage ==
  /\ pc = "confluence"
  /\ \/ /\ call = "ok"
        /\ fetched' = fetched \cup {Head(PagesLeft)}
        /\ UNCHANGED missing
     \/ /\ call = "refused"
        /\ missing' = missing \cup {Head(PagesLeft)}
        /\ UNCHANGED fetched
  /\ HangUp
  /\ UNCHANGED <<options, pc, scanVars, profile, workspace, walkVars, results>>

\* The client throws: for a page that ends the job, for an issue it does not matter.
PageThrows ==
  /\ pc = "confluence"
  /\ call = "threw"
  /\ Goto("failed")
  /\ UNCHANGED <<options, scanVars, profile, clientVars, fetched, missing, workspace, walkVars, results>>

\* In mock mode the worker writes both documents and one shard; a real agent writes what
\* it likes into the repository, and the worker copies it.
RunArchitect ==
  /\ pc = "confluence"
  /\ PagesLeft = <<>>
  /\ IF options.mock
     THEN docs' = TruthDocs /\ shards' = <<MockShard>> /\ hasManifest' = TRUE
     ELSE \E store \in AgentStores :
            docs' = store.docs /\ shards' = store.shards /\ hasManifest' = store.hasManifest
  /\ bootShards' = IF hasManifest' THEN Len(shards') ELSE 0
  /\ Goto("commit_walk")
  /\ UNCHANGED <<options, scanVars, profile, clientVars, fetched, missing, inRepo, specs, reports,
                 left, walkVars, results>>

-----------------------------------------------------------------------------
(* runCommitWalkPhase and processJiraLinkedCommit.                         *)

Commit == Walk[next + 1].commit

Key == Walk[next + 1].key

Changed == Walk[next + 1].changed

HasCommit == next < Len(Walk)

NoCommit == [about |-> Nothing, metrics |-> Nothing, questions |-> <<>>, proposal |-> Nothing,
             verdict |-> Nothing, silent |-> FALSE, round |-> 0]

Skipped == [commit |-> Commit, key |-> NoKey, about |-> Nothing, rounds |-> 0, overlap |-> 0,
            qaScore |-> 0]

\* git log fails if it does not know the commit.
StartWalk ==
  /\ pc = "commit_walk"
  /\ Goto(IF HeadIsThere THEN "commit" ELSE "failed")
  /\ UNCHANGED <<options, scanVars, profile, clientVars, fetched, missing, workspace, walkVars, results>>

\* Mutant: the first commit without a key is the end of the walk.
SkipCommitAndStop ==
  /\ pc = "commit"
  /\ HasCommit /\ Key = NoKey
  /\ records' = Append(records, Skipped)
  /\ next' = next + 1
  /\ reports' = reports \cup {OnboardingReport}
  /\ Goto("pack")
  /\ UNCHANGED <<options, scanVars, profile, clientVars, fetched, missing, inRepo, specs, docs, shards,
                 hasManifest, bootShards, left, current, results>>

SkipCommit ==
  /\ pc = "commit"
  /\ HasCommit /\ Key = NoKey
  /\ records' = Append(records, Skipped)
  /\ next' = next + 1
  /\ UNCHANGED <<options, pc, scanVars, profile, clientVars, fetched, missing, workspace, current, results>>

\* Without a Jira connection the historian is told of a mock issue.
StartCommit ==
  /\ pc = "commit"
  /\ HasCommit /\ Key # NoKey
  /\ IF options.jira
     THEN Ask /\ Goto("issue")
     ELSE UNCHANGED clientVars /\ Goto("historian")
  /\ UNCHANGED <<options, scanVars, profile, fetched, missing, workspace, walkVars, results>>

\* Whatever went wrong with the issue, the historian is told of a mock issue.
TakeIssue ==
  /\ pc = "issue"
  /\ Answered
  /\ HangUp
  /\ Goto("historian")
  /\ UNCHANGED <<options, scanVars, profile, fetched, missing, workspace, walkVars, results>>

\* Atlassian answers the request for a page or for an issue.
TakeReply ==
  /\ pc \in {"confluence", "issue"}
  /\ Reply
  /\ UNCHANGED <<options, pc, scanVars, profile, fetched, missing, workspace, walkVars, results>>

MockSpec == [about |-> Commit, bare |-> Changed, quoted |-> {}]

AgentSpecs == {Nothing} \cup {[about |-> Commit, bare |-> {}, quoted |-> m] : m \in Mentions}

\* resolveTextArtifact: a file in the workspace, or one in the repository, or the answer.
ResolveTextArtifact(inWorkspace, inRepository, answer) ==
  IF inWorkspace # Nothing THEN inWorkspace
  ELSE IF inRepository # Nothing THEN inRepository ELSE answer

\* Mutant: the mock historian leaves a file that is already there.
RunHistorianOnce ==
  /\ pc = "historian"
  /\ \E wrote \in IF options.mock THEN {Nothing} ELSE AgentSpecs,
        answer \in IF options.mock THEN {MockSpec} ELSE AgentSpecs :
       /\ inRepo' = IF wrote = Nothing THEN inRepo ELSE [inRepo EXCEPT ![Key] = wrote]
       /\ specs' = [specs EXCEPT ![Key] = ResolveTextArtifact(@, inRepo'[Key], answer)]
  /\ Goto("calibrator")
  /\ UNCHANGED <<options, scanVars, profile, clientVars, fetched, missing, docs, shards, hasManifest,
                 bootShards, reports, left, walkVars, results>>

\* In mock mode the worker writes the spec.  A real agent may write it into the repository
\* and may answer with it.
RunHistorian ==
  /\ pc = "historian"
  /\ IF options.mock
     THEN /\ specs' = [specs EXCEPT ![Key] = MockSpec]
          /\ UNCHANGED inRepo
     ELSE \E wrote, answer \in AgentSpecs :
            /\ inRepo' = IF wrote = Nothing THEN inRepo ELSE [inRepo EXCEPT ![Key] = wrote]
            /\ specs' = [specs EXCEPT ![Key] = ResolveTextArtifact(@, inRepo'[Key], answer)]
  /\ Goto("calibrator")
  /\ UNCHANGED <<options, scanVars, profile, clientVars, fetched, missing, docs, shards, hasManifest,
                 bootShards, reports, left, walkVars, results>>

-----------------------------------------------------------------------------
(* runCalibrationLoop.  The manifest does not change before the patches are *)
(* applied, so the shards known at its start are known throughout.          *)

SpecText == IF specs[Key] = Nothing THEN [about |-> Nothing, bare |-> {}, quoted |-> {}] ELSE specs[Key]

\* A session in the workspace.  What it does to files the worker reads is left out.
RunSession == IF options.mock THEN UNCHANGED left ELSE \E f \in SUBSET LeftFiles : left' = left \cup f

WriteAndHandoff(name) == reports' = reports \cup {ReportFile(Commit, name)}

loopUnchanged == <<options, scanVars, profile, clientVars, fetched, missing, inRepo, specs, docs,
                   hasManifest, bootShards, results>>

\* The overlap is computed before the agent is asked, whose words are only attached.
RunCalibrator ==
  /\ pc = "calibrator"
  /\ current' = [NoCommit EXCEPT
       !.about = SpecText.about,
       !.metrics = ComputeOverlap(ExtractPredictedPaths(SpecText, KnownShardPaths), Changed)]
  /\ RunSession
  /\ WriteAndHandoff(<<"calibration-report.json">>)
  /\ Goto("prober")
  /\ UNCHANGED <<loopUnchanged, shards, next, records>>

QuestionCount == ClampTo(options.questionCount, 5, 30)

RunProber ==
  /\ pc = "prober"
  /\ \/ /\ options.mock
        /\ current' = [current EXCEPT !.questions = MockQuestions(current.metrics, QuestionCount)]
     \/ /\ ~options.mock
        /\ \E text \in QuestionTexts :
             current' = [current EXCEPT !.questions = ResolveQuestions(text, QuestionCount)]
  /\ RunSession
  /\ WriteAndHandoff(<<"questions.json">>)
  /\ Goto("curator")
  /\ UNCHANGED <<loopUnchanged, shards, next, records>>

RunCurator ==
  /\ pc = "curator"
  /\ \E p \in IF options.mock
               THEN {MockProposal(current.questions, KnownShardPaths)}
               ELSE {ResolveProposal(text, current.questions, KnownShardPaths) : text \in CuratorTexts} :
       current' = [current EXCEPT !.proposal = p, !.round = @ + 1]
  /\ RunSession
  /\ WriteAndHandoff(<<"curation-proposal-round", ToString(current'.round)>>)
  /\ Goto("auditor")
  /\ UNCHANGED <<loopUnchanged, shards, next, records>>

MinAnswerScore == ClampTo(options.minAnswerScore, 0, 1000)

MaxRounds == ClampTo(options.maxRounds, 1, 3)

\* Another round, or the end of the rounds.
RunAuditor ==
  /\ pc = "auditor"
  /\ \/ /\ options.mock
        /\ current' = [current EXCEPT
             !.verdict = MockVerdict(current.proposal, KnownShardPaths, MinAnswerScore)]
     \/ /\ ~options.mock
        /\ \E text \in AuditorTexts :
             current' = [current EXCEPT
               !.verdict = ResolveVerdict(text, current.proposal, MinAnswerScore),
               !.silent = ExtractJson(text) = Nothing]
  /\ RunSession
  /\ WriteAndHandoff(<<"audit-verdict-round", ToString(current'.round)>>)
  /\ Goto(IF current'.round < MaxRounds /\ ~current'.verdict.overallPass THEN "curator" ELSE "apply")
  /\ UNCHANGED <<loopUnchanged, shards, next, records>>

PatchesToApply ==
  LET patches == current.proposal.patches
  IN Chosen(patches, {k \in DOMAIN patches : patches[k].target \in Approved(current.verdict)})

\* What becomes of the entries of the manifest (Calibration has the files).
ApplyPatch(entries, p) ==
  CASE p.operation = "delete" -> Chosen(entries, {i \in DOMAIN entries : entries[i] # p.target})
    [] p.operation \in {"append", "replace"} /\ p.target \notin ToSet(entries) -> Append(entries, p.target)
    [] OTHER -> entries

Patched(entries, patches) ==
  LET after[k \in 0..Len(patches)] ==
        IF k = 0 THEN entries ELSE ApplyPatch(after[k - 1], patches[k])
  IN after[Len(patches)]

Summary ==
  [commit |-> Commit, key |-> Key, about |-> current.about, rounds |-> current.round,
   overlap |-> current.metrics.overlap, qaScore |-> Mean(current.verdict.scores)]

\* Without a manifest applyApprovedPatches throws.
ApplyPatches ==
  /\ pc = "apply"
  /\ IF PatchesToApply # <<>> /\ ~hasManifest
     THEN /\ Goto("failed")
          /\ UNCHANGED <<shards, walkVars>>
     ELSE /\ shards' = Patched(shards, PatchesToApply)
          /\ records' = Append(records, Summary)
          /\ next' = next + 1
          /\ current' = NoCommit
          /\ Goto("commit")
  /\ UNCHANGED <<loopUnchanged, reports, left>>

\* The walk is over: writeCommitWalkReport.
WriteReport ==
  /\ pc = "commit"
  /\ ~HasCommit
  /\ reports' = reports \cup {OnboardingReport}
  /\ Goto("pack")
  /\ UNCHANGED <<loopUnchanged, shards, left, walkVars>>

-----------------------------------------------------------------------------
(* The rest of runBrownfieldJob.                                           *)

ProcessedAt == {i \in DOMAIN records : records[i].key # NoKey}

Processed == Chosen(records, ProcessedAt)

\* The average over the processed commits, or null.
Average(field) ==
  IF Processed = <<>> THEN Nothing ELSE Mean([k \in DOMAIN Processed |-> Processed[k][field]])

Knowledge ==
  [shardCount |-> bootShards,
   commitsProcessed |-> Len(Processed),
   commitsSkipped |-> Len(records) - Len(Processed),
   calibrationOverlapMean |-> Average("overlap"),
   meanQaScore |-> Average("qaScore")]

Pack ==
  /\ pc = "pack"
  /\ LET manifest == BuildManifestFromWorkspace(WorkspaceFiles, Knowledge)
     IN bundle' = [manifest |-> manifest, files |-> PackBundle(manifest)]
  /\ Goto("upload")
  /\ UNCHANGED <<options, scanVars, profile, clientVars, fetched, missing, workspace, walkVars, blob, pr>>

\* Without Blob Storage the bundle stays where it is.
UploadBundle ==
  /\ pc = "upload"
  /\ blob' = IF options.upload THEN bundle ELSE blob
  /\ Goto("deliver")
  /\ UNCHANGED <<options, scanVars, profile, clientVars, fetched, missing, workspace, walkVars, bundle, pr>>

\* walkDir does not enter a directory of such a name, wherever it is.
SkippedNames == {".git", "node_modules"}

InSkipped(f) == \E k \in 1..(Len(f) - 1) : f[k] \in SkippedNames

\* collectWorkspaceFiles: in the order of readdir, until there are enough; a large file is
\* left out.
CollectWorkspaceFiles ==
  LET small == {f \in WorkspaceFiles \ LargeFiles : ~InSkipped(f)}
  IN IF Cardinality(small) <= MaxPrFiles THEN {small} ELSE kSubset(MaxPrFiles, small)

\* The requests themselves are in PullRequestDelivery.
OpenPullRequest ==
  /\ pc = "deliver"
  /\ IF options.openPr THEN \E files \in CollectWorkspaceFiles : pr' = files ELSE UNCHANGED pr
  /\ Goto("completed")
  /\ UNCHANGED <<options, scanVars, profile, clientVars, fetched, missing, workspace, walkVars, bundle, blob>>

\* A file, git, an agent, Blob Storage or GitHub fails: the exception ends the job.
StageFails ==
  /\ pc \notin Ended
  /\ Goto("failed")
  /\ UNCHANGED <<options, scanVars, profile, clientVars, fetched, missing, workspace, walkVars, results>>

-----------------------------------------------------------------------------
OldSpec == [about |-> 0, bare |-> {}, quoted |-> {}]

Init ==
  /\ options \in OptionSets
  /\ pc = "clone"
  /\ ScanInit /\ ClientInit
  /\ profile = Nothing
  /\ fetched = {} /\ missing = {}
  /\ inRepo = [k \in Keys |-> IF k \in options.oldSpecs THEN OldSpec ELSE Nothing]
  /\ specs = [k \in Keys |-> Nothing]
  /\ docs = {} /\ shards = <<>> /\ hasManifest = FALSE /\ bootShards = 0 /\ reports = {} /\ left = {}
  /\ next = 0
  /\ current = NoCommit
  /\ records = <<>>
  /\ bundle = Nothing /\ blob = Nothing /\ pr = Nothing

Bootstrap ==
  \/ Clone \/ DetectStack \/ WriteStackProfile
  \/ AskForPage \/ TakePage \/ PageThrows \/ RunArchitect

WalkTheCommits == StartWalk \/ SkipCommit \/ StartCommit \/ TakeIssue \/ RunHistorian \/ WriteReport

Calibrate == RunCalibrator \/ RunProber \/ RunCurator \/ RunAuditor \/ ApplyPatches

Deliver == Pack \/ UploadBundle \/ OpenPullRequest

Step == Bootstrap \/ WalkTheCommits \/ Calibrate \/ Deliver \/ TakeReply

Next == Step \/ StageFails

Spec == Init /\ [][Next]_vars

\* Every await returns or throws: git, the agents, and fetch, which has its own timeout.
FairSpec == Spec /\ WF_vars(Step)

-----------------------------------------------------------------------------
(* Properties.                                                             *)

\* Types; every number of the reports is in its range.
TypeOK ==
  /\ options \in OptionSets
  /\ pc \in PCs
  /\ ClientTypeOK
  /\ Len(scanned) <= MaxFiles
  /\ next \in 0..Len(Walk) /\ Len(records) = next
  /\ current.round \in 0..MaxRounds
  /\ bootShards \in Nat
  /\ \A k \in Keys : {specs[k], inRepo[k]} \subseteq FeatureSpecs \cup {Nothing}
  /\ \A i \in DOMAIN records :
       /\ records[i].rounds \in 0..MaxRounds
       /\ {records[i].overlap, records[i].qaScore} \subseteq 0..1000

Linked == LET walk == Walk IN [i \in DOMAIN walk |-> walk[i].key # NoKey]

\* The job walks its history as CommitWalk promises, and ends.
Promise == INSTANCE CommitWalk WITH
  linked <- Linked,
  position <- next,
  processed <- Chosen([i \in DOMAIN records |-> i], ProcessedAt),
  outcome <- IF pc = "completed" THEN "ended" ELSE IF pc = "failed" THEN "failed" ELSE "walking"

ImplementsCommitWalk == Promise!Spec /\ Promise!Ends

\* What is calibrated against a commit is the spec of that commit.  A real historian may
\* leave none, and then an older one stands: one that was in the repository, or one of an
\* earlier commit with the same key, even if the agent answered with a new one.
SpecsDescribeTheirCommit ==
  \A i \in DOMAIN records :
    LET r == records[i]
    IN r.key # NoKey =>
         IF options.mock THEN r.about = r.commit
         ELSE \/ r.about \in {r.commit, Nothing}
              \/ r.about = 0 /\ r.key \in options.oldSpecs
              \/ \E j \in 1..(i - 1) : records[j].key = r.key /\ records[j].commit = r.about

\* Whatever the agents say, a report refers to what is there: answers to the questions of
\* the prober with citations of shards in the manifest, and an audit of the patches of the
\* curator.  Only the questions can miss their schema; an auditor whose answer cannot be
\* read approves of nothing, and passes a proposal only if every score does.
ReportsAreGrounded ==
  /\ pc \in {"curator", "auditor", "apply"} /\ options.mock => ValidQuestions(current.questions)
  /\ pc \in {"prober", "curator", "auditor", "apply"} => ValidReport(current.metrics)
  /\ pc \in {"auditor", "apply"} =>
       /\ ValidProposal(current.proposal)
       /\ \A a \in ToSet(current.proposal.answers) :
            a.questionId \in IdsOf(current.questions) /\ a.citations \subseteq ToSet(KnownShardPaths)
  /\ pc = "apply" =>
       /\ ValidVerdict(current.verdict)
       /\ \A p \in ToSet(current.verdict.patches) : p.target \in TargetsOf(current.proposal)
       /\ current.silent => /\ Approved(current.verdict) = {}
                            /\ current.verdict.overallPass => MinAnswerScore = 0

\* The walk takes the newest commits of the head, not more than the depth, and every
\* Confluence page asked for is fetched or missing; the profile counts no excluded file, and
\* unless it says it is truncated every other one, but for those below an unreadable directory.
InputsAreAccountedFor ==
  /\ \A i \in DOMAIN records : \A c \in Ancestors(HistoryOf(options), options.head) :
       c > records[i].commit => \E j \in DOMAIN Walk : Walk[j].commit = c
  /\ Len(Walk) <= options.depth
  /\ pc \notin {"clone", "stack_detect", "confluence", "failed"} =>
       /\ fetched \cup missing = ToSet(PageIds)
       /\ fetched \cap missing = {}
  /\ profile # Nothing =>
       LET countable == {f \in TreeFiles : ~Excluded(f)}
           unreadable == UNION {Below(d, TreeFiles) : d \in unread}
       IN /\ ToSet(scanned) \subseteq countable
          /\ profile.scanTruncated \/ countable \ unreadable \subseteq ToSet(scanned)

\* The bundle of a completed job holds the retro spec and the reports of every processed
\* commit, its numbers add up to the walk, and with mock agents its shard count is that of its
\* shard files (a real curator's patches may add or remove some); Blob Storage has the same
\* bundle, and the pull request the files of the bundle but for large ones, those below a
\* directory .git or node_modules (which the bundle has) and the cap.
BundleHoldsTheWork ==
  pc = "completed" =>
    LET knowledge == bundle.manifest.knowledge
        shardFiles == bundle.manifest.knowledgeShards \ {KnowledgeManifest}
    IN /\ knowledge.commitsProcessed + knowledge.commitsSkipped = Len(Walk)
       /\ \A i \in DOMAIN records : records[i].key # NoKey =>
            /\ records[i].about # Nothing => SpecFile(records[i].key) \in bundle.files
            /\ ReportFile(records[i].commit, <<"calibration-report.json">>) \in bundle.files
            /\ \A r \in 1..records[i].rounds :
                 ReportFile(records[i].commit, <<"audit-verdict-round", ToString(r)>>) \in bundle.files
       /\ options.mock => knowledge.shardCount = Cardinality(shardFiles)
       /\ options.upload => blob = bundle
       /\ options.openPr =>
            LET due == {f \in bundle.files \ (LargeFiles \cup {ManifestPath}) : ~InSkipped(f)}
            IN due \subseteq pr \/ Cardinality(pr) = MaxPrFiles

\* README.md:202: "For each commit in history (up to `commitDepth`)".
WalkReachesItsDepth ==
  pc = "completed" =>
    LET history == Cardinality(Ancestors(Repository, options.head))
    IN Len(records) = IF history < options.depth THEN history ELSE options.depth
============================================================================
