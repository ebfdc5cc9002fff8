------------------------ MODULE PullRequestDelivery -------------------------
(***************************************************************************)
(* The delivery of a job's bundle as a pull request: the client of         *)
(* packages/github-client against one repository on GitHub.                *)
(*                                                                         *)
(* An attempt is one call of openPullRequestWithFiles.  A job that is      *)
(* delivered again by the queue makes another attempt, after the first or  *)
(* beside it, on the same branch.  GitHub is external: refs, commits with  *)
(* their files, one pull request.  A request may be lost before or after   *)
(* it took effect; developers push to both branches and close the pull     *)
(* request.                                                                *)
(***************************************************************************)
EXTENDS Naturals, Sequences, FiniteSets

CONSTANTS
  Attempts,     \* calls of openPullRequestWithFiles for the one job
  BaseFiles,    \* paths in the repository before the job
  BundleFiles,  \* paths of the workspace files
  MaxRetries,   \* GitHubClient.maxRetries (3)
  MaxPushes,    \* bound: pushes and closings by developers
  None

ASSUME DeliveryAssumption ==
  /\ MaxRetries \in Nat /\ MaxPushes \in Nat
  /\ None \notin Nat

VARIABLES
  commits,  \* commits of the repository; a commit is its index
  base,     \* the base branch
  branch,   \* the branch of the job, None before it exists
  pr,       \* the pull request: "none", "open" or "closed"
  pc,       \* pc[a]: the next request of attempt a
  baseSha,  \* baseSha[a]: what getRefSha returned
  sha,      \* sha[a]: the commit it created
  tries,    \* tries[a]: retries of the current request
  pushes,   \* actions of developers so far
  gaveUp    \* history: attempts whose last request failed on the wire

repository == <<commits, base, branch, pr>>

vars == <<repository, pc, baseSha, sha, tries, pushes, gaveUp>>

PCs == {"start", "getRef", "createCommit", "createRef", "updateRef",
        "createPr", "findPr", "done", "failed"}

InFlight == PCs \ {"start", "done", "failed"}

-----------------------------------------------------------------------------
(* The repository.                                                         *)

Commit(parents, files) == [parents |-> parents, files |-> files]

\* c and all commits it descends from: whatever set has c and the parents of its members
\* has them.
History(c) ==
  {i \in DOMAIN commits :
     \A S \in SUBSET DOMAIN commits :
       c \in S /\ (\A k \in S : commits[k].parents \subseteq S) => i \in S}

\* Mutant: git refs are moved with force.
AnyMove(to) == TRUE

FastForward(to) == branch \in History(to)

-----------------------------------------------------------------------------
(* request: retries of a rate limit or a server error.                     *)

Goto(a, next) ==
  /\ pc' = [pc EXCEPT ![a] = next]
  /\ tries' = [tries EXCEPT ![a] = 0]
  /\ UNCHANGED gaveUp

\* Mutant: one retry too many.
RetryOnceMore(a) ==
  IF tries[a] <= MaxRetries
  THEN /\ tries' = [tries EXCEPT ![a] = @ + 1]
       /\ UNCHANGED <<pc, gaveUp>>
  ELSE /\ pc' = [pc EXCEPT ![a] = "failed"]
       /\ gaveUp' = gaveUp \cup {a}
       /\ UNCHANGED tries

\* Mutant: the retries start over when they are used up.
RetryForEver(a) ==
  /\ tries' = [tries EXCEPT ![a] = (@ + 1) % (MaxRetries + 1)]
  /\ UNCHANGED <<pc, gaveUp>>

\* The answer is a 5xx or a rate limit: again, until the retries are used up.
Retry(a) ==
  IF tries[a] < MaxRetries
  THEN /\ tries' = [tries EXCEPT ![a] = @ + 1]
       /\ UNCHANGED <<pc, gaveUp>>
  ELSE /\ pc' = [pc EXCEPT ![a] = "failed"]
       /\ gaveUp' = gaveUp \cup {a}
       /\ UNCHANGED tries

\* fetch itself throws, which is not retried.
Disconnected(a) ==
  /\ pc' = [pc EXCEPT ![a] = "failed"]
  /\ gaveUp' = gaveUp \cup {a}
  /\ UNCHANGED tries

\* No answer, whether or not the request took effect.
NoAnswer(a) == Retry(a) \/ Disconnected(a)

\* The request is lost before it reaches GitHub.
LoseRequest(a) ==
  /\ pc[a] \in InFlight
  /\ NoAnswer(a)
  /\ UNCHANGED <<repository, baseSha, sha, pushes>>

-----------------------------------------------------------------------------
(* openPullRequestWithFiles.                                               *)

Begin(a) ==
  /\ pc[a] = "start"
  /\ Goto(a, "getRef")
  /\ UNCHANGED <<repository, baseSha, sha, pushes>>

GetRef(a) ==
  /\ pc[a] = "getRef"
  /\ baseSha' = [baseSha EXCEPT ![a] = base]
  /\ Goto(a, "createCommit")
  /\ UNCHANGED <<repository, sha, pushes>>

\* Mutant: createTree is called without base_tree.
BareCommit(a) == Commit({baseSha[a]}, BundleFiles)

NewCommit(a) == Commit({baseSha[a]}, commits[baseSha[a]].files \cup BundleFiles)

\* Blobs, tree and commit on top of the base: new objects that no ref names yet (an answer
\* that is lost leaves one that no ref ever names).
CreateCommit(a) ==
  /\ pc[a] = "createCommit"
  /\ commits' = Append(commits, NewCommit(a))
  /\ sha' = [sha EXCEPT ![a] = Len(commits')]
  /\ Goto(a, "createRef")
  /\ UNCHANGED <<base, branch, pr, baseSha, pushes>>

\* Mutant: a branch that exists is an error.
CreateRefOnce(a) ==
  /\ pc[a] = "createRef"
  /\ branch' = IF branch = None THEN sha[a] ELSE branch
  /\ \/ Goto(a, IF branch = None THEN "createPr" ELSE "failed")
     \/ NoAnswer(a)
  /\ UNCHANGED <<commits, base, pr, baseSha, sha, pushes>>

\* upsertBranch: create the branch, or learn from a 422 that it exists.
CreateRef(a) ==
  /\ pc[a] = "createRef"
  /\ branch' = IF branch = None THEN sha[a] ELSE branch
  /\ \/ Goto(a, IF branch = None THEN "createPr" ELSE "updateRef")
     \/ NoAnswer(a)
  /\ UNCHANGED <<commits, base, pr, baseSha, sha, pushes>>

\* upsertBranch: force is false, a move that is not a fast-forward is refused.
UpdateRef(a) ==
  /\ pc[a] = "updateRef"
  /\ branch' = IF FastForward(sha[a]) THEN sha[a] ELSE branch
  /\ \/ Goto(a, IF FastForward(sha[a]) THEN "createPr" ELSE "failed")
     \/ NoAnswer(a)
  /\ UNCHANGED <<commits, base, pr, baseSha, sha, pushes>>

\* createOrGetPullRequest: a second open pull request for the branch is a 422.
CreatePr(a) ==
  /\ pc[a] = "createPr"
  /\ pr' = "open"
  /\ \/ Goto(a, IF pr = "open" THEN "findPr" ELSE "done")
     \/ NoAnswer(a)
  /\ UNCHANGED <<commits, base, branch, baseSha, sha, pushes>>

FindPr(a) ==
  /\ pc[a] = "findPr"
  /\ Goto(a, IF pr = "open" THEN "done" ELSE "failed")
  /\ UNCHANGED <<repository, baseSha, sha, pushes>>

-----------------------------------------------------------------------------
(* Developers.                                                             *)

PushBase ==
  /\ pushes < MaxPushes /\ pushes' = pushes + 1
  /\ commits' = Append(commits, Commit({base}, commits[base].files))
  /\ base' = Len(commits')
  /\ UNCHANGED <<branch, pr, pc, baseSha, sha, tries, gaveUp>>

PushBranch ==
  /\ branch # None
  /\ pushes < MaxPushes /\ pushes' = pushes + 1
  /\ commits' = Append(commits, Commit({branch}, commits[branch].files))
  /\ branch' = Len(commits')
  /\ UNCHANGED <<base, pr, pc, baseSha, sha, tries, gaveUp>>

ClosePr ==
  /\ pr = "open"
  /\ pushes < MaxPushes /\ pushes' = pushes + 1
  /\ pr' = "closed"
  /\ UNCHANGED <<commits, base, branch, pc, baseSha, sha, tries, gaveUp>>

-----------------------------------------------------------------------------
Init ==
  /\ commits = << Commit({}, BaseFiles) >>
  /\ base = 1
  /\ branch = None
  /\ pr = "none"
  /\ pc = [a \in Attempts |-> "start"]
  /\ baseSha = [a \in Attempts |-> None]
  /\ sha = [a \in Attempts |-> None]
  /\ tries = [a \in Attempts |-> 0]
  /\ pushes = 0
  /\ gaveUp = {}

Request(a) ==
  \/ GetRef(a) \/ CreateCommit(a) \/ CreateRef(a) \/ UpdateRef(a)
  \/ CreatePr(a) \/ FindPr(a) \/ LoseRequest(a)

Next ==
  \/ \E a \in Attempts : Begin(a) \/ Request(a)
  \/ PushBase \/ PushBranch \/ ClosePr

Spec == Init /\ [][Next]_vars

\* A request in flight is answered, lost or refused.
FairSpec == Spec /\ \A a \in Attempts : WF_vars(Request(a))

-----------------------------------------------------------------------------
(* Properties.                                                             *)

\* Types of all variables; refs name commits, and a commit descends from earlier ones.
TypeOK ==
  /\ \A i \in DOMAIN commits : commits[i].parents \subseteq 1..(i-1)
  /\ base \in DOMAIN commits
  /\ branch \in DOMAIN commits \cup {None}
  /\ pr \in {"none", "open", "closed"}
  /\ pc \in [Attempts -> PCs]
  /\ baseSha \in [Attempts -> DOMAIN commits \cup {None}]
  /\ sha \in [Attempts -> DOMAIN commits \cup {None}]
  /\ tries \in [Attempts -> 0..MaxRetries]
  /\ pushes \in 0..MaxPushes
  /\ gaveUp \subseteq Attempts

\* Answers that are lost after a request took effect are harmless: an attempt that is
\* alone on the branch fails only if it gave up on a request.
LostAnswersAreHarmless ==
  \A a \in Attempts :
    pc[a] = "failed" /\ pushes = 0 /\ (\A b \in Attempts \ {a} : pc[b] = "start") => a \in gaveUp

\* However requests are lost, retried and interleaved, the branch is as GrowingBranch
\* promises: it is never moved back, no commit takes a file away, what was reported as
\* delivered is there, and attempts end.
Promise == INSTANCE GrowingBranch WITH
  Base <- BaseFiles,
  Bundle <- BundleFiles,
  held <- IF branch = None THEN {} ELSE History(branch),
  content <- IF branch = None THEN {} ELSE commits[branch].files,
  waiting <- {a \in Attempts : pc[a] \in InFlight},
  reported <- {sha[a] : a \in {b \in Attempts : pc[b] = "done"}}

ImplementsGrowingBranch == Promise!Spec /\ Promise!AttemptsEnd

\* "Idempotent: safe to call again for a job retry": an attempt whose requests were all
\* answered succeeds after an earlier one, if nobody else touched the repository.
RetryIsSafe ==
  \A a \in Attempts :
    pc[a] = "failed" /\ pushes = 0 /\ (\A b \in Attempts : pc[b] \notin InFlight) => a \in gaveUp
============================================================================
