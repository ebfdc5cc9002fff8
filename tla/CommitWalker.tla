---------------------------- MODULE CommitWalker ----------------------------
(***************************************************************************)
(* packages/commit-walker and the clone it works on: which commits a walk  *)
(* visits, which paths each of them changed, and which Jira key it has.    *)
(*                                                                         *)
(* A history is a sequence of commits, older ones first, that name their   *)
(* parents by number; a commit is the tree it stands for and the key its   *)
(* message mentions first.  git is external: `log` lists what is reachable *)
(* newest first, and `diff` pairs a path that went with a path that came   *)
(* and has its content as a rename (no two paths of a tree have the same   *)
(* content here).                                                          *)
(***************************************************************************)
EXTENDS Lists, SequencesExt

CONSTANTS
  Paths,   \* paths of the repository, each a sequence of names
  Absent,  \* the content of a path that is not in a tree
  NoKey    \* no Jira key

Orders == {"oldest_first", "newest_first"}

FirstOf(s, n) == SubSeq(s, 1, IF Len(s) < n THEN Len(s) ELSE n)

-----------------------------------------------------------------------------
(* git.                                                                    *)

\* What is in every set that has ref and the parents of its commits.
Ancestors(h, ref) ==
  {c \in DOMAIN h :
    \A S \in SUBSET DOMAIN h :
      ref \in S /\ (\A d \in S : ToSet(h[d].parents) \subseteq S) => c \in S}

Log(h, ref) ==
  LET newestFirst == Reverse([c \in DOMAIN h |-> c])
  IN Chosen(newestFirst, {i \in DOMAIN newestFirst : newestFirst[i] \in Ancestors(h, ref)})

\* cloneRepoShallow clones with --depth 1: the tip of the branch, and no parent of it.
ShallowClone(h, tip) == [h EXCEPT ![tip].parents = <<>>]

TreeBefore(h, c) ==
  IF h[c].parents = <<>> THEN [p \in Paths |-> Absent] ELSE h[h[c].parents[1]].tree

-----------------------------------------------------------------------------
\* Mutant: the depth is applied after the log was reversed.
WalkCommitsReversedFirst(h, ref, depth, order) ==
  IF order = "oldest_first" THEN FirstOf(Reverse(Log(h, ref)), depth) ELSE FirstOf(Log(h, ref), depth)

\* The newest commitDepth commits, in the order asked for.
WalkCommits(h, ref, depth, order) ==
  LET newest == FirstOf(Log(h, ref), depth)
  IN IF order = "oldest_first" THEN Reverse(newest) ELSE newest

\* diffCommit against the first parent: a rename counts as its new path only.
ChangedPaths(h, c) ==
  LET before == TreeBefore(h, c)
      after == h[c].tree
      differing == {p \in Paths : after[p] # before[p]}
      renamed == {p \in differing : /\ after[p] = Absent
                                    /\ \E q \in differing : after[q] = before[p]}
  IN differing \ renamed

\* extractJiraKey: the message is searched before the name of the branch.
ExtractJiraKey(commit, sources, branchKey) ==
  CASE "commit_message" \in sources /\ commit.key # NoKey -> commit.key
    [] "branch_name" \in sources /\ (commit.key = NoKey \/ "commit_message" \notin sources) -> branchKey
    [] OTHER -> NoKey
============================================================================
