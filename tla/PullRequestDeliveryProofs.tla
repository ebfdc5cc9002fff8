--------------------- MODULE PullRequestDeliveryProofs ----------------------
(***************************************************************************)
(* Proofs about PullRequestDelivery for any number of attempts, retries    *)
(* and pushes: its types, that lost answers are harmless, and that it      *)
(* implements the safety part of GrowingBranch.                            *)
(***************************************************************************)
EXTENDS PullRequestDelivery, SequenceTheorems, TLAPS

-----------------------------------------------------------------------------
(* Ancestors in a repository, given as a sequence of commits.              *)

Contents == SUBSET (BaseFiles \cup BundleFiles)

\* Commits, of which each descends from earlier ones and keeps their files.
Repositories ==
  {cs \in Seq([parents : SUBSET Nat, files : Contents]) :
     \A i \in 1..Len(cs) :
       /\ cs[i].parents \subseteq 1..(i - 1)
       /\ BaseFiles \subseteq cs[i].files
       /\ \A p \in cs[i].parents : cs[p].files \subseteq cs[i].files}

Closed(cs, S) == \A k \in S : cs[k].parents \subseteq S

AncestorsIn(cs, c) ==
  {i \in DOMAIN cs : \A S \in SUBSET DOMAIN cs : c \in S /\ Closed(cs, S) => i \in S}

LEMMA HistoryIsAncestors == \A c : History(c) = AncestorsIn(commits, c)
  BY DEF History, AncestorsIn, Closed

LEMMA ElementsOf ==
  ASSUME NEW S, NEW s \in Seq(S)
  PROVE  DOMAIN s = 1..Len(s) /\ Len(s) \in Nat /\ \A i \in 1..Len(s) : s[i] \in S
  OBVIOUS

LEMMA RepositoryFacts ==
  ASSUME NEW cs \in Repositories
  PROVE  /\ DOMAIN cs = 1..Len(cs) /\ Len(cs) \in Nat
         /\ \A i \in 1..Len(cs) :
              /\ cs[i].parents \subseteq 1..(i - 1)
              /\ cs[i].files \in Contents
              /\ BaseFiles \subseteq cs[i].files
              /\ \A p \in cs[i].parents : cs[p].files \subseteq cs[i].files
  <1>1. cs \in Seq([parents : SUBSET Nat, files : Contents])
    BY DEF Repositories
  <1>2. DOMAIN cs = 1..Len(cs) /\ Len(cs) \in Nat
    BY <1>1
  <1>3. \A i \in 1..Len(cs) : cs[i].files \in Contents
    <2>1. \A i \in 1..Len(cs) : cs[i] \in [parents : SUBSET Nat, files : Contents]
      BY <1>1, ElementsOf
    <2>2. QED
      BY <2>1
  <1>4. QED
    BY <1>2, <1>3 DEF Repositories

\* A commit is its own ancestor, and the others are older.
LEMMA AncestorsAreOlder ==
  ASSUME NEW cs \in Repositories, NEW c \in 1..Len(cs)
  PROVE  c \in AncestorsIn(cs, c) /\ AncestorsIn(cs, c) \subseteq 1..c
  <1>1. c \in AncestorsIn(cs, c)
    BY RepositoryFacts DEF AncestorsIn
  <1>2. 1..c \in SUBSET DOMAIN cs /\ c \in 1..c
    BY RepositoryFacts
  <1>3. Closed(cs, 1..c)
    BY RepositoryFacts DEF Closed
  <1>4. QED
    BY <1>1, <1>2, <1>3 DEF AncestorsIn

LEMMA AncestorsOfAncestors ==
  ASSUME NEW cs, NEW c, NEW b \in AncestorsIn(cs, c)
  PROVE  AncestorsIn(cs, b) \subseteq AncestorsIn(cs, c)
  BY DEF AncestorsIn

LEMMA ParentsAreAncestors ==
  ASSUME NEW cs \in Repositories, NEW c \in 1..Len(cs), NEW p \in cs[c].parents
  PROVE  p \in AncestorsIn(cs, c)
  <1>1. p \in DOMAIN cs
    BY RepositoryFacts
  <1>2. QED
    BY <1>1 DEF AncestorsIn, Closed

\* A commit has the files of its ancestors.
LEMMA FilesAreKept ==
  ASSUME NEW cs \in Repositories, NEW c \in 1..Len(cs), NEW b \in AncestorsIn(cs, c)
  PROVE  cs[b].files \subseteq cs[c].files
  <1> DEFINE S == {i \in DOMAIN cs : cs[i].files \subseteq cs[c].files}
  <1>1. S \in SUBSET DOMAIN cs /\ c \in S
    BY RepositoryFacts
  <1>2. Closed(cs, S)
    BY RepositoryFacts DEF Closed
  <1>3. b \in S
    BY <1>1, <1>2 DEF AncestorsIn
  <1>4. QED
    BY <1>3

\* A commit on top of others that keeps their files.
NewCommitOn(cs, x) ==
  /\ x \in [parents : SUBSET Nat, files : Contents]
  /\ x.parents \subseteq 1..Len(cs)
  /\ BaseFiles \subseteq x.files
  /\ \A p \in x.parents : cs[p].files \subseteq x.files

LEMMA AppendRepository ==
  ASSUME NEW cs \in Repositories, NEW x, NewCommitOn(cs, x)
  PROVE  /\ Append(cs, x) \in Repositories
         /\ Len(Append(cs, x)) = Len(cs) + 1
         /\ \A i \in 1..Len(cs) : Append(cs, x)[i] = cs[i]
         /\ Append(cs, x)[Len(cs) + 1] = x
  <1>1. cs \in Seq([parents : SUBSET Nat, files : Contents])
    BY DEF Repositories
  <1>2. /\ Append(cs, x) \in Seq([parents : SUBSET Nat, files : Contents])
        /\ Len(Append(cs, x)) = Len(cs) + 1
        /\ \A i \in 1..Len(cs) : Append(cs, x)[i] = cs[i]
        /\ Append(cs, x)[Len(cs) + 1] = x
    BY <1>1 DEF NewCommitOn
  <1>3. ASSUME NEW i \in 1..(Len(cs) + 1)
        PROVE  /\ Append(cs, x)[i].parents \subseteq 1..(i - 1)
               /\ BaseFiles \subseteq Append(cs, x)[i].files
               /\ \A p \in Append(cs, x)[i].parents :
                    Append(cs, x)[p].files \subseteq Append(cs, x)[i].files
    <2>1. CASE i \in 1..Len(cs)
      <3>1. \A p \in cs[i].parents : p \in 1..Len(cs)
        BY <2>1, RepositoryFacts
      <3>2. QED
        BY <1>2, <2>1, <3>1, RepositoryFacts
    <2>2. CASE i = Len(cs) + 1
      <3>1. i - 1 = Len(cs)
        BY <2>2, RepositoryFacts
      <3>2. QED
        BY <1>2, <2>2, <3>1 DEF NewCommitOn
    <2>3. QED
      BY <2>1, <2>2, RepositoryFacts
  <1>4. QED
    BY <1>2, <1>3 DEF Repositories

\* A new commit changes the history of no other.
LEMMA AppendKeepsHistories ==
  ASSUME NEW cs \in Repositories, NEW x, NewCommitOn(cs, x), NEW c \in 1..Len(cs)
  PROVE  AncestorsIn(Append(cs, x), c) = AncestorsIn(cs, c)
  <1> DEFINE ds == Append(cs, x)
  <1>1. /\ ds \in Repositories /\ Len(ds) = Len(cs) + 1
        /\ \A i \in 1..Len(cs) : ds[i] = cs[i]
    BY AppendRepository
  <1>2. DOMAIN cs = 1..Len(cs) /\ DOMAIN ds = 1..(Len(cs) + 1) /\ Len(cs) \in Nat
    BY <1>1, RepositoryFacts
  <1>3. \A S \in SUBSET DOMAIN cs : Closed(ds, S) <=> Closed(cs, S)
    BY <1>1, <1>2 DEF Closed
  <1> HIDE DEF ds
  <1>4. ASSUME NEW i \in AncestorsIn(cs, c)
        PROVE  i \in AncestorsIn(ds, c)
    <2>1. i \in DOMAIN cs /\ i \in DOMAIN ds
      BY <1>2 DEF AncestorsIn
    <2>2. ASSUME NEW S \in SUBSET DOMAIN ds, c \in S, Closed(ds, S)
          PROVE  i \in S
      <3>1. S \cap DOMAIN cs \in SUBSET DOMAIN cs /\ c \in S \cap DOMAIN cs
        BY <1>2, <2>2
      <3>2. Closed(cs, S \cap DOMAIN cs)
        <4>1. ASSUME NEW k \in S \cap DOMAIN cs
              PROVE  cs[k].parents \subseteq S \cap DOMAIN cs
          <5>1. cs[k].parents \subseteq S
            BY <1>1, <1>2, <2>2 DEF Closed
          <5>2. cs[k].parents \subseteq DOMAIN cs
            BY <1>2, RepositoryFacts
          <5>3. QED
            BY <5>1, <5>2
        <4>2. QED
          BY <4>1 DEF Closed
      <3>3. QED
        BY <3>1, <3>2 DEF AncestorsIn
    <2>3. QED
      BY <2>1, <2>2 DEF AncestorsIn
  <1>5. ASSUME NEW i \in AncestorsIn(ds, c)
        PROVE  i \in AncestorsIn(cs, c)
    <2>1. ASSUME NEW S \in SUBSET DOMAIN cs, c \in S, Closed(cs, S)
          PROVE  i \in S
      <3>1. S \in SUBSET DOMAIN ds /\ Closed(ds, S)
        BY <1>2, <1>3, <2>1
      <3>2. QED
        BY <2>1, <3>1 DEF AncestorsIn
    <2>2. DOMAIN cs \in SUBSET DOMAIN cs /\ c \in DOMAIN cs /\ Closed(cs, DOMAIN cs)
      <3>1. \A k \in DOMAIN cs : cs[k].parents \subseteq DOMAIN cs
        BY <1>2, RepositoryFacts
      <3>2. QED
        BY <1>2, <3>1 DEF Closed
    <2>3. i \in DOMAIN cs
      BY <2>1, <2>2
    <2>4. QED
      BY <2>1, <2>3 DEF AncestorsIn
  <1>6. QED
    BY <1>4, <1>5 DEF ds

-----------------------------------------------------------------------------
(* The inductive invariant.                                                *)

\* What an attempt has when it comes to a request.
AttemptInv(a) ==
  /\ pc[a] = "createCommit" => baseSha[a] # None
  /\ pc[a] \in {"createRef", "updateRef", "createPr", "findPr", "done"} =>
       sha[a] # None /\ BundleFiles \subseteq commits[sha[a]].files
  /\ pc[a] \in {"updateRef", "createPr", "findPr", "done"} => branch # None
  /\ pc[a] \in {"createPr", "findPr", "done"} => sha[a] \in AncestorsIn(commits, branch)

DeliveryInv ==
  /\ TypeOK
  /\ commits \in Repositories
  /\ branch # None => BundleFiles \subseteq commits[branch].files
  /\ \A a \in Attempts : AttemptInv(a)

LEMMA InitDelivery == Init => DeliveryInv
  <1> SUFFICES ASSUME Init PROVE DeliveryInv
    OBVIOUS
  <1>1. /\ commits \in Seq([parents : SUBSET Nat, files : Contents])
        /\ Len(commits) = 1 /\ DOMAIN commits = 1..1
        /\ commits[1].parents = {} /\ commits[1].files = BaseFiles
    BY DEF Init, Commit, Contents
  <1>2. commits \in Repositories
    <2>1. ASSUME NEW i \in 1..Len(commits)
          PROVE  i = 1
      BY <1>1
    <2>2. QED
      BY <1>1, <2>1 DEF Repositories
  <1>3. TypeOK
    BY <1>1, DeliveryAssumption DEF Init, TypeOK, PCs
  <1>4. QED
    BY <1>2, <1>3 DEF Init, DeliveryInv, AttemptInv

\* Everybody's commits, refs and histories survive a new commit.
LEMMA AfterCommit ==
  ASSUME DeliveryInv, NEW x, NewCommitOn(commits, x), commits' = Append(commits, x)
  PROVE  /\ commits' \in Repositories
         /\ DOMAIN commits = 1..Len(commits) /\ Len(commits) \in Nat
         /\ Len(commits') = Len(commits) + 1 /\ DOMAIN commits' = 1..(Len(commits) + 1)
         /\ commits'[Len(commits) + 1] = x
         /\ \A i \in DOMAIN commits :
              commits'[i] = commits[i] /\ AncestorsIn(commits', i) = AncestorsIn(commits, i)
         /\ \A i \in DOMAIN commits' : commits'[i].parents \subseteq 1..(i - 1)
  <1>1. commits \in Repositories
    BY DEF DeliveryInv
  <1>2. DOMAIN commits = 1..Len(commits) /\ Len(commits) \in Nat
    BY <1>1, RepositoryFacts
  <1>3. /\ commits' \in Repositories /\ Len(commits') = Len(commits) + 1
        /\ \A i \in 1..Len(commits) : commits'[i] = commits[i]
        /\ commits'[Len(commits) + 1] = x
    BY <1>1, AppendRepository
  <1>4. DOMAIN commits' = 1..(Len(commits) + 1)
    BY <1>3, RepositoryFacts
  <1>5. \A i \in 1..Len(commits) : AncestorsIn(commits', i) = AncestorsIn(commits, i)
    BY <1>1, AppendKeepsHistories
  <1>6. QED
    BY <1>2, <1>3, <1>4, <1>5, RepositoryFacts

\* What a lost answer does to an attempt.
LEMMA NoAnswerStep ==
  ASSUME TypeOK, NEW a \in Attempts, NoAnswer(a)
  PROVE  /\ pc' \in [Attempts -> PCs] /\ tries' \in [Attempts -> 0..MaxRetries]
         /\ gaveUp' \subseteq Attempts
         /\ \A b \in Attempts \ {a} : pc'[b] = pc[b]
         /\ \/ pc'[a] = pc[a] /\ gaveUp' = gaveUp
            \/ pc'[a] = "failed" /\ a \in gaveUp' /\ gaveUp \subseteq gaveUp'
  BY DeliveryAssumption DEF TypeOK, NoAnswer, Retry, Disconnected, PCs

LEMMA GotoStep ==
  ASSUME TypeOK, NEW a \in Attempts, NEW next \in PCs, Goto(a, next)
  PROVE  /\ pc' \in [Attempts -> PCs] /\ tries' \in [Attempts -> 0..MaxRetries]
         /\ gaveUp' = gaveUp
         /\ \A b \in Attempts \ {a} : pc'[b] = pc[b]
         /\ pc'[a] = next
  BY DeliveryAssumption DEF TypeOK, Goto

\* The commit of an attempt has the files of its base and those of the bundle.
LEMMA NewCommitFits ==
  ASSUME DeliveryInv, NEW a \in Attempts, pc[a] = "createCommit"
  PROVE  NewCommitOn(commits, NewCommit(a)) /\ BundleFiles \subseteq NewCommit(a).files
  <1>1. baseSha[a] \in 1..Len(commits) /\ commits \in Repositories
    BY RepositoryFacts DEF DeliveryInv, TypeOK, AttemptInv
  <1>2. commits[baseSha[a]].files \in Contents /\ BaseFiles \subseteq commits[baseSha[a]].files
    BY <1>1, RepositoryFacts
  <1>3. baseSha[a] \in Nat
    BY <1>1, RepositoryFacts
  <1>4. QED
    BY <1>1, <1>2, <1>3 DEF NewCommit, Commit, NewCommitOn, Contents

\* The commit of a developer keeps the files of the tip it is made on.
LEMMA PushFits ==
  ASSUME DeliveryInv, NEW tip \in DOMAIN commits
  PROVE  NewCommitOn(commits, Commit({tip}, commits[tip].files))
  <1>1. tip \in 1..Len(commits) /\ tip \in Nat /\ commits \in Repositories
    BY RepositoryFacts DEF DeliveryInv
  <1>2. commits[tip].files \in Contents /\ BaseFiles \subseteq commits[tip].files
    BY <1>1, RepositoryFacts
  <1>3. QED
    BY <1>1, <1>2 DEF Commit, NewCommitOn

\* The step keeps every commit and its history, and does not move the branch back.
Grows ==
  /\ commits' \in Repositories
  /\ \A i \in DOMAIN commits :
       /\ i \in DOMAIN commits'
       /\ commits'[i] = commits[i] /\ AncestorsIn(commits', i) = AncestorsIn(commits, i)
  /\ branch # None => branch' \in DOMAIN commits' /\ branch \in AncestorsIn(commits', branch')

LEMMA SameRepositoryGrows ==
  ASSUME DeliveryInv, commits' = commits, branch' = branch
  PROVE  Grows
  <1>1. commits \in Repositories /\ DOMAIN commits = 1..Len(commits)
    BY RepositoryFacts DEF DeliveryInv
  <1>2. branch # None => branch \in 1..Len(commits)
    BY <1>1 DEF DeliveryInv, TypeOK
  <1>3. QED
    BY <1>1, <1>2, AncestorsAreOlder DEF Grows

\* An attempt that a step leaves where it is keeps what it has.
LEMMA AttemptKeeps ==
  ASSUME DeliveryInv, Grows, NEW b \in Attempts,
         pc'[b] = pc[b], sha'[b] = sha[b], baseSha'[b] = baseSha[b]
  PROVE  AttemptInv(b)'
  <1>1. AttemptInv(b) /\ DOMAIN commits \subseteq Nat /\ DOMAIN commits' \subseteq Nat
    BY RepositoryFacts DEF DeliveryInv, Grows
  <1>2. sha[b] # None => sha[b] \in DOMAIN commits
    BY DEF DeliveryInv, TypeOK
  <1>3. branch # None => branch \in DOMAIN commits /\ branch' # None
    BY <1>1, DeliveryAssumption DEF DeliveryInv, TypeOK, Grows
  <1>4. branch # None =>
          AncestorsIn(commits, branch) \subseteq AncestorsIn(commits', branch')
    BY <1>3, AncestorsOfAncestors DEF Grows
  <1>5. QED
    BY <1>1, <1>2, <1>3, <1>4 DEF AttemptInv, Grows

\* A tip that grows keeps the files of the bundle.
LEMMA TipKeeps ==
  ASSUME DeliveryInv, Grows, branch # None
  PROVE  /\ branch' # None /\ branch \in DOMAIN commits
         /\ commits[branch].files \subseteq commits'[branch'].files
         /\ BundleFiles \subseteq commits'[branch'].files
  <1>1. branch \in DOMAIN commits /\ branch' \in 1..Len(commits') /\ branch' # None
    BY RepositoryFacts, DeliveryAssumption DEF DeliveryInv, TypeOK, Grows
  <1>2. commits'[branch].files \subseteq commits'[branch'].files
    BY <1>1, FilesAreKept DEF Grows
  <1>3. QED
    BY <1>1, <1>2 DEF DeliveryInv, Grows

\* What a step owes when it leaves commits and branch alone.
LEMMA SameRepository ==
  ASSUME DeliveryInv, TypeOK', commits' = commits, branch' = branch,
         NEW a \in Attempts, AttemptInv(a)',
         \A b \in Attempts \ {a} : pc'[b] = pc[b] /\ sha'[b] = sha[b] /\ baseSha'[b] = baseSha[b]
  PROVE  DeliveryInv'
  <1>1. Grows
    BY SameRepositoryGrows
  <1>2. \A b \in Attempts : AttemptInv(b)'
    BY <1>1, AttemptKeeps
  <1>3. QED
    BY <1>2 DEF DeliveryInv

LEMMA BeginKeeps ==
  ASSUME DeliveryInv, NEW a \in Attempts, Begin(a)
  PROVE  DeliveryInv'
  <1>1. "getRef" \in PCs /\ TypeOK
    BY DEF PCs, DeliveryInv
  <1>2. pc' \in [Attempts -> PCs] /\ tries' \in [Attempts -> 0..MaxRetries] /\ gaveUp' = gaveUp
        /\ (\A b \in Attempts \ {a} : pc'[b] = pc[b]) /\ pc'[a] = "getRef"
    BY <1>1, GotoStep DEF Begin
  <1>3. TypeOK'
    BY <1>1, <1>2 DEF TypeOK, Begin, repository
  <1>4. AttemptInv(a)'
    BY <1>2 DEF AttemptInv
  <1>5. QED
    BY <1>2, <1>3, <1>4, SameRepository DEF Begin, repository

LEMMA GetRefKeeps ==
  ASSUME DeliveryInv, NEW a \in Attempts, GetRef(a)
  PROVE  DeliveryInv'
  <1>1. "createCommit" \in PCs /\ TypeOK
    BY DEF PCs, DeliveryInv
  <1>2. pc' \in [Attempts -> PCs] /\ tries' \in [Attempts -> 0..MaxRetries] /\ gaveUp' = gaveUp
        /\ (\A b \in Attempts \ {a} : pc'[b] = pc[b]) /\ pc'[a] = "createCommit"
    BY <1>1, GotoStep DEF GetRef
  <1>3. TypeOK'
    BY <1>1, <1>2 DEF TypeOK, GetRef, repository
  <1>4. base \in Nat /\ base # None
    BY RepositoryFacts, DeliveryAssumption DEF DeliveryInv, TypeOK
  <1>5. baseSha'[a] = base /\ \A b \in Attempts \ {a} : baseSha'[b] = baseSha[b]
    BY <1>1 DEF TypeOK, GetRef
  <1>6. AttemptInv(a)'
    BY <1>2, <1>4, <1>5 DEF AttemptInv
  <1>7. QED
    BY <1>2, <1>3, <1>5, <1>6, SameRepository DEF GetRef, repository

LEMMA CreateCommitKeeps ==
  ASSUME DeliveryInv, NEW a \in Attempts, CreateCommit(a)
  PROVE  DeliveryInv' /\ Grows
  <1>1. "createRef" \in PCs /\ TypeOK
    BY DEF PCs, DeliveryInv
  <1>2. pc' \in [Attempts -> PCs] /\ tries' \in [Attempts -> 0..MaxRetries] /\ gaveUp' = gaveUp
        /\ (\A b \in Attempts \ {a} : pc'[b] = pc[b]) /\ pc'[a] = "createRef"
    BY <1>1, GotoStep DEF CreateCommit
  <1> DEFINE n == Len(commits) + 1
  <1>3. NewCommitOn(commits, NewCommit(a)) /\ BundleFiles \subseteq NewCommit(a).files
    BY NewCommitFits DEF CreateCommit
  <1>4. /\ commits' \in Repositories /\ DOMAIN commits = 1..Len(commits) /\ Len(commits) \in Nat
        /\ Len(commits') = n /\ DOMAIN commits' = 1..n
        /\ commits'[n] = NewCommit(a)
        /\ \A i \in DOMAIN commits :
             commits'[i] = commits[i] /\ AncestorsIn(commits', i) = AncestorsIn(commits, i)
        /\ \A i \in DOMAIN commits' : commits'[i].parents \subseteq 1..(i - 1)
    BY <1>3, AfterCommit DEF CreateCommit
  <1>5. n \in DOMAIN commits' /\ n # None /\ DOMAIN commits \subseteq DOMAIN commits'
    BY <1>4, DeliveryAssumption
  <1>6. sha' = [sha EXCEPT ![a] = n] /\ UNCHANGED <<base, branch, pr, baseSha, pushes>>
    BY <1>4 DEF CreateCommit
  <1> HIDE DEF n
  <1>7. TypeOK'
    BY <1>1, <1>2, <1>4, <1>5, <1>6 DEF TypeOK
  <1>8. Grows
    <2>1. branch # None => branch \in 1..Len(commits')
      BY <1>1, <1>4, <1>5 DEF TypeOK
    <2>2. branch # None => branch \in AncestorsIn(commits', branch)
      BY <1>4, <2>1, AncestorsAreOlder
    <2>3. QED
      BY <1>4, <1>5, <1>6, <2>1, <2>2 DEF Grows
  <1>9. sha'[a] = n /\ \A b \in Attempts \ {a} : sha'[b] = sha[b] /\ baseSha'[b] = baseSha[b]
    BY <1>1, <1>6 DEF TypeOK
  <1>10. AttemptInv(a)'
    BY <1>2, <1>3, <1>4, <1>5, <1>9 DEF AttemptInv
  <1>11. \A b \in Attempts \ {a} : AttemptInv(b)'
    BY <1>2, <1>8, <1>9, AttemptKeeps
  <1>12. branch # None => BundleFiles \subseteq commits'[branch].files
    BY <1>8, TipKeeps, <1>6
  <1>13. QED
    BY <1>4, <1>6, <1>7, <1>8, <1>10, <1>11, <1>12 DEF DeliveryInv

\* upsertBranch moves the branch from nowhere or forward to the commit of the attempt.
LEMMA BranchMoves ==
  ASSUME DeliveryInv, TypeOK', commits' = commits, UNCHANGED <<sha, baseSha>>,
         NEW a \in Attempts, pc[a] \in {"createRef", "updateRef"},
         \/ branch' = branch
         \/ branch' = sha[a] /\ (branch = None \/ branch \in AncestorsIn(commits, sha[a])),
         \A b \in Attempts \ {a} : pc'[b] = pc[b],
         pc'[a] \in {pc[a], "createPr", "updateRef", "failed"},
         pc'[a] = "createPr" => branch' = sha[a],
         pc'[a] = "updateRef" => branch' # None
  PROVE  DeliveryInv' /\ Grows
  <1>1. /\ sha[a] \in 1..Len(commits) /\ sha[a] # None /\ BundleFiles \subseteq commits[sha[a]].files
        /\ commits \in Repositories /\ DOMAIN commits = 1..Len(commits)
    BY RepositoryFacts DEF DeliveryInv, TypeOK, AttemptInv
  <1>2. Grows
    <2>1. CASE branch' = branch
      BY <2>1, SameRepositoryGrows
    <2>2. CASE branch' = sha[a] /\ (branch = None \/ branch \in AncestorsIn(commits, sha[a]))
      BY <1>1, <2>2 DEF Grows
    <2>3. QED
      BY <2>1, <2>2
  <1>3. branch' # None => BundleFiles \subseteq commits'[branch'].files
    BY <1>1 DEF DeliveryInv
  <1>4. sha[a] \in AncestorsIn(commits, sha[a])
    BY <1>1, AncestorsAreOlder
  <1>5. AttemptInv(a)'
    <2>1. CASE pc'[a] = "createPr"
      BY <1>1, <1>4, <2>1 DEF AttemptInv
    <2>2. CASE pc'[a] = "updateRef"
      BY <1>1, <2>2 DEF AttemptInv
    <2>3. CASE pc'[a] = "failed"
      BY <2>3 DEF AttemptInv
    <2>4. CASE pc'[a] = pc[a]
      BY <1>2, <2>4, AttemptKeeps
    <2>5. QED
      BY <2>1, <2>2, <2>3, <2>4
  <1>6. \A b \in Attempts \ {a} : AttemptInv(b)'
    BY <1>2, AttemptKeeps
  <1>7. QED
    BY <1>1, <1>2, <1>3, <1>5, <1>6 DEF DeliveryInv

LEMMA CreateRefKeeps ==
  ASSUME DeliveryInv, NEW a \in Attempts, CreateRef(a)
  PROVE  DeliveryInv' /\ Grows
  <1>1. TypeOK /\ {"createPr", "updateRef"} \subseteq PCs
    BY DEF PCs, DeliveryInv
  <1>2. sha[a] \in DOMAIN commits /\ sha[a] # None
    BY DEF CreateRef, DeliveryInv, TypeOK, AttemptInv
  <1>3. /\ pc' \in [Attempts -> PCs] /\ tries' \in [Attempts -> 0..MaxRetries]
        /\ gaveUp' \subseteq Attempts
        /\ \A b \in Attempts \ {a} : pc'[b] = pc[b]
        /\ pc'[a] \in {pc[a], "createPr", "updateRef", "failed"}
        /\ pc'[a] = "createPr" => branch' = sha[a]
    <2>1. CASE Goto(a, IF branch = None THEN "createPr" ELSE "updateRef")
      BY <1>1, <2>1, GotoStep DEF CreateRef, TypeOK
    <2>2. CASE NoAnswer(a)
      BY <1>1, <2>2, NoAnswerStep DEF CreateRef
    <2>3. QED
      BY <2>1, <2>2 DEF CreateRef
  <1>4. TypeOK'
    BY <1>1, <1>2, <1>3 DEF TypeOK, CreateRef
  <1>5. branch' # None /\ (branch' = branch \/ (branch' = sha[a] /\ branch = None))
    <2>1. branch' = IF branch = None THEN sha[a] ELSE branch
      BY DEF CreateRef
    <2>2. QED
      BY <1>2, <2>1
  <1>6. QED
    BY <1>3, <1>4, <1>5, BranchMoves DEF CreateRef

LEMMA UpdateRefKeeps ==
  ASSUME DeliveryInv, NEW a \in Attempts, UpdateRef(a)
  PROVE  DeliveryInv' /\ Grows
  <1>1. TypeOK /\ {"createPr", "failed"} \subseteq PCs
    BY DEF PCs, DeliveryInv
  <1>2. sha[a] \in DOMAIN commits /\ sha[a] # None /\ branch # None
    BY DEF UpdateRef, DeliveryInv, TypeOK, AttemptInv
  <1>3. FastForward(sha[a]) <=> branch \in AncestorsIn(commits, sha[a])
    BY HistoryIsAncestors DEF FastForward
  <1>4. /\ pc' \in [Attempts -> PCs] /\ tries' \in [Attempts -> 0..MaxRetries]
        /\ gaveUp' \subseteq Attempts
        /\ \A b \in Attempts \ {a} : pc'[b] = pc[b]
        /\ pc'[a] \in {pc[a], "createPr", "updateRef", "failed"}
        /\ pc'[a] = "createPr" => branch' = sha[a]
    <2>1. CASE Goto(a, IF FastForward(sha[a]) THEN "createPr" ELSE "failed")
      BY <1>1, <2>1, GotoStep DEF UpdateRef, TypeOK
    <2>2. CASE NoAnswer(a)
      BY <1>1, <2>2, NoAnswerStep DEF UpdateRef
    <2>3. QED
      BY <2>1, <2>2 DEF UpdateRef
  <1>5. branch' # None /\ (branch' = branch \/ (branch' = sha[a] /\ FastForward(sha[a])))
    <2>1. branch' = IF FastForward(sha[a]) THEN sha[a] ELSE branch
      BY DEF UpdateRef
    <2>2. QED
      BY <1>2, <2>1
  <1>6. TypeOK'
    BY <1>1, <1>2, <1>4, <1>5 DEF TypeOK, UpdateRef
  <1>7. QED
    BY <1>3, <1>4, <1>5, <1>6, BranchMoves DEF UpdateRef

LEMMA CreatePrKeeps ==
  ASSUME DeliveryInv, NEW a \in Attempts, CreatePr(a)
  PROVE  DeliveryInv'
  <1>1. TypeOK /\ {"findPr", "done"} \subseteq PCs
    BY DEF PCs, DeliveryInv
  <1>2. /\ pc' \in [Attempts -> PCs] /\ tries' \in [Attempts -> 0..MaxRetries]
        /\ gaveUp' \subseteq Attempts
        /\ \A b \in Attempts \ {a} : pc'[b] = pc[b]
        /\ pc'[a] \in {pc[a], "findPr", "done", "failed"}
    <2>1. CASE Goto(a, IF pr = "open" THEN "findPr" ELSE "done")
      <3>1. (IF pr = "open" THEN "findPr" ELSE "done") \in PCs \cap {"findPr", "done"}
        BY <1>1
      <3>2. QED
        BY <1>1, <2>1, <3>1, GotoStep DEF TypeOK
    <2>2. CASE NoAnswer(a)
      BY <1>1, <2>2, NoAnswerStep
    <2>3. QED
      BY <2>1, <2>2 DEF CreatePr
  <1>3. TypeOK'
    BY <1>1, <1>2 DEF TypeOK, CreatePr
  <1>4. AttemptInv(a)'
    BY <1>2 DEF CreatePr, DeliveryInv, AttemptInv
  <1>5. QED
    BY <1>2, <1>3, <1>4, SameRepository DEF CreatePr

LEMMA FindPrKeeps ==
  ASSUME DeliveryInv, NEW a \in Attempts, FindPr(a)
  PROVE  DeliveryInv'
  <1>1. TypeOK /\ {"done", "failed"} \subseteq PCs
    BY DEF PCs, DeliveryInv
  <1>2. /\ pc' \in [Attempts -> PCs] /\ tries' \in [Attempts -> 0..MaxRetries]
        /\ gaveUp' = gaveUp
        /\ \A b \in Attempts \ {a} : pc'[b] = pc[b]
        /\ pc'[a] \in {"done", "failed"}
    BY <1>1, GotoStep DEF FindPr
  <1>3. TypeOK'
    BY <1>1, <1>2 DEF TypeOK, FindPr, repository
  <1>4. AttemptInv(a)'
    BY <1>2 DEF FindPr, repository, DeliveryInv, AttemptInv
  <1>5. QED
    BY <1>2, <1>3, <1>4, SameRepository DEF FindPr, repository

LEMMA LoseRequestKeeps ==
  ASSUME DeliveryInv, NEW a \in Attempts, LoseRequest(a)
  PROVE  DeliveryInv'
  <1>1. TypeOK
    BY DEF DeliveryInv
  <1>2. /\ pc' \in [Attempts -> PCs] /\ tries' \in [Attempts -> 0..MaxRetries]
        /\ gaveUp' \subseteq Attempts
        /\ \A b \in Attempts \ {a} : pc'[b] = pc[b]
        /\ pc'[a] \in {pc[a], "failed"}
    BY <1>1, NoAnswerStep DEF LoseRequest
  <1>3. TypeOK'
    BY <1>1, <1>2 DEF TypeOK, LoseRequest, repository
  <1>4. AttemptInv(a)'
    BY <1>2 DEF LoseRequest, repository, DeliveryInv, AttemptInv
  <1>5. QED
    BY <1>2, <1>3, <1>4, SameRepository DEF LoseRequest, repository

\* A developer's commit on a tip.
LEMMA PushKeeps ==
  ASSUME DeliveryInv, NEW tip \in DOMAIN commits,
         commits' = Append(commits, Commit({tip}, commits[tip].files)),
         pushes < MaxPushes, pushes' = pushes + 1,
         UNCHANGED <<pr, pc, baseSha, sha, tries, gaveUp>>,
         \/ base' = Len(commits') /\ UNCHANGED branch
         \/ branch' = Len(commits') /\ UNCHANGED base /\ branch = tip
  PROVE  DeliveryInv' /\ Grows
  <1> DEFINE x == Commit({tip}, commits[tip].files)
             n == Len(commits) + 1
  <1>1. NewCommitOn(commits, x) /\ TypeOK
    BY PushFits DEF DeliveryInv
  <1>2. /\ commits' \in Repositories /\ DOMAIN commits = 1..Len(commits) /\ Len(commits) \in Nat
        /\ Len(commits') = n /\ DOMAIN commits' = 1..n
        /\ commits'[n] = x
        /\ \A i \in DOMAIN commits :
             commits'[i] = commits[i] /\ AncestorsIn(commits', i) = AncestorsIn(commits, i)
        /\ \A i \in DOMAIN commits' : commits'[i].parents \subseteq 1..(i - 1)
    BY <1>1, AfterCommit
  <1>3. n \in DOMAIN commits' /\ n # None /\ DOMAIN commits \subseteq DOMAIN commits'
    BY <1>2, DeliveryAssumption
  <1>4. x.parents = {tip}
    BY DEF Commit
  <1> HIDE DEF n, x
  <1>5. pushes' \in 0..MaxPushes
    BY <1>1, DeliveryAssumption DEF TypeOK
  <1>6. TypeOK'
    BY <1>1, <1>2, <1>3, <1>5 DEF TypeOK
  <1>7. Grows
    <2>1. CASE branch' = branch
      <3>1. branch # None => branch \in 1..Len(commits')
        BY <1>1, <1>2, <1>3 DEF TypeOK
      <3>2. branch # None => branch \in AncestorsIn(commits', branch)
        BY <1>2, <3>1, AncestorsAreOlder
      <3>3. QED
        BY <1>2, <1>3, <2>1, <3>1, <3>2 DEF Grows
    <2>2. CASE branch' = n /\ branch = tip
      <3>1. tip \in commits'[n].parents /\ n \in 1..Len(commits')
        BY <1>2, <1>3, <1>4
      <3>2. tip \in AncestorsIn(commits', n)
        BY <1>2, <3>1, ParentsAreAncestors
      <3>3. QED
        BY <1>2, <1>3, <2>2, <3>2 DEF Grows
    <2>3. QED
      BY <1>2, <2>1, <2>2
  <1>8. \A b \in Attempts : AttemptInv(b)'
    BY <1>7, AttemptKeeps
  <1>9. branch' # None => branch # None
    BY <1>2, <1>3, DeliveryAssumption
  <1>10. branch' # None => BundleFiles \subseteq commits'[branch'].files
    BY <1>7, <1>9, TipKeeps
  <1>11. QED
    BY <1>2, <1>6, <1>7, <1>8, <1>10 DEF DeliveryInv

LEMMA NextDelivery == DeliveryInv /\ [Next]_vars => DeliveryInv'
  <1> SUFFICES ASSUME DeliveryInv, [Next]_vars PROVE DeliveryInv'
    OBVIOUS
  <1>1. ASSUME NEW a \in Attempts, Begin(a) PROVE DeliveryInv'
    BY <1>1, BeginKeeps
  <1>2. ASSUME NEW a \in Attempts, Request(a) PROVE DeliveryInv'
    BY <1>2, GetRefKeeps, CreateCommitKeeps, CreateRefKeeps, UpdateRefKeeps, CreatePrKeeps,
       FindPrKeeps, LoseRequestKeeps DEF Request
  <1>3. CASE PushBase
    BY <1>3, PushKeeps DEF PushBase, DeliveryInv, TypeOK
  <1>4. CASE PushBranch
    BY <1>4, PushKeeps DEF PushBranch, DeliveryInv, TypeOK
  <1>5. CASE ClosePr
    <2>1. TypeOK'
      BY <1>5, DeliveryAssumption DEF ClosePr, DeliveryInv, TypeOK
    <2>2. Grows
      BY <1>5, SameRepositoryGrows DEF ClosePr
    <2>3. \A b \in Attempts : AttemptInv(b)'
      BY <1>5, <2>2, AttemptKeeps DEF ClosePr
    <2>4. QED
      BY <1>5, <2>1, <2>3 DEF ClosePr, DeliveryInv
  <1>6. CASE UNCHANGED vars
    BY <1>6 DEF vars, repository, DeliveryInv, TypeOK, AttemptInv, AncestorsIn, Closed
  <1>7. QED
    BY <1>1, <1>2, <1>3, <1>4, <1>5, <1>6 DEF Next

\* Refs name commits, and a commit descends from earlier ones, whatever is lost, retried
\* or pushed in between (client.ts, openPullRequestWithFiles and its requests).
THEOREM TypeCorrect == Spec => []TypeOK
  <1>1. DeliveryInv => TypeOK
    BY DEF DeliveryInv
  <1>2. QED
    BY <1>1, InitDelivery, NextDelivery, PTL DEF Spec

-----------------------------------------------------------------------------
(* Lost answers.                                                           *)

Alone(a) == pushes = 0 /\ \A b \in Attempts \ {a} : pc[b] = "start"

\* Alone, an attempt finds on the branch nothing but the commit it put there itself.
Harmless(a) ==
  /\ pr # "closed"
  /\ branch \in {None, sha[a]}
  /\ pc[a] \in {"start", "getRef", "createCommit"} => branch = None
  /\ pc[a] = "findPr" => pr = "open"
  /\ pc[a] = "failed" => a \in gaveUp

HarmlessInv == \A a \in Attempts : Alone(a) => Harmless(a)

LEMMA InitHarmless == Init => HarmlessInv
  BY DEF Init, HarmlessInv, Harmless

\* Whoever has started is no longer at the start, and nobody else is moved.
LEMMA StepsOf ==
  ASSUME TypeOK, NEW b \in Attempts, Begin(b) \/ Request(b)
  PROVE  /\ pc'[b] # "start" /\ pushes' = pushes
         /\ \A c \in Attempts \ {b} : pc'[c] = pc[c]
  <1>1. CASE Begin(b)
    BY <1>1, GotoStep DEF Begin, PCs
  <1>2. CASE GetRef(b)
    BY <1>2, GotoStep DEF GetRef, PCs
  <1>3. CASE CreateCommit(b)
    BY <1>3, GotoStep DEF CreateCommit, PCs
  <1>4. ASSUME NoAnswer(b), pc[b] # "start"
        PROVE  pc'[b] # "start" /\ \A c \in Attempts \ {b} : pc'[c] = pc[c]
    BY <1>4, NoAnswerStep
  <1>5. ASSUME NEW next \in PCs \ {"start"}, Goto(b, next)
        PROVE  pc'[b] # "start" /\ \A c \in Attempts \ {b} : pc'[c] = pc[c]
    BY <1>5, GotoStep
  <1>6. {"createPr", "updateRef", "findPr", "done", "failed"} \subseteq PCs \ {"start"}
    BY DEF PCs
  <1>7. CASE CreateRef(b)
    <2>1. (IF branch = None THEN "createPr" ELSE "updateRef") \in PCs \ {"start"}
      BY <1>6
    <2>2. QED
      BY <1>4, <1>5, <1>7, <2>1 DEF CreateRef
  <1>8. CASE UpdateRef(b)
    <2>1. (IF FastForward(sha[b]) THEN "createPr" ELSE "failed") \in PCs \ {"start"}
      BY <1>6
    <2>2. QED
      BY <1>4, <1>5, <1>8, <2>1 DEF UpdateRef
  <1>9. CASE CreatePr(b)
    <2>1. (IF pr = "open" THEN "findPr" ELSE "done") \in PCs \ {"start"}
      BY <1>6
    <2>2. QED
      BY <1>4, <1>5, <1>9, <2>1 DEF CreatePr
  <1>10. CASE FindPr(b)
    <2>1. (IF pr = "open" THEN "done" ELSE "failed") \in PCs \ {"start"}
      BY <1>6
    <2>2. QED
      BY <1>5, <1>10, <2>1 DEF FindPr
  <1>11. CASE LoseRequest(b)
    BY <1>4, <1>11 DEF LoseRequest, InFlight
  <1>12. QED
    BY <1>1, <1>2, <1>3, <1>7, <1>8, <1>9, <1>10, <1>11 DEF Request

LEMMA OwnStepsAreHarmless ==
  ASSUME DeliveryInv, NEW a \in Attempts, Begin(a) \/ Request(a), Harmless(a)
  PROVE  Harmless(a)'
  <1>1. TypeOK
    BY DEF DeliveryInv
  <1>2. CASE Begin(a)
    BY <1>1, <1>2, GotoStep DEF Begin, repository, PCs, Harmless
  <1>3. CASE GetRef(a)
    BY <1>1, <1>3, GotoStep DEF GetRef, repository, PCs, Harmless
  <1>4. CASE CreateCommit(a)
    BY <1>1, <1>4, GotoStep DEF CreateCommit, PCs, Harmless
  <1>5. ASSUME NEW next \in {"createPr", "updateRef", "findPr", "done"}, Goto(a, next)
        PROVE  pc'[a] = next
    BY <1>1, <1>5, GotoStep DEF PCs
  <1>6. CASE CreateRef(a)
    <2>1. branch' = sha[a] /\ pr' = pr /\ sha' = sha
      BY <1>6 DEF CreateRef, Harmless
    <2>2. CASE NoAnswer(a)
      BY <1>1, <1>6, <2>1, <2>2, NoAnswerStep DEF Harmless, CreateRef
    <2>3. CASE Goto(a, IF branch = None THEN "createPr" ELSE "updateRef")
      BY <1>5, <2>1, <2>3 DEF Harmless
    <2>4. QED
      BY <1>6, <2>2, <2>3 DEF CreateRef
  <1>7. CASE UpdateRef(a)
    <2>1. branch = sha[a] /\ sha[a] \in 1..Len(commits) /\ commits \in Repositories
      BY <1>7, RepositoryFacts DEF UpdateRef, DeliveryInv, TypeOK, AttemptInv, Harmless
    <2>2. FastForward(sha[a])
      BY <2>1, AncestorsAreOlder, HistoryIsAncestors DEF FastForward
    <2>3. branch' = sha[a] /\ pr' = pr /\ sha' = sha
      BY <1>7, <2>2 DEF UpdateRef
    <2>4. CASE NoAnswer(a)
      BY <1>1, <1>7, <2>3, <2>4, NoAnswerStep DEF Harmless, UpdateRef
    <2>5. CASE Goto(a, IF FastForward(sha[a]) THEN "createPr" ELSE "failed")
      BY <1>5, <2>2, <2>3, <2>5 DEF Harmless
    <2>6. QED
      BY <1>7, <2>4, <2>5 DEF UpdateRef
  <1>8. CASE CreatePr(a)
    <2>1. pr' = "open" /\ branch' = branch /\ sha' = sha
      BY <1>8 DEF CreatePr
    <2>2. CASE NoAnswer(a)
      BY <1>1, <1>8, <2>1, <2>2, NoAnswerStep DEF Harmless, CreatePr
    <2>3. CASE Goto(a, IF pr = "open" THEN "findPr" ELSE "done")
      BY <1>5, <2>1, <2>3 DEF Harmless
    <2>4. QED
      BY <1>8, <2>2, <2>3 DEF CreatePr
  <1>9. CASE FindPr(a)
    <2>1. pr = "open" /\ pr' = pr /\ branch' = branch /\ sha' = sha
      BY <1>9 DEF FindPr, repository, Harmless
    <2>2. pc'[a] = "done"
      BY <1>5, <1>9, <2>1 DEF FindPr
    <2>3. QED
      BY <2>1, <2>2 DEF Harmless
  <1>10. CASE LoseRequest(a)
    BY <1>1, <1>10, NoAnswerStep DEF LoseRequest, repository, Harmless
  <1>11. QED
    BY <1>2, <1>3, <1>4, <1>6, <1>7, <1>8, <1>9, <1>10 DEF Request

LEMMA NextHarmless == DeliveryInv /\ HarmlessInv /\ [Next]_vars => HarmlessInv'
  <1> SUFFICES ASSUME DeliveryInv, HarmlessInv, [Next]_vars, NEW a \in Attempts, Alone(a)'
               PROVE  Harmless(a)'
    BY DEF HarmlessInv
  <1>1. TypeOK
    BY DEF DeliveryInv
  <1>2. Alone(a) => Harmless(a)
    BY DEF HarmlessInv
  <1>3. ASSUME NEW b \in Attempts, Begin(b) \/ Request(b)
        PROVE  Harmless(a)'
    <2>1. b = a
      BY <1>1, <1>3, StepsOf DEF Alone
    <2>2. Alone(a)
      BY <1>1, <1>3, <2>1, StepsOf DEF Alone
    <2>3. QED
      BY <1>2, <1>3, <2>1, <2>2, OwnStepsAreHarmless
  <1>4. ASSUME pushes' = pushes + 1
        PROVE  Harmless(a)'
    BY <1>1, <1>4 DEF TypeOK, Alone
  <1>5. CASE UNCHANGED vars
    BY <1>2, <1>5 DEF vars, repository, Alone, Harmless
  <1>6. QED
    BY <1>3, <1>4, <1>5 DEF Next, PushBase, PushBranch, ClosePr

\* Whatever answers are lost, an attempt that has the repository to itself fails only if a
\* request of it used up its retries or lost its connection (client.ts, request,
\* upsertBranch, createOrGetPullRequest).
THEOREM LostAnswersHarmless == Spec => []LostAnswersAreHarmless
  <1>1. HarmlessInv => LostAnswersAreHarmless
    BY DEF HarmlessInv, Harmless, Alone, LostAnswersAreHarmless
  <1>2. QED
    BY <1>1, InitDelivery, NextDelivery, InitHarmless, NextHarmless, PTL DEF Spec

-----------------------------------------------------------------------------
(* The refinement.                                                         *)

Held == IF branch = None THEN {} ELSE AncestorsIn(commits, branch)

Tip == IF branch = None THEN {} ELSE commits[branch].files

Waiting == {a \in Attempts : pc[a] \in InFlight}

Reported == {sha[a] : a \in {b \in Attempts : pc[b] = "done"}}

\* When the branch moves there are more commits on it, and no file of it, of the repository
\* or of the bundle is missing.
LEMMA BranchGrows ==
  ASSUME DeliveryInv, DeliveryInv', Grows
  PROVE  \/ Held' = Held /\ Tip' = Tip
         \/ /\ Held \subseteq Held' /\ Held' # Held
            /\ Tip \cup BaseFiles \cup BundleFiles \subseteq Tip'
  <1>1. branch # None => branch \in DOMAIN commits /\ branch \in 1..Len(commits)
    BY RepositoryFacts DEF DeliveryInv, TypeOK
  <1>2. CASE branch' = branch
    BY <1>1, <1>2 DEF Grows, Held, Tip
  <1>3. CASE branch' # branch
    <2>1. branch' # None
      BY <1>3, TipKeeps
    <2>2. branch' \in 1..Len(commits') /\ commits' \in Repositories /\ commits \in Repositories
      BY <2>1, RepositoryFacts DEF DeliveryInv, TypeOK
    <2>3. branch' \in AncestorsIn(commits', branch') /\ AncestorsIn(commits', branch') \subseteq 1..branch'
      BY <2>2, AncestorsAreOlder
    <2>4. Held' = AncestorsIn(commits', branch') /\ Tip' = commits'[branch'].files
      BY <2>1 DEF Held, Tip
    <2>5. BaseFiles \subseteq Tip' /\ BundleFiles \subseteq Tip'
      BY <2>1, <2>2, <2>4, RepositoryFacts DEF DeliveryInv
    <2>6. CASE branch = None
      BY <2>3, <2>4, <2>5, <2>6 DEF Held, Tip
    <2>7. CASE branch # None
      <3>1. Held = AncestorsIn(commits', branch) /\ branch \in Held'
        BY <1>1, <2>4, <2>7 DEF Grows, Held
      <3>2. Held \subseteq Held'
        BY <2>4, <3>1, AncestorsOfAncestors
      <3>3. Tip \subseteq Tip'
        BY <2>4, <2>7, TipKeeps DEF Tip
      <3>4. Held \subseteq 1..branch
        BY <1>1, <2>2, <2>7, AncestorsAreOlder DEF Held
      <3>5. branch \in Nat /\ branch' \in Nat
        BY <1>1, <2>2, <2>7, RepositoryFacts
      <3>6. branch \in 1..branch'
        BY <2>3, <2>4, <3>1
      <3>7. branch' \notin Held
        BY <1>3, <3>4, <3>5, <3>6
      <3>8. QED
        BY <2>3, <2>4, <2>5, <3>2, <3>3, <3>7
    <2>8. QED
      BY <2>6, <2>7
  <1>4. QED
    BY <1>2, <1>3

\* What a step of an attempt does to it, to the others and to the branch.
AttemptStep(a) ==
  /\ Grows
  /\ \A b \in Attempts \ {a} : pc'[b] = pc[b] /\ sha'[b] = sha[b]
  /\ \/ pc[a] = "start" /\ pc'[a] = "getRef" /\ UNCHANGED <<commits, branch>>
     \/ pc[a] \in InFlight /\ pc'[a] \in InFlight
     \/ pc[a] \in InFlight /\ pc'[a] = "failed"
     \/ pc[a] \in InFlight /\ pc'[a] = "done" /\ UNCHANGED <<commits, branch, sha>>

LEMMA AttemptSteps ==
  ASSUME DeliveryInv, NEW a \in Attempts, Begin(a) \/ Request(a)
  PROVE  AttemptStep(a)
  <1>1. TypeOK
    BY DEF DeliveryInv
  <1>2. \A b \in Attempts \ {a} : pc'[b] = pc[b] /\ sha'[b] = sha[b]
    <2>1. \A b \in Attempts \ {a} : pc'[b] = pc[b]
      BY <1>1, StepsOf
    <2>2. CASE CreateCommit(a)
      BY <1>1, <2>1, <2>2 DEF CreateCommit, TypeOK
    <2>3. CASE ~CreateCommit(a)
      BY <2>1, <2>3 DEF Begin, Request, GetRef, CreateRef, UpdateRef, CreatePr, FindPr, LoseRequest
    <2>4. QED
      BY <2>2, <2>3
  <1>3. ASSUME NEW next \in PCs, Goto(a, next)
        PROVE  pc'[a] = next
    BY <1>1, <1>3, GotoStep
  <1>4. ASSUME NoAnswer(a)
        PROVE  pc'[a] \in {pc[a], "failed"}
    BY <1>1, <1>4, NoAnswerStep
  <1>5. UNCHANGED <<commits, branch>> => Grows
    BY SameRepositoryGrows
  <1>6. CASE Begin(a)
    BY <1>2, <1>3, <1>5, <1>6 DEF Begin, repository, PCs, AttemptStep
  <1>7. CASE GetRef(a)
    BY <1>2, <1>3, <1>5, <1>7 DEF GetRef, repository, PCs, InFlight, AttemptStep
  <1>8. CASE CreateCommit(a)
    BY <1>2, <1>3, <1>8, CreateCommitKeeps DEF CreateCommit, PCs, InFlight, AttemptStep
  <1>9. CASE CreateRef(a)
    <2>1. pc'[a] \in InFlight \cup {"failed"} /\ pc[a] \in InFlight
      BY <1>3, <1>4, <1>9 DEF CreateRef, PCs, InFlight
    <2>2. QED
      BY <1>2, <1>9, <2>1, CreateRefKeeps DEF AttemptStep
  <1>10. CASE UpdateRef(a)
    <2>1. pc'[a] \in InFlight \cup {"failed"} /\ pc[a] \in InFlight
      BY <1>3, <1>4, <1>10 DEF UpdateRef, PCs, InFlight
    <2>2. QED
      BY <1>2, <1>10, <2>1, UpdateRefKeeps DEF AttemptStep
  <1>11. CASE CreatePr(a)
    <2>1. pc'[a] \in InFlight \cup {"failed", "done"} /\ pc[a] \in InFlight
      BY <1>3, <1>4, <1>11 DEF CreatePr, PCs, InFlight
    <2>2. UNCHANGED <<commits, branch, sha>>
      BY <1>11 DEF CreatePr
    <2>3. QED
      BY <1>2, <1>5, <2>1, <2>2 DEF AttemptStep
  <1>12. CASE FindPr(a)
    <2>1. pc'[a] \in {"failed", "done"} /\ pc[a] \in InFlight
      BY <1>3, <1>12 DEF FindPr, PCs, InFlight
    <2>2. UNCHANGED <<commits, branch, sha>>
      BY <1>12 DEF FindPr, repository
    <2>3. QED
      BY <1>2, <1>5, <2>1, <2>2 DEF AttemptStep
  <1>13. CASE LoseRequest(a)
    BY <1>2, <1>4, <1>5, <1>13 DEF LoseRequest, repository, AttemptStep
  <1>14. QED
    BY <1>6, <1>7, <1>8, <1>9, <1>10, <1>11, <1>12, <1>13 DEF Request

LEMMA InitRefines == Init => Promise!Init
  BY DEF Init, InFlight, Promise!Init

LEMMA StepRefines ==
  DeliveryInv /\ DeliveryInv' /\ [Next]_vars => [Promise!Next]_(Promise!vars)
  <1> SUFFICES ASSUME DeliveryInv, DeliveryInv', [Next]_vars
               PROVE  [Promise!Next]_(Promise!vars)
    OBVIOUS
  <1> DEFINE held == IF branch = None THEN {} ELSE History(branch)
  <1>1. held = Held /\ held' = Held'
    BY HistoryIsAncestors DEF Held, History, AncestorsIn, Closed
  <1>2. ASSUME Grows, Waiting' = Waiting, Reported' = Reported
        PROVE  [Promise!Next]_(Promise!vars)
    BY <1>1, <1>2, BranchGrows
       DEF Promise!Next, Promise!Push, Promise!Grow, Promise!vars, Tip, Waiting, Reported
  <1>3. ASSUME NEW a \in Attempts, Begin(a) \/ Request(a)
        PROVE  [Promise!Next]_(Promise!vars)
    <2>1. AttemptStep(a)
      BY <1>3, AttemptSteps
    <2>2. CASE pc[a] = "start" /\ pc'[a] = "getRef" /\ UNCHANGED <<commits, branch>>
      <3>1. a \notin Waiting /\ Waiting' = Waiting \cup {a} /\ Reported' = Reported
        BY <2>1, <2>2 DEF AttemptStep, Waiting, Reported, InFlight, PCs
      <3>2. Promise!Start(a)
        BY <1>1, <2>2, <3>1 DEF Promise!Start, Waiting, Reported, Held, Tip
      <3>3. QED
        BY <3>2 DEF Promise!Next
    <2>3. CASE pc[a] \in InFlight /\ pc'[a] \in InFlight
      <3>1. Waiting' = Waiting /\ Reported' = Reported
        BY <2>1, <2>3 DEF AttemptStep, Waiting, Reported, InFlight
      <3>2. QED
        BY <1>2, <2>1, <3>1 DEF AttemptStep
    <2>4. CASE pc[a] \in InFlight /\ pc'[a] = "failed"
      <3>1. a \in Waiting /\ Waiting' = Waiting \ {a} /\ Reported' = Reported
        BY <2>1, <2>4 DEF AttemptStep, Waiting, Reported, InFlight
      <3>2. Promise!Fail(a)
        BY <1>1, <2>1, <3>1, BranchGrows
           DEF AttemptStep, Promise!Fail, Promise!Grow, Waiting, Reported, Tip
      <3>3. QED
        BY <3>2 DEF Promise!Next
    <2>5. CASE pc[a] \in InFlight /\ pc'[a] = "done" /\ UNCHANGED <<commits, branch, sha>>
      <3>1. a \in Waiting /\ Waiting' = Waiting \ {a} /\ Reported' = Reported \cup {sha[a]}
        BY <2>1, <2>5 DEF AttemptStep, Waiting, Reported, InFlight
      <3>2. sha[a] \in Held
        BY <2>5 DEF DeliveryInv, AttemptInv, Held
      <3>3. Promise!Deliver(a)
        BY <1>1, <2>5, <3>1, <3>2 DEF Promise!Deliver, Waiting, Reported, Held, Tip
      <3>4. QED
        BY <3>3 DEF Promise!Next
    <2>6. QED
      BY <2>1, <2>2, <2>3, <2>4, <2>5 DEF AttemptStep
  <1>4. CASE PushBase
    <2>1. Grows
      BY <1>4, PushKeeps DEF PushBase, DeliveryInv, TypeOK
    <2>2. QED
      BY <1>2, <1>4, <2>1 DEF PushBase, Waiting, Reported
  <1>5. CASE PushBranch
    <2>1. Grows
      BY <1>5, PushKeeps DEF PushBranch, DeliveryInv, TypeOK
    <2>2. QED
      BY <1>2, <1>5, <2>1 DEF PushBranch, Waiting, Reported
  <1>6. CASE ClosePr \/ UNCHANGED vars
    <2>1. Grows
      BY <1>6, SameRepositoryGrows DEF ClosePr, vars, repository
    <2>2. QED
      BY <1>2, <1>6, <2>1 DEF ClosePr, vars, repository, Waiting, Reported
  <1>7. QED
    BY <1>3, <1>4, <1>5, <1>6 DEF Next

\* However requests are lost, retried and interleaved with developers, the branch of the job
\* only grows, keeps the files of the repository and of the bundle, and holds every commit
\* that was reported as delivered.  (That attempts end is a liveness property, which the run
\* checks.)
THEOREM ImplementsBranch == Spec => Promise!Spec
  <1>1. Init => Promise!Init
    BY InitRefines
  <1>2. DeliveryInv /\ DeliveryInv' /\ [Next]_vars => [Promise!Next]_(Promise!vars)
    BY StepRefines
  <1>3. QED
    BY <1>1, <1>2, InitDelivery, NextDelivery, PTL DEF Spec, Promise!Spec
============================================================================
