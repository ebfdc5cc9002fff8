------------------------- MODULE CalibrationProofs -------------------------
(***************************************************************************)
(* Proofs about Calibration for any number of commits, any agents and any  *)
(* failures: types, which shards change, what the token total is worth,    *)
(* and that the walk with its calibration loop implements the safety part  *)
(* of CommitWalk.                                                          *)
(***************************************************************************)
EXTENDS Calibration, SequenceTheorems, WellFoundedInduction, TLAPS

-----------------------------------------------------------------------------
(* Lists.  What a recursive function over the places of a list computes is  *)
(* proved by induction in the form of a set of numbers: the theorems of the *)
(* library take a predicate, which the provers cannot be given.             *)

\* A set of numbers with 0 and with the successor of each of its members holds all.
LEMMA SetInduction ==
  ASSUME NEW A \in SUBSET Nat, 0 \in A, \A n \in A : n + 1 \in A
  PROVE  A = Nat
  <1> DEFINE R == {ss \in Nat \X Nat : ss[1] < ss[2]}
             T == Nat \ A
  <1>1. IsWellFoundedOn(R, Nat)
    BY NatLessThanWellFounded DEF OpToRel
  <1>2. SUFFICES ASSUME T # {} PROVE FALSE
    OBVIOUS
  <1>3. PICK x \in T : \A y \in T : ~(<<y, x>> \in R)
    <2>1. IsWellFoundedOn(R, Nat) /\ T \subseteq Nat /\ T # {}
      BY <1>1, <1>2
    <2> HIDE DEF R, T
    <2> QED
      BY <2>1, WFMin
  <1>4. x \in Nat /\ x # 0 /\ x - 1 \in Nat /\ x - 1 < x
    OBVIOUS
  <1>5. x - 1 \in A
    BY <1>3, <1>4
  <1>6. QED
    BY <1>3, <1>4, <1>5

\* What holds at 0 and carries over from n to n + 1 below N holds up to N.
LEMMA UpTo ==
  ASSUME NEW N \in Nat, NEW A, 0 \in A, \A n \in 0..(N - 1) : n \in A => n + 1 \in A
  PROVE  0..N \subseteq A
  <1> DEFINE B == {n \in Nat : n <= N => n \in A}
  <1>1. 0 \in B /\ B \in SUBSET Nat
    OBVIOUS
  <1>2. ASSUME NEW n \in B PROVE n + 1 \in B
    OBVIOUS
  <1> HIDE DEF B
  <1>3. B = Nat
    BY <1>1, <1>2, SetInduction
  <1>4. QED
    BY <1>3 DEF B

\* One function from V to V for each of the places 1 to N; f is their iteration on v0.
Steps(N, V) == [1..N -> [V -> V]]

Iterates(f, N, V, v0, G) ==
  f \in [0..N -> V] /\ f[0] = v0 /\ \A k \in 1..N : f[k] = G[k][f[k - 1]]

\* Iterations exist.
LEMMA Recursion ==
  ASSUME NEW V, NEW v0 \in V, NEW N \in Nat, NEW G \in Steps(N, V)
  PROVE  \E f : Iterates(f, N, V, v0, G)
  <1> USE DEF Steps, Iterates
  <1> DEFINE Good(n, f) == f \in [0..n -> V] /\ f[0] = v0 /\ \A k \in 1..n : f[k] = G[k][f[k - 1]]
             A == {n \in Nat : \E f : Good(n, f)}
  <1>1. 0 \in A
    <2>1. Good(0, [k \in 0..0 |-> v0])
      OBVIOUS
    <2> QED
      BY <2>1
  <1>2. ASSUME NEW n \in 0..(N - 1), n \in A PROVE n + 1 \in A
    <2>1. PICK f : Good(n, f)
      BY <1>2
    <2> DEFINE g == [k \in 0..(n + 1) |-> IF k = n + 1 THEN G[n + 1][f[n]] ELSE f[k]]
    <2>2. n \in 0..n /\ n + 1 \in 1..N /\ f[n] \in V
      BY <2>1
    <2>3. G[n + 1][f[n]] \in V
      BY <2>2
    <2>4. g \in [0..(n + 1) -> V]
      BY <2>1, <2>3
    <2>5. g[0] = v0
      BY <2>1
    <2>6. ASSUME NEW k \in 1..(n + 1) PROVE g[k] = G[k][g[k - 1]]
      <3>1. CASE k = n + 1
        BY <3>1
      <3>2. CASE k # n + 1
        <4>1. k \in 1..n /\ k - 1 \in 0..n /\ k - 1 # n + 1
          BY <3>2
        <4>2. g[k] = f[k] /\ g[k - 1] = f[k - 1]
          BY <4>1, <3>2
        <4> QED
          BY <2>1, <4>1, <4>2
      <3> QED
        BY <3>1, <3>2
    <2> HIDE DEF g
    <2>7. Good(n + 1, g)
      BY <2>4, <2>5, <2>6
    <2>8. n + 1 \in Nat
      OBVIOUS
    <2> HIDE DEF Good
    <2> QED
      BY <2>7, <2>8
  <1> HIDE DEF A
  <1>3. 0..N \subseteq A
    BY <1>1, <1>2, UpTo
  <1>4. N \in A
    BY <1>3
  <1> QED
    BY <1>4 DEF A

\* f holds the sums of the beginnings of s.
Totals(f, s) ==
  /\ f \in [0..Len(s) -> Int]
  /\ f[0] = 0
  /\ \A k \in 1..Len(s) : f[k] = f[k - 1] + s[k]
  /\ ListSum(s) = f[Len(s)]

\* The sums of the beginnings of a list exist, and the last is its ListSum.
LEMMA SumFacts ==
  ASSUME NEW s \in Seq(Int)
  PROVE  \E f : Totals(f, s)
  <1> DEFINE N == Len(s)
             G == [k \in 1..N |-> [v \in Int |-> v + s[k]]]
             F(f) == [k \in 0..N |-> IF k = 0 THEN 0 ELSE f[k - 1] + s[k]]
  <1>1. N \in Nat /\ \A k \in 1..N : s[k] \in Int
    OBVIOUS
  <1>2. G \in [1..N -> [Int -> Int]]
    BY <1>1
  <1>3. PICK f \in [0..N -> Int] : f[0] = 0 /\ \A k \in 1..N : f[k] = G[k][f[k - 1]]
    <2>1. 0 \in Int /\ N \in Nat /\ G \in Steps(N, Int)
      BY <1>1, <1>2 DEF Steps
    <2> HIDE DEF G, N
    <2>2. \E f : Iterates(f, N, Int, 0, G)
      BY <2>1, Recursion
    <2> QED
      BY <2>2 DEF Iterates
  <1>4. ASSUME NEW k \in 1..N PROVE f[k] = f[k - 1] + s[k]
    <2>1. k - 1 \in 0..N /\ f[k - 1] \in Int
      <3> HIDE DEF N
      <3>1. k - 1 \in 0..N
        BY <1>1
      <3> QED
        BY ONLY <3>1, f \in [0..N -> Int]
    <2>2. f[k] = G[k][f[k - 1]]
      BY <1>3
    <2> QED
      BY <2>1, <2>2
  <1>5. f = F(f)
    <2>1. \A k \in 0..N : f[k] = IF k = 0 THEN 0 ELSE f[k - 1] + s[k]
      BY <1>1, <1>3, <1>4
    <2>2. f = [k \in 0..N |-> f[k]]
      OBVIOUS
    <2> HIDE DEF N
    <2> QED
      BY <2>1, <2>2
  <1> DEFINE t == CHOOSE t : t = F(t)
  <1>6. t = F(t)
    BY <1>5
  <1>7. ListSum(s) = t[N]
    BY DEF ListSum
  <1> HIDE DEF t
  <1>8. t[0] = 0 /\ \A k \in 1..N : t[k] = t[k - 1] + s[k]
    <2>1. \A k \in 0..N : F(t)[k] = IF k = 0 THEN 0 ELSE t[k - 1] + s[k]
      OBVIOUS
    <2>2. 0 \in 0..N /\ \A k \in 1..N : k \in 0..N /\ k # 0
      BY <1>1
    <2> HIDE DEF N, F
    <2> QED
      BY <1>6, <2>1, <2>2
  <1>9. 0..N \subseteq {k \in 0..N : t[k] \in Int}
    <2>1. ASSUME NEW k \in 0..(N - 1), t[k] \in Int PROVE t[k + 1] \in Int
      <3>1. k + 1 \in 1..N /\ t[k + 1] = t[(k + 1) - 1] + s[k + 1] /\ (k + 1) - 1 = k
        BY <1>1, <1>8
      <3> QED
        BY <1>1, <2>1, <3>1
    <2> DEFINE A == {k \in 0..N : t[k] \in Int}
    <2>2. 0 \in A /\ \A k \in 0..(N - 1) : k \in A => k + 1 \in A
      BY <1>1, <1>8, <2>1
    <2> HIDE DEF A
    <2>3. 0..N \subseteq A
      BY <1>1, <2>2, UpTo
    <2> QED
      BY <2>3 DEF A
  <1>10. t \in [0..N -> Int]
    <2>1. t = [k \in 0..N |-> t[k]]
      BY <1>6
    <2> HIDE DEF N
    <2> QED
      BY <1>9, <2>1
  <1>11. Totals(t, s)
    BY <1>7, <1>8, <1>10 DEF Totals
  <1> QED
    BY <1>11

\* Sums of prefixes: each adds the next number to the one before.
LEMMA SumPrefix ==
  ASSUME NEW s \in Seq(Int), NEW k \in 0..Len(s)
  PROVE  /\ ListSum(SubSeq(s, 1, k)) \in Int
         /\ k = 0 => ListSum(SubSeq(s, 1, k)) = 0
         /\ k > 0 => ListSum(SubSeq(s, 1, k)) = ListSum(SubSeq(s, 1, k - 1)) + s[k]
  <1>1. PICK f : Totals(f, s)
    BY SumFacts
  <1>2. ASSUME NEW j \in 0..Len(s)
        PROVE  ListSum(SubSeq(s, 1, j)) = f[j]
    <2> DEFINE u == SubSeq(s, 1, j)
    <2>1. u \in Seq(Int) /\ Len(u) = j /\ \A i \in 1..j : u[i] = s[i]
      <3>1. \A i \in 1..j : s[i] \in Int
        OBVIOUS
      <3>2. Len(u) = j /\ u \in Seq(Int) /\ \A i \in 1..(j - 1 + 1) : u[i] = s[1 + i - 1]
        BY <3>1, SubSeqProperties
      <3> QED
        BY <3>2
    <2> HIDE DEF u
    <2>2. PICK g : Totals(g, u)
      BY <2>1, SumFacts
    <2> DEFINE A == {i \in 0..j : g[i] = f[i]}
    <2>3. 0 \in A
      BY <1>1, <2>2 DEF Totals
    <2>4. ASSUME NEW n \in 0..(j - 1), n \in A PROVE n + 1 \in A
      <3>1. n + 1 \in 1..j /\ n + 1 \in 1..Len(s) /\ (n + 1) - 1 = n /\ n + 1 \in 1..Len(u)
        BY <2>1
      <3>2. g[n + 1] = g[n] + u[n + 1] /\ f[n + 1] = f[n] + s[n + 1] /\ u[n + 1] = s[n + 1]
        BY <1>1, <2>1, <2>2, <3>1 DEF Totals
      <3> QED
        BY <2>4, <3>1, <3>2
    <2> HIDE DEF A
    <2>5. j \in Nat
      OBVIOUS
    <2>6. 0..j \subseteq A
      BY <2>3, <2>4, <2>5, UpTo
    <2>7. j \in A
      BY <2>5, <2>6
    <2>8. ListSum(u) = g[Len(u)]
      BY <2>2 DEF Totals
    <2>9. g[j] = f[j]
      BY <2>7 DEF A
    <2> QED
      BY <2>1, <2>8, <2>9 DEF u
  <1>3. k > 0 => k - 1 \in 0..Len(s) /\ k \in 1..Len(s)
    OBVIOUS
  <1>4. f[k] \in Int
    BY <1>1 DEF Totals
  <1> QED
    BY <1>1, <1>2, <1>3, <1>4 DEF Totals

LEMMA SumIsInt ==
  ASSUME NEW s \in Seq(Int)
  PROVE  ListSum(s) \in Int
  <1>1. PICK f : Totals(f, s)
    BY SumFacts
  <1>2. Len(s) \in Nat /\ Len(s) \in 0..Len(s)
    OBVIOUS
  <1>3. f \in [0..Len(s) -> Int] /\ ListSum(s) = f[Len(s)]
    BY <1>1 DEF Totals
  <1> QED
    BY <1>2, <1>3

LEMMA SumOfNats ==
  ASSUME NEW s \in Seq(Nat)
  PROVE  ListSum(s) \in Nat
  <1>1. s \in Seq(Int) /\ \A i \in 1..Len(s) : s[i] \in Nat
    BY SeqMonotonic
  <1>2. PICK f : Totals(f, s)
    BY <1>1, SumFacts
  <1> DEFINE A == {i \in 0..Len(s) : f[i] \in Nat}
  <1>3. 0 \in A
    BY <1>2 DEF Totals
  <1>4. ASSUME NEW n \in 0..(Len(s) - 1), n \in A PROVE n + 1 \in A
    <2>1. n + 1 \in 1..Len(s) /\ (n + 1) - 1 = n
      OBVIOUS
    <2>2. f[n + 1] = f[n] + s[n + 1] /\ s[n + 1] \in Nat /\ f[n] \in Nat
      BY <1>1, <1>2, <1>4, <2>1 DEF Totals
    <2> QED
      BY <2>1, <2>2
  <1> HIDE DEF A
  <1>5. 0..Len(s) \subseteq A /\ Len(s) \in Nat
    <2>1. Len(s) \in Nat
      OBVIOUS
    <2> QED
      BY <1>3, <1>4, <2>1, UpTo
  <1> QED
    BY <1>2, <1>5 DEF A, Totals

\* Every entry that is chosen stands at one of the places.
LEMMA ChosenFacts ==
  ASSUME NEW S, NEW s \in Seq(S), NEW I
  PROVE  Chosen(s, I) \in Seq({s[i] : i \in I \cap DOMAIN s})
  <1> DEFINE N == Len(s)
             V == Seq({s[i] : i \in I \cap DOMAIN s})
             F(f) == [k \in 0..N |-> IF k = 0 THEN <<>> ELSE IF k \in I THEN Append(f[k - 1], s[k]) ELSE f[k - 1]]
             G == [k \in 1..N |-> [v \in V |-> IF k \in I THEN Append(v, s[k]) ELSE v]]
  <1>1. N \in Nat /\ DOMAIN s = 1..N
    OBVIOUS
  <1>2. ASSUME NEW k \in 1..N, NEW v \in V, k \in I PROVE Append(v, s[k]) \in V
    <2>1. s[k] \in {s[i] : i \in I \cap DOMAIN s}
      BY <1>1, <1>2
    <2> QED
      BY <2>1, AppendProperties
  <1>3. G \in Steps(N, V)
    BY <1>2 DEF Steps
  <1>4. PICK f \in [0..N -> V] : f[0] = <<>> /\ \A k \in 1..N : f[k] = G[k][f[k - 1]]
    <2>1. <<>> \in V
      OBVIOUS
    <2> HIDE DEF G, N, V
    <2>2. \E f : Iterates(f, N, V, <<>>, G)
      BY <1>1, <1>3, <2>1, Recursion
    <2> QED
      BY <2>2 DEF Iterates
  <1>5. f = F(f)
    <2>1. ASSUME NEW k \in 1..N PROVE f[k] = IF k \in I THEN Append(f[k - 1], s[k]) ELSE f[k - 1]
      <3>1. k - 1 \in 0..N /\ f[k - 1] \in V
        BY <1>1
      <3> HIDE DEF V
      <3> QED
        BY <1>4, <3>1
    <2>2. f = [k \in 0..N |-> f[k]]
      OBVIOUS
    <2>3. \A k \in 0..N : k = 0 \/ k \in 1..N
      BY <1>1
    <2> HIDE DEF N, V
    <2> QED
      BY <1>4, <2>1, <2>2, <2>3
  <1> DEFINE t == CHOOSE t : t = F(t)
  <1>6. t = F(t)
    BY <1>5
  <1>7. Chosen(s, I) = t[N]
    BY DEF Chosen
  <1> HIDE DEF t
  <1>8. t[0] = <<>> /\ \A k \in 1..N : t[k] = IF k \in I THEN Append(t[k - 1], s[k]) ELSE t[k - 1]
    <2>1. \A k \in 0..N : F(t)[k] = IF k = 0 THEN <<>> ELSE IF k \in I THEN Append(t[k - 1], s[k]) ELSE t[k - 1]
      OBVIOUS
    <2>2. 0 \in 0..N /\ \A k \in 1..N : k \in 0..N /\ k # 0
      BY <1>1
    <2> HIDE DEF N, F
    <2> QED
      BY <1>6, <2>1, <2>2
  <1> DEFINE A == {k \in 0..N : t[k] \in V}
  <1>9. 0 \in A
    BY <1>1, <1>8
  <1>10. ASSUME NEW n \in 0..(N - 1), n \in A PROVE n + 1 \in A
    <2>1. n + 1 \in 1..N /\ n + 1 \in 0..N /\ (n + 1) - 1 = n
      BY <1>1
    <2>2. t[n] \in V
      BY <1>10
    <2> HIDE DEF V
    <2>3. t[n + 1] = IF n + 1 \in I THEN Append(t[n], s[n + 1]) ELSE t[n]
      BY <1>8, <2>1
    <2> QED
      BY <1>2, <2>1, <2>2, <2>3
  <1> HIDE DEF A
  <1>11. 0..N \subseteq A
    BY <1>1, <1>9, <1>10, UpTo
  <1>12. N \in A
    BY <1>1, <1>11
  <1> QED
    BY <1>7, <1>12 DEF A

\* A set of numbers that is not empty has a least one.
LEMMA Least ==
  ASSUME NEW T \in SUBSET Nat, T # {}
  PROVE  Min(T) \in T /\ \A y \in T : Min(T) <= y
  <1> DEFINE R == {ss \in Nat \X Nat : ss[1] < ss[2]}
  <1>1. IsWellFoundedOn(R, Nat)
    BY NatLessThanWellFounded DEF OpToRel
  <1>2. PICK x \in T : \A y \in T : ~(<<y, x>> \in R)
    <2> HIDE DEF R
    <2> QED
      BY <1>1, WFMin
  <1>3. ASSUME NEW y \in T PROVE x <= y
    <2>1. x \in Nat /\ y \in Nat /\ <<y, x>> \notin R
      BY <1>2
    <2>2. ~(y < x)
      BY <2>1
    <2> QED
      BY <2>1, <2>2
  <1> QED
    BY <1>3 DEF Min

\* The list without its entry i.
LEMMA RemoveFacts ==
  ASSUME NEW S, NEW s \in Seq(S), NEW i \in 1..Len(s)
  PROVE  /\ RemoveAt(s, i) \in Seq(S)
         /\ Len(RemoveAt(s, i)) = Len(s) - 1
         /\ \A k \in 1..(Len(s) - 1) : RemoveAt(s, i)[k] = s[IF k < i THEN k ELSE k + 1]
  <1> DEFINE a == SubSeq(s, 1, i - 1)
             b == SubSeq(s, i + 1, Len(s))
  <1>1. a \in Seq(S) /\ Len(a) = i - 1 /\ \A k \in 1..(i - 1) : a[k] = s[k]
    <2>1. \A k \in 1..(i - 1) : s[k] \in S
      OBVIOUS
    <2>2. /\ a \in Seq(S) /\ Len(a) = IF 1 <= i - 1 THEN (i - 1) - 1 + 1 ELSE 0
          /\ \A k \in 1..((i - 1) - 1 + 1) : a[k] = s[1 + k - 1]
      BY <2>1, SubSeqProperties
    <2> HIDE DEF a
    <2> QED
      BY <2>2
  <1>2. b \in Seq(S) /\ Len(b) = Len(s) - i /\ \A k \in 1..(Len(s) - i) : b[k] = s[i + k]
    <2>1. \A k \in (i + 1)..Len(s) : s[k] \in S
      OBVIOUS
    <2>2. /\ b \in Seq(S) /\ Len(b) = IF i + 1 <= Len(s) THEN Len(s) - (i + 1) + 1 ELSE 0
          /\ \A k \in 1..(Len(s) - (i + 1) + 1) : b[k] = s[(i + 1) + k - 1]
      BY <2>1, SubSeqProperties
    <2> HIDE DEF b
    <2> QED
      BY <2>2
  <1>3. RemoveAt(s, i) = a \o b
    BY DEF RemoveAt
  <1> HIDE DEF a, b
  <1>4. /\ a \o b \in Seq(S) /\ Len(a \o b) = Len(a) + Len(b)
        /\ \A k \in 1..(Len(a) + Len(b)) : (a \o b)[k] = IF k <= Len(a) THEN a[k] ELSE b[k - Len(a)]
    BY <1>1, <1>2, ConcatProperties
  <1>5. Len(a) + Len(b) = Len(s) - 1
    BY <1>1, <1>2
  <1>6. ASSUME NEW k \in 1..(Len(s) - 1)
        PROVE  (a \o b)[k] = s[IF k < i THEN k ELSE k + 1]
    <2>1. CASE k < i
      BY <1>1, <1>4, <1>5, <2>1
    <2>2. CASE ~(k < i)
      <3>1. k - Len(a) \in 1..(Len(s) - i) /\ i + (k - Len(a)) = k + 1 /\ ~(k <= Len(a))
        BY <1>1, <2>2
      <3> QED
        BY <1>2, <1>4, <1>5, <2>2, <3>1
    <2> QED
      BY <2>1, <2>2
  <1> QED
    BY <1>3, <1>4, <1>5, <1>6

-----------------------------------------------------------------------------
(* The walk.                                                              *)

\* What the refinement needs: the walk stands at a commit of the history, a linked one
\* inside the loop, and its summaries are a sequence.
WalkInv ==
  /\ hasKey \in [1..Commits -> BOOLEAN]
  /\ commit \in 1..(Commits + 1)
  /\ \E S : results \in Seq(S)
  /\ pc \in {"rounds", "audit", "apply"} => commit <= Commits /\ hasKey[commit]

LEMMA InitWalk == Init => WalkInv
  <1> SUFFICES ASSUME Init PROVE WalkInv
    OBVIOUS
  <1>1. results \in Seq({})
    BY DEF Init
  <1>2. QED
    BY <1>1, CalibrationAssumption DEF Init, WalkInv

\* A step appends a summary of the current commit and goes on to the next, or goes on
\* without one because the commit has no key, or changes neither.
LEMMA StepShape ==
  ASSUME WalkInv, [Next]_vars
  PROVE  /\ hasKey' = hasKey
         /\ \/ /\ pc' = "walk" /\ pc # "done" /\ pc # "failed"
               /\ commit <= Commits /\ hasKey[commit]
               /\ commit' = commit + 1
               /\ \E r : results' = Append(results, r) /\ r.commit = commit
            \/ /\ pc = "walk" /\ pc' = "walk"
               /\ commit <= Commits /\ ~hasKey[commit]
               /\ commit' = commit + 1 /\ results' = results
            \/ /\ commit' = commit /\ results' = results
               /\ \/ pc' = pc
                  \/ pc \notin {"done", "failed"} /\ pc' = "failed"
                  \/ pc = "walk" /\ pc' = "done" /\ commit > Commits
                  \/ pc \notin {"done", "failed"} /\ pc' \notin {"done", "failed"}
               /\ pc' \in {"rounds", "audit", "apply"} =>
                    \/ pc \in {"rounds", "audit", "apply"}
                    \/ commit <= Commits /\ hasKey[commit]
  <1>1. CASE Bootstrap \/ StartCommit \/ FinishWalk \/ Curate \/ Audit \/ StartApply
    BY <1>1 DEF Bootstrap, StartCommit, FinishWalk, Curate, Audit, StartApply, WalkInv
  <1>2. CASE SkipCommit
    BY <1>2 DEF SkipCommit
  <1>3. \A patches, a, s : Result(patches, a, s).commit = commit
    BY DEF Result
  <1>4. CASE NothingToApply
    BY <1>3, <1>4 DEF NothingToApply, WalkInv
  <1>5. CASE Apply
    BY <1>3, <1>5 DEF Apply, WalkInv
  <1>6. CASE AgentFails \/ FileFails
    BY <1>6 DEF AgentFails, FileFails
  <1>7. CASE UNCHANGED vars
    BY <1>7 DEF vars
  <1>8. QED
    BY <1>1, <1>2, <1>4, <1>5, <1>6, <1>7 DEF Next, Walk, Loop

LEMMA NextWalk == WalkInv /\ [Next]_vars => WalkInv'
  <1> SUFFICES ASSUME WalkInv, [Next]_vars PROVE WalkInv'
    OBVIOUS
  <1>1. PICK S : results \in Seq(S)
    BY DEF WalkInv
  <1>2. \E T : results' \in Seq(T)
    <2>1. CASE results' = results
      BY <1>1, <2>1
    <2>2. ASSUME NEW r, results' = Append(results, r) PROVE \E T : results' \in Seq(T)
      <3>1. results \in Seq(S \cup {r})
        BY <1>1
      <3>2. QED
        BY <2>2, <3>1
    <2>3. QED
      BY <2>1, <2>2, StepShape
  <1>3. QED
    BY <1>2, StepShape, CalibrationAssumption DEF WalkInv

-----------------------------------------------------------------------------
(* The refinement.                                                         *)

LEMMA HistoryIsSequence ==
  ASSUME WalkInv
  PROVE  hasKey \in Seq(BOOLEAN) /\ Len(hasKey) = Commits
  BY CalibrationAssumption DEF WalkInv

LEMMA InitRefines == Init => Promise!Init
  <1> SUFFICES ASSUME Init PROVE Promise!Init
    OBVIOUS
  <1>1. hasKey \in Seq(BOOLEAN)
    BY InitWalk, HistoryIsSequence
  <1>2. [k \in DOMAIN results |-> results[k].commit] = << >>
    BY DEF Init
  <1>3. QED
    BY <1>1, <1>2 DEF Init, Promise!Init

\* The places of the summaries grow with them.
LEMMA PlacesGrow ==
  ASSUME NEW S, NEW s \in Seq(S), NEW r
  PROVE  LET t == Append(s, r)
         IN [k \in DOMAIN t |-> t[k].commit] =
              Append([k \in DOMAIN s |-> s[k].commit], r.commit)
  OBVIOUS


LEMMA StepRefines == WalkInv /\ [Next]_vars => [Promise!Next]_(Promise!vars)
  <1> SUFFICES ASSUME WalkInv, [Next]_vars PROVE [Promise!Next]_(Promise!vars)
    OBVIOUS
  <1> DEFINE Places == [k \in DOMAIN results |-> results[k].commit]
             Outcome == IF pc = "done" THEN "ended" ELSE IF pc = "failed" THEN "failed" ELSE "walking"
  <1>1. Len(hasKey) = Commits /\ Commits \in Nat /\ commit \in 1..(Commits + 1)
    BY HistoryIsSequence, CalibrationAssumption DEF WalkInv
  <1>2. hasKey' = hasKey
    BY StepShape
  <1>3. ASSUME NEW r, pc' = "walk", pc # "done", pc # "failed", commit <= Commits, hasKey[commit],
               commit' = commit + 1, results' = Append(results, r), r.commit = commit
        PROVE  Promise!Handle
    <2>1. Places' = Append(Places, commit)
      <3>1. PICK S : results \in Seq(S)
        BY DEF WalkInv
      <3>2. QED
        BY <1>3, <3>1, PlacesGrow
    <2>2. commit' - 1 = commit /\ commit' - 1 = (commit - 1) + 1 /\ commit - 1 < Commits
      BY <1>1, <1>3
    <2>3. Outcome = "walking" /\ Outcome' = "walking"
      BY <1>3
    <2>4. QED
      BY <1>1, <1>2, <1>3, <2>1, <2>2, <2>3 DEF Promise!Handle
  <1>4. ASSUME pc = "walk", pc' = "walk", commit <= Commits, ~hasKey[commit],
               commit' = commit + 1, results' = results
        PROVE  Promise!Handle
    <2>1. commit' - 1 = commit /\ commit' - 1 = (commit - 1) + 1 /\ commit - 1 < Commits
      BY <1>1, <1>4
    <2>2. QED
      BY <1>1, <1>2, <1>4, <2>1 DEF Promise!Handle
  <1>5. ASSUME commit' = commit, results' = results, pc' = "failed", pc \notin {"done", "failed"}
        PROVE  Promise!Fail
    BY <1>2, <1>5 DEF Promise!Fail
  <1>6. ASSUME commit' = commit, results' = results, pc = "walk", pc' = "done", commit > Commits
        PROVE  Promise!End
    BY <1>1, <1>2, <1>6 DEF Promise!End
  <1>7. ASSUME commit' = commit, results' = results, Outcome' = Outcome
        PROVE  UNCHANGED Promise!vars
    BY <1>2, <1>7 DEF Promise!vars
  <1>8. CASE commit' = commit /\ results' = results
    BY <1>5, <1>6, <1>7, <1>8, StepShape DEF Promise!Next
  <1>9. QED
    BY <1>3, <1>4, <1>8, StepShape DEF Promise!Next

\* For any number of commits, any proposals, any verdicts and any failing files, the walk
\* handles the commits in order and processes those with a key once.  (That it ends is a
\* liveness property, which the run checks.)
THEOREM ImplementsWalk == Spec => Promise!Spec
  <1>1. Init => Promise!Init
    BY InitRefines
  <1>2. WalkInv /\ [Next]_vars => [Promise!Next]_(Promise!vars)
    BY StepRefines
  <1>3. QED
    BY <1>1, <1>2, InitWalk, NextWalk, PTL DEF Spec, Promise!Spec

-----------------------------------------------------------------------------
(* Types.                                                                  *)

\* The cap keeps the first shards, with their names, and bounds their sizes.
LEMMA CapFacts ==
  LET capped == EnforceShardCap(Generated)
  IN /\ capped \in Seq(Entries)
     /\ Len(capped) <= Len(Generated)
     /\ \A k \in 1..Len(capped) : capped[k].relativePath = Generated[k].relativePath /\ capped[k].path = Generated[k].path
  <1> DEFINE n == IF Len(Generated) < MaxShards THEN Len(Generated) ELSE MaxShards
             kept == SubSeq(Generated, 1, n)
             Cap(e) == [e EXCEPT !.tokens = IF @ <= MaxShardTokens THEN @ ELSE MaxShardTokens]
             capped == [i \in DOMAIN kept |-> Cap(kept[i])]
  <1>1. n \in Nat /\ n <= Len(Generated) /\ \A i \in 1..n : Generated[i] \in Entries
    BY StoreAssumption
  <1>2. kept \in Seq(Entries) /\ Len(kept) = n /\ \A i \in 1..n : kept[i] = Generated[i]
    <2> HIDE DEF n
    <2>1. /\ kept \in Seq(Entries) /\ Len(kept) = IF 1 <= n THEN n - 1 + 1 ELSE 0
          /\ \A i \in 1..(n - 1 + 1) : kept[i] = Generated[1 + i - 1]
      BY <1>1, SubSeqProperties
    <2> HIDE DEF kept
    <2> QED
      BY <1>1, <2>1
  <1>3. ASSUME NEW e \in Entries PROVE Cap(e) \in Entries /\ Cap(e).relativePath = e.relativePath /\ Cap(e).path = e.path
    BY StoreAssumption DEF Entries
  <1>4. EnforceShardCap(Generated) = capped
    BY DEF EnforceShardCap
  <1>5. DOMAIN kept = 1..n
    BY <1>2
  <1> HIDE DEF n, kept, Cap
  <1>6. capped \in [1..n -> Entries]
    BY <1>2, <1>3, <1>5
  <1>7. capped \in Seq(Entries) /\ Len(capped) = n
    BY <1>1, <1>6
  <1>8. \A k \in 1..n : capped[k].relativePath = Generated[k].relativePath /\ capped[k].path = Generated[k].path
    BY <1>2, <1>3, <1>5
  <1> QED
    BY <1>1, <1>4, <1>7, <1>8

LEMMA BuildManifestType ==
  ASSUME NEW entries \in Seq(Entries)
  PROVE  BuildManifest(entries) \in Manifests
  <1> DEFINE sizes == [i \in DOMAIN entries |-> entries[i].tokens]
  <1>1. sizes \in [1..Len(entries) -> Nat]
    <2>1. DOMAIN entries = 1..Len(entries) /\ \A i \in DOMAIN entries : entries[i] \in Entries
      OBVIOUS
    <2>2. \A e \in Entries : e.tokens \in Nat
      BY DEF Entries
    <2> QED
      BY <2>1, <2>2
  <1>2. sizes \in Seq(Nat) /\ Len(entries) \in Nat
    BY <1>1
  <1>3. TotalTokens(entries) \in Nat
    BY <1>2, SumOfNats DEF TotalTokens
  <1> QED
    BY <1>2, <1>3 DEF BuildManifest, Manifests

\* The place of the first entry with the name, or 0.
LEMMA EntryIndexFacts ==
  ASSUME manifest \in Manifests, NEW n
  PROVE  /\ EntryIndex(n) \in 0..Len(manifest.shards)
         /\ EntryIndex(n) = 0 =>
              \A k \in 1..Len(manifest.shards) : n \notin NamesOf(manifest.shards[k])
         /\ EntryIndex(n) # 0 => n \in NamesOf(manifest.shards[EntryIndex(n)])
  <1> DEFINE I == {i \in 1..Len(manifest.shards) :
                     manifest.shards[i].relativePath = n \/ manifest.shards[i].path = n}
  <1>1. EntryIndex(n) = IF I # {} THEN Min(I) ELSE 0
    BY DEF EntryIndex, SelectInSeq
  <1>2. I \in SUBSET Nat /\ Len(manifest.shards) \in Nat
    BY DEF Manifests
  <1>3. I # {} => Min(I) \in I
    <2> HIDE DEF I
    <2> QED
      BY <1>2, Least
  <1>4. CASE I = {}
    BY <1>1, <1>2, <1>4 DEF NamesOf
  <1>5. CASE I # {}
    <2>1. EntryIndex(n) \in I
      BY <1>1, <1>3, <1>5
    <2> QED
      BY <2>1, <1>2 DEF NamesOf
  <1> QED
    BY <1>4, <1>5

\* Manifests are closed under what a patch does to them.
LEMMA ManifestChanges ==
  ASSUME manifest \in Manifests, NEW p \in Patches, NEW e \in Entries
  PROVE  /\ Upsert(p, e) \in Manifests
         /\ EntryIndex(p.target) # 0 =>
              WithShards(RemoveAt(manifest.shards, EntryIndex(p.target))) \in Manifests
         /\ \A m \in Manifests : Claimed(m, p) \in Manifests
  <1> DEFINE i == EntryIndex(p.target)
             shards == manifest.shards
  <1>1. i \in 0..Len(shards) /\ shards \in Seq(Entries) /\ Len(shards) \in Nat
    BY EntryIndexFacts DEF Manifests
  <1>2. ASSUME NEW s \in Seq(Entries) PROVE WithShards(s) \in Manifests
    <2>1. Len(s) \in Nat
      OBVIOUS
    <2> HIDE DEF shards, i
    <2> QED
      BY <2>1 DEF WithShards, Manifests
  <1>3. Append(shards, e) \in Seq(Entries)
    BY <1>1, AppendProperties
  <1>4. i # 0 => i \in 1..Len(shards)
    BY <1>1
  <1>5. i # 0 => ReplaceAt(shards, i, e) \in Seq(Entries)
    BY <1>1, <1>4, ExceptSeq DEF ReplaceAt
  <1>6. i # 0 => RemoveAt(shards, i) \in Seq(Entries)
    BY <1>1, <1>4, RemoveFacts
  <1>7. ASSUME NEW m \in Manifests PROVE Claimed(m, p) \in Manifests
    BY DEF Claimed, Manifests, Patches
  <1> QED
    BY <1>2, <1>3, <1>5, <1>6, <1>7 DEF Upsert

LEMMA SerializeType ==
  ASSUME NEW path \in Names, NEW tokens \in Nat
  PROVE  Serialize(path, tokens) \in Shards \cup {Missing, Empty, Damaged}
  BY DEF Serialize, Shards

LEMMA PatchTypes ==
  ASSUME StoreTypeOK, NEW p \in Patches, ApplyOnePatch(p)
  PROVE  /\ files' \in [Files -> Shards \cup {Missing, Empty, Damaged}]
         /\ manifest' \in Manifests
         /\ applied' \in Nat /\ skipped' \in Nat
         /\ failures' \in 0..MaxFailures
  <1>1. FileOf[p.target] \in Files /\ p.target \in Names /\ p.tokens \in Nat /\ MaxFailures \in Nat
    BY StoreAssumption DEF Patches
  <1>2. MayFail => failures' \in 0..MaxFailures
    BY <1>1 DEF MayFail, StoreTypeOK
  <1>3. CASE DeleteShard(p)
    <2>1. files' \in [Files -> Shards \cup {Missing, Empty, Damaged}]
      BY <1>3 DEF DeleteShard, StoreTypeOK
    <2>2. PICK e \in Entries : EntryIndex(p.target) # 0
      <3>1. EntryIndex(p.target) # 0
        BY <1>3 DEF DeleteShard
      <3>2. [relativePath |-> p.target, path |-> p.target, tokens |-> 0] \in Entries
        BY <1>1 DEF Entries
      <3> QED
        BY <3>1, <3>2
    <2>3. WithShards(RemoveAt(manifest.shards, EntryIndex(p.target))) \in Manifests
      BY <2>2, ManifestChanges DEF StoreTypeOK
    <2>4. manifest' \in Manifests
      BY <1>3, <2>2, <2>3, ManifestChanges DEF DeleteShard, Applied, StoreTypeOK
    <2> QED
      BY <1>2, <1>3, <2>1, <2>4 DEF DeleteShard, Applied, StoreTypeOK
  <1>4. CASE PatchContent(p)
    <2>1. PICK shard \in {files[FileOf[p.target]], Fresh(p)} \ {Missing, Empty, Damaged} :
            LET tokens == IF p.operation = "append" THEN shard.tokens + p.tokens ELSE p.tokens
            IN /\ Loads(p, shard)
               /\ files' = [files EXCEPT ![FileOf[p.target]] = Serialize(shard.path, tokens)]
               /\ Applied(p, Upsert(p, [relativePath |-> p.target, path |-> shard.path,
                                        tokens |-> tokens]))
      BY <1>4 DEF PatchContent
    <2> DEFINE tokens == IF p.operation = "append" THEN shard.tokens + p.tokens ELSE p.tokens
               e == [relativePath |-> p.target, path |-> shard.path, tokens |-> tokens]
    <2>2. shard \in Shards
      <3>1. Fresh(p) \in Shards
        BY <1>1 DEF Fresh, Shards
      <3>2. files[FileOf[p.target]] \in Shards \cup {Missing, Empty, Damaged}
        BY <1>1 DEF StoreTypeOK
      <3> QED
        BY <2>1, <3>1, <3>2
    <2>3. shard.path \in Names /\ tokens \in Nat
      BY <1>1, <2>2 DEF Shards
    <2>4. e \in Entries
      BY <1>1, <2>3 DEF Entries
    <2> HIDE DEF tokens
    <2>5. Upsert(p, e) \in Manifests /\ Claimed(Upsert(p, e), p) \in Manifests
      BY <2>4, ManifestChanges DEF StoreTypeOK
    <2>6. Serialize(shard.path, tokens) \in Shards \cup {Missing, Empty, Damaged}
      BY <2>3, SerializeType
    <2>7. files' = [files EXCEPT ![FileOf[p.target]] = Serialize(shard.path, tokens)] /\ Applied(p, Upsert(p, e)) /\ Loads(p, shard)
      BY <2>1 DEF tokens
    <2>8. failures' \in 0..MaxFailures
      BY <1>2, <2>7 DEF Loads, StoreTypeOK
    <2>9. files' \in [Files -> Shards \cup {Missing, Empty, Damaged}]
      BY <1>1, <2>6, <2>7 DEF StoreTypeOK
    <2>10. manifest' \in Manifests /\ applied' \in Nat /\ skipped' \in Nat
      BY <2>5, <2>7 DEF Applied, StoreTypeOK
    <2> QED
      BY <2>8, <2>9, <2>10
  <1>5. CASE UpdateWeight(p)
    <2>1. PICK e \in Entries : TRUE
      <3>1. [relativePath |-> p.target, path |-> p.target, tokens |-> 0] \in Entries
        BY <1>1 DEF Entries
      <3> QED
        BY <3>1
    <2>2. Claimed(manifest, p) \in Manifests
      BY <2>1, ManifestChanges DEF StoreTypeOK
    <2> QED
      BY <1>2, <1>5, <2>2 DEF UpdateWeight, Applied, StoreTypeOK
  <1>6. CASE NotFound(p) \/ CannotParse(p)
    BY <1>6 DEF NotFound, CannotParse, Skipped, StoreTypeOK
  <1>7. CASE WriteFails(p)
    <2>1. files' \in [Files -> Shards \cup {Missing, Empty, Damaged}]
      BY <1>7 DEF WriteFails, StoreTypeOK
    <2> QED
      BY <1>2, <1>7, <2>1 DEF WriteFails, Skipped, StoreTypeOK
  <1> QED
    BY <1>3, <1>4, <1>5, <1>6, <1>7 DEF ApplyOnePatch

LEMMA BootstrapTypes == StoreTypeOK /\ BootstrapStep => StoreTypeOK'
  <1> SUFFICES ASSUME StoreTypeOK, BootstrapStep PROVE StoreTypeOK'
    OBVIOUS
  <1>1. CASE WriteManifest
    <2>1. unwritten' \in Seq(Entries)
      BY <1>1, CapFacts DEF WriteManifest
    <2>2. manifest' \in Manifests /\ manifestFile' \in Manifests
      BY <1>1, <2>1, BuildManifestType DEF WriteManifest
    <2> QED
      BY <1>1, <2>1, <2>2 DEF WriteManifest, StoreTypeOK, StorePCs
  <1>2. CASE WriteShard
    <2>1. CASE unwritten = <<>>
      BY <1>2, <2>1 DEF WriteShard, StoreTypeOK, StorePCs
    <2>2. CASE unwritten # <<>>
      <3> DEFINE s == Head(unwritten)
      <3>1. s \in Entries /\ Tail(unwritten) \in Seq(Entries)
        BY <2>2, HeadTailProperties DEF StoreTypeOK
      <3>2. s.path \in Names /\ s.tokens \in Nat
        BY <3>1 DEF Entries
      <3>3. Serialize(s.path, s.tokens) \in Shards \cup {Missing, Empty, Damaged}
        BY <3>2, SerializeType
      <3>4. /\ files' = [files EXCEPT ![FileOf[s.relativePath]] = Serialize(s.path, s.tokens)]
            /\ unwritten' = Tail(unwritten)
            /\ UNCHANGED <<store, manifestFile, manifest, todo, applied, skipped, failures>>
        BY <1>2, <2>2 DEF WriteShard
      <3> HIDE DEF s
      <3> QED
        BY <3>1, <3>3, <3>4 DEF StoreTypeOK
    <2> QED
      BY <2>1, <2>2
  <1> QED
    BY <1>1, <1>2 DEF BootstrapStep

LEMMA BatchTypes == StoreTypeOK /\ BatchStep => StoreTypeOK'
  <1> SUFFICES ASSUME StoreTypeOK, BatchStep PROVE StoreTypeOK'
    OBVIOUS
  <1>1. CASE ApplyPatch
    <2>1. Head(todo) \in Patches /\ Tail(todo) \in Seq(Patches)
      BY <1>1, HeadTailProperties DEF ApplyPatch, StoreTypeOK
    <2>2. /\ files' \in [Files -> Shards \cup {Missing, Empty, Damaged}]
          /\ manifest' \in Manifests /\ applied' \in Nat /\ skipped' \in Nat
          /\ failures' \in 0..MaxFailures
      BY <1>1, <2>1, PatchTypes DEF ApplyPatch
    <2> QED
      BY <1>1, <2>1, <2>2 DEF ApplyPatch, StoreTypeOK
  <1>2. CASE FinishBatch
    BY <1>2 DEF FinishBatch, StoreTypeOK, StorePCs
  <1> QED
    BY <1>1, <1>2 DEF BatchStep

LEMMA StoreFailsTypes == StoreTypeOK /\ StoreFails => StoreTypeOK'
  <1> SUFFICES ASSUME StoreTypeOK, StoreFails PROVE StoreTypeOK'
    OBVIOUS
  <1>1. MayFail => failures' \in 0..MaxFailures
    BY StoreAssumption DEF MayFail, StoreTypeOK
  <1> QED
    BY <1>1 DEF StoreFails, BootstrapFails, StartBatchFails, FinishBatchFails, StoreTypeOK, StorePCs

\* The types, with the place of the walk: a summary is written once for each commit at most,
\* the verdict answers the proposal of its round, and the store works when the walk says so.
Typed ==
  /\ TypeOK
  /\ WalkInv
  /\ Len(results) <= commit - 1
  /\ pc \in {"rounds", "apply"} => DOMAIN verdict = DOMAIN proposal
  /\ pc = "bootstrap" => store \in {"new", "writing"}
  /\ pc \in {"walk", "rounds", "audit", "done"} => store = "idle"
  /\ pc = "apply" <=> store = "applying"

\* The patches to apply are patches of the proposal.
LEMMA SelectedFacts ==
  ASSUME NEW S, proposal \in Seq(S)
  PROVE  PatchesToApply \in Seq({proposal[i] : i \in {k \in DOMAIN proposal : proposal[k].target \in ApprovedTargets}})
  <1> DEFINE I == {i \in DOMAIN proposal : proposal[i].target \in ApprovedTargets}
  <1>1. Chosen(proposal, I) \in Seq({proposal[i] : i \in I \cap DOMAIN proposal})
    BY ChosenFacts
  <1>2. I \cap DOMAIN proposal = I
    OBVIOUS
  <1> QED
    BY <1>1, <1>2 DEF PatchesToApply

LEMMA InitTyped == Init => Typed
  <1> SUFFICES ASSUME Init PROVE Typed
    OBVIOUS
  <1>1. NoManifest \in Manifests
    <2>1. <<>> \in Seq(Entries)
      OBVIOUS
    <2> QED
      BY <2>1, BuildManifestType DEF NoManifest
  <1>2. StoreTypeOK
    BY <1>1, StoreAssumption DEF Init, StoreInit, StoreTypeOK, StorePCs
  <1>3. maxRounds \in 1..3
    <2>1. PICK rounds \in RoundOptions : maxRounds = ClampRounds(rounds)
      BY DEF Init
    <2>2. rounds \in Int
      BY CalibrationAssumption
    <2> QED
      BY <2>1, <2>2 DEF ClampRounds
  <1>4. Commits \in Nat
    BY CalibrationAssumption
  <1>5. /\ proposal \in Seq(Patches) /\ verdict \in Seq(Answers) /\ selected \in Seq(Patches)
        /\ Len(results) = 0 /\ commit = 1 /\ round = 0 /\ finalPass = FALSE
    BY DEF Init
  <1>6. TypeOK
    <2>1. commit \in 1..(Commits + 1) /\ round \in 0..maxRounds /\ Len(results) <= Commits
      BY <1>3, <1>4, <1>5
    <2>2. pc \in PCs /\ hasKey \in [1..Commits -> BOOLEAN] /\ finalPass \in BOOLEAN
      BY DEF Init, PCs
    <2> QED
      BY <1>2, <1>3, <1>5, <2>1, <2>2 DEF TypeOK
  <1> QED
    BY <1>5, <1>6, InitWalk DEF Init, StoreInit, Typed

LEMMA NextTyped == Typed /\ [Next]_vars => Typed'
  <1> SUFFICES ASSUME Typed, [Next]_vars PROVE Typed'
    OBVIOUS
  <1> USE CalibrationAssumption
  <1>1. WalkInv'
    BY NextWalk DEF Typed
  <1>2. PICK S : results \in Seq(S)
    BY DEF Typed, WalkInv
  <1>3. ASSUME NEW r PROVE Len(Append(results, r)) = Len(results) + 1
    BY <1>2
  <1>4. Len(results) \in Nat /\ commit \in Nat /\ Commits \in Nat
    BY <1>2 DEF Typed, TypeOK
  <1>5. commit' \in 1..(Commits + 1)
    BY <1>1 DEF WalkInv
  <1>6. CASE Bootstrap
    <2>1. StoreTypeOK'
      BY <1>6, BootstrapTypes DEF Bootstrap, Typed, TypeOK
    <2>2. store' \in {"writing", "idle"}
      BY <1>6 DEF Bootstrap, BootstrapStep, WriteManifest, WriteShard
    <2> QED
      BY <1>1, <1>6, <2>1, <2>2 DEF Bootstrap, Typed, TypeOK, PCs, loopVars
  <1>7. CASE SkipCommit
    <2>1. StoreTypeOK'
      BY <1>7 DEF SkipCommit, storeVars, StoreTypeOK, Typed, TypeOK
    <2> QED
      BY <1>1, <1>4, <1>5, <1>7, <2>1 DEF SkipCommit, Typed, TypeOK, PCs, loopVars, storeVars
  <1>8. CASE StartCommit
    <2>1. StoreTypeOK'
      BY <1>8 DEF StartCommit, storeVars, StoreTypeOK, Typed, TypeOK
    <2>2. round' \in 0..maxRounds /\ proposal' \in Seq(Patches) /\ verdict' \in Seq(Answers)
      BY <1>8 DEF StartCommit, Typed, TypeOK
    <2> QED
      BY <1>1, <1>8, <2>1, <2>2 DEF StartCommit, Typed, TypeOK, PCs, storeVars
  <1>9. CASE FinishWalk
    <2>1. StoreTypeOK'
      BY <1>9 DEF FinishWalk, storeVars, StoreTypeOK, Typed, TypeOK
    <2> QED
      BY <1>1, <1>9, <2>1 DEF FinishWalk, Typed, TypeOK, PCs, loopVars, storeVars
  <1>10. CASE Curate
    <2>1. StoreTypeOK'
      BY <1>10 DEF Curate, storeVars, StoreTypeOK, Typed, TypeOK
    <2>2. proposal' \in Seq(Patches) /\ round' \in 0..maxRounds
      BY <1>10 DEF Curate, MoreRounds, Typed, TypeOK
    <2> QED
      BY <1>1, <1>10, <2>1, <2>2 DEF Curate, Typed, TypeOK, PCs, storeVars
  <1>11. CASE Audit
    <2>1. StoreTypeOK'
      BY <1>11 DEF Audit, storeVars, StoreTypeOK, Typed, TypeOK
    <2>2. verdict' \in Seq(Answers) /\ DOMAIN verdict' = DOMAIN proposal
      <3>1. DOMAIN proposal = 1..Len(proposal) /\ Len(proposal) \in Nat
        BY DEF Typed, TypeOK
      <3> QED
        BY <1>11, <3>1 DEF Audit
    <2> QED
      BY <1>1, <1>11, <2>1, <2>2 DEF Audit, Typed, TypeOK, PCs, storeVars
  <1>12. CASE StartApply
    <2>1. selected' \in Seq(Patches)
      <3> DEFINE T == {proposal[i] : i \in {k \in DOMAIN proposal : proposal[k].target \in ApprovedTargets}}
      <3>1. PatchesToApply \in Seq(T)
        BY SelectedFacts DEF Typed, TypeOK
      <3>2. T \subseteq Patches
        BY DEF Typed, TypeOK
      <3> HIDE DEF T
      <3> QED
        BY <1>12, <3>1, <3>2, SeqMonotonic DEF StartApply
    <2>2. StoreTypeOK'
      BY <1>12, <2>1 DEF StartApply, StartBatch, StoreTypeOK, StorePCs, Typed, TypeOK
    <2> QED
      BY <1>1, <1>12, <2>1, <2>2 DEF StartApply, StartBatch, Typed, TypeOK, PCs
  <1>13. CASE NothingToApply
    <2>1. StoreTypeOK'
      BY <1>13 DEF NothingToApply, storeVars, StoreTypeOK, Typed, TypeOK
    <2>2. Len(results') = Len(results) + 1 /\ commit' = commit + 1
      BY <1>3, <1>13 DEF NothingToApply
    <2> QED
      BY <1>1, <1>4, <1>5, <1>13, <2>1, <2>2 DEF NothingToApply, Typed, TypeOK, PCs, loopVars, storeVars
  <1>14. CASE Apply
    <2>1. StoreTypeOK'
      BY <1>14, BatchTypes DEF Apply, Typed, TypeOK
    <2>2. store' \in {"applying", "idle"}
      BY <1>14 DEF Apply, BatchStep, ApplyPatch, FinishBatch
    <2>3. CASE store' = "idle"
      <3>1. Len(results') = Len(results) + 1 /\ commit' = commit + 1 /\ pc' = "walk"
        BY <1>3, <1>14, <2>3 DEF Apply
      <3> QED
        BY <1>1, <1>4, <1>5, <1>14, <2>1, <2>3, <3>1 DEF Apply, Typed, TypeOK, PCs, loopVars
    <2>4. CASE store' = "applying"
      BY <1>1, <1>4, <1>14, <2>1, <2>4 DEF Apply, Typed, TypeOK, PCs, loopVars
    <2> QED
      BY <2>2, <2>3, <2>4
  <1>15. CASE AgentFails
    <2>1. StoreTypeOK'
      BY <1>15 DEF AgentFails, storeVars, StoreTypeOK, Typed, TypeOK
    <2> QED
      BY <1>1, <1>15, <2>1 DEF AgentFails, Typed, TypeOK, PCs, loopVars, storeVars
  <1>16. CASE FileFails
    <2>1. StoreFails /\ store' = "failed"
      BY <1>16 DEF FileFails, StoreFails, BootstrapFails, StartBatchFails, FinishBatchFails
    <2>2. StoreTypeOK'
      BY <2>1, StoreFailsTypes DEF Typed, TypeOK
    <2> QED
      BY <1>1, <1>16, <2>1, <2>2 DEF FileFails, Typed, TypeOK, PCs, loopVars
  <1>17. CASE UNCHANGED vars
    <2>1. StoreTypeOK'
      BY <1>17 DEF vars, storeVars, StoreTypeOK, Typed, TypeOK
    <2> QED
      BY <1>1, <1>17, <2>1 DEF vars, Typed, TypeOK, loopVars, storeVars
  <1> QED
    BY <1>6, <1>7, <1>8, <1>9, <1>10, <1>11, <1>12, <1>13, <1>14, <1>15, <1>16, <1>17 DEF Next, Walk, Loop

LEMMA AlwaysTyped == Spec => []Typed
  BY InitTyped, NextTyped, PTL DEF Spec

\* The state of the loop and of the store has its types: at most one summary for each commit,
\* rounds within the clamped option, and a token total that is never negative.
THEOREM TypeCorrect == Spec => []TypeOK
  <1>1. Typed => TypeOK
    BY DEF Typed
  <1> QED
    BY <1>1, AlwaysTyped, PTL

-----------------------------------------------------------------------------
(* Which shards a batch changes.                                           *)

\* The patches of the proposal whose target the verdict approves.
Picked == {proposal[i] : i \in {k \in DOMAIN proposal : proposal[k].target \in ApprovedTargets}}

\* What is applied, and what of it is still to do, was picked from the last proposal.
Selection == pc = "apply" => selected \in Seq(Picked) /\ todo \in Seq(Picked)

LEMMA NextSelection == Typed /\ Selection /\ [Next]_vars => Selection'
  <1> SUFFICES ASSUME Typed, Selection, [Next]_vars, pc' = "apply"
               PROVE  selected' \in Seq(Picked') /\ todo' \in Seq(Picked')
    BY DEF Selection
  <1>1. proposal' = proposal /\ verdict' = verdict => Picked' = Picked
    BY DEF Picked, ApprovedTargets
  <1>2. CASE StartApply
    <2>1. PatchesToApply \in Seq(Picked)
      BY SelectedFacts DEF Picked, Typed, TypeOK
    <2> QED
      BY <1>1, <1>2, <2>1 DEF StartApply, StartBatch
  <1>3. CASE Apply
    <2>1. proposal' = proposal /\ verdict' = verdict /\ selected' = selected /\ pc = "apply"
      BY <1>3 DEF Apply, loopVars
    <2>2. todo' = todo \/ (todo # <<>> /\ todo' = Tail(todo))
      BY <1>3 DEF Apply, BatchStep, ApplyPatch, FinishBatch
    <2>3. todo' \in Seq(Picked)
      BY <2>1, <2>2, HeadTailProperties DEF Selection
    <2> QED
      BY <1>1, <2>1, <2>3 DEF Selection
  <1>4. CASE UNCHANGED vars
    BY <1>1, <1>4 DEF vars, storeVars, loopVars, Selection
  <1>5. \/ StartApply \/ Apply \/ UNCHANGED vars
    BY DEF Next, Walk, Loop, Bootstrap, SkipCommit, StartCommit, FinishWalk, Curate, Audit,
           NothingToApply, AgentFails, FileFails, Typed, TypeOK
  <1> QED
    BY <1>2, <1>3, <1>4, <1>5

\* A patch changes no file but that of its target.
LEMMA OneFile ==
  ASSUME StoreTypeOK, NEW p \in Patches, ApplyOnePatch(p), NEW f \in Files, files'[f] # files[f]
  PROVE  FileOf[p.target] = f
  BY DEF ApplyOnePatch, DeleteShard, PatchContent, UpdateWeight, NotFound, CannotParse,
         WriteFails, StoreTypeOK

\* Once the shards are bootstrapped, only a patch changes a file.
LEMMA FilesChange ==
  ASSUME [Next]_vars, pc # "bootstrap", files' # files
  PROVE  pc = "apply" /\ todo # <<>> /\ ApplyOnePatch(Head(todo)) /\ selected' = selected
  <1>1. CASE Apply
    BY <1>1 DEF Apply, BatchStep, ApplyPatch, FinishBatch, loopVars
  <1>2. CASE UNCHANGED vars
    BY <1>2 DEF vars, storeVars
  <1>3. Apply \/ UNCHANGED vars
    BY DEF Next, Walk, Loop, Bootstrap, SkipCommit, StartCommit, FinishWalk, Curate, Audit,
           StartApply, StartBatch, NothingToApply, AgentFails, FileFails, BootstrapFails,
           StartBatchFails, FinishBatchFails, storeVars
  <1> QED
    BY <1>1, <1>2, <1>3

\* After the bootstrap a shard file changes only under a patch of the last proposal whose
\* target the auditor approved in that round: nothing proposed or approved earlier, for this
\* commit or another, and nothing of what failed, touches a shard.
THEOREM ApprovedChangesOnly == Spec => OnlyApprovedShardsChange
  <1>1. Init => Selection
    BY DEF Init, Selection
  <1>2. Typed /\ Selection /\ [Next]_vars =>
          [\A f \in Files :
             pc # "bootstrap" /\ files'[f] # files[f] =>
               \E i \in DOMAIN verdict :
                 /\ verdict[i] = "approved"
                 /\ FileOf[proposal[i].target] = f
                 /\ \A k \in DOMAIN selected : selected[k] \in ToSet(proposal)]_vars
    <2> SUFFICES ASSUME Typed, Selection, [Next]_vars, NEW f \in Files,
                        pc # "bootstrap", files'[f] # files[f]
                 PROVE  \E i \in DOMAIN verdict :
                          /\ verdict[i] = "approved"
                          /\ FileOf[proposal[i].target] = f
                          /\ \A k \in DOMAIN selected : selected[k] \in ToSet(proposal)
      OBVIOUS
    <2> DEFINE p == Head(todo)
    <2>1. pc = "apply" /\ todo # <<>> /\ ApplyOnePatch(p)
      BY FilesChange
    <2>2. p \in Picked /\ selected \in Seq(Picked)
      BY <2>1, HeadTailProperties DEF Selection
    <2>3. p \in Patches
      BY <2>1, HeadTailProperties DEF Typed, TypeOK, StoreTypeOK
    <2>4. FileOf[p.target] = f
      BY <2>1, <2>3, OneFile DEF Typed, TypeOK
    <2>5. Picked \subseteq ToSet(proposal)
      BY DEF Picked, ToSet
    <2>6. \A k \in DOMAIN selected : selected[k] \in ToSet(proposal)
      BY <2>2, <2>5
    <2>7. PICK i \in DOMAIN verdict : verdict[i] = "approved" /\ proposal[i].target = p.target
      <3> HIDE DEF p
      <3> QED
        BY <2>2 DEF Picked, ApprovedTargets
    <2> QED
      BY <2>4, <2>6, <2>7
  <1> QED
    BY <1>1, <1>2, NextSelection, InitTyped, NextTyped, PTL DEF Spec, OnlyApprovedShardsChange

-----------------------------------------------------------------------------
(* The token total.                                                        *)

\* What the first k patches of a batch claim together.
ClaimedBy(patches, k) == TokenDelta(SubSeq(patches, 1, k))

LEMMA ClaimFacts ==
  ASSUME NEW patches \in Seq(Patches), NEW k \in 0..Len(patches)
  PROVE  /\ ClaimedBy(patches, k) \in Int
         /\ k = 0 => ClaimedBy(patches, k) = 0
         /\ k > 0 => ClaimedBy(patches, k) = ClaimedBy(patches, k - 1) + patches[k].delta
  <1> DEFINE deltas == [i \in DOMAIN patches |-> patches[i].delta]
  <1>1. /\ Len(patches) \in Nat /\ DOMAIN patches = 1..Len(patches)
        /\ \A i \in 1..Len(patches) : patches[i] \in Patches
    OBVIOUS
  <1>2. \A i \in 1..Len(patches) : deltas[i] = patches[i].delta /\ deltas[i] \in Int
    BY <1>1 DEF Patches
  <1>3. deltas \in [1..Len(patches) -> Int]
    BY <1>1, <1>2
  <1>4. deltas \in Seq(Int) /\ Len(deltas) = Len(patches)
    BY <1>1, <1>3
  <1> HIDE DEF deltas
  <1>5. ASSUME NEW j \in 0..Len(patches)
        PROVE  ClaimedBy(patches, j) = ListSum(SubSeq(deltas, 1, j))
    <2> DEFINE some == SubSeq(patches, 1, j)
               theirs == [i \in DOMAIN some |-> some[i].delta]
    <2>1. /\ some \in Seq(Patches) /\ Len(some) = IF 1 <= j THEN j - 1 + 1 ELSE 0
          /\ \A i \in 1..(j - 1 + 1) : some[i] = patches[1 + i - 1]
      <3>1. \A i \in 1..j : patches[i] \in Patches
        BY <1>1
      <3> QED
        BY <3>1, SubSeqProperties
    <2>2. /\ SubSeq(deltas, 1, j) \in Seq(Int)
          /\ Len(SubSeq(deltas, 1, j)) = IF 1 <= j THEN j - 1 + 1 ELSE 0
          /\ \A i \in 1..(j - 1 + 1) : SubSeq(deltas, 1, j)[i] = deltas[1 + i - 1]
      <3>1. \A i \in 1..j : deltas[i] \in Int
        BY <1>2
      <3> QED
        BY <3>1, SubSeqProperties
    <2>3. Len(some) = j /\ DOMAIN some = 1..j /\ \A i \in 1..j : some[i] = patches[i]
      BY <2>1
    <2>4. Len(SubSeq(deltas, 1, j)) = j /\ \A i \in 1..j : SubSeq(deltas, 1, j)[i] = deltas[i]
      BY <2>2
    <2> HIDE DEF some
    <2>5. /\ theirs \in [1..j -> Int]
          /\ \A i \in 1..j : theirs[i] = deltas[i]
      BY <1>2, <2>3
    <2>6. theirs \in Seq(Int) /\ Len(theirs) = j
      BY <2>5
    <2> HIDE DEF theirs
    <2>7. theirs = SubSeq(deltas, 1, j)
      BY <2>2, <2>4, <2>5, <2>6, SeqEqual
    <2> QED
      BY <2>7 DEF ClaimedBy, TokenDelta, some, theirs
  <1>6. /\ ListSum(SubSeq(deltas, 1, k)) \in Int
        /\ k = 0 => ListSum(SubSeq(deltas, 1, k)) = 0
        /\ k > 0 => ListSum(SubSeq(deltas, 1, k)) = ListSum(SubSeq(deltas, 1, k - 1)) + deltas[k]
    BY <1>4, SumPrefix
  <1>7. k > 0 => k - 1 \in 0..Len(patches) /\ k \in 1..Len(patches)
    OBVIOUS
  <1> QED
    BY <1>2, <1>5, <1>6, <1>7

\* What the total is worth after the first k patches: it was base before them.
TotalAfter(patches, base, total, k) ==
  IF \E j \in 1..k : base + ClaimedBy(patches, j) < 0
  THEN total >= base + ClaimedBy(patches, k)
  ELSE total = base + ClaimedBy(patches, k)

LEMMA NextTotal ==
  ASSUME NEW patches \in Seq(Patches), NEW base \in Nat, NEW total \in Nat,
         NEW k \in 0..(Len(patches) - 1), TotalAfter(patches, base, total, k)
  PROVE  LET sum == total + patches[k + 1].delta
         IN TotalAfter(patches, base, IF sum < 0 THEN 0 ELSE sum, k + 1)
  <1> DEFINE d == patches[k + 1].delta
             sum == total + d
  <1>1. k \in 0..Len(patches) /\ k + 1 \in 1..Len(patches) /\ k + 1 \in 0..Len(patches) /\ (k + 1) - 1 = k
    OBVIOUS
  <1>2. d \in Int
    <2>1. patches[k + 1] \in Patches
      BY <1>1
    <2> QED
      BY <2>1 DEF Patches
  <1>3. /\ ClaimedBy(patches, k) \in Int /\ ClaimedBy(patches, k + 1) \in Int
        /\ ClaimedBy(patches, k + 1) = ClaimedBy(patches, k) + d
    <2>1. k + 1 > 0
      OBVIOUS
    <2>2. k + 1 > 0 => ClaimedBy(patches, k + 1) = ClaimedBy(patches, (k + 1) - 1) + patches[k + 1].delta
      BY <1>1, ClaimFacts
    <2>3. ClaimedBy(patches, k) \in Int /\ ClaimedBy(patches, k + 1) \in Int
      BY <1>1, ClaimFacts
    <2> QED
      BY <1>1, <2>1, <2>2, <2>3
  <1>4. \A j \in 1..(k + 1) : j \in 1..k \/ j = k + 1
    OBVIOUS
  <1>5. \A j \in 1..k : j \in 1..(k + 1)
    OBVIOUS
  <1> HIDE DEF d
  <1>6. CASE \E j \in 1..k : base + ClaimedBy(patches, j) < 0
    <2>1. total >= base + ClaimedBy(patches, k)
      BY <1>6 DEF TotalAfter
    <2>2. \E j \in 1..(k + 1) : base + ClaimedBy(patches, j) < 0
      BY <1>5, <1>6
    <2>3. (IF sum < 0 THEN 0 ELSE sum) >= base + ClaimedBy(patches, k + 1)
      BY <1>2, <1>3, <2>1
    <2> QED
      BY <2>2, <2>3 DEF TotalAfter, d
  <1>7. CASE ~\E j \in 1..k : base + ClaimedBy(patches, j) < 0
    <2>1. total = base + ClaimedBy(patches, k)
      BY <1>7 DEF TotalAfter
    <2>2. (\E j \in 1..(k + 1) : base + ClaimedBy(patches, j) < 0) <=> sum < 0
      <3>1. sum = base + ClaimedBy(patches, k + 1)
        BY <1>2, <1>3, <2>1
      <3>2. k + 1 \in 1..(k + 1)
        OBVIOUS
      <3> QED
        BY <1>4, <1>7, <3>1, <3>2
    <2>3. sum = base + ClaimedBy(patches, k + 1) /\ sum \in Int
      BY <1>2, <1>3, <2>1
    <2> DEFINE after == IF sum < 0 THEN 0 ELSE sum
    <2> HIDE DEF sum
    <2>4. CASE sum < 0
      <3>1. after = 0 /\ after >= base + ClaimedBy(patches, k + 1)
        BY <2>3, <2>4
      <3>2. TotalAfter(patches, base, after, k + 1)
        BY <2>2, <2>4, <3>1 DEF TotalAfter
      <3> QED
        BY <3>2 DEF sum, d
    <2>5. CASE ~(sum < 0)
      <3>1. after = base + ClaimedBy(patches, k + 1)
        BY <2>3, <2>5
      <3>2. TotalAfter(patches, base, after, k + 1)
        BY <2>2, <2>5, <3>1 DEF TotalAfter
      <3> QED
        BY <3>2 DEF sum, d
    <2> QED
      BY <2>4, <2>5
  <1> QED
    BY <1>6, <1>7

\* A patch that is not skipped adds what it claims, down to zero.
LEMMA PatchTotal ==
  ASSUME StoreTypeOK, NEW p \in Patches, ApplyOnePatch(p), skipped' = 0
  PROVE  /\ skipped = 0
         /\ manifest'.tokenEstimateTotal =
              LET sum == manifest.tokenEstimateTotal + p.delta IN IF sum < 0 THEN 0 ELSE sum
  <1>1. ~Skipped
    BY DEF Skipped, StoreTypeOK
  <1>2. ASSUME NEW m, Applied(p, m), m.tokenEstimateTotal = manifest.tokenEstimateTotal,
               DOMAIN m = DOMAIN manifest
        PROVE  /\ skipped = 0
               /\ manifest'.tokenEstimateTotal =
                    LET sum == manifest.tokenEstimateTotal + p.delta IN IF sum < 0 THEN 0 ELSE sum
    BY <1>2 DEF Applied, Claimed, StoreTypeOK, Manifests
  <1>3. ASSUME NEW shards
        PROVE  /\ WithShards(shards).tokenEstimateTotal = manifest.tokenEstimateTotal
               /\ DOMAIN WithShards(shards) = DOMAIN manifest
    BY DEF WithShards, StoreTypeOK, Manifests
  <1>4. CASE DeleteShard(p)
    BY <1>2, <1>3, <1>4 DEF DeleteShard
  <1>5. CASE PatchContent(p)
    BY <1>2, <1>3, <1>5 DEF PatchContent, Upsert
  <1>6. CASE UpdateWeight(p)
    BY <1>2, <1>6 DEF UpdateWeight
  <1> QED
    BY <1>1, <1>4, <1>5, <1>6 DEF ApplyOnePatch, NotFound, CannotParse, WriteFails

Done == Len(selected) - Len(todo)

\* What is still to do is the rest of the selection, and as long as no patch was skipped, the
\* total is what those done have made of it.
Running ==
  pc = "apply" =>
    /\ Done \in 0..Len(selected)
    /\ \A i \in 1..Len(todo) : todo[i] = selected[Done + i]
    /\ skipped = 0 =>
         TotalAfter(selected, manifestFile.tokenEstimateTotal, manifest.tokenEstimateTotal, Done)

LEMMA NextRunning == Typed /\ Running /\ [Next]_vars => Running'
  <1> SUFFICES ASSUME Typed, Running, [Next]_vars, pc' = "apply" PROVE Running'
    BY DEF Running
  <1>0. /\ selected \in Seq(Patches) /\ todo \in Seq(Patches) /\ skipped \in Nat
        /\ Len(selected) \in Nat /\ Len(todo) \in Nat
        /\ manifestFile.tokenEstimateTotal \in Nat /\ manifest.tokenEstimateTotal \in Nat
    <2>1. selected \in Seq(Patches) /\ StoreTypeOK
      BY DEF Typed, TypeOK
    <2>2. todo \in Seq(Patches) /\ skipped \in Nat /\ manifestFile \in Manifests /\ manifest \in Manifests
      BY <2>1 DEF StoreTypeOK
    <2>3. manifestFile.tokenEstimateTotal \in Nat /\ manifest.tokenEstimateTotal \in Nat
      BY <2>2 DEF Manifests
    <2> QED
      BY <2>1, <2>2, <2>3
  <1>1. CASE StartApply
    <2>1. /\ todo' = selected' /\ manifest' = manifestFile /\ manifestFile' = manifestFile
      BY <1>1 DEF StartApply, StartBatch
    <2>2. selected' \in Seq(Patches) /\ Len(selected') \in Nat
      <3>1. Typed'
        BY NextTyped
      <3> QED
        BY <3>1 DEF Typed, TypeOK
    <2>3. Done' = 0
      BY <2>1, <2>2 DEF Done
    <2>4. ClaimedBy(selected', 0) = 0
      <3>1. 0 \in 0..Len(selected')
        BY <2>2
      <3> QED
        BY <2>2, <3>1, ClaimFacts
    <2>5. TotalAfter(selected', manifestFile.tokenEstimateTotal, manifestFile.tokenEstimateTotal, 0)
      BY <1>0, <2>4 DEF TotalAfter
    <2> QED
      BY <2>1, <2>2, <2>3, <2>5 DEF Running
  <1>2. CASE Apply
    <2>1. pc = "apply" /\ selected' = selected /\ manifestFile' = manifestFile /\ ApplyPatch
      BY <1>2 DEF Apply, BatchStep, FinishBatch, ApplyPatch, loopVars
    <2> DEFINE p == Head(todo)
    <2>2. todo # <<>> /\ todo' = Tail(todo) /\ ApplyOnePatch(p)
      BY <2>1 DEF ApplyPatch
    <2>3. p \in Patches /\ p = todo[1] /\ Len(todo') = Len(todo) - 1 /\ Len(todo) > 0
          /\ \A i \in 1..Len(todo') : todo'[i] = todo[i + 1]
      BY <1>0, <2>2, HeadTailProperties
    <2>4. Done \in 0..Len(selected) /\ Done' = Done + 1 /\ Done \in 0..(Len(selected) - 1)
      BY <1>0, <2>1, <2>3 DEF Done, Running
    <2>5. ASSUME NEW i \in 1..Len(todo') PROVE todo'[i] = selected'[Done' + i]
      <3>1. i + 1 \in 1..Len(todo) /\ Done' + i = Done + (i + 1)
        BY <1>0, <2>3, <2>4
      <3> QED
        BY <2>1, <2>3, <3>1 DEF Running
    <2>6. p = selected[Done + 1]
      <3>1. 1 \in 1..Len(todo)
        BY <1>0, <2>3
      <3> QED
        BY <2>1, <2>3, <3>1 DEF Running
    <2>7. ASSUME skipped' = 0
          PROVE  TotalAfter(selected, manifestFile.tokenEstimateTotal, manifest'.tokenEstimateTotal, Done + 1)
      <3>1. /\ skipped = 0
            /\ manifest'.tokenEstimateTotal =
                 LET sum == manifest.tokenEstimateTotal + p.delta IN IF sum < 0 THEN 0 ELSE sum
        BY <2>2, <2>3, <2>7, PatchTotal DEF Typed, TypeOK
      <3>2. TotalAfter(selected, manifestFile.tokenEstimateTotal, manifest.tokenEstimateTotal, Done)
        BY <2>1, <3>1 DEF Running
      <3> HIDE DEF p
      <3> QED
        BY <1>0, <2>4, <2>6, <3>1, <3>2, NextTotal
    <2>8. Done' \in 0..Len(selected')
      BY <2>1, <2>4, <1>0
    <2> QED
      BY <2>1, <2>4, <2>5, <2>7, <2>8 DEF Running
  <1>3. CASE UNCHANGED vars
    BY <1>3 DEF vars, storeVars, loopVars, Running, Done
  <1>4. StartApply \/ Apply \/ UNCHANGED vars
    BY DEF Next, Walk, Loop, Bootstrap, SkipCommit, StartCommit, FinishWalk, Curate, Audit,
           NothingToApply, AgentFails, FileFails, Typed, TypeOK
  <1> QED
    BY <1>1, <1>2, <1>3, <1>4

\* For any batch without a skipped patch: the delta that the summary of the commit claims is
\* exactly what manifest.json's total has changed by, unless the total was cut off at zero on
\* the way; then the summary claims at most the change.
THEOREM TotalsAreClaimed == Spec => TokenTotals
  <1>1. Init => Running
    BY DEF Init, Running
  <1>2. Typed /\ Running /\ [Next]_vars =>
          [store = "applying" /\ store' = "idle" /\ skipped = 0 =>
             LET total == manifestFile.tokenEstimateTotal
                 claimed == total + results'[Len(results')].tokenDelta
                 cutOff == \E k \in DOMAIN selected : total + TokenDelta(SubSeq(selected, 1, k)) < 0
             IN IF cutOff THEN manifestFile'.tokenEstimateTotal >= claimed
                ELSE manifestFile'.tokenEstimateTotal = claimed]_vars
    <2> DEFINE total == manifestFile.tokenEstimateTotal
               claimed == total + results'[Len(results')].tokenDelta
               cutOff == \E k \in DOMAIN selected : total + TokenDelta(SubSeq(selected, 1, k)) < 0
    <2> SUFFICES ASSUME Typed, Running, [Next]_vars, store = "applying", store' = "idle", skipped = 0
                 PROVE  IF cutOff THEN manifestFile'.tokenEstimateTotal >= claimed
                        ELSE manifestFile'.tokenEstimateTotal = claimed
      OBVIOUS
    <2>1. pc = "apply"
      BY DEF Typed
    <2>2. Apply /\ FinishBatch
      BY <2>1 DEF Next, Walk, Loop, Bootstrap, SkipCommit, StartCommit, FinishWalk, Curate, Audit,
                  StartApply, NothingToApply, AgentFails, FileFails, FinishBatchFails, Apply,
                  BatchStep, ApplyPatch, vars, storeVars
    <2>3. todo = <<>> /\ manifestFile' = manifest
      BY <2>2 DEF FinishBatch
    <2>4. selected \in Seq(Patches) /\ Len(selected) \in Nat /\ DOMAIN selected = 1..Len(selected)
      BY DEF Typed, TypeOK
    <2>5. Done = Len(selected)
      BY <2>3, <2>4 DEF Done
    <2>6. TotalAfter(selected, total, manifest.tokenEstimateTotal, Len(selected))
      BY <2>1, <2>5 DEF Running
    <2>7. results'[Len(results')].tokenDelta = ClaimedBy(selected, Len(selected))
      <3>1. results' = Append(results, Result(selected, applied, skipped))
        BY <2>2 DEF Apply
      <3>2. PICK S : results \in Seq(S)
        BY DEF Typed, WalkInv
      <3>3. results'[Len(results')] = Result(selected, applied, skipped)
        BY <3>1, <3>2
      <3>4. SubSeq(selected, 1, Len(selected)) = selected
        BY <2>4, SubSeqFull
      <3>5. Result(selected, applied, skipped).tokenDelta = TokenDelta(selected)
        BY DEF Result
      <3> QED
        BY <3>3, <3>4, <3>5 DEF ClaimedBy
    <2>8. cutOff <=> \E j \in 1..Len(selected) : total + ClaimedBy(selected, j) < 0
      BY <2>4 DEF ClaimedBy
    <2> HIDE DEF total, cutOff
    <2> QED
      BY <2>3, <2>6, <2>7, <2>8 DEF TotalAfter
  <1> QED
    BY <1>1, <1>2, NextRunning, InitTyped, NextTyped, PTL DEF Spec, TokenTotals

-----------------------------------------------------------------------------
(* Entries and their files.                                                *)

\* m and q are relativePath and path of a shard of the bootstrap, or the same name.
Pair(m, q) ==
  \/ q = m
  \/ \E i \in DOMAIN Generated : Generated[i].relativePath = m /\ Generated[i].path = q

\* A shard in the file of n has path q only if it was written there.
From(n, q) == \E m \in Names : FileOf[m] = FileOf[n] /\ Pair(m, q)

Original(fs) == \A n \in Names : fs[FileOf[n]] \in Shards => From(n, fs[FileOf[n]].path)

Named(shards) == \A k \in 1..Len(shards) : From(shards[k].relativePath, shards[k].path)

\* No two entries share a plain name.
Apart(shards) ==
  \A i, k \in 1..Len(shards) :
    \A n \in NamesOf(shards[i]) \cap NamesOf(shards[k]) : Plain(n) => i = k

FileFits(fs, e) ==
  Plain(e.relativePath) =>
    fs[FileOf[e.relativePath]] \in {Empty, Damaged, [path |-> e.path, tokens |-> e.tokens]}

Filed(fs, shards) == \A k \in 1..Len(shards) : FileFits(fs, shards[k])

\* The bootstrap has written the files of so many entries.
Written == Len(manifest.shards) - Len(unwritten)

\* The inductive invariant behind EntriesHaveFiles: that of a batch, and before it that of
\* the bootstrap, whose manifest is there before the files.
StoreInv ==
  /\ Original(files)
  /\ store \in {"writing", "idle", "applying"} =>
       /\ manifest.shardCount = Len(manifest.shards)
       /\ Named(manifest.shards) /\ Apart(manifest.shards)
  /\ store = "writing" =>
       /\ manifest.shards = EnforceShardCap(Generated)
       /\ Written \in 0..Len(manifest.shards)
       /\ \A i \in 1..Len(unwritten) : unwritten[i] = manifest.shards[Written + i]
       /\ \A k \in 1..Written : FileFits(files, manifest.shards[k])
  /\ store \in {"idle", "applying"} => Filed(files, manifest.shards)
  /\ store \in {"writing", "idle"} => manifest = manifestFile

LEMMA PlainFacts ==
  ASSUME NEW n \in Names, NEW q \in Names, From(n, q), Plain(n) \/ Plain(q)
  PROVE  Pair(n, q) /\ Plain(n) /\ Plain(q)
  <1>1. PICK m \in Names : FileOf[m] = FileOf[n] /\ Pair(m, q)
    BY DEF From
  <1>2. m = n
    <2>1. CASE Plain(n)
      BY <1>1, <2>1 DEF Plain, Own
    <2>2. CASE Plain(q) /\ q = m
      BY <1>1, <2>2 DEF Plain, Own
    <2>3. CASE Plain(q) /\ q # m
      <3>1. PICK i \in DOMAIN Generated : Generated[i].relativePath = m /\ Generated[i].path = q
        BY <1>1, <2>3 DEF Pair
      <3>2. Own(m)
        BY <2>3, <3>1 DEF Plain, NamesOf
      <3> QED
        BY <1>1, <3>2 DEF Own
    <2> QED
      BY <2>1, <2>2, <2>3
  <1>3. CASE q = n
    BY <1>1, <1>2, <1>3
  <1>4. CASE q # n
    <2>1. PICK i \in DOMAIN Generated : Generated[i].relativePath = n /\ Generated[i].path = q
      BY <1>1, <1>2, <1>4 DEF Pair
    <2>2. n \in NamesOf(Generated[i]) /\ q \in NamesOf(Generated[i])
      BY <2>1 DEF NamesOf
    <2>3. \A m2 \in NamesOf(Generated[i]) : Own(m2)
      BY <2>2 DEF Plain
    <2>4. \A j \in DOMAIN Generated : n \in NamesOf(Generated[j]) \/ q \in NamesOf(Generated[j]) => j = i
      BY <2>2, GeneratedAssumption
    <2> QED
      BY <1>1, <1>2, <2>2, <2>3, <2>4 DEF Plain
  <1> QED
    BY <1>3, <1>4

\* What is done to the file of an entry does not touch the file of another.
LEMMA FitsElsewhere ==
  ASSUME NEW shards \in Seq(Entries), Apart(shards), NEW n \in Names,
         NEW i \in 1..Len(shards), n \in NamesOf(shards[i]),
         NEW k \in 1..Len(shards), k # i,
         NEW fs, NEW fs2, \A f \in Files : f # FileOf[n] => fs2[f] = fs[f],
         FileFits(fs, shards[k])
  PROVE  FileFits(fs2, shards[k])
  <1> DEFINE m == shards[k].relativePath
  <1>1. m \in Names /\ FileOf[m] \in Files
    <2>1. shards[k] \in Entries
      OBVIOUS
    <2> QED
      BY <2>1, StoreAssumption DEF Entries
  <1>2. SUFFICES ASSUME Plain(m) PROVE FileOf[m] # FileOf[n]
    BY <1>1 DEF FileFits
  <1>3. ASSUME FileOf[m] = FileOf[n] PROVE FALSE
    <2>1. m = n
      BY <1>1, <1>2, <1>3 DEF Plain, Own
    <2>2. n \in NamesOf(shards[i]) \cap NamesOf(shards[k])
      BY <2>1 DEF NamesOf
    <2> QED
      BY <1>2, <2>1, <2>2 DEF Apart
  <1> QED
    BY <1>3

\* The entry a patch writes has no plain name that the entry it replaces did not have.
LEMMA NoNewNames ==
  ASSUME NEW old \in Entries, NEW n \in NamesOf(old), NEW q \in Names, NEW fs,
         From(old.relativePath, old.path), FileFits(fs, old),
         From(n, q),
         q = n \/ (fs[FileOf[n]] \in Shards /\ q = fs[FileOf[n]].path),
         NEW x \in {n, q}, Plain(x)
  PROVE  x \in NamesOf(old)
  <1>1. SUFFICES ASSUME x = q, q # n PROVE q \in NamesOf(old)
    OBVIOUS
  <1>2. n \in Names /\ old.relativePath \in Names /\ old.path \in Names
    BY DEF NamesOf, Entries
  <1>3. Pair(n, q) /\ Plain(n)
    BY <1>1, <1>2, PlainFacts
  <1>4. CASE n = old.relativePath
    <2>1. fs[FileOf[n]] \in {Empty, Damaged, [path |-> old.path, tokens |-> old.tokens]}
      BY <1>3, <1>4 DEF FileFits
    <2>2. fs[FileOf[n]].path = old.path
      BY <1>1, <2>1, StoreAssumption
    <2> QED
      BY <1>1, <2>2 DEF NamesOf
  <1>5. CASE n # old.relativePath
    <2>1. n = old.path
      BY <1>5 DEF NamesOf
    <2>2. Pair(old.relativePath, n)
      BY <1>2, <1>3, <2>1, PlainFacts
    <2>3. PICK i \in DOMAIN Generated : Generated[i].relativePath = old.relativePath /\ Generated[i].path = n
      BY <1>5, <2>2 DEF Pair
    <2>4. PICK k \in DOMAIN Generated : Generated[k].relativePath = n /\ Generated[k].path = q
      BY <1>1, <1>3 DEF Pair
    <2>5. i = k
      BY <2>3, <2>4, GeneratedAssumption DEF NamesOf
    <2> QED
      BY <1>5, <2>3, <2>4, <2>5
  <1> QED
    BY <1>4, <1>5

\* What upsertManifestEntry keeps.
LEMMA UpsertFacts ==
  ASSUME NEW shards \in Seq(Entries), NEW fs, NEW fs2, NEW e \in Entries,
         NEW i \in 0..Len(shards),
         Named(shards), Apart(shards), Filed(fs, shards),
         i = 0 => /\ e.path = e.relativePath
                  /\ \A k \in 1..Len(shards) : e.relativePath \notin NamesOf(shards[k]),
         i # 0 => e.relativePath \in NamesOf(shards[i]),
         e.path = e.relativePath \/ /\ fs[FileOf[e.relativePath]] \in Shards
                                    /\ e.path = fs[FileOf[e.relativePath]].path,
         From(e.relativePath, e.path),
         \A f \in Files : f # FileOf[e.relativePath] => fs2[f] = fs[f],
         FileFits(fs2, e)
  PROVE  LET new == IF i = 0 THEN Append(shards, e) ELSE ReplaceAt(shards, i, e)
         IN Named(new) /\ Apart(new) /\ Filed(fs2, new)
  <1> DEFINE new == IF i = 0 THEN Append(shards, e) ELSE ReplaceAt(shards, i, e)
             at == IF i = 0 THEN Len(shards) + 1 ELSE i
             n == e.relativePath
  <1>1. /\ new \in Seq(Entries) /\ Len(new) \in Nat /\ at \in 1..Len(new) /\ new[at] = e
        /\ \A k \in 1..Len(new) : k # at => k \in 1..Len(shards) /\ new[k] = shards[k]
    <2>1. CASE i = 0
      BY <2>1, AppendProperties
    <2>2. CASE i # 0
      <3>1. i \in 1..Len(shards)
        BY <2>2
      <3> QED
        BY <2>2, <3>1, ExceptSeq DEF ReplaceAt
    <2> QED
      BY <2>1, <2>2
  <1>2. n \in Names /\ e.path \in Names /\ NamesOf(e) = {n, e.path}
    BY DEF Entries, NamesOf
  <1>3. ASSUME NEW k \in 1..Len(new), k # at, NEW x \in NamesOf(e) \cap NamesOf(shards[k]), Plain(x)
        PROVE  FALSE
    <2>1. k \in 1..Len(shards)
      BY <1>1, <1>3
    <2>2. CASE i = 0
      BY <1>2, <1>3, <2>1, <2>2
    <2>3. CASE i # 0
      <3>1. i \in 1..Len(shards) /\ at = i /\ shards[i] \in Entries /\ n \in NamesOf(shards[i])
        BY <2>3
      <3>2. FileFits(fs, shards[i]) /\ From(shards[i].relativePath, shards[i].path)
        BY <3>1 DEF Filed, Named
      <3>3. x \in NamesOf(shards[i])
        BY <1>2, <1>3, <3>1, <3>2, NoNewNames
      <3> QED
        BY <1>3, <2>1, <3>1, <3>3 DEF Apart
    <2> QED
      BY <2>2, <2>3
  <1> HIDE DEF new, at
  <1>4. Named(new)
    BY <1>1 DEF Named
  <1>5. Apart(new)
    BY <1>1, <1>3 DEF Apart
  <1>6. ASSUME NEW k \in 1..Len(new), k # at PROVE FileFits(fs2, new[k])
    <2>1. FileFits(fs, new[k])
      BY <1>1, <1>6 DEF Filed
    <2>2. n \in NamesOf(new[at])
      BY <1>1, <1>2
    <2>3. new \in Seq(Entries) /\ at \in 1..Len(new) /\ n \in Names
      BY <1>1, <1>2
    <2>4. \A f \in Files : f # FileOf[n] => fs2[f] = fs[f]
      OBVIOUS
    <2> HIDE DEF n
    <2> QED
      BY ONLY <1>5, <1>6, <2>1, <2>2, <2>3, <2>4, FitsElsewhere
  <1>7. Filed(fs2, new)
    BY <1>1, <1>6 DEF Filed
  <1> QED
    BY <1>4, <1>5, <1>7 DEF new

\* What the removal of an entry and its file keeps.
LEMMA RemoveKeeps ==
  ASSUME NEW shards \in Seq(Entries), NEW fs, NEW fs2, NEW n \in Names,
         NEW i \in 1..Len(shards), n \in NamesOf(shards[i]),
         Named(shards), Apart(shards), Filed(fs, shards),
         \A f \in Files : f # FileOf[n] => fs2[f] = fs[f]
  PROVE  LET new == RemoveAt(shards, i)
         IN Named(new) /\ Apart(new) /\ Filed(fs2, new)
  <1> DEFINE new == RemoveAt(shards, i)
             Was(k) == IF k < i THEN k ELSE k + 1
  <1>1. Len(new) = Len(shards) - 1 /\ \A k \in 1..Len(new) : new[k] = shards[Was(k)]
    BY RemoveFacts
  <1>2. \A k \in 1..Len(new) : Was(k) \in 1..Len(shards) /\ Was(k) # i
    BY <1>1
  <1>3. \A j, k \in 1..Len(new) : Was(j) = Was(k) => j = k
    BY <1>1
  <1>4. ASSUME NEW k \in 1..Len(new) PROVE FileFits(fs2, new[k])
    <2>1. PICK w \in 1..Len(shards) : w = Was(k) /\ w # i
      BY <1>2
    <2>2. FileFits(fs, shards[w]) /\ new[k] = shards[w]
      BY <1>1, <2>1 DEF Filed
    <2> HIDE DEF new, Was
    <2>3. FileFits(fs2, shards[w])
      BY <2>1, <2>2, FitsElsewhere
    <2> QED
      BY <2>2, <2>3
  <1> HIDE DEF new, Was
  <1>5. Named(new)
    BY <1>1, <1>2 DEF Named
  <1>6. Apart(new)
    BY <1>1, <1>2, <1>3 DEF Apart
  <1>7. Filed(fs2, new)
    BY <1>4 DEF Filed
  <1> QED
    BY <1>5, <1>6, <1>7 DEF new

LEMMA OriginalKept ==
  ASSUME NEW fs, NEW fs2, NEW n \in Names, Original(fs),
         \A f \in Files : f # FileOf[n] => fs2[f] = fs[f],
         fs2[FileOf[n]] \in Shards => From(n, fs2[FileOf[n]].path)
  PROVE  Original(fs2)
  <1> SUFFICES ASSUME NEW m \in Names, fs2[FileOf[m]] \in Shards
               PROVE  From(m, fs2[FileOf[m]].path)
    BY DEF Original
  <1>1. FileOf[m] \in Files
    BY StoreAssumption
  <1>2. CASE FileOf[m] = FileOf[n]
    BY <1>2 DEF From
  <1>3. CASE FileOf[m] # FileOf[n]
    BY <1>1, <1>3 DEF Original
  <1> QED
    BY <1>2, <1>3

\* What holds of the manifest in memory and the files between two patches.
Sound(fs, m) ==
  /\ Original(fs)
  /\ m.shardCount = Len(m.shards)
  /\ Named(m.shards) /\ Apart(m.shards) /\ Filed(fs, m.shards)

\* No patch, applied or skipped, with or without a failure, breaks it.
LEMMA PatchKeeps ==
  ASSUME StoreTypeOK, Sound(files, manifest), NEW p \in Patches, ApplyOnePatch(p)
  PROVE  Sound(files', manifest')
  <1> DEFINE n == p.target
             i == EntryIndex(n)
             shards == manifest.shards
  <1>1. n \in Names /\ FileOf[n] \in Files /\ p.tokens \in Nat
    BY StoreAssumption DEF Patches
  <1>2. shards \in Seq(Entries) /\ Len(shards) \in Nat /\ files \in [Files -> Shards \cup {Missing, Empty, Damaged}]
    BY DEF StoreTypeOK, Manifests
  <1>3. /\ i \in 0..Len(shards)
        /\ i = 0 => \A k \in 1..Len(shards) : n \notin NamesOf(shards[k])
        /\ i # 0 => i \in 1..Len(shards) /\ n \in NamesOf(shards[i])
    BY <1>2, EntryIndexFacts DEF StoreTypeOK
  <1>4. ASSUME NEW s, Applied(p, WithShards(s))
        PROVE  manifest'.shards = s /\ manifest'.shardCount = Len(s)
    BY <1>4 DEF Applied, Claimed, WithShards, StoreTypeOK, Manifests
  <1>5. From(n, n)
    BY <1>1 DEF From, Pair
  <1>6. CASE DeleteShard(p)
    <2>1. i # 0 /\ Applied(p, WithShards(RemoveAt(shards, i)))
      BY <1>6 DEF DeleteShard
    <2>2. files' = [files EXCEPT ![FileOf[n]] = Missing] \/ files' = files
      BY <1>6 DEF DeleteShard
    <2>3. \A f \in Files : f # FileOf[n] => files'[f] = files[f]
      BY <1>2, <2>2
    <2>4. files'[FileOf[n]] \in Shards => From(n, files'[FileOf[n]].path)
      BY <1>1, <1>2, <2>2, StoreAssumption DEF Sound, Original
    <2>5. Original(files')
      BY <1>1, <2>3, <2>4, OriginalKept DEF Sound
    <2>6. manifest'.shards = RemoveAt(shards, i) /\ manifest'.shardCount = Len(RemoveAt(shards, i))
      BY <1>4, <2>1
    <2>7. /\ Named(RemoveAt(shards, i)) /\ Apart(RemoveAt(shards, i))
          /\ Filed(files', RemoveAt(shards, i))
      <3> HIDE DEF n, i, shards
      <3>1. Named(shards) /\ Apart(shards) /\ Filed(files, shards)
        BY DEF Sound, shards
      <3> QED
        BY <1>1, <1>2, <1>3, <2>1, <2>3, <3>1, RemoveKeeps
    <2> QED
      BY <2>5, <2>6, <2>7 DEF Sound
  <1>7. CASE PatchContent(p)
    <2>1. PICK shard \in {files[FileOf[n]], Fresh(p)} \ {Missing, Empty, Damaged} :
            LET tokens == IF p.operation = "append" THEN shard.tokens + p.tokens ELSE p.tokens
            IN /\ Loads(p, shard)
               /\ files' = [files EXCEPT ![FileOf[n]] = Serialize(shard.path, tokens)]
               /\ Applied(p, Upsert(p, [relativePath |-> n, path |-> shard.path, tokens |-> tokens]))
      BY <1>7 DEF PatchContent
    <2> DEFINE tokens == IF p.operation = "append" THEN shard.tokens + p.tokens ELSE p.tokens
               e == [relativePath |-> n, path |-> shard.path, tokens |-> tokens]
               new == IF i = 0 THEN Append(shards, e) ELSE ReplaceAt(shards, i, e)
    <2>2. shard = Fresh(p) \/ (i # 0 /\ shard = files[FileOf[n]] /\ files[FileOf[n]] \in Shards)
      BY <1>1, <1>2, <2>1 DEF Loads
    <2>3. Fresh(p) = [path |-> n, tokens |-> 0]
      BY DEF Fresh
    <2>4. shard.path \in Names /\ shard.tokens \in Nat
      BY <1>1, <2>2, <2>3 DEF Shards
    <2>5. tokens \in Nat
      BY <1>1, <2>4
    <2>6. shard.path = n \/ (i # 0 /\ files[FileOf[n]] \in Shards /\ shard.path = files[FileOf[n]].path)
      BY <2>2, <2>3
    <2>7. From(n, shard.path)
      BY <1>1, <1>5, <2>6 DEF Sound, Original
    <2>8. files' = [files EXCEPT ![FileOf[n]] = Serialize(shard.path, tokens)] /\ Applied(p, Upsert(p, e))
      BY <2>1
    <2> HIDE DEF tokens
    <2>9. e \in Entries /\ e.relativePath = n /\ e.path = shard.path /\ e.tokens = tokens
      BY <1>1, <2>4, <2>5 DEF Entries
    <2>10. \A f \in Files : f # FileOf[n] => files'[f] = files[f]
      BY <1>2, <2>8
    <2>11. files'[FileOf[n]] = Serialize(shard.path, tokens)
      BY <1>1, <1>2, <2>8
    <2>12. files'[FileOf[n]] \in {Empty, Damaged, [path |-> shard.path, tokens |-> tokens]}
      BY <2>11 DEF Serialize
    <2>13. Original(files')
      <3>1. files'[FileOf[n]] \in Shards => files'[FileOf[n]].path = shard.path
        BY <2>12, StoreAssumption
      <3> QED
        BY <1>1, <2>7, <2>10, <3>1, OriginalKept DEF Sound
    <2>14. manifest'.shards = new /\ manifest'.shardCount = Len(new)
      <3>1. Upsert(p, e) = WithShards(new)
        BY DEF Upsert
      <3> QED
        BY <1>4, <2>8, <3>1
    <2>15. FileFits(files', e)
      BY <2>9, <2>12 DEF FileFits
    <2>16. Named(new) /\ Apart(new) /\ Filed(files', new)
      <3>1. Named(shards) /\ Apart(shards) /\ Filed(files, shards)
        BY DEF Sound
      <3>2. i = 0 => e.path = e.relativePath
        BY <2>6, <2>9
      <3>3. \A f \in Files : f # FileOf[e.relativePath] => files'[f] = files[f]
        BY <2>9, <2>10
      <3>4. From(e.relativePath, e.path)
        BY <2>7, <2>9
      <3>5. \/ e.path = e.relativePath
            \/ /\ files[FileOf[e.relativePath]] \in Shards
               /\ e.path = files[FileOf[e.relativePath]].path
        BY <2>6, <2>9
      <3>6. i # 0 => e.relativePath \in NamesOf(shards[i])
        BY <1>3, <2>9
      <3>7. i = 0 => \A k \in 1..Len(shards) : e.relativePath \notin NamesOf(shards[k])
        BY <1>3, <2>9
      <3>8. shards \in Seq(Entries) /\ i \in 0..Len(shards) /\ e \in Entries
        BY <1>2, <1>3, <2>9
      <3> HIDE DEF n, i, shards, e
      <3> QED
        BY ONLY <2>15, <3>1, <3>2, <3>3, <3>4, <3>5, <3>6, <3>7, <3>8, UpsertFacts
    <2> QED
      BY <2>13, <2>14, <2>16 DEF Sound
  <1>8. CASE UpdateWeight(p)
    <2>1. files' = files /\ manifest'.shards = shards /\ manifest'.shardCount = manifest.shardCount
      BY <1>8 DEF UpdateWeight, Applied, Claimed, StoreTypeOK, Manifests
    <2> QED
      BY <2>1 DEF Sound
  <1>9. CASE NotFound(p) \/ CannotParse(p)
    BY <1>9 DEF NotFound, CannotParse, Skipped
  <1>10. CASE WriteFails(p)
    <2>1. manifest' = manifest
      BY <1>10 DEF WriteFails, Skipped
    <2>2. \A f \in Files : files'[f] \in {files[f], Empty, Damaged}
      <3>1. CASE UNCHANGED files
        BY <3>1
      <3>2. ASSUME NEW torn \in {Empty, Damaged}, files' = [files EXCEPT ![FileOf[n]] = torn]
            PROVE  \A f \in Files : files'[f] \in {files[f], Empty, Damaged}
        BY <1>2, <3>2
      <3> QED
        BY <1>10, <3>1, <3>2 DEF WriteFails
    <2>3. Original(files')
      BY <2>2, StoreAssumption DEF Sound, Original
    <2>4. ASSUME NEW k \in 1..Len(shards) PROVE FileFits(files', shards[k])
      <3>1. FileOf[shards[k].relativePath] \in Files
        <4>1. shards[k] \in Entries
          BY <1>2
        <4> QED
          BY <4>1, StoreAssumption DEF Entries
      <3> QED
        BY <2>2, <3>1 DEF Sound, Filed, FileFits
    <2> QED
      BY <2>1, <2>3, <2>4 DEF Sound, Filed
  <1> QED
    BY <1>6, <1>7, <1>8, <1>9, <1>10 DEF ApplyOnePatch

\* The bootstrap, too, gives each shard names and a file of its own.
LEMMA BootstrapKeeps == StoreTypeOK /\ StoreInv /\ BootstrapStep => StoreInv'
  <1> SUFFICES ASSUME StoreTypeOK, StoreInv, BootstrapStep PROVE StoreInv'
    OBVIOUS
  <1> DEFINE capped == EnforceShardCap(Generated)
  <1>1. /\ capped \in Seq(Entries) /\ Len(capped) \in Nat /\ Len(capped) <= Len(Generated)
        /\ \A k \in 1..Len(capped) : capped[k] \in Entries /\ NamesOf(capped[k]) = NamesOf(Generated[k])
        /\ \A k \in 1..Len(capped) : k \in DOMAIN Generated
    <2>1. \A k \in 1..Len(capped) : capped[k] \in Entries
      BY CapFacts
    <2>2. Len(Generated) \in Nat /\ DOMAIN Generated = 1..Len(Generated)
      BY StoreAssumption
    <2> QED
      BY <2>1, <2>2, CapFacts DEF NamesOf
  <1>2. CASE WriteManifest
    <2>1. /\ unwritten' = capped /\ manifest'.shards = capped /\ manifest'.shardCount = Len(capped)
          /\ manifest' = manifestFile' /\ store' = "writing" /\ files' = files
      BY <1>2 DEF WriteManifest, BuildManifest
    <2>2. Written' = 0
      BY <1>1, <2>1 DEF Written
    <2>3. Named(capped)
      <3> SUFFICES ASSUME NEW k \in 1..Len(capped)
                   PROVE  From(capped[k].relativePath, capped[k].path)
        BY DEF Named
      <3>1. capped[k].relativePath = Generated[k].relativePath /\ capped[k].path = Generated[k].path
        BY CapFacts
      <3>2. capped[k].relativePath \in Names /\ k \in DOMAIN Generated
        BY <1>1 DEF Entries
      <3> QED
        BY <3>1, <3>2 DEF From, Pair
    <2>4. Apart(capped)
      <3> HIDE DEF capped
      <3> QED
        BY <1>1, GeneratedAssumption DEF Apart
    <2>5. \A k \in 1..0 : FileFits(files', manifest'.shards[k])
      OBVIOUS
    <2> QED
      BY <1>1, <2>1, <2>2, <2>3, <2>4, <2>5 DEF StoreInv
  <1>3. CASE WriteShard /\ unwritten = <<>>
    <2>1. store = "writing" /\ store' = "idle" /\ UNCHANGED <<files, manifest, manifestFile>>
      BY <1>3 DEF WriteShard
    <2>2. Written = Len(manifest.shards)
      BY <1>1, <1>3, <2>1 DEF Written, StoreInv
    <2> QED
      BY <2>1, <2>2 DEF StoreInv, Filed
  <1>4. CASE WriteShard /\ unwritten # <<>>
    <2> DEFINE s == Head(unwritten)
               n == s.relativePath
               w == Written + 1
    <2>1. /\ store = "writing" /\ store' = "writing" /\ UNCHANGED <<manifest, manifestFile>>
          /\ files' = [files EXCEPT ![FileOf[n]] = Serialize(s.path, s.tokens)]
          /\ unwritten' = Tail(unwritten)
      BY <1>4 DEF WriteShard
    <2>2. manifest.shards = capped /\ Written \in 0..Len(capped) /\ Apart(capped) /\ Named(capped)
      BY <2>1 DEF StoreInv
    <2>3. /\ Len(unwritten) \in Nat /\ Len(unwritten) > 0 /\ s = unwritten[1]
          /\ Len(Tail(unwritten)) = Len(unwritten) - 1
          /\ \A i \in 1..Len(Tail(unwritten)) : Tail(unwritten)[i] = unwritten[i + 1]
      BY <1>4, HeadTailProperties DEF StoreTypeOK
    <2>4. s = capped[w] /\ w \in 1..Len(capped) /\ Written' = w
      <3>1. 1 \in 1..Len(unwritten)
        BY <2>3
      <3>2. s = capped[w]
        BY <2>1, <2>2, <2>3, <3>1 DEF StoreInv
      <3>3. Written = Len(capped) - Len(unwritten) /\ Written' = Len(capped) - Len(unwritten')
        BY <2>1, <2>2 DEF Written
      <3>4. Len(unwritten') = Len(unwritten) - 1
        BY <2>1, <2>3
      <3>5. Len(capped) \in Nat
        BY <1>1
      <3> HIDE DEF capped, s
      <3>6. w \in 1..Len(capped) /\ Written' = w
        BY <2>2, <2>3, <3>3, <3>4, <3>5
      <3> QED
        BY <3>2, <3>6
    <2>5. /\ s \in Entries /\ n \in Names /\ s.path \in Names /\ n \in NamesOf(capped[w])
          /\ FileOf[n] \in Files
      BY <1>1, <2>4, StoreAssumption DEF Entries, NamesOf
    <2> HIDE DEF s, capped
    <2>6. files'[FileOf[n]] \in {Empty, Damaged, [path |-> s.path, tokens |-> s.tokens]}
      BY <2>1, <2>5 DEF StoreTypeOK, Serialize
    <2>7. \A f \in Files : f # FileOf[n] => files'[f] = files[f]
      BY <2>1 DEF StoreTypeOK
    <2>8. Original(files')
      <3>1. files'[FileOf[n]] \in Shards => files'[FileOf[n]].path = s.path
        BY <2>6, StoreAssumption
      <3>2. From(n, s.path)
        BY <2>2, <2>4 DEF Named
      <3> QED
        BY <2>5, <2>7, <3>1, <3>2, OriginalKept DEF StoreInv
    <2>9. ASSUME NEW k \in 1..w PROVE FileFits(files', capped[k])
      <3>1. CASE k = w
        BY <2>4, <2>6, <3>1 DEF FileFits
      <3>2. CASE k # w
        <4>1. k \in 1..Written /\ k \in 1..Len(capped)
          BY <1>1, <2>2, <2>4, <3>2
        <4>2. FileFits(files, capped[k])
          BY <2>1, <2>2, <4>1 DEF StoreInv
        <4> HIDE DEF n, w
        <4> QED
          BY <1>1, <2>2, <2>4, <2>5, <2>7, <3>2, <4>1, <4>2, FitsElsewhere
      <3> QED
        BY <3>1, <3>2
    <2>10. ASSUME NEW i \in 1..Len(unwritten') PROVE unwritten'[i] = capped[w + i]
      <3>1. i + 1 \in 1..Len(unwritten) /\ Written + (i + 1) = w + i /\ unwritten'[i] = unwritten[i + 1]
        BY <2>1, <2>2, <2>3
      <3> QED
        BY <2>1, <2>2, <3>1 DEF StoreInv
    <2>11. manifest'.shards = capped /\ manifest'.shardCount = Len(capped) /\ manifest' = manifestFile'
      BY <2>1, <2>2 DEF StoreInv
    <2>12. Written' \in 0..Len(capped)
      BY <1>1, <2>4
    <2> HIDE DEF n, w
    <2> QED
      BY <2>1, <2>2, <2>4, <2>8, <2>9, <2>10, <2>11, <2>12 DEF StoreInv, capped
  <1> QED
    BY <1>2, <1>3, <1>4 DEF BootstrapStep, WriteShard

LEMMA NextStore == Typed /\ StoreInv /\ [Next]_vars => StoreInv'
  <1> SUFFICES ASSUME Typed, StoreInv, [Next]_vars PROVE StoreInv'
    OBVIOUS
  <1>1. StoreTypeOK
    BY DEF Typed, TypeOK
  <1>2. CASE UNCHANGED storeVars
    BY <1>2 DEF storeVars, StoreInv, Written
  <1>3. CASE BootstrapStep
    BY <1>1, <1>3, BootstrapKeeps
  <1>4. CASE ApplyPatch
    <2>1. Head(todo) \in Patches
      BY <1>1, <1>4, HeadTailProperties DEF ApplyPatch, StoreTypeOK
    <2>2. store = "applying" /\ store' = "applying" /\ ApplyOnePatch(Head(todo))
      BY <1>4 DEF ApplyPatch
    <2>3. Sound(files, manifest)
      BY <2>2 DEF StoreInv, Sound
    <2>4. Sound(files', manifest')
      BY <1>1, <2>1, <2>2, <2>3, PatchKeeps
    <2> QED
      BY <2>2, <2>4 DEF StoreInv, Sound
  <1>5. CASE FinishBatch
    BY <1>5 DEF FinishBatch, StoreInv
  <1>6. CASE store = "idle" /\ store' = "applying" /\ manifest' = manifestFile /\ files' = files
    BY <1>6 DEF StoreInv
  <1>7. CASE StoreFails
    BY <1>7 DEF StoreFails, BootstrapFails, StartBatchFails, FinishBatchFails, StoreInv
  <1>8. CASE Bootstrap \/ Walk \/ AgentFails \/ FileFails \/ UNCHANGED vars
    BY <1>2, <1>3, <1>7, <1>8
       DEF Bootstrap, Walk, SkipCommit, StartCommit, FinishWalk, AgentFails, FileFails, StoreFails, vars
  <1>9. CASE Curate \/ Audit \/ NothingToApply
    BY <1>2, <1>9 DEF Curate, Audit, NothingToApply
  <1>10. CASE StartApply
    BY <1>6, <1>10 DEF StartApply, StartBatch
  <1>11. CASE Apply
    BY <1>4, <1>5, <1>11 DEF Apply, BatchStep
  <1> QED
    BY <1>8, <1>9, <1>10, <1>11 DEF Next, Loop

\* For any patches, of any batch, and whichever reads, writes and unlinks fail: between two
\* patches no two entries of the manifest share a plain name, and the file of a plain entry
\* holds what the entry says or cannot be parsed.
THEOREM EntriesAreFiled == Spec => []EntriesHaveFiles
  <1>1. Init => StoreInv
    <2> SUFFICES ASSUME Init PROVE StoreInv
      OBVIOUS
    <2>1. store = "new" /\ \A n \in Names : files[FileOf[n]] = Missing
      BY StoreAssumption DEF Init, StoreInit
    <2> QED
      BY <2>1, StoreAssumption DEF StoreInv, Original
  <1>2. Typed /\ StoreInv => EntriesHaveFiles
    <2> SUFFICES ASSUME Typed, StoreInv, store \in {"idle", "applying"}
                 PROVE  /\ manifest.shardCount = Len(manifest.shards)
                        /\ \A i \in DOMAIN manifest.shards :
                             LET e == manifest.shards[i]
                             IN Plain(e.relativePath) =>
                                  /\ files[FileOf[e.relativePath]] \in
                                       {Empty, Damaged, [path |-> e.path, tokens |-> e.tokens]}
                                  /\ \A k \in DOMAIN manifest.shards :
                                       manifest.shards[k].relativePath = e.relativePath => k = i
      BY DEF EntriesHaveFiles
    <2>1. DOMAIN manifest.shards = 1..Len(manifest.shards)
      BY DEF Typed, TypeOK, StoreTypeOK, Manifests
    <2>2. /\ manifest.shardCount = Len(manifest.shards)
          /\ Apart(manifest.shards) /\ Filed(files, manifest.shards)
      BY DEF StoreInv
    <2>3. ASSUME NEW i \in 1..Len(manifest.shards), NEW k \in 1..Len(manifest.shards),
                 Plain(manifest.shards[i].relativePath),
                 manifest.shards[k].relativePath = manifest.shards[i].relativePath
          PROVE  k = i
      BY <2>2, <2>3 DEF Apart, NamesOf
    <2> QED
      BY <2>1, <2>2, <2>3 DEF Filed, FileFits
  <1> QED
    BY <1>1, <1>2, InitTyped, NextTyped, NextStore, PTL DEF Spec
=============================================================================
