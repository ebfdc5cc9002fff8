-------------------------- MODULE WorkerJobProofs --------------------------
(***************************************************************************)
(* Proofs about WorkerJob for every repository, every tree, every job and  *)
(* whatever the agents write and answer: its types, what is calibrated     *)
(* against a commit, that the job walks its history as CommitWalk promises,*)
(* that its inputs are accounted for, that its reports refer to what is    *)
(* there, and that a completed job delivers its work.                      *)
(***************************************************************************)
EXTENDS WorkerJob, SequenceTheorems, FiniteSetTheorems, WellFoundedInduction, TLAPS

-----------------------------------------------------------------------------
(* Lists.  What a recursive function over the places of a list computes is  *)
(* proved by induction in the form of a set of numbers: the theorems of the *)
(* library take a predicate, which the provers cannot be given.             *)

LEMMA AppendFacts ==
  ASSUME NEW S, NEW s \in Seq(S), NEW x
  PROVE  /\ Append(s, x) \in Seq(S \cup {x})
         /\ DOMAIN s = 1..Len(s) /\ DOMAIN Append(s, x) = 1..(Len(s) + 1) /\ Len(s) \in Nat
         /\ \A i \in 1..Len(s) : Append(s, x)[i] = s[i]
         /\ Append(s, x)[Len(s) + 1] = x
  OBVIOUS

\* A set of numbers with 0 and with the successor of each of its members holds all.
LEMMA SetInduction ==
  ASSUME NEW A \in SUBSET Nat, 0 \in A, \A n \in A : n + 1 \in A
  PROVE  A = Nat
  <1> DEFINE R == {ss \in Nat \X Nat : ss[1] < ss[2]}
             T == Nat \ A
  <1>1. IsWellFoundedOn(R, Nat)
    BY NatLessThanWellFounded DEF OpToRel
  <1>2. SUFFICES ASSUME T # {} PROVE FALSE
    OBVIOUS
  <1>3. PICK x \in T : \A y \in T : ~(<<y, x>> \in R)
    <2>1. IsWellFoundedOn(R, Nat) /\ T \subseteq Nat /\ T # {}
      BY <1>1, <1>2
    <2> HIDE DEF R, T
    <2> QED
      BY <2>1, WFMin
  <1>4. x \in Nat /\ x # 0 /\ x - 1 \in Nat /\ x - 1 < x
    OBVIOUS
  <1>5. x - 1 \in A
    BY <1>3, <1>4
  <1>6. QED
    BY <1>3, <1>4, <1>5

\* What holds at 0 and carries over from n to n + 1 below N holds up to N.
LEMMA UpTo ==
  ASSUME NEW N \in Nat, NEW A, 0 \in A, \A n \in 0..(N - 1) : n \in A => n + 1 \in A
  PROVE  0..N \subseteq A
  <1> DEFINE B == {n \in Nat : n <= N => n \in A}
  <1>1. 0 \in B /\ B \in SUBSET Nat
    OBVIOUS
  <1>2. ASSUME NEW n \in B PROVE n + 1 \in B
    OBVIOUS
  <1> HIDE DEF B
  <1>3. B = Nat
    BY <1>1, <1>2, SetInduction
  <1>4. QED
    BY <1>3 DEF B

\* One function from V to V for each of the places 1 to N; f is their iteration on v0.
Steps(N, V) == [1..N -> [V -> V]]

Iterates(f, N, V, v0, G) ==
  f \in [0..N -> V] /\ f[0] = v0 /\ \A k \in 1..N : f[k] = G[k][f[k - 1]]

\* Iterations exist.
LEMMA Recursion ==
  ASSUME NEW V, NEW v0 \in V, NEW N \in Nat, NEW G \in Steps(N, V)
  PROVE  \E f : Iterates(f, N, V, v0, G)
  <1> USE DEF Steps, Iterates
  <1> DEFINE Good(n, f) == f \in [0..n -> V] /\ f[0] = v0 /\ \A k \in 1..n : f[k] = G[k][f[k - 1]]
             A == {n \in Nat : \E f : Good(n, f)}
  <1>1. 0 \in A
    <2>1. Good(0, [k \in 0..0 |-> v0])
      OBVIOUS
    <2> QED
      BY <2>1
  <1>2. ASSUME NEW n \in 0..(N - 1), n \in A PROVE n + 1 \in A
    <2>1. PICK f : Good(n, f)
      BY <1>2
    <2> DEFINE g == [k \in 0..(n + 1) |-> IF k = n + 1 THEN G[n + 1][f[n]] ELSE f[k]]
    <2>2. n \in 0..n /\ n + 1 \in 1..N /\ f[n] \in V
      BY <2>1
    <2>3. G[n + 1][f[n]] \in V
      BY <2>2
    <2>4. g \in [0..(n + 1) -> V]
      BY <2>1, <2>3
    <2>5. g[0] = v0
      BY <2>1
    <2>6. ASSUME NEW k \in 1..(n + 1) PROVE g[k] = G[k][g[k - 1]]
      <3>1. CASE k = n + 1
        BY <3>1
      <3>2. CASE k # n + 1
        <4>1. k \in 1..n /\ k - 1 \in 0..n /\ k - 1 # n + 1
          BY <3>2
        <4>2. g[k] = f[k] /\ g[k - 1] = f[k - 1]
          BY <4>1, <3>2
        <4> QED
          BY <2>1, <4>1, <4>2
      <3> QED
        BY <3>1, <3>2
    <2> HIDE DEF g
    <2>7. Good(n + 1, g)
      BY <2>4, <2>5, <2>6
    <2>8. n + 1 \in Nat
      OBVIOUS
    <2> HIDE DEF Good
    <2> QED
      BY <2>7, <2>8
  <1> HIDE DEF A
  <1>3. 0..N \subseteq A
    BY <1>1, <1>2, UpTo
  <1>4. N \in A
    BY <1>3
  <1> QED
    BY <1>4 DEF A

\* f holds the sums of the beginnings of s.
Totals(f, s) ==
  /\ f \in [0..Len(s) -> Int]
  /\ f[0] = 0
  /\ \A k \in 1..Len(s) : f[k] = f[k - 1] + s[k]
  /\ ListSum(s) = f[Len(s)]

\* The sums of the beginnings of a list exist, and the last is its ListSum.
LEMMA SumFacts ==
  ASSUME NEW s \in Seq(Int)
  PROVE  \E f : Totals(f, s)
  <1> DEFINE N == Len(s)
             G == [k \in 1..N |-> [v \in Int |-> v + s[k]]]
             F(f) == [k \in 0..N |-> IF k = 0 THEN 0 ELSE f[k - 1] + s[k]]
  <1>1. N \in Nat /\ \A k \in 1..N : s[k] \in Int
    OBVIOUS
  <1>2. G \in [1..N -> [Int -> Int]]
    BY <1>1
  <1>3. PICK f \in [0..N -> Int] : f[0] = 0 /\ \A k \in 1..N : f[k] = G[k][f[k - 1]]
    <2>1. 0 \in Int /\ N \in Nat /\ G \in Steps(N, Int)
      BY <1>1, <1>2 DEF Steps
    <2> HIDE DEF G, N
    <2>2. \E f : Iterates(f, N, Int, 0, G)
      BY <2>1, Recursion
    <2> QED
      BY <2>2 DEF Iterates
  <1>4. ASSUME NEW k \in 1..N PROVE f[k] = f[k - 1] + s[k]
    <2>1. k - 1 \in 0..N /\ f[k - 1] \in Int
      <3> HIDE DEF N
      <3>1. k - 1 \in 0..N
        BY <1>1
      <3> QED
        BY ONLY <3>1, f \in [0..N -> Int]
    <2>2. f[k] = G[k][f[k - 1]]
      BY <1>3
    <2> QED
      BY <2>1, <2>2
  <1>5. f = F(f)
    <2>1. \A k \in 0..N : f[k] = IF k = 0 THEN 0 ELSE f[k - 1] + s[k]
      BY <1>1, <1>3, <1>4
    <2>2. f = [k \in 0..N |-> f[k]]
      OBVIOUS
    <2> HIDE DEF N
    <2> QED
      BY <2>1, <2>2
  <1> DEFINE t == CHOOSE t : t = F(t)
  <1>6. t = F(t)
    BY <1>5
  <1>7. ListSum(s) = t[N]
    BY DEF ListSum
  <1> HIDE DEF t
  <1>8. t[0] = 0 /\ \A k \in 1..N : t[k] = t[k - 1] + s[k]
    <2>1. \A k \in 0..N : F(t)[k] = IF k = 0 THEN 0 ELSE t[k - 1] + s[k]
      OBVIOUS
    <2>2. 0 \in 0..N /\ \A k \in 1..N : k \in 0..N /\ k # 0
      BY <1>1
    <2> HIDE DEF N, F
    <2> QED
      BY <1>6, <2>1, <2>2
  <1>9. 0..N \subseteq {k \in 0..N : t[k] \in Int}
    <2>1. ASSUME NEW k \in 0..(N - 1), t[k] \in Int PROVE t[k + 1] \in Int
      <3>1. k + 1 \in 1..N /\ t[k + 1] = t[(k + 1) - 1] + s[k + 1] /\ (k + 1) - 1 = k
        BY <1>1, <1>8
      <3> QED
        BY <1>1, <2>1, <3>1
    <2> DEFINE A == {k \in 0..N : t[k] \in Int}
    <2>2. 0 \in A /\ \A k \in 0..(N - 1) : k \in A => k + 1 \in A
      BY <1>1, <1>8, <2>1
    <2> HIDE DEF A
    <2>3. 0..N \subseteq A
      BY <1>1, <2>2, UpTo
    <2> QED
      BY <2>3 DEF A
  <1>10. t \in [0..N -> Int]
    <2>1. t = [k \in 0..N |-> t[k]]
      BY <1>6
    <2> HIDE DEF N
    <2> QED
      BY <1>9, <2>1
  <1>11. Totals(t, s)
    BY <1>7, <1>8, <1>10 DEF Totals
  <1> QED
    BY <1>11

\* f holds what is chosen from the beginnings of s.
Selections(f, s, I) ==
  /\ f \in [0..Len(s) -> Seq({s[i] : i \in I \cap DOMAIN s})]
  /\ f[0] = <<>>
  /\ \A k \in 1..Len(s) : f[k] = IF k \in I THEN Append(f[k - 1], s[k]) ELSE f[k - 1]
  /\ Chosen(s, I) = f[Len(s)]

LEMMA ChosenSteps ==
  ASSUME NEW S, NEW s \in Seq(S), NEW I
  PROVE  \E f : Selections(f, s, I)
  <1> DEFINE N == Len(s)
             V == Seq({s[i] : i \in I \cap DOMAIN s})
             F(f) == [k \in 0..N |-> IF k = 0 THEN <<>> ELSE IF k \in I THEN Append(f[k - 1], s[k]) ELSE f[k - 1]]
             G == [k \in 1..N |-> [v \in V |-> IF k \in I THEN Append(v, s[k]) ELSE v]]
  <1>1. N \in Nat /\ DOMAIN s = 1..N
    OBVIOUS
  <1>2. ASSUME NEW k \in 1..N, NEW v \in V, k \in I PROVE Append(v, s[k]) \in V
    <2>1. s[k] \in {s[i] : i \in I \cap DOMAIN s}
      BY <1>1, <1>2
    <2> QED
      BY <2>1, AppendProperties
  <1>3. G \in Steps(N, V)
    BY <1>2 DEF Steps
  <1>4. PICK f \in [0..N -> V] : f[0] = <<>> /\ \A k \in 1..N : f[k] = G[k][f[k - 1]]
    <2>1. <<>> \in V
      OBVIOUS
    <2> HIDE DEF G, N, V
    <2>2. \E f : Iterates(f, N, V, <<>>, G)
      BY <1>1, <1>3, <2>1, Recursion
    <2> QED
      BY <2>2 DEF Iterates
  <1>5. f = F(f)
    <2>1. ASSUME NEW k \in 1..N PROVE f[k] = IF k \in I THEN Append(f[k - 1], s[k]) ELSE f[k - 1]
      <3>1. k - 1 \in 0..N /\ f[k - 1] \in V
        BY <1>1
      <3> HIDE DEF V
      <3> QED
        BY <1>4, <3>1
    <2>2. f = [k \in 0..N |-> f[k]]
      OBVIOUS
    <2>3. \A k \in 0..N : k = 0 \/ k \in 1..N
      BY <1>1
    <2> HIDE DEF N, V
    <2> QED
      BY <1>4, <2>1, <2>2, <2>3
  <1> DEFINE t == CHOOSE t : t = F(t)
  <1>6. t = F(t)
    BY <1>5
  <1>7. Chosen(s, I) = t[N]
    BY DEF Chosen
  <1> HIDE DEF t
  <1>8. t[0] = <<>> /\ \A k \in 1..N : t[k] = IF k \in I THEN Append(t[k - 1], s[k]) ELSE t[k - 1]
    <2>1. \A k \in 0..N : F(t)[k] = IF k = 0 THEN <<>> ELSE IF k \in I THEN Append(t[k - 1], s[k]) ELSE t[k - 1]
      OBVIOUS
    <2>2. 0 \in 0..N /\ \A k \in 1..N : k \in 0..N /\ k # 0
      BY <1>1
    <2> HIDE DEF N, F
    <2> QED
      BY <1>6, <2>1, <2>2
  <1> DEFINE A == {k \in 0..N : t[k] \in V}
  <1>9. 0 \in A
    BY <1>1, <1>8
  <1>10. ASSUME NEW n \in 0..(N - 1), n \in A PROVE n + 1 \in A
    <2>1. n + 1 \in 1..N /\ n + 1 \in 0..N /\ (n + 1) - 1 = n
      BY <1>1
    <2>2. t[n] \in V
      BY <1>10
    <2> HIDE DEF V
    <2>3. t[n + 1] = IF n + 1 \in I THEN Append(t[n], s[n + 1]) ELSE t[n]
      BY <1>8, <2>1
    <2> QED
      BY <1>2, <2>1, <2>2, <2>3
  <1> HIDE DEF A
  <1>11. 0..N \subseteq A
    BY <1>1, <1>9, <1>10, UpTo
  <1>12. t \in [0..N -> V]
    <2>1. t = [k \in 0..N |-> t[k]]
      BY <1>6
    <2>2. \A k \in 0..N : t[k] \in V
      BY <1>11 DEF A
    <2> HIDE DEF N, V
    <2> QED
      BY <2>1, <2>2
  <1>13. Selections(t, s, I)
    BY <1>7, <1>8, <1>12 DEF Selections
  <1> QED
    BY <1>13

\* What is chosen are the entries at the places, and nothing else.
LEMMA ChosenFacts ==
  ASSUME NEW S, NEW s \in Seq(S), NEW I
  PROVE  /\ Chosen(s, I) \in Seq({s[i] : i \in I \cap DOMAIN s})
         /\ ToSet(Chosen(s, I)) = {s[i] : i \in I \cap DOMAIN s}
  <1> DEFINE N == Len(s)
             T == {s[i] : i \in I \cap DOMAIN s}
  <1>1. PICK f : Selections(f, s, I)
    BY ChosenSteps
  <1>2. N \in Nat /\ DOMAIN s = 1..N
    OBVIOUS
  <1>3. f \in [0..N -> Seq(T)] /\ Chosen(s, I) = f[N] /\ f[0] = <<>>
    BY <1>1 DEF Selections
  <1>4. \A k \in 1..N : f[k] = IF k \in I THEN Append(f[k - 1], s[k]) ELSE f[k - 1]
    BY <1>1 DEF Selections
  <1> DEFINE A == {n \in 0..N : \A i \in I \cap 1..n : s[i] \in ToSet(f[n])}
  <1>5. 0 \in A
    BY <1>2
  <1>6. ASSUME NEW n \in 0..(N - 1), n \in A PROVE n + 1 \in A
    <2>1. n + 1 \in 1..N /\ n + 1 \in 0..N /\ (n + 1) - 1 = n /\ n \in 0..N
      BY <1>2
    <2>2. f[n] \in Seq(T)
      BY <1>3, <2>1
    <2>3. f[n + 1] = IF n + 1 \in I THEN Append(f[n], s[n + 1]) ELSE f[n]
      BY <1>4, <2>1
    <2>4. ToSet(f[n]) \subseteq ToSet(f[n + 1]) /\ (n + 1 \in I => s[n + 1] \in ToSet(f[n + 1]))
      <3>1. CASE n + 1 \in I
        <4>1. /\ Len(f[n]) \in Nat /\ DOMAIN f[n] = 1..Len(f[n])
              /\ DOMAIN Append(f[n], s[n + 1]) = 1..(Len(f[n]) + 1)
              /\ \A i \in 1..Len(f[n]) : Append(f[n], s[n + 1])[i] = f[n][i]
              /\ Append(f[n], s[n + 1])[Len(f[n]) + 1] = s[n + 1]
          BY <2>2, AppendFacts
        <4>2. \A i \in DOMAIN f[n] : i \in DOMAIN f[n + 1] /\ f[n + 1][i] = f[n][i]
          BY <2>3, <3>1, <4>1
        <4>3. Len(f[n]) + 1 \in DOMAIN f[n + 1] /\ f[n + 1][Len(f[n]) + 1] = s[n + 1]
          BY <2>3, <3>1, <4>1
        <4> QED
          BY <4>2, <4>3 DEF ToSet
      <3>2. CASE n + 1 \notin I
        BY <2>3, <3>2
      <3> QED
        BY <3>1, <3>2
    <2>5. \A i \in I \cap 1..(n + 1) : i \in I \cap 1..n \/ i = n + 1
      BY <2>1
    <2> QED
      BY <1>6, <2>1, <2>4, <2>5
  <1> HIDE DEF A
  <1>7. 0..N \subseteq A
    BY <1>2, <1>5, <1>6, UpTo
  <1>8. N \in A
    BY <1>2, <1>7
  <1>9. T \subseteq ToSet(Chosen(s, I))
    BY <1>2, <1>3, <1>8 DEF A
  <1>10. Chosen(s, I) \in Seq(T)
    BY <1>2, <1>3
  <1>11. ToSet(Chosen(s, I)) \subseteq T
    <2> HIDE DEF T
    <2> QED
      BY <1>10 DEF ToSet
  <1> QED
    BY <1>9, <1>10, <1>11

\* The first n places of two lists have the same entries and are chosen alike.
Agree(s, t, I, J, n) ==
  /\ Len(s) \in Nat /\ Len(t) \in Nat /\ n \in Nat /\ n <= Len(s) /\ n <= Len(t)
  /\ \A k \in 1..n : s[k] = t[k] /\ (k \in I <=> k \in J)

\* Two choices that go through the same steps are the same.
LEMMA SelectionsMatch ==
  ASSUME NEW s, NEW t, NEW I, NEW J, NEW n, Agree(s, t, I, J, n),
         NEW f, Selections(f, s, I), NEW g, Selections(g, t, J)
  PROVE  f[n] = g[n]
  <1> USE DEF Agree
  <1> DEFINE A == {k \in 0..n : f[k] = g[k]}
  <1>1. 0 \in A
    BY DEF Selections
  <1>2. ASSUME NEW k \in 0..(n - 1), k \in A PROVE k + 1 \in A
    <2>1. k + 1 \in 1..Len(s) /\ k + 1 \in 1..Len(t) /\ k + 1 \in 1..n /\ k + 1 \in 0..n /\ (k + 1) - 1 = k
      OBVIOUS
    <2>2. f[k + 1] = IF k + 1 \in I THEN Append(f[k], s[k + 1]) ELSE f[k]
      BY <2>1 DEF Selections
    <2>3. g[k + 1] = IF k + 1 \in J THEN Append(g[k], t[k + 1]) ELSE g[k]
      BY <2>1 DEF Selections
    <2>4. s[k + 1] = t[k + 1] /\ (k + 1 \in I <=> k + 1 \in J)
      BY <2>1
    <2> QED
      BY <1>2, <2>1, <2>2, <2>3, <2>4
  <1> HIDE DEF A
  <1>3. 0..n \subseteq A
    BY <1>1, <1>2, UpTo
  <1>4. n \in A
    BY <1>3
  <1> QED
    BY <1>4 DEF A

ChosenGrows(s, x, I, J) ==
  Chosen(Append(s, x), J) = IF Len(s) + 1 \in J THEN Append(Chosen(s, I), x) ELSE Chosen(s, I)

\* A list with one more entry: the choice is the old one, with the entry if its place is chosen.
LEMMA ChosenAppend ==
  ASSUME NEW S, NEW s \in Seq(S), NEW x, NEW I, NEW J, Agree(s, Append(s, x), I, J, Len(s))
  PROVE  ChosenGrows(s, x, I, J)
  <1> DEFINE t == Append(s, x)
  <1>1. /\ t \in Seq(S \cup {x}) /\ s \in Seq(S \cup {x})
        /\ Len(s) \in Nat /\ Len(t) = Len(s) + 1
        /\ \A k \in 1..Len(s) : t[k] = s[k]
        /\ t[Len(s) + 1] = x
    OBVIOUS
  <1> HIDE DEF t
  <1>2. PICK f : Selections(f, s, I)
    BY ChosenSteps
  <1>3. PICK g : Selections(g, t, J)
    BY <1>1, ChosenSteps
  <1>4. f[Len(s)] = g[Len(s)]
    <2> DEFINE n == Len(s)
    <2>1. Agree(s, t, I, J, n)
      BY DEF t
    <2> HIDE DEF n
    <2>2. f[n] = g[n]
      BY <1>2, <1>3, <2>1, SelectionsMatch
    <2> QED
      BY <2>2 DEF n
  <1>5. Len(s) + 1 \in 1..Len(t) /\ (Len(s) + 1) - 1 = Len(s)
    BY <1>1
  <1>6. g[Len(s) + 1] = IF Len(s) + 1 \in J THEN Append(g[Len(s)], t[Len(s) + 1]) ELSE g[Len(s)]
    BY <1>3, <1>5 DEF Selections
  <1>7. Chosen(s, I) = f[Len(s)] /\ Chosen(t, J) = g[Len(s) + 1]
    BY <1>1, <1>2, <1>3 DEF Selections
  <1> QED
    BY <1>1, <1>4, <1>6, <1>7 DEF t, ChosenGrows

Decreasing(s) == \A i, j \in DOMAIN s : i < j => s[i] > s[j]

\* What is chosen from a list that decreases decreases.
LEMMA ChosenDecreasing ==
  ASSUME NEW s \in Seq(Int), Decreasing(s), NEW I
  PROVE  Decreasing(Chosen(s, I))
  <1> DEFINE N == Len(s)
             T == {s[i] : i \in I \cap DOMAIN s}
  <1>1. PICK f : Selections(f, s, I)
    BY ChosenSteps
  <1> DEFINE B == {n \in 0..N : /\ Decreasing(f[n])
                                /\ \A x \in ToSet(f[n]) : \E i \in 1..n : x = s[i]}
  <1>2. N \in Nat /\ DOMAIN s = 1..N /\ \A i \in 1..N : s[i] \in Int
    OBVIOUS
  <1>3. f \in [0..N -> Seq(T)] /\ Chosen(s, I) = f[N] /\ f[0] = <<>>
    BY <1>1 DEF Selections
  <1>4. \A k \in 1..N : f[k] = IF k \in I THEN Append(f[k - 1], s[k]) ELSE f[k - 1]
    BY <1>1 DEF Selections
  <1>5. 0 \in B
    BY <1>2, <1>3 DEF Decreasing, ToSet
  <1>6. ASSUME NEW n \in 0..(N - 1), n \in B PROVE n + 1 \in B
    <2>1. n + 1 \in 1..N /\ n + 1 \in 0..N /\ (n + 1) - 1 = n /\ n \in 0..N
      BY <1>2
    <2>2. f[n] \in Seq(T)
      BY <1>3, <2>1
    <2>3. f[n + 1] = IF n + 1 \in I THEN Append(f[n], s[n + 1]) ELSE f[n]
      BY <1>4, <2>1
    <2>4. Decreasing(f[n]) /\ \A x \in ToSet(f[n]) : \E i \in 1..n : x = s[i]
      BY <1>6
    <2>5. \A i \in 1..n : i \in 1..(n + 1) /\ s[i] > s[n + 1]
      BY <1>2, <2>1 DEF Decreasing
    <2>6. CASE n + 1 \in I
      <3> DEFINE u == Append(f[n], s[n + 1])
      <3>1. /\ Len(f[n]) \in Nat /\ DOMAIN f[n] = 1..Len(f[n])
            /\ DOMAIN u = 1..(Len(f[n]) + 1)
            /\ \A i \in 1..Len(f[n]) : u[i] = f[n][i]
            /\ u[Len(f[n]) + 1] = s[n + 1]
        BY <2>2, AppendFacts
      <3> HIDE DEF u
      <3>2. \A i \in 1..Len(f[n]) : f[n][i] > s[n + 1] /\ \E k \in 1..(n + 1) : f[n][i] = s[k]
        BY <2>4, <2>5, <3>1 DEF ToSet
      <3>3. Decreasing(u)
        <4>1. ASSUME NEW i \in DOMAIN u, NEW j \in DOMAIN u, i < j PROVE u[i] > u[j]
          <5>1. i \in 1..Len(f[n])
            BY <3>1, <4>1
          <5>2. CASE j \in 1..Len(f[n])
            BY <2>4, <3>1, <4>1, <5>1, <5>2 DEF Decreasing
          <5>3. CASE j \notin 1..Len(f[n])
            <6>1. j = Len(f[n]) + 1
              BY <3>1, <5>3
            <6>2. u[j] = s[n + 1] /\ u[i] = f[n][i] /\ f[n][i] > s[n + 1]
              BY <3>1, <3>2, <5>1, <6>1
            <6> QED
              BY <6>2
          <5> QED
            BY <5>2, <5>3
        <4> QED
          BY <4>1 DEF Decreasing
      <3>4. \A x \in ToSet(u) : \E i \in 1..(n + 1) : x = s[i]
        <4>1. n + 1 \in 1..(n + 1)
          BY <2>1
        <4>2. ASSUME NEW k \in DOMAIN u PROVE \E i \in 1..(n + 1) : u[k] = s[i]
          <5>1. CASE k \in 1..Len(f[n])
            BY <3>1, <3>2, <5>1
          <5>2. CASE k \notin 1..Len(f[n])
            <6>1. k = Len(f[n]) + 1
              BY <3>1, <5>2
            <6> QED
              BY <3>1, <4>1, <6>1
          <5> QED
            BY <5>1, <5>2
        <4> QED
          BY <4>2 DEF ToSet
      <3> QED
        BY <2>1, <2>3, <2>6, <3>3, <3>4 DEF u
    <2>7. CASE n + 1 \notin I
      BY <2>1, <2>3, <2>4, <2>5, <2>7
    <2> QED
      BY <2>6, <2>7
  <1> HIDE DEF B
  <1>7. 0..N \subseteq B
    BY <1>2, <1>5, <1>6, UpTo
  <1>8. N \in B
    BY <1>2, <1>7
  <1> QED
    BY <1>3, <1>8 DEF B

-----------------------------------------------------------------------------
(* The walk.                                                               *)

LEMMA HistoryType ==
  ASSUME NEW o \in OptionSets
  PROVE  /\ DOMAIN HistoryOf(o) = 1..Tip
         /\ \A c \in 1..Tip : HistoryOf(o)[c].key \in Keys \cup {NoKey}
  BY RepositoryAssumption DEF HistoryOf, ShallowClone

LEMMA SeqDomain ==
  ASSUME NEW S, NEW s \in Seq(S)
  PROVE  /\ DOMAIN s = 1..Len(s) /\ Len(s) \in Nat
         /\ \A i \in 1..Len(s) : s[i] \in S
  OBVIOUS

\* git log lists the ancestors, newest first.
LEMMA LogFacts ==
  ASSUME NEW n \in Nat, NEW h, DOMAIN h = 1..n, NEW ref
  PROVE  /\ Log(h, ref) \in Seq(1..n)
         /\ Decreasing(Log(h, ref))
         /\ ToSet(Log(h, ref)) = Ancestors(h, ref)
  <1> DEFINE s == [c \in DOMAIN h |-> c]
             r == Reverse(s)
             I == {i \in DOMAIN r : r[i] \in Ancestors(h, ref)}
  <1>1. s \in Seq(1..n) /\ Len(s) = n
    OBVIOUS
  <1>2. r = [i \in 1..n |-> s[(n - i) + 1]]
    BY <1>1 DEF Reverse
  <1>3. \A i \in 1..n : (n - i) + 1 \in 1..n /\ s[(n - i) + 1] = (n - i) + 1
    OBVIOUS
  <1>4. r \in Seq(1..n) /\ DOMAIN r = 1..n /\ \A i \in 1..n : r[i] = (n - i) + 1
    <2>1. r = [i \in 1..n |-> (n - i) + 1]
      BY <1>2, <1>3
    <2> HIDE DEF r
    <2> QED
      BY <2>1
  <1>5. Log(h, ref) = Chosen(r, I)
    BY DEF Log
  <1> HIDE DEF r
  <1>6. r \in Seq(Int) /\ Decreasing(r)
    BY <1>4 DEF Decreasing
  <1>7. I \cap DOMAIN r = I
    OBVIOUS
  <1>8. {r[i] : i \in I} = Ancestors(h, ref)
    <2>1. ASSUME NEW c \in Ancestors(h, ref) PROVE c \in {r[i] : i \in I}
      <3>1. c \in 1..n
        BY DEF Ancestors
      <3>2. (n - c) + 1 \in 1..n /\ (n - ((n - c) + 1)) + 1 = c
        BY <3>1
      <3>3. r[(n - c) + 1] = c
        BY <1>4, <3>2
      <3> QED
        BY <1>4, <3>2, <3>3
    <2> QED
      BY <2>1
  <1>9. Ancestors(h, ref) \subseteq 1..n
    BY DEF Ancestors
  <1> HIDE DEF I
  <1>10. Chosen(r, I) \in Seq(Ancestors(h, ref)) /\ ToSet(Chosen(r, I)) = Ancestors(h, ref)
    BY <1>4, <1>7, <1>8, ChosenFacts
  <1>11. Decreasing(Chosen(r, I))
    BY <1>6, ChosenDecreasing
  <1> QED
    BY <1>5, <1>9, <1>10, <1>11, SeqMonotonic

LEMMA FirstOfFacts ==
  ASSUME NEW S, NEW s \in Seq(S), NEW n \in Nat
  PROVE  /\ FirstOf(s, n) \in Seq(S)
         /\ Len(FirstOf(s, n)) <= n /\ Len(FirstOf(s, n)) <= Len(s)
         /\ \A i \in 1..Len(FirstOf(s, n)) : FirstOf(s, n)[i] = s[i]
         /\ Len(FirstOf(s, n)) = n \/ FirstOf(s, n) = s
  <1>1. Len(s) \in Nat /\ \A i \in 1..Len(s) : s[i] \in S
    OBVIOUS
  <1>2. CASE Len(s) < n
    BY <1>1, <1>2 DEF FirstOf
  <1>3. CASE ~(Len(s) < n)
    BY <1>1, <1>3 DEF FirstOf
  <1>4. QED
    BY <1>2, <1>3

LEMMA ReverseFacts ==
  ASSUME NEW S, NEW s \in Seq(S)
  PROVE  Reverse(s) \in Seq(S) /\ Len(Reverse(s)) = Len(s) /\ ToSet(Reverse(s)) = ToSet(s)
  <1>1. \A i \in 1..Len(s) : (Len(s) - i) + 1 \in 1..Len(s) /\ (Len(s) - ((Len(s) - i) + 1)) + 1 = i
    OBVIOUS
  <1>2. Reverse(s) \in [1..Len(s) -> S] /\ \A i \in 1..Len(s) : Reverse(s)[i] = s[(Len(s) - i) + 1]
    BY <1>1 DEF Reverse
  <1>3. Reverse(s) \in Seq(S) /\ Len(Reverse(s)) = Len(s) /\ DOMAIN Reverse(s) = 1..Len(s) /\ DOMAIN s = 1..Len(s)
    BY <1>2, SeqDef
  <1>4. ToSet(Reverse(s)) \subseteq ToSet(s)
    BY <1>1, <1>2, <1>3 DEF ToSet
  <1>5. ASSUME NEW i \in 1..Len(s) PROVE s[i] \in ToSet(Reverse(s))
    <2>1. Reverse(s)[(Len(s) - i) + 1] = s[i] /\ (Len(s) - i) + 1 \in 1..Len(s)
      BY <1>1, <1>2
    <2> QED
      BY <1>3, <2>1 DEF ToSet
  <1>6. ToSet(s) \subseteq ToSet(Reverse(s))
    BY <1>3, <1>5 DEF ToSet
  <1> QED
    BY <1>3, <1>4, <1>6

\* The walk has the newest commits of the head, in either order.
LEMMA WalkCommitsFacts ==
  ASSUME NEW n \in Nat, NEW h, DOMAIN h = 1..n, NEW ref, NEW depth \in Nat, NEW order
  PROVE  /\ WalkCommits(h, ref, depth, order) \in Seq(1..n)
         /\ Len(WalkCommits(h, ref, depth, order)) <= depth
         /\ \A w \in ToSet(WalkCommits(h, ref, depth, order)), c \in Ancestors(h, ref) :
              c > w => c \in ToSet(WalkCommits(h, ref, depth, order))
  <1> DEFINE log == Log(h, ref)
             newest == FirstOf(log, depth)
             walk == WalkCommits(h, ref, depth, order)
  <1>1. log \in Seq(1..n) /\ Decreasing(log) /\ ToSet(log) = Ancestors(h, ref)
    BY LogFacts
  <1> HIDE DEF log
  <1>2. /\ newest \in Seq(1..n) /\ Len(newest) <= depth /\ Len(newest) <= Len(log)
        /\ \A i \in 1..Len(newest) : newest[i] = log[i]
        /\ Len(newest) = depth \/ newest = log
    BY <1>1, FirstOfFacts
  <1> HIDE DEF newest
  <1>3. walk \in {newest, Reverse(newest)}
    BY DEF WalkCommits, newest, log
  <1> HIDE DEF walk
  <1>4. walk \in Seq(1..n) /\ Len(walk) = Len(newest) /\ ToSet(walk) = ToSet(newest)
    BY <1>2, <1>3, ReverseFacts
  <1>5. ASSUME NEW w \in ToSet(newest), NEW c \in ToSet(log), c > w PROVE c \in ToSet(newest)
    <2>1. DOMAIN newest = 1..Len(newest) /\ DOMAIN log = 1..Len(log) /\ Len(newest) \in Nat /\ Len(log) \in Nat
      BY <1>1, <1>2
    <2>2. PICK i \in 1..Len(newest) : w = newest[i]
      BY <2>1 DEF ToSet
    <2>3. PICK j \in 1..Len(log) : c = log[j]
      BY <2>1 DEF ToSet
    <2>4. i \in 1..Len(log) /\ w = log[i]
      <3>1. Len(newest) <= Len(log) /\ newest[i] = log[i]
        BY <1>2
      <3>2. i \in 1..Len(log)
        BY <2>1, <3>1
      <3> QED
        BY <2>2, <3>1, <3>2
    <2>5. log[i] \in 1..n /\ log[j] \in 1..n
      BY <1>1, <2>1, <2>3, <2>4
    <2>6. log[j] > log[i]
      BY <1>5, <2>3, <2>4
    <2>7. ~(i < j)
      <3>1. i \in DOMAIN log /\ j \in DOMAIN log
        BY <2>1, <2>4
      <3>2. i < j => log[i] > log[j]
        BY <1>1, <3>1 DEF Decreasing
      <3> QED
        BY <2>5, <2>6, <3>2
    <2>8. j \in 1..Len(newest)
      BY <2>1, <2>7
    <2> QED
      BY <1>2, <2>1, <2>3, <2>8 DEF ToSet
  <1> QED
    BY <1>1, <1>2, <1>4, <1>5 DEF walk

\* The walk of a job is a sequence of commits of the repository, each with its key; they
\* are the newest.
LEMMA WalkType ==
  ASSUME options \in OptionSets
  PROVE  /\ Len(Walk) \in Nat /\ DOMAIN Walk = 1..Len(Walk)
         /\ \A i \in 1..Len(Walk) :
              /\ Walk[i].commit \in 1..Tip
              /\ Walk[i].key \in Keys \cup {NoKey}
              /\ Walk[i].changed \subseteq Paths
         /\ Len(Walk) <= options.depth
         /\ \A i \in 1..Len(Walk) : \A c \in Ancestors(HistoryOf(options), options.head) :
              c > Walk[i].commit => \E j \in DOMAIN Walk : Walk[j].commit = c
  <1> DEFINE history == HistoryOf(options)
             walk == WalkCommits(history, options.head, options.depth, options.order)
  <1>1. Tip \in Nat /\ DOMAIN history = 1..Tip /\ options.depth \in Nat
    BY HistoryType, JobAssumption, RepositoryAssumption
  <1>2. /\ walk \in Seq(1..Tip) /\ Len(walk) <= options.depth
        /\ \A w \in ToSet(walk), c \in Ancestors(history, options.head) : c > w => c \in ToSet(walk)
    <2> HIDE DEF history
    <2> QED
      BY <1>1, WalkCommitsFacts
  <1>3. Walk = [i \in DOMAIN walk |->
                  [commit |-> walk[i],
                   key |-> ExtractJiraKey(history[walk[i]], options.sources, BranchKey),
                   changed |-> ChangedPaths(history, walk[i])]]
    BY DEF Walk, Enriched
  <1>4. DOMAIN walk = 1..Len(walk) /\ Len(walk) \in Nat
    BY <1>2, SeqDomain
  <1>5. DOMAIN Walk = 1..Len(walk)
    BY <1>3, <1>4
  <1>6. Len(Walk) = Len(walk)
    <2>1. Walk \in [1..Len(walk) -> {Walk[i] : i \in 1..Len(walk)}]
      BY <1>3, <1>5
    <2>2. QED
      BY <1>4, <2>1, SeqDef
  <1>7. ASSUME NEW i \in 1..Len(walk)
        PROVE  /\ Walk[i].commit \in 1..Tip
               /\ Walk[i].key \in Keys \cup {NoKey}
               /\ Walk[i].changed \subseteq Paths
    <2>1. walk[i] \in 1..Tip
      BY <1>2, SeqDomain
    <2>2. Walk[i].commit = walk[i] /\ Walk[i].changed = ChangedPaths(history, walk[i])
      BY <1>3, <1>4
    <2>3. Walk[i].key = ExtractJiraKey(history[walk[i]], options.sources, BranchKey)
      BY <1>3, <1>4
    <2>4. history[walk[i]].key \in Keys \cup {NoKey}
      BY <2>1, HistoryType
    <2>5. ExtractJiraKey(history[walk[i]], options.sources, BranchKey) \in Keys \cup {NoKey}
      BY <2>4, JobAssumption DEF ExtractJiraKey
    <2>6. ChangedPaths(history, walk[i]) \subseteq Paths
      BY DEF ChangedPaths
    <2>7. QED
      BY <2>1, <2>2, <2>3, <2>5, <2>6
  <1>8. ASSUME NEW i \in 1..Len(walk), NEW c \in Ancestors(history, options.head), c > Walk[i].commit
        PROVE  \E j \in DOMAIN Walk : Walk[j].commit = c
    <2>1. \A j \in 1..Len(walk) : Walk[j].commit = walk[j]
      BY <1>3, <1>4
    <2>2. walk[i] \in ToSet(walk) /\ c > walk[i]
      BY <1>4, <1>8, <2>1 DEF ToSet
    <2>3. c \in ToSet(walk)
      BY <1>2, <2>2
    <2>4. PICK j \in 1..Len(walk) : c = walk[j]
      BY <1>4, <2>3 DEF ToSet
    <2> QED
      BY <1>5, <2>1, <2>4
  <1>9. QED
    BY <1>2, <1>4, <1>5, <1>6, <1>7, <1>8

-----------------------------------------------------------------------------
(* The inductive invariant: whose commit every spec in the repository, in  *)
(* the workspace and under calibration describes.                          *)

Probing == {"prober", "curator", "auditor", "apply"}

WithKey == Probing \cup {"issue", "historian", "calibrator"}

\* An older spec of key k may be of commit a.
Known(k, a) ==
  \/ a = 0 /\ k \in options.oldSpecs
  \/ \E j \in DOMAIN records : records[j].key = k /\ records[j].commit = a

Shape ==
  /\ options \in OptionSets
  /\ next \in Nat
  /\ \E S : records \in Seq(S)
  /\ DOMAIN specs = Keys /\ DOMAIN inRepo = Keys
  /\ "about" \in DOMAIN current

AtKey == pc \in WithKey => HasCommit /\ Key # NoKey

Explained(k, spec) ==
  spec # Nothing => Known(k, spec.about) \/ (k = Key /\ spec.about = Commit)

FilesExplained == \A k \in Keys : Explained(k, specs[k]) /\ Explained(k, inRepo[k])

MockWritten ==
  options.mock /\ pc = "calibrator" => specs[Key] # Nothing /\ specs[Key].about = Commit

CurrentExplained ==
  pc \in Probing =>
    IF options.mock THEN current.about = Commit
    ELSE current.about \in {Commit, Nothing} \/ Known(Key, current.about)

AboutInv ==
  /\ Shape
  /\ AtKey
  /\ FilesExplained
  /\ MockWritten
  /\ CurrentExplained
  /\ SpecsDescribeTheirCommit

LEMMA InitAbout == Init => AboutInv
  <1> SUFFICES ASSUME Init PROVE AboutInv
    OBVIOUS
  <1>1. records = <<>> /\ records \in Seq({})
    BY DEF Init
  <1>2. Shape /\ AtKey /\ MockWritten /\ CurrentExplained
    BY <1>1 DEF Init, Shape, AtKey, MockWritten, CurrentExplained, NoCommit, WithKey, Probing
  <1>3. FilesExplained
    BY DEF Init, FilesExplained, Explained, Known, OldSpec
  <1>4. SpecsDescribeTheirCommit
    BY <1>1 DEF SpecsDescribeTheirCommit
  <1>5. QED
    BY <1>2, <1>3, <1>4 DEF AboutInv

\* A job at a commit with a key has a key of Keys, and describes a commit in FeatureSpecs.
LEMMA KeyType ==
  ASSUME AboutInv, pc \in WithKey
  PROVE  Key \in Keys /\ MockSpec \in FeatureSpecs
  <1>1. next + 1 \in 1..Len(Walk) /\ options \in OptionSets
    BY WalkType DEF AboutInv, Shape, AtKey, HasCommit
  <1>2. /\ Walk[next + 1].commit \in 1..Tip
        /\ Walk[next + 1].key \in Keys \cup {NoKey}
        /\ Walk[next + 1].changed \subseteq Paths
    BY <1>1, WalkType
  <1>3. Key \in Keys
    BY <1>2 DEF AboutInv, AtKey, Key
  <1>4. MockSpec \in FeatureSpecs
    BY <1>2, RepositoryAssumption DEF MockSpec, FeatureSpecs, Commit, Changed
  <1>5. QED
    BY <1>3, <1>4

-----------------------------------------------------------------------------
(* The steps.                                                              *)

\* A step that leaves the specs, the calibration and the records alone.
LEMMA QuietStep ==
  ASSUME AboutInv,
         UNCHANGED <<options, next, records, specs, inRepo, current>>,
         pc' \in WithKey => HasCommit /\ Key # NoKey,
         pc' = "calibrator" => pc = "calibrator",
         pc' \in Probing => pc \in Probing
  PROVE  AboutInv'
  <1>1. Walk' = Walk /\ Key' = Key /\ Commit' = Commit /\ HasCommit' = HasCommit
    BY DEF Walk, Key, Commit, HasCommit
  <1>2. \A k, a : Known(k, a)' = Known(k, a)
    BY DEF Known
  <1>3. Shape'
    BY DEF AboutInv, Shape
  <1>4. AtKey'
    BY <1>1 DEF AtKey
  <1>5. FilesExplained'
    BY <1>1, <1>2 DEF AboutInv, FilesExplained, Explained
  <1>6. MockWritten'
    BY <1>1 DEF AboutInv, MockWritten
  <1>7. CurrentExplained'
    BY <1>1, <1>2 DEF AboutInv, CurrentExplained
  <1>8. SpecsDescribeTheirCommit'
    BY DEF AboutInv, SpecsDescribeTheirCommit
  <1>9. QED
    BY <1>3, <1>4, <1>5, <1>6, <1>7, <1>8 DEF AboutInv

\* The historian: what becomes the spec of the key was there or is of this commit.
LEMMA HistorianStep ==
  ASSUME AboutInv, RunHistorian
  PROVE  AboutInv'
  <1>1. /\ pc = "historian" /\ pc' = "calibrator"
        /\ UNCHANGED <<options, next, records, current>>
    BY DEF RunHistorian, Goto, walkVars
  <1>2. Key \in Keys /\ MockSpec # Nothing /\ MockSpec.about = Commit
    <2>1. Key \in Keys /\ MockSpec \in FeatureSpecs
      BY <1>1, KeyType DEF WithKey
    <2>2. MockSpec.about = Commit
      BY DEF MockSpec
    <2>3. QED
      BY <2>1, <2>2, NothingAssumption
  <1>3. Walk' = Walk /\ Key' = Key /\ Commit' = Commit /\ HasCommit' = HasCommit
    BY <1>1 DEF Walk, Key, Commit, HasCommit
  <1>4. \A k, a : Known(k, a)' = Known(k, a)
    BY <1>1 DEF Known
  <1>5. DOMAIN specs = Keys /\ DOMAIN inRepo = Keys
    BY DEF AboutInv, Shape
  <1>6. /\ DOMAIN specs' = Keys /\ DOMAIN inRepo' = Keys
        /\ \A k \in Keys \ {Key} : specs'[k] = specs[k] /\ inRepo'[k] = inRepo[k]
        /\ inRepo'[Key] \in {inRepo[Key], Nothing} \/ inRepo'[Key].about = Commit
        /\ specs'[Key] \in {specs[Key], inRepo'[Key], Nothing} \/ specs'[Key].about = Commit
        /\ options.mock => specs'[Key] = MockSpec
    <2>1. CASE options.mock
      <3>1. specs' = [specs EXCEPT ![Key] = MockSpec] /\ inRepo' = inRepo
        BY <2>1 DEF RunHistorian
      <3>2. QED
        BY <1>2, <1>5, <3>1
    <2>2. CASE ~options.mock
      <3>1. PICK wrote, answer \in AgentSpecs :
              /\ inRepo' = IF wrote = Nothing THEN inRepo ELSE [inRepo EXCEPT ![Key] = wrote]
              /\ specs' = [specs EXCEPT ![Key] = ResolveTextArtifact(@, inRepo'[Key], answer)]
        BY <2>2 DEF RunHistorian
      <3>2. /\ wrote = Nothing \/ wrote.about = Commit
            /\ answer = Nothing \/ answer.about = Commit
        BY DEF AgentSpecs
      <3>3. specs'[Key] = ResolveTextArtifact(specs[Key], inRepo'[Key], answer)
        BY <1>2, <1>5, <3>1
      <3>4. specs'[Key] \in {specs[Key], inRepo'[Key], answer}
        BY <3>3 DEF ResolveTextArtifact
      <3>5. inRepo'[Key] = IF wrote = Nothing THEN inRepo[Key] ELSE wrote
        BY <1>2, <1>5, <3>1
      <3>6. /\ DOMAIN specs' = Keys /\ DOMAIN inRepo' = Keys
            /\ \A k \in Keys \ {Key} : specs'[k] = specs[k] /\ inRepo'[k] = inRepo[k]
        BY <1>5, <3>1
      <3>7. QED
        BY <2>2, <3>2, <3>4, <3>5, <3>6
    <2>3. QED
      BY <2>1, <2>2
  <1>7. Shape'
    BY <1>1, <1>6 DEF AboutInv, Shape
  <1>8. AtKey'
    BY <1>1, <1>3 DEF AboutInv, AtKey, WithKey
  <1>9. FilesExplained'
    <2>1. ASSUME NEW k \in Keys
          PROVE  Explained(k, specs[k])' /\ Explained(k, inRepo[k])'
      <3>1. Explained(k, specs[k]) /\ Explained(k, inRepo[k])
        BY DEF AboutInv, FilesExplained
      <3>2. CASE k = Key
        BY <1>3, <1>4, <1>6, <3>1, <3>2 DEF Explained
      <3>3. CASE k # Key
        BY <1>3, <1>4, <1>6, <3>1, <3>3 DEF Explained
      <3>4. QED
        BY <3>2, <3>3
    <2>2. QED
      BY <2>1 DEF FilesExplained
  <1>10. MockWritten'
    BY <1>1, <1>2, <1>3, <1>6 DEF MockWritten
  <1>11. CurrentExplained'
    BY <1>1 DEF CurrentExplained, Probing
  <1>12. SpecsDescribeTheirCommit'
    BY <1>1 DEF AboutInv, SpecsDescribeTheirCommit
  <1>13. QED
    BY <1>7, <1>8, <1>9, <1>10, <1>11, <1>12 DEF AboutInv

\* The calibrator takes up the spec of the key.
LEMMA CalibratorStep ==
  ASSUME AboutInv, RunCalibrator
  PROVE  AboutInv'
  <1>1. /\ pc = "calibrator" /\ pc' = "prober"
        /\ UNCHANGED <<options, next, records, specs, inRepo>>
    BY DEF RunCalibrator, Goto, loopUnchanged
  <1>2. Key \in Keys
    BY <1>1, KeyType DEF WithKey
  <1>3. Walk' = Walk /\ Key' = Key /\ Commit' = Commit /\ HasCommit' = HasCommit
    BY <1>1 DEF Walk, Key, Commit, HasCommit
  <1>4. \A k, a : Known(k, a)' = Known(k, a)
    BY <1>1 DEF Known
  <1>5. "about" \in DOMAIN current' /\ current'.about = SpecText.about
    BY DEF RunCalibrator, NoCommit
  <1>6. Shape'
    BY <1>1, <1>5 DEF AboutInv, Shape
  <1>7. AtKey'
    BY <1>1, <1>3 DEF AboutInv, AtKey, WithKey
  <1>8. FilesExplained'
    BY <1>1, <1>3, <1>4 DEF AboutInv, FilesExplained, Explained
  <1>9. MockWritten'
    BY <1>1 DEF MockWritten
  <1>10. CurrentExplained'
    <2>1. CASE specs[Key] = Nothing
      <3>1. SpecText.about = Nothing /\ ~options.mock
        BY <1>1, <2>1 DEF SpecText, AboutInv, MockWritten
      <3>2. QED
        BY <1>1, <1>5, <3>1 DEF CurrentExplained
    <2>2. CASE specs[Key] # Nothing
      <3>1. SpecText.about = specs[Key].about
        BY <2>2 DEF SpecText
      <3>2. Known(Key, specs[Key].about) \/ specs[Key].about = Commit
        BY <1>2, <2>2 DEF AboutInv, FilesExplained, Explained
      <3>3. options.mock => specs[Key].about = Commit
        BY <1>1 DEF AboutInv, MockWritten
      <3>4. QED
        BY <1>1, <1>3, <1>4, <1>5, <3>1, <3>2, <3>3 DEF CurrentExplained
    <2>3. QED
      BY <2>1, <2>2
  <1>11. SpecsDescribeTheirCommit'
    BY <1>1 DEF AboutInv, SpecsDescribeTheirCommit
  <1>12. QED
    BY <1>6, <1>7, <1>8, <1>9, <1>10, <1>11 DEF AboutInv

\* The rounds keep what the calibrator took up.
LEMMA RoundStep ==
  ASSUME AboutInv, RunProber \/ RunCurator \/ RunAuditor
  PROVE  AboutInv'
  <1>1. /\ pc \in Probing /\ pc' \in Probing
        /\ UNCHANGED <<options, next, records, specs, inRepo>>
    BY DEF RunProber, RunCurator, RunAuditor, Goto, loopUnchanged, Probing
  <1>2. "about" \in DOMAIN current' /\ current'.about = current.about
    <2>1. "about" \in DOMAIN current
      BY DEF AboutInv, Shape
    <2>2. CASE RunProber
      <3>1. PICK q : current' = [current EXCEPT !.questions = q]
        BY <2>2 DEF RunProber
      <3>2. QED
        BY <2>1, <3>1
    <2>3. CASE RunCurator
      <3>1. PICK p : current' = [current EXCEPT !.proposal = p, !.round = @ + 1]
        BY <2>3 DEF RunCurator
      <3>2. QED
        BY <2>1, <3>1
    <2>4. CASE RunAuditor
      <3>1. \/ \E v : current' = [current EXCEPT !.verdict = v]
            \/ \E v, b : current' = [current EXCEPT !.verdict = v, !.silent = b]
        BY <2>4 DEF RunAuditor
      <3>2. QED
        BY <2>1, <3>1
    <2>5. QED
      BY <2>2, <2>3, <2>4
  <1>3. Walk' = Walk /\ Key' = Key /\ Commit' = Commit /\ HasCommit' = HasCommit
    BY <1>1 DEF Walk, Key, Commit, HasCommit
  <1>4. \A k, a : Known(k, a)' = Known(k, a)
    BY <1>1 DEF Known
  <1>5. Shape'
    BY <1>1, <1>2 DEF AboutInv, Shape
  <1>6. AtKey'
    BY <1>1, <1>3 DEF AboutInv, AtKey, WithKey
  <1>7. FilesExplained'
    BY <1>1, <1>3, <1>4 DEF AboutInv, FilesExplained, Explained
  <1>8. MockWritten'
    BY <1>1 DEF MockWritten, Probing
  <1>9. CurrentExplained'
    BY <1>1, <1>2, <1>3, <1>4 DEF AboutInv, CurrentExplained
  <1>10. SpecsDescribeTheirCommit'
    BY <1>1 DEF AboutInv, SpecsDescribeTheirCommit
  <1>11. QED
    BY <1>5, <1>6, <1>7, <1>8, <1>9, <1>10 DEF AboutInv

\* With one more record, what was known stays known.
LEMMA RecordStep ==
  ASSUME AboutInv, NEW r,
         records' = Append(records, r),
         next' = next + 1,
         UNCHANGED <<options, specs, inRepo>>,
         pc' = "commit",
         "about" \in DOMAIN current',
         Key \in Keys => r.key = Key /\ r.commit = Commit,
         r.key # NoKey => IF options.mock THEN r.about = r.commit
                          ELSE r.about \in {r.commit, Nothing} \/ Known(r.key, r.about)
  PROVE  AboutInv'
  <1>1. PICK S : records \in Seq(S)
    BY DEF AboutInv, Shape
  <1>2. /\ records' \in Seq(S \cup {r})
        /\ DOMAIN records = 1..Len(records) /\ DOMAIN records' = 1..(Len(records) + 1)
        /\ Len(records) \in Nat
        /\ \A i \in 1..Len(records) : records'[i] = records[i]
        /\ records'[Len(records) + 1] = r
    BY <1>1, AppendFacts
  <1>3. \A k, a : Known(k, a) => Known(k, a)'
    BY <1>2 DEF Known
  <1>4. Shape'
    BY <1>2 DEF AboutInv, Shape
  <1>5. AtKey' /\ MockWritten' /\ CurrentExplained'
    BY DEF AtKey, MockWritten, CurrentExplained, WithKey, Probing
  <1>6. FilesExplained'
    <2>1. ASSUME NEW k \in Keys, NEW spec, Explained(k, spec), spec # Nothing
          PROVE  Known(k, spec.about)'
      <3>1. CASE Known(k, spec.about)
        BY <1>3, <3>1
      <3>2. CASE k = Key /\ spec.about = Commit
        <4>1. /\ Len(records) + 1 \in DOMAIN records'
              /\ records'[Len(records) + 1].key = k
              /\ records'[Len(records) + 1].commit = spec.about
          BY <1>2, <3>2
        <4>2. QED
          BY <4>1 DEF Known
      <3>3. QED
        BY <2>1, <3>1, <3>2 DEF Explained
    <2>2. ASSUME NEW k \in Keys
          PROVE  Explained(k, specs[k])' /\ Explained(k, inRepo[k])'
      <3>1. Explained(k, specs[k]) /\ Explained(k, inRepo[k])
        BY DEF AboutInv, FilesExplained
      <3>2. specs' = specs /\ inRepo' = inRepo
        OBVIOUS
      <3>3. specs[k] # Nothing => Known(k, specs[k].about)'
        BY <2>1, <3>1
      <3>4. inRepo[k] # Nothing => Known(k, inRepo[k].about)'
        BY <2>1, <3>1
      <3>5. QED
        BY <3>2, <3>3, <3>4 DEF Explained, Known
    <2>3. QED
      BY <2>2 DEF FilesExplained
  <1>7. SpecsDescribeTheirCommit'
    <2>1. ASSUME NEW i \in 1..(Len(records) + 1), records'[i].key # NoKey
          PROVE  IF options.mock THEN records'[i].about = records'[i].commit
                 ELSE \/ records'[i].about \in {records'[i].commit, Nothing}
                      \/ records'[i].about = 0 /\ records'[i].key \in options.oldSpecs
                      \/ \E j \in 1..(i - 1) : /\ records'[j].key = records'[i].key
                                              /\ records'[j].commit = records'[i].about
      <3>1. CASE i \in 1..Len(records)
        <4>1. \A j \in 1..i : records'[j] = records[j]
          BY <1>2, <3>1
        <4>2. records'[i] = records[i] /\ i \in DOMAIN records
          BY <1>2, <3>1
        <4>3. IF options.mock THEN records[i].about = records[i].commit
              ELSE \/ records[i].about \in {records[i].commit, Nothing}
                   \/ records[i].about = 0 /\ records[i].key \in options.oldSpecs
                   \/ \E j \in 1..(i - 1) : /\ records[j].key = records[i].key
                                           /\ records[j].commit = records[i].about
          BY <2>1, <4>2 DEF AboutInv, SpecsDescribeTheirCommit
        <4>4. \A j \in 1..(i - 1) : records'[j] = records[j]
          BY <4>1
        <4>5. QED
          BY <4>2, <4>3, <4>4
      <3>2. CASE i = Len(records) + 1
        <4>1. records'[i] = r
          BY <1>2, <3>2
        <4>2. i - 1 = Len(records)
          BY <1>2, <3>2
        <4>3. \A j \in 1..(i - 1) : records'[j] = records[j] /\ j \in DOMAIN records
          BY <1>2, <4>2
        <4>4. Known(r.key, r.about) =>
                \/ r.about = 0 /\ r.key \in options.oldSpecs
                \/ \E j \in 1..(i - 1) : records'[j].key = r.key /\ records'[j].commit = r.about
          BY <1>2, <4>2, <4>3 DEF Known
        <4>5. QED
          BY <2>1, <4>1, <4>4
      <3>3. QED
        BY <1>2, <3>1, <3>2
    <2>2. options' = options
      OBVIOUS
    <2>3. QED
      BY <1>2, <2>1, <2>2 DEF SpecsDescribeTheirCommit
  <1>8. QED
    BY <1>4, <1>5, <1>6, <1>7 DEF AboutInv

\* The end of a commit with a key.
LEMMA ApplyStep ==
  ASSUME AboutInv, ApplyPatches
  PROVE  AboutInv'
  <1>1. /\ pc = "apply"
        /\ UNCHANGED <<options, specs, inRepo>>
    BY DEF ApplyPatches, loopUnchanged
  <1>2. CASE PatchesToApply # <<>> /\ ~hasManifest
    BY <1>1, <1>2, QuietStep DEF ApplyPatches, Goto, walkVars, WithKey, Probing
  <1>3. CASE ~(PatchesToApply # <<>> /\ ~hasManifest)
    <2>1. /\ records' = Append(records, Summary)
          /\ next' = next + 1
          /\ current' = NoCommit
          /\ pc' = "commit"
      BY <1>3 DEF ApplyPatches, Goto
    <2>2. "about" \in DOMAIN current'
      BY <2>1 DEF NoCommit
    <2>3. Summary.key = Key /\ Summary.commit = Commit /\ Summary.about = current.about
      BY DEF Summary
    <2>4. IF options.mock THEN current.about = Commit
          ELSE current.about \in {Commit, Nothing} \/ Known(Key, current.about)
      BY <1>1 DEF AboutInv, CurrentExplained, Probing
    <2>5. QED
      BY <1>1, <2>1, <2>2, <2>3, <2>4, RecordStep
  <1>4. QED
    BY <1>2, <1>3

\* A commit without a key gets a record without one.
LEMMA SkipStep ==
  ASSUME AboutInv, SkipCommit
  PROVE  AboutInv'
  <1>1. /\ pc = "commit" /\ pc' = "commit"
        /\ records' = Append(records, Skipped)
        /\ next' = next + 1
        /\ UNCHANGED <<options, specs, inRepo, current>>
        /\ Key = NoKey
    BY DEF SkipCommit, workspace
  <1>2. "about" \in DOMAIN current'
    BY <1>1 DEF AboutInv, Shape
  <1>3. Skipped.key = NoKey
    BY DEF Skipped
  <1>4. Key \notin Keys
    BY <1>1, JobAssumption
  <1>5. QED
    BY <1>1, <1>2, <1>3, <1>4, RecordStep

LEMMA OtherStep ==
  ASSUME AboutInv,
         \/ Bootstrap \/ StartWalk \/ StartCommit \/ TakeIssue \/ WriteReport
         \/ Deliver \/ TakeReply \/ StageFails
  PROVE  AboutInv'
  <1> USE DEF Goto, workspace, walkVars, loopUnchanged
  <1>1. CASE Clone \/ DetectStack \/ WriteStackProfile
    BY <1>1, QuietStep DEF Clone, DetectStack, WriteStackProfile, WithKey, Probing
  <1>2. CASE AskForPage \/ TakePage \/ PageThrows
    BY <1>2, QuietStep DEF AskForPage, TakePage, PageThrows, WithKey, Probing
  <1>3. CASE RunArchitect
    BY <1>3, QuietStep DEF RunArchitect, WithKey, Probing
  <1>4. CASE StartWalk \/ WriteReport
    BY <1>4, QuietStep DEF StartWalk, WriteReport, WithKey, Probing
  <1>5. CASE StartCommit
    BY <1>5, QuietStep DEF StartCommit, WithKey, Probing
  <1>6. CASE TakeIssue
    BY <1>6, QuietStep DEF TakeIssue, AboutInv, AtKey, WithKey, Probing
  <1>7. CASE Deliver
    BY <1>7, QuietStep DEF Deliver, Pack, UploadBundle, OpenPullRequest, WithKey, Probing
  <1>8. CASE TakeReply
    BY <1>8, QuietStep DEF TakeReply, AboutInv, AtKey, WithKey, Probing
  <1>9. CASE StageFails
    BY <1>9, QuietStep DEF StageFails, WithKey, Probing
  <1>10. QED
    BY <1>1, <1>2, <1>3, <1>4, <1>5, <1>6, <1>7, <1>8, <1>9 DEF Bootstrap

LEMMA NextAbout == AboutInv /\ [Next]_vars => AboutInv'
  <1> SUFFICES ASSUME AboutInv, [Next]_vars PROVE AboutInv'
    OBVIOUS
  <1>1. CASE RunHistorian
    BY <1>1, HistorianStep
  <1>2. CASE RunCalibrator
    BY <1>2, CalibratorStep
  <1>3. CASE RunProber \/ RunCurator \/ RunAuditor
    BY <1>3, RoundStep
  <1>4. CASE ApplyPatches
    BY <1>4, ApplyStep
  <1>5. CASE SkipCommit
    BY <1>5, SkipStep
  <1>6. CASE \/ Bootstrap \/ StartWalk \/ StartCommit \/ TakeIssue \/ WriteReport
             \/ Deliver \/ TakeReply \/ StageFails
    BY <1>6, OtherStep
  <1>7. CASE UNCHANGED vars
    <2>1. UNCHANGED <<options, next, records, specs, inRepo, current, pc>>
      BY <1>7 DEF vars, workspace, walkVars
    <2>2. QED
      BY <2>1, QuietStep DEF AboutInv, AtKey
  <1>8. QED
    BY <1>1, <1>2, <1>3, <1>4, <1>5, <1>6, <1>7 DEF Next, Step, WalkTheCommits, Calibrate

\* What is calibrated against a commit is the spec of that commit, or an older one that a
\* real historian left in its place: processJiraLinkedCommit, with resolveTextArtifact.
THEOREM SpecsDescribe == Spec => []SpecsDescribeTheirCommit
  <1>1. AboutInv => SpecsDescribeTheirCommit
    BY DEF AboutInv
  <1>2. QED
    BY <1>1, InitAbout, NextAbout, PTL DEF Spec

-----------------------------------------------------------------------------
(* What the records say of the walk, and the refinement of CommitWalk.     *)

\* Stages that are reached when every commit has been handled.
Finished == {"pack", "upload", "deliver", "completed"}

Walked ==
  /\ pc \in PCs
  /\ next <= Len(Walk) /\ Len(records) = next
  /\ pc \in Finished => ~HasCommit
  /\ \A i \in DOMAIN records : records[i].commit = Walk[i].commit /\ records[i].key = Walk[i].key

\* A step that handles no commit.
Quiet ==
  /\ UNCHANGED <<options, next, records>>
  /\ pc' \in PCs
  /\ pc' \in Finished => pc \in Finished \/ ~HasCommit
  /\ pc \in Ended => pc' = pc
  /\ pc' = "completed" => pc \in {"deliver", "completed"}

\* A step that handles a commit, with record r.
Handles(r) ==
  /\ options' = options
  /\ next' = next + 1 /\ records' = Append(records, r)
  /\ HasCommit /\ r.commit = Commit /\ r.key = Key
  /\ pc \in {"commit", "apply"} /\ pc' = "commit"

LEMMA StepKind ==
  ASSUME AboutInv, pc \in PCs, [Next]_vars
  PROVE  Quiet \/ \E r : Handles(r)
  <1> USE DEF Goto, workspace, walkVars, loopUnchanged
  <1>1. CASE Clone \/ DetectStack \/ WriteStackProfile
    BY <1>1 DEF Clone, DetectStack, WriteStackProfile, Quiet, PCs, Ended, Finished
  <1>2. CASE AskForPage \/ TakePage \/ PageThrows
    BY <1>2 DEF AskForPage, TakePage, PageThrows, Quiet, PCs, Ended, Finished
  <1>3. CASE RunArchitect
    BY <1>3 DEF RunArchitect, Quiet, PCs, Ended, Finished
  <1>4. CASE StartWalk \/ WriteReport
    BY <1>4 DEF StartWalk, WriteReport, Quiet, PCs, Ended, Finished
  <1>5. CASE StartCommit \/ TakeIssue \/ TakeReply
    BY <1>5 DEF StartCommit, TakeIssue, TakeReply, Quiet, PCs, Ended, Finished
  <1>6. CASE RunHistorian
    BY <1>6 DEF RunHistorian, Quiet, PCs, Ended, Finished
  <1>7. CASE RunCalibrator \/ RunProber \/ RunCurator
    BY <1>7 DEF RunCalibrator, RunProber, RunCurator, Quiet, PCs, Ended, Finished
  <1>8. CASE RunAuditor
    <2>1. pc = "auditor" /\ pc' \in {"curator", "apply"} /\ UNCHANGED <<options, next, records>>
      BY <1>8 DEF RunAuditor
    <2> QED
      BY <2>1 DEF Quiet, PCs, Ended, Finished
  <1>9. CASE Pack \/ UploadBundle \/ OpenPullRequest
    BY <1>9 DEF Pack, UploadBundle, OpenPullRequest, Quiet, PCs, Ended, Finished
  <1>10. CASE StageFails
    BY <1>10 DEF StageFails, Quiet, PCs, Ended, Finished
  <1>11. CASE UNCHANGED vars
    BY <1>11 DEF vars, Quiet, PCs, Ended, Finished
  <1>12. CASE SkipCommit
    <2>1. Handles(Skipped)
      BY <1>12 DEF SkipCommit, Handles, Skipped
    <2> QED
      BY <2>1
  <1>13. CASE ApplyPatches
    <2>1. pc = "apply" /\ HasCommit
      BY <1>13 DEF ApplyPatches, AboutInv, AtKey, WithKey, Probing
    <2>2. CASE PatchesToApply # <<>> /\ ~hasManifest
      BY <1>13, <2>2 DEF ApplyPatches, Quiet, PCs, Ended, Finished
    <2>3. CASE ~(PatchesToApply # <<>> /\ ~hasManifest)
      <3>1. Handles(Summary)
        BY <1>13, <2>1, <2>3 DEF ApplyPatches, Handles, Summary
      <3> QED
        BY <3>1
    <2> QED
      BY <2>2, <2>3
  <1> QED
    BY <1>1, <1>2, <1>3, <1>4, <1>5, <1>6, <1>7, <1>8, <1>9, <1>10, <1>11, <1>12, <1>13
       DEF Next, Step, Bootstrap, WalkTheCommits, Calibrate, Deliver

LEMMA InitWalked == Init => Walked
  <1> SUFFICES ASSUME Init PROVE Walked
    OBVIOUS
  <1>1. Len(Walk) \in Nat
    BY WalkType DEF Init
  <1> QED
    BY <1>1 DEF Init, Walked, PCs, Finished

LEMMA NextWalked == AboutInv /\ Walked /\ [Next]_vars => Walked'
  <1> SUFFICES ASSUME AboutInv, Walked, [Next]_vars PROVE Walked'
    OBVIOUS
  <1>1. CASE Quiet
    <2>1. Walk' = Walk /\ HasCommit' = HasCommit
      BY <1>1 DEF Quiet, Walk, HasCommit
    <2> QED
      BY <1>1, <2>1 DEF Walked, Quiet
  <1>2. ASSUME NEW r, Handles(r) PROVE Walked'
    <2>1. PICK S : records \in Seq(S)
      BY DEF AboutInv, Shape
    <2>2. /\ DOMAIN records' = 1..(Len(records) + 1) /\ DOMAIN records = 1..Len(records)
          /\ Len(records) \in Nat /\ Len(records') = Len(records) + 1
          /\ \A i \in 1..Len(records) : records'[i] = records[i]
          /\ records'[Len(records) + 1] = r
      BY <1>2, <2>1 DEF Handles
    <2>3. Walk' = Walk /\ Len(Walk) \in Nat
      BY <1>2, WalkType DEF Handles, Walk, AboutInv, Shape
    <2>4. next' <= Len(Walk) /\ Len(records') = next'
      BY <1>2, <2>2, <2>3 DEF Handles, HasCommit, Walked
    <2>5. ASSUME NEW i \in DOMAIN records'
          PROVE  records'[i].commit = Walk[i].commit /\ records'[i].key = Walk[i].key
      <3>1. CASE i \in 1..Len(records)
        BY <2>2, <3>1 DEF Walked
      <3>2. CASE i \notin 1..Len(records)
        <4>1. i = next + 1 /\ records'[i] = r
          BY <2>2, <3>2 DEF Walked
        <4> QED
          BY <1>2, <4>1 DEF Handles, Commit, Key
      <3> QED
        BY <3>1, <3>2
    <2>6. pc' = "commit"
      BY <1>2 DEF Handles
    <2> QED
      BY <2>3, <2>4, <2>5, <2>6 DEF Walked, PCs, Finished
  <1> QED
    BY <1>1, <1>2, StepKind DEF Walked

LEMMA AlwaysWalked == Spec => [](AboutInv /\ Walked)
  <1>1. Init => AboutInv /\ Walked
    BY InitAbout, InitWalked
  <1>2. AboutInv /\ Walked /\ [Next]_vars => (AboutInv /\ Walked)'
    BY NextAbout, NextWalked
  <1> QED
    BY <1>1, <1>2, PTL DEF Spec

LEMMA LinkedFacts ==
  ASSUME AboutInv
  PROVE  /\ Linked \in Seq(BOOLEAN) /\ Len(Linked) = Len(Walk) /\ Len(Walk) \in Nat
         /\ \A i \in 1..Len(Walk) : Linked[i] = (Walk[i].key # NoKey)
  <1>1. Len(Walk) \in Nat /\ DOMAIN Walk = 1..Len(Walk)
    BY WalkType DEF AboutInv, Shape
  <1>2. Linked = [i \in 1..Len(Walk) |-> Walk[i].key # NoKey]
    BY <1>1 DEF Linked
  <1> QED
    BY <1>1, <1>2

\* The places of the records.
Places == [i \in DOMAIN records |-> i]

LEMMA ProcessedGrows ==
  ASSUME NEW S, records \in Seq(S), NEW r, records' = Append(records, r)
  PROVE  Chosen(Places, ProcessedAt)' =
           IF r.key # NoKey THEN Append(Chosen(Places, ProcessedAt), Len(records) + 1)
           ELSE Chosen(Places, ProcessedAt)
  <1> DEFINE n == Len(records)
  <1>1. /\ n \in Nat /\ DOMAIN records = 1..n /\ DOMAIN records' = 1..(n + 1)
        /\ \A i \in 1..n : records'[i] = records[i]
        /\ records'[n + 1] = r
    OBVIOUS
  <1> HIDE DEF n
  <1>2. Places \in Seq(Nat) /\ Len(Places) = n
    BY <1>1 DEF Places
  <1>3. Places' = Append(Places, n + 1)
    <2>1. Places = [i \in 1..n |-> i] /\ Places' = [i \in 1..(n + 1) |-> i]
      BY <1>1 DEF Places
    <2> QED
      BY <1>1, <2>1
  <1>4. \A k \in 1..Len(Places) : k \in ProcessedAt <=> k \in ProcessedAt'
    BY <1>1, <1>2 DEF ProcessedAt
  <1>5. n + 1 \in ProcessedAt' <=> r.key # NoKey
    BY <1>1 DEF ProcessedAt
  <1>6. Chosen(Append(Places, n + 1), ProcessedAt') =
          IF Len(Places) + 1 \in ProcessedAt' THEN Append(Chosen(Places, ProcessedAt), n + 1)
          ELSE Chosen(Places, ProcessedAt)
    <2>1. Agree(Places, Append(Places, n + 1), ProcessedAt, ProcessedAt', Len(Places))
      BY <1>1, <1>2, <1>4 DEF Agree
    <2>2. ChosenGrows(Places, n + 1, ProcessedAt, ProcessedAt')
      BY <1>2, <2>1, ChosenAppend
    <2> QED
      BY <2>2 DEF ChosenGrows
  <1> QED
    BY <1>2, <1>3, <1>5, <1>6 DEF n

LEMMA InitPromise == Init => Promise!Init
  <1> SUFFICES ASSUME Init PROVE Promise!Init
    OBVIOUS
  <1>1. Linked \in Seq(BOOLEAN)
    BY InitAbout, LinkedFacts
  <1>2. Places = <<>>
    BY DEF Init, Places
  <1>3. Chosen(<<>>, ProcessedAt) = <<>>
    <2>1. <<>> \in Seq({}) /\ DOMAIN <<>> = {}
      OBVIOUS
    <2>2. Chosen(<<>>, ProcessedAt) \in Seq({<<>>[i] : i \in ProcessedAt \cap DOMAIN <<>>})
      BY <2>1, ChosenFacts
    <2> QED
      BY <2>1, <2>2
  <1> QED
    BY <1>1, <1>2, <1>3 DEF Init, Places, Promise!Init

LEMMA StepPromise ==
  AboutInv /\ Walked /\ [Next]_vars => [Promise!Next]_(Promise!vars)
  <1> SUFFICES ASSUME AboutInv, Walked, [Next]_vars PROVE [Promise!Next]_(Promise!vars)
    OBVIOUS
  <1>1. /\ Linked \in Seq(BOOLEAN) /\ Len(Linked) = Len(Walk) /\ Len(Walk) \in Nat
        /\ \A i \in 1..Len(Walk) : Linked[i] = (Walk[i].key # NoKey)
    BY LinkedFacts
  <1>2. CASE Quiet
    <2>1. Linked' = Linked /\ next' = next /\ Chosen(Places, ProcessedAt)' = Chosen(Places, ProcessedAt)
      BY <1>2 DEF Quiet, Linked, Walk, Places, ProcessedAt
    <2>2. CASE pc' = "completed" /\ pc # "completed"
      <3>1. pc = "deliver" /\ next = Len(Linked)
        BY <1>1, <1>2, <2>2 DEF Quiet, Walked, Finished, HasCommit, AboutInv, Shape
      <3>2. Promise!End
        BY <2>1, <2>2, <3>1 DEF Promise!End, Places
      <3> QED
        BY <3>2 DEF Promise!Next
    <2>3. CASE pc' = "failed" /\ pc # "failed"
      <3>1. pc \notin Ended
        BY <1>2, <2>3 DEF Quiet
      <3>2. Promise!Fail
        BY <2>1, <2>3, <3>1 DEF Promise!Fail, Places, Ended
      <3> QED
        BY <3>2 DEF Promise!Next
    <2>4. CASE (pc' = "completed" <=> pc = "completed") /\ (pc' = "failed" <=> pc = "failed")
      BY <2>1, <2>4 DEF Promise!vars, Places
    <2> QED
      BY <1>2, <2>2, <2>3, <2>4 DEF Quiet, Ended
  <1>3. ASSUME NEW r, Handles(r) PROVE Promise!Handle
    <2>1. PICK S : records \in Seq(S)
      BY DEF AboutInv, Shape
    <2>2. Chosen(Places, ProcessedAt)' =
            IF r.key # NoKey THEN Append(Chosen(Places, ProcessedAt), Len(records) + 1)
            ELSE Chosen(Places, ProcessedAt)
      BY <1>3, <2>1, ProcessedGrows DEF Handles
    <2>3. Linked' = Linked /\ next' = next + 1 /\ next' = Len(records) + 1
      BY <1>3 DEF Handles, Linked, Walk, Walked
    <2>4. next < Len(Linked) /\ next + 1 \in 1..Len(Walk)
      BY <1>1, <1>3 DEF Handles, HasCommit, AboutInv, Shape
    <2>5. Linked[next + 1] = (r.key # NoKey)
      BY <1>1, <1>3, <2>4 DEF Handles, Key
    <2>6. pc \notin Ended /\ pc' \notin Ended
      BY <1>3 DEF Handles, Ended
    <2> QED
      BY <2>2, <2>3, <2>4, <2>5, <2>6 DEF Promise!Handle, Places, Ended
  <1> QED
    BY <1>2, <1>3, StepKind DEF Promise!Next, Walked

\* runCommitWalkPhase, for any repository, any job, any agents and any stage that fails: the
\* commits are handled in the order of the walk, each with a key is processed once, and a job
\* that completes has handled them all.  (That every job ends is liveness, which the run checks.)
THEOREM JobImplementsWalk == Spec => Promise!Spec
  <1>1. Init => Promise!Init
    BY InitPromise
  <1>2. AboutInv /\ Walked /\ [Next]_vars => [Promise!Next]_(Promise!vars)
    BY StepPromise
  <1> QED
    BY <1>1, <1>2, AlwaysWalked, PTL DEF Spec, Promise!Spec

-----------------------------------------------------------------------------
(* Numbers: rounding, means and overlaps.                                  *)

\* A score in thousandths.
Scores == 0..1000

\* x is a sum of n scores, if all of them are in range.
InRange(x, n) == x \in Nat /\ n \in Nat \ {0} /\ x <= 1000 * n

LEMMA RoundedRange ==
  ASSUME NEW x, NEW n, InRange(x, n)
  PROVE  Rounded(x, n) \in Scores
  <1> DEFINE a == 2 * x + n
             b == 2 * n
             q == a \div b
  <1>1. a \in Nat /\ b \in Nat /\ b > 0 /\ a <= 1000 * b + n /\ n < b /\ n \in Int
    <2>1. x \in Int /\ n \in Int /\ n > 0 /\ x >= 0 /\ x <= 1000 * n
      BY DEF InRange
    <2>2. a \in Nat /\ b \in Nat /\ b > 0 /\ n < b
      BY <2>1
    <2>3. 2 * x + n <= 1000 * (2 * n) + n
      BY <2>1
    <2> QED
      BY <2>1, <2>2, <2>3
  <1>2. q \in Int /\ b * q <= a
    BY <1>1
  <1>3. q >= 0
    BY <1>1
  <1>4. Rounded(x, n) = q
    BY DEF Rounded
  <1> HIDE DEF a, b, q
  <1>5. ~(q >= 1001)
    <2>1. SUFFICES ASSUME q >= 1001 PROVE FALSE
      OBVIOUS
    <2>2. b * q >= b * 1001
      <3>1. b \in Int /\ q \in Int /\ b >= 0 /\ q >= 1001
        BY <1>1, <1>2, <2>1
      <3>2. b * (q - 1001) >= 0
        BY <3>1
      <3> QED
        BY <3>1, <3>2
    <2>3. b * q >= b * 1001 => b * 1001 <= 1000 * b + n
      BY <1>1, <1>2
    <2>4. ~(b * 1001 <= 1000 * b + n)
      BY <1>1
    <2> QED
      BY <2>2, <2>3, <2>4
  <1> QED
    BY <1>2, <1>3, <1>4, <1>5 DEF Scores

LEMMA SumRange ==
  ASSUME NEW s \in Seq(Scores)
  PROVE  ListSum(s) \in 0..(1000 * Len(s))
  <1>1. s \in Seq(Int) /\ Len(s) \in Nat /\ \A i \in 1..Len(s) : s[i] \in 0..1000
    <2>1. Scores \subseteq Int
      BY DEF Scores
    <2>2. Len(s) \in Nat /\ DOMAIN s = 1..Len(s) /\ \A i \in 1..Len(s) : s[i] \in Scores
      BY SeqDomain
    <2>3. s \in Seq(Int)
      BY <2>1, SeqMonotonic
    <2> QED
      BY <2>2, <2>3 DEF Scores
  <1>2. PICK f : Totals(f, s)
    BY <1>1, SumFacts
  <1> DEFINE A == {i \in 0..Len(s) : f[i] \in 0..(1000 * i)}
  <1>3. 0 \in A
    BY <1>1, <1>2 DEF Totals
  <1>4. ASSUME NEW n \in 0..(Len(s) - 1), n \in A PROVE n + 1 \in A
    <2>1. n + 1 \in 1..Len(s) /\ n + 1 \in 0..Len(s) /\ (n + 1) - 1 = n
      BY <1>1
    <2>2. f[n + 1] = f[n] + s[n + 1]
      BY <1>2, <2>1 DEF Totals
    <2>3. s[n + 1] \in 0..1000 /\ f[n] \in 0..(1000 * n)
      BY <1>1, <1>4, <2>1
    <2>4. f[n + 1] \in 0..(1000 * (n + 1))
      <3> DEFINE y == f[n]
                 z == s[n + 1]
      <3>0. n \in Nat
        OBVIOUS
      <3>1. n \in Nat /\ y \in 0..(1000 * n) /\ z \in 0..1000
        BY ONLY <2>3, <3>0
      <3> HIDE DEF y, z, A
      <3>2. 1000 * n \in Nat /\ 1000 * (n + 1) = 1000 * n + 1000
        BY ONLY <3>1
      <3>3. y \in Nat /\ z \in Nat /\ y <= 1000 * n /\ z <= 1000
        BY ONLY <3>1
      <3>4. y + z \in 0..(1000 * (n + 1))
        BY ONLY <3>2, <3>3
      <3> QED
        BY <2>2, <3>4 DEF y, z
    <2> QED
      BY <2>1, <2>4
  <1> HIDE DEF A
  <1>5. 0..Len(s) \subseteq A
    <2>1. Len(s) \in Nat
      BY <1>1
    <2>2. \A n \in 0..(Len(s) - 1) : n \in A => n + 1 \in A
      BY ONLY <1>4
    <2> QED
      BY ONLY <1>3, <2>1, <2>2, UpTo
  <1>6. Len(s) \in A
    BY <1>1, <1>5
  <1> QED
    BY <1>2, <1>6 DEF A, Totals

\* The mean of scores is a score.
LEMMA MeanRange ==
  ASSUME NEW s \in Seq(Scores)
  PROVE  Mean(s) \in Scores
  <1>1. CASE s = <<>>
    BY <1>1 DEF Mean, Scores
  <1>2. CASE s # <<>>
    <2>1. InRange(ListSum(s), Len(s))
      <3>1. ListSum(s) \in 0..(1000 * Len(s)) /\ Len(s) \in Nat /\ Len(s) # 0
        BY <1>2, SumRange
      <3> QED
        BY <3>1 DEF InRange
    <2>2. Rounded(ListSum(s), Len(s)) \in Scores
      BY <2>1, RoundedRange
    <2> QED
      BY <1>2, <2>2 DEF Mean
  <1> QED
    BY <1>1, <1>2

Zeros == <<0, 0, 0, 0>>

LEMMA MeanOfZeros == Zeros \in Seq(Scores) /\ Mean(Zeros) = 0
  <1>1. Zeros \in Seq(Scores) /\ Zeros \in Seq(Int) /\ Len(Zeros) = 4 /\ Zeros # <<>>
    BY DEF Zeros, Scores
  <1>2. Zeros[1] = 0 /\ Zeros[2] = 0 /\ Zeros[3] = 0 /\ Zeros[4] = 0
    BY DEF Zeros
  <1>3. PICK f : Totals(f, Zeros)
    BY <1>1, SumFacts
  <1>4. f[0] = 0 /\ ListSum(Zeros) = f[4] /\ \A k \in 1..4 : f[k] = f[k - 1] + Zeros[k]
    BY <1>1, <1>3 DEF Totals
  <1>5. f[1] = 0 /\ f[2] = 0
    BY <1>2, <1>4
  <1>6. f[3] = 0
    BY <1>2, <1>4, <1>5
  <1>7. f[4] = 0
    BY <1>2, <1>4, <1>6
  <1>8. Rounded(0, 4) = 0
    BY DEF Rounded
  <1> QED
    BY <1>1, <1>4, <1>7, <1>8 DEF Mean

LEMMA OverlapRange ==
  ASSUME NEW P, IsFiniteSet(P), NEW Q, IsFiniteSet(Q)
  PROVE  ComputeOverlap(P, Q).overlap \in Scores
  <1>1. IsFiniteSet(P \cup Q) /\ P \cap Q \subseteq P \cup Q
    BY FS_Union
  <1>2. IsFiniteSet(P \cap Q)
    BY <1>1, FS_Subset
  <1>3. /\ Cardinality(P \cap Q) \in Nat /\ Cardinality(P \cup Q) \in Nat
        /\ Cardinality(P \cap Q) <= Cardinality(P \cup Q)
    BY <1>1, <1>2, FS_Subset, FS_CardinalityType
  <1> DEFINE c == Cardinality(P \cap Q)
             u == Cardinality(P \cup Q)
  <1>4. ComputeOverlap(P, Q).overlap = IF u = 0 THEN 1000 ELSE Rounded(1000 * c, u)
    BY DEF ComputeOverlap
  <1>5. c \in Nat /\ u \in Nat /\ c <= u
    BY <1>3
  <1> HIDE DEF c, u
  <1>6. CASE u = 0
    BY <1>4, <1>6 DEF Scores
  <1>7. CASE u # 0
    <2>1. InRange(1000 * c, u)
      BY <1>5, <1>7 DEF InRange
    <2>2. Rounded(1000 * c, u) \in Scores
      BY <2>1, RoundedRange
    <2> QED
      BY <1>4, <1>7, <2>2
  <1> QED
    BY <1>6, <1>7

LEMMA ClampRange ==
  ASSUME NEW v \in Int, NEW low \in Int, NEW high \in Int, low <= high
  PROVE  ClampTo(v, low, high) \in low..high
  BY DEF ClampTo

\* Paths are predicted from finitely many mentions.
LEMMA PredictedFinite ==
  ASSUME NEW spec, IsFiniteSet(spec.bare), IsFiniteSet(spec.quoted), NEW known
  PROVE  IsFiniteSet(ExtractPredictedPaths(spec, known))
  <1>1. IsFiniteSet({p \in spec.bare : Len(p) > 1})
    BY FS_Subset
  <1>2. IsFiniteSet(Found(spec))
    BY <1>1, FS_Union DEF Found
  <1> DEFINE f == [p \in Found(spec) |-> ResolvePath(p, known)]
  <1>3. f \in Surjection(Found(spec), ExtractPredictedPaths(spec, known))
    BY DEF Surjection, ExtractPredictedPaths
  <1> HIDE DEF f
  <1> QED
    BY <1>2, <1>3, FS_Surjection

-----------------------------------------------------------------------------
(* Which steps change what.                                                *)

\* Stages before the Confluence pages.
Early == {"clone", "stack_detect"}

\* Stages of a job before its commits.
Opening == Early \cup {"confluence", "failed"}

LEMMA Footprints ==
  ASSUME [Next]_vars
  PROVE  /\ UNCHANGED options
         /\ pc' \in Early => pc \in Early
         /\ pc' = "confluence" => pc = "confluence" \/ WriteStackProfile
         /\ pc \in Opening => pc' \in Opening \/ RunArchitect
         /\ DetectStack \/ UNCHANGED scanVars
         /\ WriteStackProfile \/ UNCHANGED profile
         /\ AskForPage \/ StartCommit \/ TakePage \/ TakeIssue \/ TakeReply \/ UNCHANGED clientVars
         /\ TakePage \/ UNCHANGED <<fetched, missing>>
         /\ RunHistorian \/ UNCHANGED <<specs, inRepo>>
         /\ RunArchitect \/ ApplyPatches \/ UNCHANGED shards
         /\ RunArchitect \/ UNCHANGED <<docs, hasManifest, bootShards>>
         /\ \/ RunCalibrator \/ RunProber \/ RunCurator \/ RunAuditor \/ ApplyPatches
            \/ UNCHANGED current /\ (pc' \in Probing => pc' = pc)
         /\ RunCalibrator \/ RunProber \/ RunCurator \/ RunAuditor \/ WriteReport \/ UNCHANGED reports
         /\ SkipCommit \/ ApplyPatches \/ UNCHANGED <<next, records>>
         /\ Pack \/ UNCHANGED bundle
         /\ UploadBundle \/ UNCHANGED blob
         /\ OpenPullRequest \/ UNCHANGED pr
  <1> USE DEF Goto, workspace, walkVars, loopUnchanged, results, scanVars, clientVars
  <1>1. CASE Clone \/ DetectStack \/ WriteStackProfile
    BY <1>1 DEF Clone, DetectStack, WriteStackProfile, Probing, Early, Opening
  <1>2. CASE AskForPage \/ TakePage \/ PageThrows
    BY <1>2 DEF AskForPage, TakePage, PageThrows, Probing, Early, Opening
  <1>3. CASE RunArchitect
    BY <1>3 DEF RunArchitect, Probing, Early, Opening
  <1>4. CASE StartWalk \/ WriteReport
    BY <1>4 DEF StartWalk, WriteReport, Probing, Early, Opening
  <1>5. CASE StartCommit \/ TakeIssue \/ TakeReply
    BY <1>5 DEF StartCommit, TakeIssue, TakeReply, Probing, Early, Opening
  <1>6. CASE RunHistorian
    BY <1>6 DEF RunHistorian, Probing, Early, Opening
  <1>7. CASE RunCalibrator
    BY <1>7 DEF RunCalibrator, Early, Opening
  <1>8. CASE RunProber
    BY <1>8 DEF RunProber, Early, Opening
  <1>9. CASE RunCurator
    BY <1>9 DEF RunCurator, Early, Opening
  <1>10. CASE RunAuditor
    BY <1>10 DEF RunAuditor, Early, Opening
  <1>11. CASE Pack \/ UploadBundle \/ OpenPullRequest
    BY <1>11 DEF Pack, UploadBundle, OpenPullRequest, Probing, Early, Opening
  <1>12. CASE StageFails
    BY <1>12 DEF StageFails, Probing, Early, Opening
  <1>13. CASE UNCHANGED vars
    BY <1>13 DEF vars, Early, Opening
  <1>14. CASE SkipCommit
    BY <1>14 DEF SkipCommit, Probing, Early, Opening
  <1>15. CASE ApplyPatches
    BY <1>15 DEF ApplyPatches, Early, Opening
  <1> QED
    BY <1>1, <1>2, <1>3, <1>4, <1>5, <1>6, <1>7, <1>8, <1>9, <1>10, <1>11, <1>12, <1>13, <1>14, <1>15
       DEF Next, Step, Bootstrap, WalkTheCommits, Calibrate, Deliver

-----------------------------------------------------------------------------
(* The requests, the specs and the scores.                                 *)

\* A request that is open has retries left.
Calling == ClientTypeOK /\ (call = "open" => attempt <= RequestRetries)

LEMMA NextCalling == Calling /\ [Next]_vars => Calling'
  <1> SUFFICES ASSUME Calling, [Next]_vars PROVE Calling'
    OBVIOUS
  <1> USE ClientAssumption DEF Calling, ClientTypeOK, Calls
  <1>1. CASE AskForPage \/ (StartCommit /\ options.jira)
    <2>1. Ask
      BY <1>1 DEF AskForPage, StartCommit
    <2> QED
      BY <2>1 DEF Ask
  <1>2. CASE StartCommit /\ ~options.jira
    BY <1>2 DEF StartCommit, clientVars
  <1>3. CASE TakePage \/ TakeIssue
    <2>1. HangUp
      BY <1>3 DEF TakePage, TakeIssue
    <2> QED
      BY <2>1 DEF HangUp
  <1>4. CASE TakeReply
    <2>1. Reply
      BY <1>4 DEF TakeReply
    <2> QED
      BY <2>1 DEF Reply, Succeed, Refuse, TryLater, Unreachable
  <1>5. CASE UNCHANGED clientVars
    BY <1>5 DEF clientVars
  <1>6. CASE StartCommit
    BY <1>1, <1>2, <1>6
  <1>7. \/ AskForPage \/ StartCommit \/ TakePage \/ TakeIssue \/ TakeReply
        \/ UNCHANGED clientVars
    BY Footprints
  <1> QED
    BY <1>1, <1>3, <1>4, <1>5, <1>6, <1>7

SpecsTyped == \A k \in Keys : {specs[k], inRepo[k]} \subseteq FeatureSpecs \cup {Nothing}

LEMMA InitSpecsTyped == Init => SpecsTyped
  <1> SUFFICES ASSUME Init PROVE SpecsTyped
    OBVIOUS
  <1>1. OldSpec \in FeatureSpecs
    BY RepositoryAssumption DEF OldSpec, FeatureSpecs
  <1> QED
    BY <1>1 DEF Init, SpecsTyped

LEMMA NextSpecsTyped == AboutInv /\ SpecsTyped /\ [Next]_vars => SpecsTyped'
  <1> SUFFICES ASSUME AboutInv, SpecsTyped, [Next]_vars PROVE SpecsTyped'
    OBVIOUS
  <1>1. CASE UNCHANGED <<specs, inRepo>>
    BY <1>1 DEF SpecsTyped
  <1>2. CASE RunHistorian
    <2> DEFINE T == FeatureSpecs \cup {Nothing}
    <2>1. Key \in Keys /\ MockSpec \in T
      BY <1>2, KeyType DEF RunHistorian, WithKey
    <2>2. AgentSpecs \subseteq T
      <3>1. Commit \in 0..Tip
        BY <2>1, <1>2, KeyType DEF RunHistorian, WithKey, MockSpec, FeatureSpecs
      <3>2. \A m \in Mentions : [about |-> Commit, bare |-> {}, quoted |-> m] \in FeatureSpecs
        BY <3>1 DEF FeatureSpecs
      <3> QED
        BY <3>2 DEF AgentSpecs
    <2> HIDE DEF T
    <2>3. \A k \in Keys : specs[k] \in T /\ inRepo[k] \in T
      BY DEF SpecsTyped, T
    <2>4. DOMAIN specs = Keys /\ DOMAIN inRepo = Keys
      BY DEF AboutInv, Shape
    <2>5. \A k \in Keys : specs'[k] \in T /\ inRepo'[k] \in T
      <3>1. CASE options.mock
        <4>1. specs' = [specs EXCEPT ![Key] = MockSpec] /\ inRepo' = inRepo
          BY <1>2, <3>1 DEF RunHistorian
        <4> QED
          BY <2>1, <2>3, <2>4, <4>1
      <3>2. CASE ~options.mock
        <4>1. PICK wrote, answer \in AgentSpecs :
                /\ inRepo' = IF wrote = Nothing THEN inRepo ELSE [inRepo EXCEPT ![Key] = wrote]
                /\ specs' = [specs EXCEPT ![Key] = ResolveTextArtifact(@, inRepo'[Key], answer)]
          BY <1>2, <3>2 DEF RunHistorian
        <4>2. \A k \in Keys : inRepo'[k] \in T
          BY <2>2, <2>3, <2>4, <4>1
        <4>3. ResolveTextArtifact(specs[Key], inRepo'[Key], answer) \in T
          BY <2>1, <2>2, <2>3, <4>2 DEF ResolveTextArtifact
        <4> QED
          BY <2>3, <2>4, <4>1, <4>2, <4>3
      <3> QED
        BY <3>1, <3>2
    <2> QED
      BY <2>5 DEF SpecsTyped, T
  <1> QED
    BY <1>1, <1>2, Footprints

\* The scores of a verdict are four scores, whatever the auditor wrote.
LEMMA VerdictScores ==
  /\ \A json : NormalizeScores(json) \in Seq(Scores)
  /\ \A proposal, known : MockScores(proposal, known) \in Seq(Scores)
  <1>1. \A v : NormalizeScore(v) \in Scores
    BY DEF NormalizeScore, Scores
  <1>2. 0 \in Scores /\ 500 \in Scores /\ 600 \in Scores /\ 900 \in Scores /\ 1000 \in Scores
    BY DEF Scores
  <1>3. ASSUME NEW json PROVE NormalizeScores(json) \in Seq(Scores)
    <2>1. CASE json = Nothing \/ json.scores = Nothing
      BY <1>2, <2>1 DEF NormalizeScores
    <2>2. CASE ~(json = Nothing \/ json.scores = Nothing)
      <3>1. NormalizeScores(json) = [k \in 1..4 |-> NormalizeScore(json.scores[k])]
        BY <2>2 DEF NormalizeScores
      <3>2. NormalizeScores(json) \in [1..4 -> Scores]
        BY <1>1, <3>1
      <3> QED
        BY <3>2, SeqDef
    <2> QED
      BY <2>1, <2>2
  <1>4. ASSUME NEW proposal, NEW known PROVE MockScores(proposal, known) \in Seq(Scores)
    BY <1>2 DEF MockScores
  <1> QED
    BY <1>3, <1>4

Scored ==
  /\ DOMAIN current = DOMAIN NoCommit
  /\ current.round \in 0..MaxRounds
  /\ pc \in {"prober", "curator"} => current.round < MaxRounds
  /\ pc \in Probing => current.metrics.overlap \in Scores
  /\ pc = "apply" => current.verdict.scores \in Seq(Scores)
  /\ \A i \in DOMAIN records :
       /\ records[i].rounds \in 0..MaxRounds
       /\ records[i].overlap \in Scores /\ records[i].qaScore \in Scores

LEMMA RoundsAllowed ==
  ASSUME options \in OptionSets
  PROVE  /\ MaxRounds \in 1..3 /\ MinAnswerScore \in Scores /\ QuestionCount \in 5..30
  <1>1. options.maxRounds \in Int /\ options.minAnswerScore \in Int /\ options.questionCount \in Int
    BY JobAssumption
  <1> QED
    BY <1>1 DEF MaxRounds, MinAnswerScore, QuestionCount, ClampTo, Scores

\* The overlap of a commit compares finite sets.
LEMMA MetricsRange ==
  ASSUME AboutInv, SpecsTyped, pc \in WithKey, NEW known
  PROVE  ComputeOverlap(ExtractPredictedPaths(SpecText, known), Changed).overlap \in Scores
  <1>1. Key \in Keys /\ Changed \subseteq Paths
    BY KeyType DEF MockSpec, FeatureSpecs
  <1>2. IsFiniteSet(Changed)
    BY <1>1, PathAssumption, FS_Subset
  <1>3. IsFiniteSet(SpecText.bare) /\ IsFiniteSet(SpecText.quoted)
    <2>1. CASE specs[Key] = Nothing
      BY <2>1, FS_EmptySet DEF SpecText
    <2>2. CASE specs[Key] # Nothing
      <3>1. SpecText \in FeatureSpecs
        BY <1>1, <2>2 DEF SpecText, SpecsTyped
      <3>2. SpecText.bare \subseteq Paths /\ SpecText.quoted \in Mentions \cup {{}}
        BY <3>1 DEF FeatureSpecs
      <3> QED
        BY <3>2, PathAssumption, FS_Subset, FS_EmptySet
    <2> QED
      BY <2>1, <2>2
  <1>4. IsFiniteSet(ExtractPredictedPaths(SpecText, known))
    BY <1>3, PredictedFinite
  <1> QED
    BY <1>2, <1>4, OverlapRange

LEMMA InitScored == Init => Scored
  <1> SUFFICES ASSUME Init PROVE Scored
    OBVIOUS
  <1>1. MaxRounds \in 1..3
    BY RoundsAllowed DEF Init
  <1> QED
    BY <1>1 DEF Init, Scored, NoCommit, Probing

\* The stages of a commit, as far as the scores go.
LEMMA StageScored ==
  ASSUME AboutInv, SpecsTyped, Scored, RunCalibrator \/ RunProber \/ RunCurator \/ RunAuditor
  PROVE  Scored'
  <1> USE DEF Goto, loopUnchanged
  <1>1. /\ options' = options /\ records' = records /\ MaxRounds' = MaxRounds
        /\ MaxRounds \in 1..3
    <2>1. options' = options /\ records' = records
      BY DEF RunCalibrator, RunProber, RunCurator, RunAuditor
    <2> QED
      BY <2>1, RoundsAllowed DEF MaxRounds, AboutInv, Shape
  <1>2. \A i \in DOMAIN records' :
          /\ records'[i].rounds \in 0..MaxRounds'
          /\ records'[i].overlap \in Scores /\ records'[i].qaScore \in Scores
    BY <1>1 DEF Scored
  <1>3. /\ DOMAIN current = DOMAIN NoCommit
        /\ {"about", "metrics", "questions", "proposal", "verdict", "silent", "round"} \subseteq DOMAIN NoCommit
    BY DEF Scored, NoCommit
  <1>4. CASE RunCalibrator
    <2> DEFINE m == ComputeOverlap(ExtractPredictedPaths(SpecText, KnownShardPaths), Changed)
    <2>1. m.overlap \in Scores
      BY <1>4, MetricsRange DEF RunCalibrator, WithKey
    <2>2. pc' = "prober" /\ current' = [NoCommit EXCEPT !.about = SpecText.about, !.metrics = m]
      BY <1>4 DEF RunCalibrator
    <2> HIDE DEF m
    <2>3. DOMAIN current' = DOMAIN NoCommit /\ current'.round = 0 /\ current'.metrics = m
      BY <2>2 DEF NoCommit
    <2> QED
      BY <1>1, <1>2, <2>1, <2>2, <2>3 DEF Scored, NoCommit
  <1>5. CASE RunProber
    <2>1. PICK q : current' = [current EXCEPT !.questions = q]
      BY <1>5 DEF RunProber
    <2>2. pc = "prober" /\ pc' = "curator"
      BY <1>5 DEF RunProber
    <2>3. DOMAIN current' = DOMAIN NoCommit /\ current'.round = current.round /\ current'.metrics = current.metrics
      BY <1>3, <2>1
    <2> QED
      BY <1>1, <1>2, <2>2, <2>3 DEF Scored, Probing, NoCommit
  <1>6. CASE RunCurator
    <2>1. PICK p : current' = [current EXCEPT !.proposal = p, !.round = @ + 1]
      BY <1>6 DEF RunCurator
    <2>2. pc = "curator" /\ pc' = "auditor"
      BY <1>6 DEF RunCurator
    <2>3. DOMAIN current' = DOMAIN NoCommit /\ current'.round = current.round + 1 /\ current'.metrics = current.metrics
      BY <1>3, <2>1
    <2>4. current'.round \in 0..MaxRounds
      BY <1>1, <2>2, <2>3 DEF Scored
    <2> QED
      BY <1>1, <1>2, <2>2, <2>3, <2>4 DEF Scored, Probing, NoCommit
  <1>7. CASE RunAuditor
    <2>1. PICK v : /\ v.scores \in Seq(Scores)
                   /\ \/ current' = [current EXCEPT !.verdict = v]
                      \/ \E b : current' = [current EXCEPT !.verdict = v, !.silent = b]
      <3>1. CASE options.mock
        <4> DEFINE v == MockVerdict(current.proposal, KnownShardPaths, MinAnswerScore)
        <4>1. v.scores = MockScores(current.proposal, KnownShardPaths)
          BY DEF MockVerdict
        <4>2. \/ current' = [current EXCEPT !.verdict = v]
              \/ \E b : current' = [current EXCEPT !.verdict = v, !.silent = b]
          BY <1>7, <3>1 DEF RunAuditor
        <4>3. v.scores \in Seq(Scores)
          BY <4>1, VerdictScores
        <4> HIDE DEF v
        <4> QED
          BY <4>2, <4>3
      <3>2. CASE ~options.mock
        <4>1. PICK text \in AuditorTexts :
                current' = [current EXCEPT
                  !.verdict = ResolveVerdict(text, current.proposal, MinAnswerScore),
                  !.silent = ExtractJson(text) = Nothing]
          BY <1>7, <3>2 DEF RunAuditor
        <4> DEFINE v == ResolveVerdict(text, current.proposal, MinAnswerScore)
                   b == ExtractJson(text) = Nothing
        <4>2. v.scores = NormalizeScores(ExtractJson(text))
          BY DEF ResolveVerdict
        <4>3. current' = [current EXCEPT !.verdict = v, !.silent = b]
          BY <4>1
        <4> HIDE DEF v, b
        <4>4. v.scores \in Seq(Scores)
          BY ONLY <4>2, VerdictScores
        <4> QED
          BY <4>3, <4>4
      <3> QED
        BY <3>1, <3>2
    <2>2. /\ DOMAIN current' = DOMAIN NoCommit /\ current'.round = current.round
          /\ current'.metrics = current.metrics /\ current'.verdict = v
      BY <1>3, <2>1
    <2>3. /\ pc = "auditor" /\ pc' \in {"curator", "apply"}
          /\ pc' = "curator" => current'.round < MaxRounds
      BY <1>7 DEF RunAuditor
    <2> QED
      BY <1>1, <1>2, <2>1, <2>2, <2>3 DEF Scored, Probing, NoCommit
  <1> QED
    BY <1>4, <1>5, <1>6, <1>7

LEMMA NextScored ==
  AboutInv /\ Walked /\ SpecsTyped /\ Scored /\ [Next]_vars => Scored'
  <1> SUFFICES ASSUME AboutInv, Walked, SpecsTyped, Scored, [Next]_vars PROVE Scored'
    OBVIOUS
  <1>1. MaxRounds' = MaxRounds /\ MaxRounds \in 1..3 /\ options' = options
    BY Footprints, RoundsAllowed DEF MaxRounds, AboutInv, Shape
  <1>2. CASE RunCalibrator \/ RunProber \/ RunCurator \/ RunAuditor
    BY <1>2, StageScored
  <1>3. CASE UNCHANGED <<current, records>> /\ (pc' \in Probing => pc' = pc)
    BY <1>1, <1>3 DEF Scored, Probing, NoCommit
  <1>4. ASSUME NEW r, records' = Append(records, r), current' \in {current, NoCommit}, pc' = "commit",
               r.rounds \in 0..MaxRounds, r.overlap \in Scores, r.qaScore \in Scores
        PROVE  Scored'
    <2>1. PICK S : records \in Seq(S)
      BY DEF AboutInv, Shape
    <2>2. /\ DOMAIN records' = 1..(Len(records) + 1) /\ DOMAIN records = 1..Len(records)
          /\ Len(records) \in Nat
          /\ \A i \in 1..Len(records) : records'[i] = records[i]
          /\ records'[Len(records) + 1] = r
      BY <1>4, <2>1
    <2>3. \A i \in DOMAIN records' :
            /\ records'[i].rounds \in 0..MaxRounds
            /\ records'[i].overlap \in Scores /\ records'[i].qaScore \in Scores
      <3>1. \A i \in DOMAIN records' : i \in 1..Len(records) \/ i = Len(records) + 1
        BY <2>2
      <3> QED
        BY <1>4, <2>2, <3>1 DEF Scored
    <2>4. DOMAIN current' = DOMAIN NoCommit /\ current'.round \in 0..MaxRounds /\ NoCommit' = NoCommit
      BY <1>1, <1>4 DEF Scored, NoCommit
    <2> QED
      BY <1>1, <1>4, <2>3, <2>4 DEF Scored, Probing
  <1>5. CASE SkipCommit
    <2>1. records' = Append(records, Skipped) /\ current' = current /\ pc' = "commit"
      BY <1>5 DEF SkipCommit
    <2>2. Skipped.rounds = 0 /\ Skipped.overlap = 0 /\ Skipped.qaScore = 0
      BY DEF Skipped
    <2>3. Skipped.rounds \in 0..MaxRounds /\ Skipped.overlap \in Scores /\ Skipped.qaScore \in Scores
      BY <1>1, <2>2 DEF Scores
    <2> QED
      BY <1>4, <2>1, <2>3
  <1>6. CASE ApplyPatches
    <2>1. CASE PatchesToApply # <<>> /\ ~hasManifest
      BY <1>3, <1>6, <2>1 DEF ApplyPatches, Goto, walkVars, loopUnchanged, Probing
    <2>2. CASE ~(PatchesToApply # <<>> /\ ~hasManifest)
      <3>1. records' = Append(records, Summary) /\ current' = NoCommit /\ pc = "apply" /\ pc' = "commit"
        BY <1>6, <2>2 DEF ApplyPatches, Goto
      <3>2. /\ Summary.rounds = current.round /\ Summary.overlap = current.metrics.overlap
            /\ Summary.qaScore = Mean(current.verdict.scores)
        BY DEF Summary
      <3>3. /\ current.round \in 0..MaxRounds /\ current.metrics.overlap \in Scores
            /\ current.verdict.scores \in Seq(Scores)
        BY <3>1 DEF Scored, Probing
      <3>4. Mean(current.verdict.scores) \in Scores
        BY <3>3, MeanRange
      <3> QED
        BY <1>4, <3>1, <3>2, <3>3, <3>4
    <2> QED
      BY <2>1, <2>2
  <1> QED
    BY <1>2, <1>3, <1>5, <1>6, Footprints

-----------------------------------------------------------------------------
(* Paths and the scan of the tree.                                         *)

\* Path f is d or below it.
StartsWith(f, d) == Len(f) >= Len(d) /\ \A i \in 1..Len(d) : f[i] = d[i]

IsPath(f) == \E S : f \in Seq(S)

LEMMA PathFacts ==
  ASSUME NEW f, IsPath(f)
  PROVE  /\ Len(f) \in Nat /\ DOMAIN f = 1..Len(f)
         /\ f = [i \in 1..Len(f) |-> f[i]]
  BY DEF IsPath

LEMMA SamePath ==
  ASSUME NEW f, IsPath(f), NEW g, IsPath(g), StartsWith(f, g), Len(f) <= Len(g)
  PROVE  f = g
  <1>1. Len(f) = Len(g) /\ \A i \in 1..Len(f) : f[i] = g[i]
    BY PathFacts DEF StartsWith
  <1>2. f = [i \in 1..Len(f) |-> f[i]] /\ g = [i \in 1..Len(f) |-> g[i]]
    BY <1>1, PathFacts
  <1>3. [i \in 1..Len(f) |-> f[i]] = [i \in 1..Len(f) |-> g[i]]
    BY <1>1
  <1> QED
    BY <1>2, <1>3

LEMMA BeginningOf ==
  ASSUME NEW f, IsPath(f), NEW k \in 0..Len(f)
  PROVE  /\ IsPath(SubSeq(f, 1, k)) /\ Len(SubSeq(f, 1, k)) = k
         /\ StartsWith(f, SubSeq(f, 1, k))
  <1>1. PICK S : f \in Seq(S)
    BY DEF IsPath
  <1>2. Len(f) \in Nat /\ k \in Nat /\ k <= Len(f) /\ \A i \in 1..k : f[i] \in S
    BY <1>1
  <1> DEFINE b == SubSeq(f, 1, k)
  <1>3. b \in Seq(S) /\ Len(b) = k /\ \A i \in 1..(k - 1 + 1) : b[i] = f[1 + i - 1]
    BY <1>2, SubSeqProperties
  <1> HIDE DEF b
  <1>4. \A i \in 1..k : b[i] = f[i]
    BY <1>2, <1>3
  <1> QED
    BY <1>2, <1>3, <1>4 DEF b, StartsWith, IsPath

LEMMA BeginningIs ==
  ASSUME NEW f, IsPath(f), NEW d, IsPath(d), StartsWith(f, d)
  PROVE  SubSeq(f, 1, Len(d)) = d
  <1>1. Len(d) \in 0..Len(f)
    BY PathFacts DEF StartsWith
  <1> DEFINE b == SubSeq(f, 1, Len(d))
  <1>2. IsPath(b) /\ Len(b) = Len(d) /\ StartsWith(f, b)
    BY <1>1, BeginningOf
  <1> HIDE DEF b
  <1>3. StartsWith(b, d) /\ Len(b) <= Len(d)
    <2>1. \A i \in 1..Len(d) : b[i] = d[i]
      BY <1>2 DEF StartsWith
    <2> QED
      BY <1>2, <2>1, PathFacts DEF StartsWith
  <1>4. b = d
    BY <1>2, <1>3, SamePath
  <1> QED
    BY <1>4 DEF b

\* Where the scan may be.
Visited == Entries \cup {<<>>}

LEMMA TreePaths ==
  /\ \A p \in Visited : IsPath(p)
  /\ TreeFiles \subseteq Entries /\ \A f \in TreeFiles : f \notin Directories
  /\ \A d \in Directories : Tree[d] \in Seq(Entries)
  <1>1. \A p \in Entries : IsPath(p)
    BY TreeAssumption DEF IsPath
  <1>2. IsPath(<<>>)
    <2>1. <<>> \in Seq({})
      OBVIOUS
    <2> QED
      BY <2>1 DEF IsPath
  <1>3. ASSUME NEW d \in Directories PROVE Tree[d] \in Seq(Entries)
    <2>1. Tree[d] \in Seq(ToSet(Tree[d])) /\ ToSet(Tree[d]) \subseteq Entries
      BY TreeAssumption DEF Entries
    <2> QED
      BY <2>1, SeqMonotonic
  <1> QED
    BY <1>1, <1>2, <1>3 DEF Visited, TreeFiles

\* A file below a directory is an entry of it or below one.
LEMMA Descend ==
  ASSUME NEW d \in Visited, d \in Directories, NEW f \in TreeFiles, StartsWith(f, d)
  PROVE  \E i \in DOMAIN Tree[d] : StartsWith(f, Tree[d][i])
  <1>1. IsPath(d) /\ IsPath(f) /\ f \in Entries /\ f # d
    BY TreePaths DEF Visited
  <1>2. Len(d) \in Nat /\ Len(f) \in Nat
    BY <1>1, PathFacts
  <1>3. Len(d) + 1 \in 1..Len(f)
    <2>1. ~(Len(f) <= Len(d))
      BY <1>1, SamePath
    <2> QED
      BY <1>2, <2>1
  <1>4. SubSeq(f, 1, Len(d)) = d
    BY <1>1, BeginningIs
  <1> DEFINE e == SubSeq(f, 1, Len(d) + 1)
  <1>5. e \in ToSet(Tree[SubSeq(f, 1, (Len(d) + 1) - 1)]) /\ (Len(d) + 1) - 1 = Len(d)
    BY <1>1, <1>2, <1>3, TreeAssumption
  <1>6. StartsWith(f, e)
    BY <1>1, <1>2, <1>3, BeginningOf
  <1> HIDE DEF e
  <1>7. e \in ToSet(Tree[d])
    BY <1>4, <1>5
  <1> QED
    BY <1>6, <1>7 DEF ToSet

\* No file is below a path that is no directory.
LEMMA NothingBelow ==
  ASSUME NEW p \in Visited, p \notin Directories, NEW f \in TreeFiles, StartsWith(f, p)
  PROVE  f = p
  <1>1. IsPath(p) /\ IsPath(f) /\ f \in Entries
    BY TreePaths DEF Visited
  <1>2. Len(p) \in Nat /\ Len(f) \in Nat
    BY <1>1, PathFacts
  <1>3. ~(Len(p) + 1 \in 1..Len(f))
    <2>1. SUFFICES ASSUME Len(p) + 1 \in 1..Len(f) PROVE FALSE
      OBVIOUS
    <2>2. SubSeq(f, 1, (Len(p) + 1) - 1) \in Directories /\ (Len(p) + 1) - 1 = Len(p)
      BY <1>1, <1>2, <2>1, TreeAssumption
    <2>3. SubSeq(f, 1, Len(p)) = p
      BY <1>1, BeginningIs
    <2> QED
      BY <2>2, <2>3
  <1>4. Len(f) <= Len(p)
    BY <1>2, <1>3
  <1> QED
    BY <1>1, <1>4, SamePath

\* What is below an excluded path is excluded.
LEMMA ExcludedBelow ==
  ASSUME NEW p, IsPath(p), NEW f, IsPath(f), StartsWith(f, p), Excluded(p)
  PROVE  Excluded(f)
  <1>1. PICK i \in 1..(Len(p) - 1) : p[i] \in ExcludedNames
    BY DEF Excluded
  <1>2. Len(p) \in Nat /\ Len(f) \in Nat /\ Len(f) >= Len(p)
    BY PathFacts DEF StartsWith
  <1>3. i \in 1..(Len(f) - 1) /\ i \in 1..Len(p)
    BY <1>2
  <1>4. f[i] = p[i]
    BY <1>3 DEF StartsWith
  <1> QED
    BY <1>1, <1>3, <1>4 DEF Excluded

\* The files a scan should find.
Countable == {f \in TreeFiles : ~Excluded(f)}

\* File f was found or will be.
Awaited(f, found, entries) ==
  f \in ToSet(found) \/ \E i \in 1..Len(entries) : StartsWith(f, entries[i])

\* File f is below a directory that could not be read.
Lost(f, dirs) == \E d \in dirs : StartsWith(f, d)

Scanning ==
  /\ unread \subseteq Visited
  /\ todo \in Seq(Visited)
  /\ scanned \in Seq(Countable) /\ Len(scanned) <= MaxFiles
  /\ \A f \in Countable : Lost(f, unread) \/ Awaited(f, scanned, todo)
  /\ pc \in Early => profile = Nothing
  /\ profile # Nothing => ScanDone /\ profile.scanTruncated = ScanFull

LEMMA AwaitedRest ==
  ASSUME NEW S, NEW entries \in Seq(S), entries # <<>>, NEW found, NEW f,
         Awaited(f, found, entries), ~StartsWith(f, Head(entries))
  PROVE  Awaited(f, found, Tail(entries))
  <1>1. CASE f \in ToSet(found)
    BY <1>1 DEF Awaited
  <1>2. CASE f \notin ToSet(found)
    <2>1. PICK i \in 1..Len(entries) : StartsWith(f, entries[i])
      BY <1>2 DEF Awaited
    <2>2. /\ Len(entries) \in Nat /\ Len(Tail(entries)) = Len(entries) - 1
          /\ \A k \in 1..(Len(entries) - 1) : Tail(entries)[k] = entries[k + 1]
          /\ Head(entries) = entries[1]
      OBVIOUS
    <2>3. i # 1
      BY <2>1, <2>2
    <2>4. i - 1 \in 1..Len(Tail(entries)) /\ Tail(entries)[i - 1] = entries[(i - 1) + 1] /\ (i - 1) + 1 = i
      BY <2>2, <2>3
    <2> QED
      BY <2>1, <2>4 DEF Awaited
  <1> QED
    BY <1>1, <1>2

\* One entry is visited: what was awaited still is, or is below a directory that cannot be read.
LEMMA VisitKeeps ==
  ASSUME Scanning, todo # <<>>, ~ScanFull, Visit(Head(todo))
  PROVE  /\ unread' \subseteq Visited
         /\ todo' \in Seq(Visited)
         /\ scanned' \in Seq(Countable) /\ Len(scanned') <= MaxFiles
         /\ \A f \in Countable : Lost(f, unread') \/ Awaited(f, scanned', todo')
  <1> DEFINE path == Head(todo)
  <1>1. /\ todo \in Seq(Visited) /\ scanned \in Seq(Countable) /\ Len(scanned) \in Nat /\ MaxFiles \in Nat
        /\ unread \subseteq Visited
    BY StackAssumption DEF Scanning
  <1>2. path \in Visited /\ Tail(todo) \in Seq(Visited)
    BY <1>1
  <1>3. IsPath(path) /\ \A f \in Countable : IsPath(f) /\ f \in TreeFiles
    BY <1>2, TreePaths DEF Countable, Visited
  <1>4. ASSUME NEW f \in Countable, ~Lost(f, unread), ~StartsWith(f, path)
        PROVE  Awaited(f, scanned, Tail(todo))
    BY <1>1, <1>4, AwaitedRest DEF Scanning
  <1> HIDE DEF path
  <1>5. CASE Excluded(path) /\ todo' = Tail(todo) /\ UNCHANGED <<scanned, unread>>
    <2>1. \A f \in Countable : ~StartsWith(f, path)
      BY <1>3, <1>5, ExcludedBelow DEF Countable
    <2> QED
      BY <1>1, <1>2, <1>4, <1>5, <2>1 DEF Scanning
  <1>6. CASE path \in Directories /\ todo' = Tree[path] \o Tail(todo) /\ UNCHANGED <<scanned, unread>>
    <2>1. Tree[path] \in Seq(Visited)
      <3>1. Tree[path] \in Seq(Entries) /\ Entries \subseteq Visited
        BY <1>6, TreePaths DEF Visited
      <3> QED
        BY <3>1, SeqMonotonic
    <2> DEFINE a == Tree[path]
               b == Tail(todo)
    <2>2. a \in Seq(Visited) /\ b \in Seq(Visited) /\ todo' = a \o b
      BY <1>2, <1>6, <2>1
    <2>3. /\ \A f \in TreeFiles : StartsWith(f, path) => \E i \in DOMAIN a : StartsWith(f, a[i])
      BY <1>2, <1>6, Descend
    <2>4. \A f \in Countable : ~Lost(f, unread) /\ ~StartsWith(f, path) => Awaited(f, scanned, b)
      BY <1>4
    <2> HIDE DEF a, b
    <2>5. /\ a \o b \in Seq(Visited) /\ Len(a \o b) = Len(a) + Len(b) /\ Len(a) \in Nat /\ Len(b) \in Nat
          /\ DOMAIN a = 1..Len(a)
          /\ \A i \in 1..Len(a) : (a \o b)[i] = a[i]
          /\ \A i \in 1..Len(b) : (a \o b)[Len(a) + i] = b[i]
      BY <2>2
    <2>6. ASSUME NEW f \in Countable, ~Lost(f, unread) PROVE Awaited(f, scanned, a \o b)
      <3>1. CASE StartsWith(f, path)
        <4>1. PICK i \in 1..Len(a) : StartsWith(f, a[i])
          BY <1>3, <2>3, <2>5, <3>1
        <4>2. i \in 1..Len(a \o b)
          BY <2>5
        <4> QED
          BY <2>5, <4>1, <4>2 DEF Awaited
      <3>2. CASE ~StartsWith(f, path)
        <4>1. Awaited(f, scanned, b)
          BY <2>4, <2>6, <3>2
        <4>2. CASE f \in ToSet(scanned)
          BY <4>2 DEF Awaited
        <4>3. CASE f \notin ToSet(scanned)
          <5>1. PICK i \in 1..Len(b) : StartsWith(f, b[i])
            BY <4>1, <4>3 DEF Awaited
          <5>2. Len(a) + i \in 1..Len(a \o b)
            BY <2>5
          <5> QED
            BY <2>5, <5>1, <5>2 DEF Awaited
        <4> QED
          BY <4>2, <4>3
      <3> QED
        BY <3>1, <3>2
    <2> QED
      BY <1>1, <1>6, <2>2, <2>5, <2>6 DEF Scanning
  <1>7. CASE todo' = Tail(todo) /\ unread' = unread \cup {path} /\ UNCHANGED scanned
    <2>1. ASSUME NEW f \in Countable, ~Lost(f, unread') PROVE Awaited(f, scanned', todo')
      <3>1. ~StartsWith(f, path) /\ ~Lost(f, unread)
        BY <1>7, <2>1 DEF Lost
      <3> QED
        BY <1>4, <1>7, <3>1
    <2> QED
      BY <1>1, <1>2, <1>7, <2>1 DEF Scanning
  <1>8. CASE /\ ~Excluded(path) /\ path \notin Directories
             /\ todo' = Tail(todo) /\ scanned' = Append(scanned, path) /\ UNCHANGED unread
    <2>1. path \in Countable
      <3>1. path \in Entries
        BY <1>2, <1>8, TreeAssumption DEF Visited
      <3> QED
        BY <1>8, <3>1 DEF Countable, TreeFiles
    <2>2. scanned' \in Seq(Countable) /\ Len(scanned') = Len(scanned) + 1
      BY <1>1, <1>8, <2>1
    <2>3. ToSet(scanned) \subseteq ToSet(scanned') /\ path \in ToSet(scanned')
      <3>1. /\ DOMAIN scanned = 1..Len(scanned) /\ DOMAIN scanned' = 1..(Len(scanned) + 1)
            /\ \A i \in 1..Len(scanned) : scanned'[i] = scanned[i]
            /\ scanned'[Len(scanned) + 1] = path
        BY <1>1, <1>8
      <3>2. \A i \in DOMAIN scanned : i \in DOMAIN scanned' /\ scanned'[i] = scanned[i]
        BY <1>1, <3>1
      <3>3. Len(scanned) + 1 \in DOMAIN scanned'
        BY <1>1, <3>1
      <3> QED
        BY <3>1, <3>2, <3>3 DEF ToSet
    <2>4. ASSUME NEW f \in Countable, ~Lost(f, unread) PROVE Awaited(f, scanned', todo')
      <3>1. CASE StartsWith(f, path)
        <4>1. f = path
          BY <1>2, <1>3, <1>8, <3>1, NothingBelow
        <4> QED
          BY <2>3, <4>1 DEF Awaited
      <3>2. CASE ~StartsWith(f, path)
        <4>1. Awaited(f, scanned, todo')
          BY <1>4, <1>8, <2>4, <3>2
        <4> QED
          BY <2>3, <4>1 DEF Awaited
      <3> QED
        BY <3>1, <3>2
    <2>5. Len(scanned') <= MaxFiles
      BY <1>1, <2>2 DEF ScanFull
    <2> QED
      BY <1>1, <1>2, <1>8, <2>2, <2>4, <2>5
  <1> QED
    BY <1>5, <1>6, <1>7, <1>8 DEF Visit, path

LEMMA InitScanning == Init => Scanning
  <1> SUFFICES ASSUME Init PROVE Scanning
    OBVIOUS
  <1>1. todo = << <<>> >> /\ scanned = <<>> /\ unread = {} /\ profile = Nothing /\ MaxFiles \in Nat
    BY StackAssumption DEF Init, ScanInit
  <1>2. todo \in Seq(Visited) /\ scanned \in Seq(Countable) /\ Len(scanned) <= MaxFiles
    BY <1>1 DEF Visited
  <1>3. ASSUME NEW f \in Countable PROVE Awaited(f, scanned, todo)
    <2>1. f \in Visited
      BY TreePaths DEF Countable, Visited
    <2>2. IsPath(f)
      BY <2>1, TreePaths
    <2>3. StartsWith(f, <<>>) /\ 1 \in 1..Len(todo) /\ todo[1] = <<>>
      BY <1>1, <2>2, PathFacts DEF StartsWith
    <2> QED
      BY <2>3 DEF Awaited
  <1> QED
    BY <1>1, <1>2, <1>3 DEF Scanning

LEMMA NextScanning == Scanning /\ [Next]_vars => Scanning'
  <1> SUFFICES ASSUME Scanning, [Next]_vars PROVE Scanning'
    OBVIOUS
  <1>1. CASE DetectStack
    <2>1. /\ pc = "stack_detect" /\ profile' = profile
          /\ todo # <<>> /\ ~ScanFull /\ Visit(Head(todo))
      BY <1>1 DEF DetectStack, ScanStep, ScanDone
    <2>2. profile' = Nothing
      BY <2>1 DEF Scanning, Early
    <2> QED
      BY <2>1, <2>2, VisitKeeps DEF Scanning
  <1>2. CASE WriteStackProfile
    <2>1. ScanDone /\ profile' = Profile /\ pc' = "confluence" /\ UNCHANGED scanVars
      BY <1>2 DEF WriteStackProfile, Goto
    <2>2. Profile.scanTruncated = ScanFull
      BY DEF Profile
    <2> QED
      BY <2>1, <2>2 DEF Scanning, scanVars, ScanDone, ScanFull, Early
  <1>3. CASE UNCHANGED scanVars /\ UNCHANGED profile
    <2>1. pc' \in Early => pc \in Early
      BY Footprints
    <2> QED
      BY <1>3, <2>1 DEF Scanning, scanVars, ScanDone, ScanFull
  <1> QED
    BY <1>1, <1>2, <1>3, Footprints

\* The profile counts no file that is excluded, and if it is not truncated every other one
\* that is not below an unreadable directory.
LEMMA ScanIsWhole ==
  ASSUME Scanning
  PROVE  /\ ToSet(scanned) \subseteq Countable
         /\ profile # Nothing /\ ~profile.scanTruncated =>
              Countable \ UNION {Below(d, TreeFiles) : d \in unread} \subseteq ToSet(scanned)
  <1>1. ToSet(scanned) \subseteq Countable
    <2>1. DOMAIN scanned = 1..Len(scanned) /\ \A i \in 1..Len(scanned) : scanned[i] \in Countable
      BY SeqDomain DEF Scanning
    <2> QED
      BY <2>1 DEF ToSet
  <1>2. ASSUME NEW f \in Countable, NEW d \in unread, StartsWith(f, d) PROVE f \in Below(d, TreeFiles)
    <2>1. f \in TreeFiles /\ IsPath(f) /\ IsPath(d)
      BY TreePaths DEF Scanning, Countable, Visited
    <2>2. SubSeq(f, 1, Len(d)) = d
      BY <1>2, <2>1, BeginningIs
    <2>3. Len(f) >= Len(d)
      BY <1>2 DEF StartsWith
    <2> QED
      BY <2>1, <2>2, <2>3 DEF Below
  <1>3. ASSUME profile # Nothing, ~profile.scanTruncated,
               NEW f \in Countable, f \notin UNION {Below(d, TreeFiles) : d \in unread}
        PROVE  f \in ToSet(scanned)
    <2>1. todo = <<>>
      BY <1>3 DEF Scanning, ScanDone
    <2>2. ~Lost(f, unread)
      BY <1>2, <1>3 DEF Lost
    <2> QED
      BY <2>1, <2>2 DEF Scanning, Awaited
  <1> QED
    BY <1>1, <1>3

-----------------------------------------------------------------------------
(* Types.                                                                  *)

\* What every other proof below starts from.
Sound == AboutInv /\ Walked /\ Calling /\ SpecsTyped /\ Scored /\ Scanning /\ bootShards \in Nat

LEMMA NextBootShards == bootShards \in Nat /\ [Next]_vars => bootShards' \in Nat
  <1> SUFFICES ASSUME bootShards \in Nat, [Next]_vars PROVE bootShards' \in Nat
    OBVIOUS
  <1>1. CASE RunArchitect
    <2>1. bootShards' = IF hasManifest' THEN Len(shards') ELSE 0
      BY <1>1 DEF RunArchitect
    <2>2. Len(shards') \in Nat
      <3>1. CASE options.mock
        BY <1>1, <3>1 DEF RunArchitect
      <3>2. CASE ~options.mock
        <4>1. PICK store \in AgentStores : shards' = store.shards
          BY <1>1, <3>2 DEF RunArchitect
        <4>2. shards' \in Seq(ToSet(shards'))
          BY <4>1, AgentAssumption
        <4> QED
          BY <4>2
      <3> QED
        BY <3>1, <3>2
    <2> QED
      BY <2>1, <2>2
  <1>2. CASE bootShards' = bootShards
    BY <1>2
  <1> QED
    BY <1>1, <1>2, Footprints

LEMMA InitSound == Init => Sound
  <1> SUFFICES ASSUME Init PROVE Sound
    OBVIOUS
  <1>1. Calling
    BY ClientAssumption DEF Init, ClientInit, Calling, ClientTypeOK, Calls
  <1>2. bootShards \in Nat
    BY DEF Init
  <1> QED
    BY <1>1, <1>2, InitAbout, InitWalked, InitSpecsTyped, InitScored, InitScanning DEF Sound

LEMMA NextSound == Sound /\ [Next]_vars => Sound'
  BY NextAbout, NextWalked, NextCalling, NextSpecsTyped, NextScored, NextScanning, NextBootShards DEF Sound

LEMMA AlwaysSound == Spec => []Sound
  <1>1. Init => Sound
    BY InitSound
  <1>2. Sound /\ [Next]_vars => Sound'
    BY NextSound
  <1> QED
    BY <1>1, <1>2, PTL DEF Spec

\* Types and ranges, for any repository, any job and any answers: no rounds beyond maxRounds
\* (runCalibrationLoop), no retries beyond maxRetries (requestWithRetry), no more files
\* scanned than maxFiles, no record without a commit, and every score in 0..1000.
THEOREM TypeCorrect == Spec => []TypeOK
  <1>1. Sound => TypeOK
    <2> SUFFICES ASSUME Sound PROVE TypeOK
      OBVIOUS
    <2>1. options \in OptionSets /\ pc \in PCs /\ ClientTypeOK /\ bootShards \in Nat
      BY DEF Sound, AboutInv, Shape, Walked, Calling
    <2>2. Len(scanned) <= MaxFiles
      BY DEF Sound, Scanning
    <2>3. next \in 0..Len(Walk) /\ Len(records) = next
      BY WalkType DEF Sound, AboutInv, Shape, Walked
    <2>4. current.round \in 0..MaxRounds
      BY DEF Sound, Scored
    <2>5. \A k \in Keys : {specs[k], inRepo[k]} \subseteq FeatureSpecs \cup {Nothing}
      BY DEF Sound, SpecsTyped
    <2>6. ASSUME NEW i \in DOMAIN records
          PROVE  /\ records[i].rounds \in 0..MaxRounds
                 /\ {records[i].overlap, records[i].qaScore} \subseteq 0..1000
      <3>1. /\ records[i].rounds \in 0..MaxRounds
            /\ records[i].overlap \in Scores /\ records[i].qaScore \in Scores
        BY Zenon DEF Sound, Scored
      <3>2. \A x \in Scores : x \in 0..1000
        BY DEF Scores
      <3>3. {records[i].overlap, records[i].qaScore} \subseteq 0..1000
        BY ONLY <3>1, <3>2
      <3> QED
        BY <3>1, <3>3, Zenon
    <2>7. Len(records) = next /\ next \in 0..Len(Walk) /\ current.round \in 0..MaxRounds
      BY <2>3, <2>4, Zenon
    <2> QED
      BY <2>1, <2>2, <2>5, <2>6, <2>7, Zenon DEF TypeOK
  <1> QED
    BY <1>1, AlwaysSound, PTL

-----------------------------------------------------------------------------
(* Inputs: the pages, the tree and the walk.                               *)

Asked ==
  /\ fetched \cup missing \subseteq ToSet(PageIds) /\ fetched \cap missing = {}
  /\ pc \in Early => call = "idle"
  /\ pc = "confluence" /\ call # "idle" => PagesLeft # <<>>
  /\ pc \notin Opening => PagesLeft = <<>>

LEMMA PageFacts ==
  ASSUME options \in OptionSets
  PROVE  /\ \E S : PagesLeft \in Seq(S)
         /\ ToSet(PagesLeft) = ToSet(PageIds) \ (fetched \cup missing)
  <1> DEFINE pages == options.pages
             I == {i \in DOMAIN pages : \A k \in 1..(i - 1) : pages[k] # pages[i]}
             T == {pages[i] : i \in I \cap DOMAIN pages}
  <1>1. pages \in Seq(ToSet(pages)) /\ MaxPageIds \in Nat
    BY JobAssumption
  <1>2. Chosen(pages, I) \in Seq(T)
    <2> HIDE DEF pages, I
    <2> QED
      BY <1>1, ChosenFacts
  <1>3. FirstN(Chosen(pages, I), MaxPageIds) = FirstOf(Chosen(pages, I), MaxPageIds)
    BY DEF FirstN, FirstOf
  <1>4. PageIds \in Seq(T)
    <2>1. PageIds = FirstOf(Chosen(pages, I), MaxPageIds)
      BY <1>3 DEF PageIds
    <2> HIDE DEF pages, I, T
    <2> QED
      BY <1>1, <1>2, <2>1, FirstOfFacts
  <1> HIDE DEF T
  <1> DEFINE J == {i \in DOMAIN PageIds : PageIds[i] \notin fetched \cup missing}
  <1>5. PagesLeft = Chosen(PageIds, J)
    BY DEF PagesLeft
  <1>6. {PageIds[i] : i \in J \cap DOMAIN PageIds} = ToSet(PageIds) \ (fetched \cup missing)
    BY DEF ToSet
  <1> HIDE DEF J
  <1>7. /\ PagesLeft \in Seq({PageIds[i] : i \in J \cap DOMAIN PageIds})
        /\ ToSet(PagesLeft) = {PageIds[i] : i \in J \cap DOMAIN PageIds}
    BY <1>4, <1>5, ChosenFacts
  <1> QED
    BY <1>6, <1>7

LEMMA LeftFacts ==
  ASSUME options \in OptionSets
  PROVE  /\ PagesLeft = <<>> <=> ToSet(PageIds) \subseteq fetched \cup missing
         /\ PagesLeft # <<>> => Head(PagesLeft) \in ToSet(PageIds) \ (fetched \cup missing)
  <1>1. PICK S : PagesLeft \in Seq(S)
    BY PageFacts
  <1>2. ToSet(PagesLeft) = {} <=> PagesLeft = <<>>
    <2>1. PagesLeft = <<>> => ToSet(PagesLeft) = {}
      BY DEF ToSet
    <2>2. PagesLeft # <<>> => 1 \in DOMAIN PagesLeft
      BY <1>1
    <2>3. 1 \in DOMAIN PagesLeft => PagesLeft[1] \in ToSet(PagesLeft)
      BY DEF ToSet
    <2> QED
      BY <2>1, <2>2, <2>3
  <1>3. PagesLeft # <<>> => Head(PagesLeft) \in ToSet(PagesLeft)
    <2>1. PagesLeft # <<>> => 1 \in DOMAIN PagesLeft /\ Head(PagesLeft) = PagesLeft[1]
      BY <1>1
    <2> QED
      BY <2>1 DEF ToSet
  <1> QED
    BY <1>2, <1>3, PageFacts

LEMMA InitAsked == Init => Asked
  BY DEF Init, ClientInit, Asked, Early, Opening

LEMMA NextAsked == AboutInv /\ Asked /\ [Next]_vars => Asked'
  <1> SUFFICES ASSUME AboutInv, Asked, [Next]_vars PROVE Asked'
    OBVIOUS
  <1>1. options' = options /\ options \in OptionSets /\ PageIds' = PageIds
    BY Footprints DEF AboutInv, Shape, PageIds
  <1>2. CASE TakePage
    <2>1. pc = "confluence" /\ pc' = "confluence" /\ call' = "idle" /\ call # "idle"
      BY <1>2 DEF TakePage, HangUp
    <2>2. Head(PagesLeft) \in ToSet(PageIds) \ (fetched \cup missing)
      BY <1>1, <2>1, LeftFacts DEF Asked
    <2>3. \/ fetched' = fetched \cup {Head(PagesLeft)} /\ missing' = missing
          \/ missing' = missing \cup {Head(PagesLeft)} /\ fetched' = fetched
      BY <1>2 DEF TakePage
    <2>4. fetched' \cup missing' \subseteq ToSet(PageIds) /\ fetched' \cap missing' = {}
      BY <2>2, <2>3 DEF Asked
    <2> QED
      BY <1>1, <2>1, <2>4 DEF Asked, Early, Opening
  <1>3. CASE UNCHANGED <<fetched, missing>>
    <2>1. PagesLeft' = PagesLeft
      BY <1>1, <1>3 DEF PagesLeft
    <2>2. pc' \in Early => call' = "idle"
      <3>1. pc' \in Early => pc \in Early
        BY Footprints
      <3>2. AskForPage \/ StartCommit \/ TakePage \/ TakeIssue \/ TakeReply => pc \notin Early
        BY DEF AskForPage, StartCommit, TakePage, TakeIssue, TakeReply, Early
      <3>3. call' = call \/ pc \notin Early
        BY <3>2, Footprints DEF clientVars
      <3> QED
        BY <3>1, <3>3 DEF Asked
    <2>3. pc' = "confluence" /\ call' # "idle" => PagesLeft # <<>>
      <3>1. SUFFICES ASSUME pc' = "confluence", call' # "idle" PROVE PagesLeft # <<>>
        OBVIOUS
      <3>2. CASE WriteStackProfile
        BY <3>1, <3>2 DEF WriteStackProfile, clientVars, Asked, Early
      <3>3. CASE pc = "confluence"
        <4>1. CASE AskForPage
          BY <4>1 DEF AskForPage
        <4>2. CASE StartCommit \/ TakePage \/ TakeIssue
          BY <3>1, <3>3, <4>2 DEF StartCommit, TakePage, TakeIssue, HangUp
        <4>3. CASE TakeReply
          <5>1. call # "idle"
            BY <4>3 DEF TakeReply, Reply, Succeed, Refuse, TryLater, Unreachable
          <5> QED
            BY <3>3, <5>1 DEF Asked
        <4>4. CASE UNCHANGED clientVars
          BY <3>1, <3>3, <4>4 DEF clientVars, Asked
        <4> QED
          BY <4>1, <4>2, <4>3, <4>4, Footprints
      <3> QED
        BY <3>1, <3>2, <3>3, Footprints
    <2>4. pc' \notin Opening => PagesLeft = <<>>
      <3>1. CASE RunArchitect
        BY <3>1 DEF RunArchitect
      <3>2. CASE pc \notin Opening
        BY <3>2 DEF Asked
      <3> QED
        BY <3>1, <3>2, Footprints
    <2> QED
      BY <1>1, <1>3, <2>1, <2>2, <2>3, <2>4 DEF Asked
  <1> QED
    BY <1>2, <1>3, Footprints

LEMMA AlwaysAsked == Spec => [](Sound /\ Asked)
  <1>1. Init => Sound /\ Asked
    BY InitSound, InitAsked
  <1>2. Sound /\ Asked /\ [Next]_vars => (Sound /\ Asked)'
    BY NextSound, NextAsked DEF Sound
  <1> QED
    BY <1>1, <1>2, PTL DEF Spec

\* listCommits, getPages and walkFiles leave nothing out silently: for any history, the commits
\* handled are the newest of the head and not more than the depth; every page asked for is
\* fetched or missing and none is both; and for any tree, the profile counts no excluded file,
\* and unless it says it is truncated every other one that is not below an unreadable directory.
THEOREM InputsAccounted == Spec => []InputsAreAccountedFor
  <1>1. Sound /\ Asked => InputsAreAccountedFor
    <2> SUFFICES ASSUME Sound, Asked PROVE InputsAreAccountedFor
      OBVIOUS
    <2>1. options \in OptionSets /\ Len(records) = next /\ next <= Len(Walk) /\ next \in Nat
      BY DEF Sound, AboutInv, Shape, Walked
    <2>2. DOMAIN records = 1..Len(records)
      <3>1. PICK S : records \in Seq(S)
        BY DEF Sound, AboutInv, Shape
      <3> QED
        BY <3>1
    <2>3. /\ Len(Walk) <= options.depth /\ Len(Walk) \in Nat
          /\ \A i \in 1..Len(Walk) : \A c \in Ancestors(HistoryOf(options), options.head) :
               c > Walk[i].commit => \E j \in DOMAIN Walk : Walk[j].commit = c
      BY <2>1, WalkType
    <2>4. \A i \in DOMAIN records : i \in 1..Len(Walk) /\ records[i].commit = Walk[i].commit
      BY <2>1, <2>2, <2>3 DEF Sound, Walked
    <2>5. \A i \in DOMAIN records : \A c \in Ancestors(HistoryOf(options), options.head) :
            c > records[i].commit => \E j \in DOMAIN Walk : Walk[j].commit = c
      BY <2>3, <2>4
    <2>6. pc \notin {"clone", "stack_detect", "confluence", "failed"} =>
            fetched \cup missing = ToSet(PageIds) /\ fetched \cap missing = {}
      <3>1. pc \notin {"clone", "stack_detect", "confluence", "failed"} => pc \notin Opening
        BY DEF Opening, Early
      <3> QED
        BY <2>1, <3>1, LeftFacts DEF Asked
    <2>7. profile # Nothing =>
            /\ ToSet(scanned) \subseteq {f \in TreeFiles : ~Excluded(f)}
            /\ \/ profile.scanTruncated
               \/ {f \in TreeFiles : ~Excluded(f)} \ UNION {Below(d, TreeFiles) : d \in unread}
                    \subseteq ToSet(scanned)
      BY ScanIsWhole DEF Sound, Countable
    <2> QED
      BY <2>3, <2>5, <2>6, <2>7 DEF InputsAreAccountedFor
  <1> QED
    BY <1>1, AlwaysAsked, PTL

-----------------------------------------------------------------------------
(* What becomes of the shards of the manifest.                             *)

LEMMA OnePatch ==
  ASSUME NEW W, NEW entries \in Seq(W), NEW p, p.target \in W
  PROVE  ApplyPatch(entries, p) \in Seq(W)
  <1> DEFINE I == {i \in DOMAIN entries : entries[i] # p.target}
             T == {entries[i] : i \in I \cap DOMAIN entries}
  <1>1. Chosen(entries, I) \in Seq(W)
    <2>1. T \subseteq W
      OBVIOUS
    <2> HIDE DEF I
    <2>2. Chosen(entries, I) \in Seq(T)
      BY ChosenFacts
    <2> HIDE DEF T
    <2> QED
      BY <2>1, <2>2, SeqMonotonic
  <1>2. Append(entries, p.target) \in Seq(W)
    OBVIOUS
  <1>3. \/ ApplyPatch(entries, p) = Chosen(entries, I)
        \/ ApplyPatch(entries, p) = Append(entries, p.target)
        \/ ApplyPatch(entries, p) = entries
    BY DEF ApplyPatch
  <1> HIDE DEF I
  <1> QED
    BY <1>1, <1>2, <1>3

\* f holds the shards after the first patches.
Patches(f, entries, patches, W) ==
  /\ f \in [0..Len(patches) -> Seq(W)]
  /\ f[0] = entries
  /\ \A k \in 1..Len(patches) : f[k] = ApplyPatch(f[k - 1], patches[k])
  /\ Patched(entries, patches) = f[Len(patches)]

LEMMA PatchSteps ==
  ASSUME NEW W, NEW entries \in Seq(W), NEW S, NEW patches \in Seq(S),
         \A k \in DOMAIN patches : patches[k].target \in W
  PROVE  \E f : Patches(f, entries, patches, W)
  <1> DEFINE N == Len(patches)
             V == Seq(W)
             F(f) == [k \in 0..N |-> IF k = 0 THEN entries ELSE ApplyPatch(f[k - 1], patches[k])]
             G == [k \in 1..N |-> [v \in V |-> ApplyPatch(v, patches[k])]]
  <1>1. N \in Nat /\ DOMAIN patches = 1..N
    OBVIOUS
  <1>2. \A k \in 1..N : \A v \in V : ApplyPatch(v, patches[k]) \in V
    BY <1>1, OnePatch
  <1>3. G \in Steps(N, V)
    <2> HIDE DEF V, N
    <2> QED
      BY <1>2 DEF Steps
  <1>4. PICK f \in [0..N -> V] : f[0] = entries /\ \A k \in 1..N : f[k] = G[k][f[k - 1]]
    <2>1. entries \in V
      OBVIOUS
    <2> HIDE DEF G, N, V
    <2>2. \E f : Iterates(f, N, V, entries, G)
      BY <1>1, <1>3, <2>1, Recursion
    <2> QED
      BY <2>2 DEF Iterates
  <1>5. f = F(f)
    <2>1. ASSUME NEW k \in 1..N PROVE f[k] = ApplyPatch(f[k - 1], patches[k])
      <3>1. k - 1 \in 0..N /\ f[k - 1] \in V
        BY <1>1
      <3> HIDE DEF V
      <3> QED
        BY <1>4, <3>1
    <2>2. f = [k \in 0..N |-> f[k]]
      OBVIOUS
    <2>3. \A k \in 0..N : k = 0 \/ k \in 1..N
      BY <1>1
    <2> HIDE DEF N, V
    <2> QED
      BY <1>4, <2>1, <2>2, <2>3
  <1> DEFINE t == CHOOSE t : t = F(t)
  <1>6. t = F(t)
    BY <1>5
  <1>7. Patched(entries, patches) = t[N]
    BY DEF Patched
  <1> HIDE DEF t
  <1>8. t[0] = entries /\ \A k \in 1..N : t[k] = ApplyPatch(t[k - 1], patches[k])
    <2>1. \A k \in 0..N : F(t)[k] = IF k = 0 THEN entries ELSE ApplyPatch(t[k - 1], patches[k])
      OBVIOUS
    <2>2. 0 \in 0..N /\ \A k \in 1..N : k \in 0..N /\ k # 0
      BY <1>1
    <2> HIDE DEF N, F
    <2> QED
      BY <1>6, <2>1, <2>2
  <1> DEFINE A == {k \in 0..N : t[k] \in V}
  <1>9. 0 \in A
    BY <1>1, <1>8
  <1>10. ASSUME NEW n \in 0..(N - 1), n \in A PROVE n + 1 \in A
    <2>1. n + 1 \in 1..N /\ n + 1 \in 0..N /\ (n + 1) - 1 = n
      BY <1>1
    <2>2. t[n] \in V
      BY <1>10
    <2> HIDE DEF V
    <2>3. t[n + 1] = ApplyPatch(t[n], patches[n + 1])
      BY <1>8, <2>1
    <2> QED
      BY <1>2, <2>1, <2>2, <2>3
  <1> HIDE DEF A
  <1>11. 0..N \subseteq A
    BY <1>1, <1>9, <1>10, UpTo
  <1>12. t \in [0..N -> V]
    <2>1. t = [k \in 0..N |-> t[k]]
      BY <1>6
    <2>2. \A k \in 0..N : t[k] \in V
      BY <1>11 DEF A
    <2> HIDE DEF N, V
    <2> QED
      BY <2>1, <2>2
  <1>13. Patches(t, entries, patches, W)
    BY <1>7, <1>8, <1>12 DEF Patches
  <1> QED
    BY <1>13

\* Patched shards are a list; appending to shards that are there adds none.
LEMMA PatchedFacts ==
  ASSUME NEW entries, IsPath(entries), NEW patches, IsPath(patches)
  PROVE  /\ IsPath(Patched(entries, patches))
         /\ (\A k \in DOMAIN patches :
               patches[k].operation = "append" /\ patches[k].target \in ToSet(entries))
              => Patched(entries, patches) = entries
  <1>1. PICK S : entries \in Seq(S)
    BY DEF IsPath
  <1>2. PICK P : patches \in Seq(P)
    BY DEF IsPath
  <1> DEFINE W == S \cup {patches[k].target : k \in DOMAIN patches}
             N == Len(patches)
  <1>3. entries \in Seq(W)
    BY <1>1, SeqMonotonic
  <1>4. \A k \in DOMAIN patches : patches[k].target \in W
    OBVIOUS
  <1>5. N \in Nat /\ DOMAIN patches = 1..N
    BY <1>2
  <1> HIDE DEF W, N
  <1>6. PICK f : Patches(f, entries, patches, W)
    BY <1>2, <1>3, <1>4, PatchSteps
  <1>7. f \in [0..N -> Seq(W)] /\ f[0] = entries /\ Patched(entries, patches) = f[N]
    BY <1>6 DEF Patches, N
  <1>8. \A k \in 1..N : f[k] = ApplyPatch(f[k - 1], patches[k])
    BY <1>6 DEF Patches, N
  <1>9. IsPath(Patched(entries, patches))
    BY <1>5, <1>7 DEF IsPath
  <1>10. ASSUME \A k \in DOMAIN patches :
                  patches[k].operation = "append" /\ patches[k].target \in ToSet(entries)
         PROVE  Patched(entries, patches) = entries
    <2> DEFINE A == {k \in 0..N : f[k] = entries}
    <2>1. 0 \in A
      BY <1>5, <1>7
    <2>2. ASSUME NEW n \in 0..(N - 1), n \in A PROVE n + 1 \in A
      <3>1. n + 1 \in 1..N /\ n + 1 \in 0..N /\ (n + 1) - 1 = n
        BY <1>5
      <3>2. f[n + 1] = ApplyPatch(entries, patches[n + 1])
        BY <1>8, <2>2, <3>1
      <3>3. patches[n + 1].operation = "append" /\ patches[n + 1].target \in ToSet(entries)
        BY <1>5, <1>10, <3>1
      <3>4. ApplyPatch(entries, patches[n + 1]) = entries
        BY <3>3 DEF ApplyPatch
      <3> QED
        BY <3>1, <3>2, <3>4
    <2> HIDE DEF A
    <2>3. 0..N \subseteq A
      BY <1>5, <2>1, <2>2, UpTo
    <2>4. N \in A
      BY <1>5, <2>3
    <2> QED
      BY <1>7, <2>4 DEF A
  <1> QED
    BY <1>9, <1>10

-----------------------------------------------------------------------------
(* Reports: what an agent says is cut down to what is there.               *)

\* Everything in a proposal refers to the questions asked and to shards known.
Proposes(proposal, questions, known) ==
  /\ IsPath(proposal.patches)
  /\ ValidProposal(proposal)
  /\ \A a \in ToSet(proposal.answers) :
       a.questionId \in IdsOf(questions) /\ a.citations \subseteq ToSet(known)

\* A verdict is about a proposal.
Judges(verdict, proposal) ==
  /\ ValidVerdict(verdict)
  /\ \A p \in ToSet(verdict.patches) : p.target \in TargetsOf(proposal)

\* A verdict of an auditor whose answer could not be read.
Unread(verdict, least) ==
  /\ Approved(verdict) = {}
  /\ verdict.overallPass => least = 0

\* What is chosen from an array of a text.
LEMMA ListsInTexts ==
  ASSUME NEW text, NEW fields, HasLists(text, fields), NEW f \in fields, NEW I
  PROVE  LET list == ListIn(ExtractJson(text), f)
         IN /\ IsPath(Chosen(list, I))
            /\ \A k \in DOMAIN Chosen(list, I) : \E i \in I \cap DOMAIN list : Chosen(list, I)[k] = list[i]
  <1> DEFINE list == ListIn(ExtractJson(text), f)
             T == {list[i] : i \in I \cap DOMAIN list}
  <1>1. \E S : list \in Seq(S)
    <2>1. list = <<>> \/ (text # Nothing /\ text.json # Nothing /\ text.json[f] # Nothing /\ list = text.json[f])
      BY DEF ListIn, ExtractJson
    <2>2. CASE list = <<>>
      <3>1. list \in Seq({})
        BY <2>2
      <3> QED
        BY <3>1
    <2>3. CASE text # Nothing /\ text.json # Nothing /\ text.json[f] # Nothing /\ list = text.json[f]
      <3>1. text.json[f] \in Seq(ToSet(text.json[f]))
        BY <2>3 DEF HasLists
      <3> QED
        BY <2>3, <3>1
    <2> QED
      BY <2>1, <2>2, <2>3
  <1>2. PICK S : list \in Seq(S)
    BY <1>1
  <1> HIDE DEF list
  <1>3. Chosen(list, I) \in Seq(T)
    BY <1>2, ChosenFacts
  <1>4. \A k \in DOMAIN Chosen(list, I) : Chosen(list, I)[k] \in T
    <2> HIDE DEF T
    <2> QED
      BY <1>3
  <1> QED
    BY <1>3, <1>4 DEF list, IsPath

LEMMA QuestionsMade ==
  ASSUME NEW metrics, NEW count \in 5..30
  PROVE  ValidQuestions(MockQuestions(metrics, count))
  <1> DEFINE q == MockQuestions(metrics, count)
  <1>1. DOMAIN q = 1..count /\ 1 \in 1..count
    BY DEF MockQuestions
  <1>2. \A k \in 1..count : q[k].text = "full"
    BY DEF MockQuestions
  <1> HIDE DEF q
  <1>3. q # <<>>
    BY <1>1
  <1> QED
    BY <1>1, <1>2, <1>3 DEF q, ValidQuestions

LEMMA ProposalsMade ==
  ASSUME NEW questions, NEW known, IsPath(known)
  PROVE  /\ Proposes(MockProposal(questions, known), questions, known)
         /\ \A text \in CuratorTexts : Proposes(ResolveProposal(text, questions, known), questions, known)
  <1>1. Proposes(MockProposal(questions, known), questions, known)
    <2> DEFINE first == FirstN(known, 1)
               p == MockProposal(questions, known)
    <2>1. ToSet(first) \subseteq ToSet(known)
      <3>1. PICK S : known \in Seq(S)
        BY DEF IsPath
      <3>2. CASE known = <<>>
        <4>1. Len(known) = 0 /\ Len(known) < 1
          BY <3>2
        <4>2. first = SubSeq(known, 1, 0)
          BY <4>1 DEF FirstN
        <4>3. DOMAIN first = {}
          BY <3>1, <4>2
        <4> HIDE DEF first
        <4> QED
          BY <4>3 DEF ToSet
      <3>3. CASE known # <<>>
        <4>1. Len(known) \in Nat /\ ~(Len(known) < 1) /\ 1 \in DOMAIN known
          BY <3>1, <3>3
        <4>2. first = SubSeq(known, 1, 1)
          BY <4>1 DEF FirstN
        <4>3. DOMAIN first = {1} /\ first[1] = known[1]
          BY <3>1, <4>1, <4>2
        <4> HIDE DEF first
        <4> QED
          BY <4>1, <4>3 DEF ToSet
      <3> QED
        BY <3>2, <3>3
    <2>2. /\ DOMAIN p.answers = DOMAIN questions
          /\ \A k \in DOMAIN questions : p.answers[k] = [questionId |-> questions[k].id, citations |-> ToSet(first)]
      BY DEF MockProposal
    <2>3. \A a \in ToSet(p.answers) : a.questionId \in IdsOf(questions) /\ a.citations \subseteq ToSet(known)
      <3> SUFFICES ASSUME NEW k \in DOMAIN questions
                   PROVE  /\ p.answers[k].questionId \in IdsOf(questions)
                          /\ p.answers[k].citations \subseteq ToSet(known)
        <4> HIDE DEF p
        <4> QED
          BY <2>2 DEF ToSet
      <3>1. p.answers[k].questionId = questions[k].id /\ p.answers[k].citations = ToSet(first)
        <4> DEFINE a == p.answers[k]
        <4>1. a = [questionId |-> questions[k].id, citations |-> ToSet(first)]
          BY <2>2
        <4> HIDE DEF a, first
        <4>2. a.questionId = questions[k].id /\ a.citations = ToSet(first)
          BY <4>1
        <4> QED
          BY <4>2 DEF a
      <3> HIDE DEF p, first
      <3> QED
        BY <2>1, <3>1 DEF IdsOf
    <2>4. /\ IsPath(p.patches)
          /\ \A k \in DOMAIN p.patches : p.patches[k].operation = "append"
      <3>1. CASE known = <<>>
        <4>1. p.patches = <<>>
          BY <3>1 DEF MockProposal
        <4> HIDE DEF p
        <4>2. p.patches \in Seq({}) /\ DOMAIN p.patches = {}
          BY <4>1
        <4> QED
          BY <4>2 DEF IsPath
      <3>2. CASE known # <<>>
        <4> DEFINE patch == [target |-> known[1], operation |-> "append"]
        <4>1. p.patches = <<patch>>
          BY <3>2 DEF MockProposal
        <4>2. patch.operation = "append"
          OBVIOUS
        <4> HIDE DEF p, patch
        <4>3. p.patches \in Seq({patch}) /\ DOMAIN p.patches = {1} /\ p.patches[1] = patch
          BY <4>1
        <4> QED
          BY <4>2, <4>3 DEF IsPath
      <3> QED
        BY <3>1, <3>2
    <2> HIDE DEF p
    <2> QED
      BY <2>3, <2>4 DEF p, Proposes, ValidProposal, PatchOperations
  <1>2. ASSUME NEW text \in CuratorTexts
        PROVE  Proposes(ResolveProposal(text, questions, known), questions, known)
    <2> DEFINE json == ExtractJson(text)
               all == ListIn(json, "answers")
               patches == ListIn(json, "patches")
               I == {k \in DOMAIN all : all[k].questionId \in IdsOf(questions)}
               J == {k \in DOMAIN patches : patches[k].operation \in PatchOperations}
               given == Chosen(all, I)
               p == ResolveProposal(text, questions, known)
    <2>1. HasLists(text, {"answers", "patches"})
      BY AgentAssumption
    <2>2. \A k \in DOMAIN given : \E i \in I \cap DOMAIN all : given[k] = all[i]
      <3> HIDE DEF I
      <3> QED
        BY <2>1, ListsInTexts
    <2>3. \A k \in DOMAIN given : given[k].questionId \in IdsOf(questions)
      <3> HIDE DEF all, given
      <3> QED
        BY <2>2
    <2>4. IsPath(Chosen(patches, J)) /\ \A k \in DOMAIN Chosen(patches, J) : \E i \in J \cap DOMAIN patches : Chosen(patches, J)[k] = patches[i]
      <3> HIDE DEF J
      <3> QED
        BY <2>1, ListsInTexts
    <2>5. \A k \in DOMAIN Chosen(patches, J) : Chosen(patches, J)[k].operation \in PatchOperations
      <3> HIDE DEF patches
      <3> QED
        BY <2>4
    <2>6. /\ p.patches = Chosen(patches, J)
          /\ p.answers = [k \in DOMAIN given |->
               [questionId |-> given[k].questionId, citations |-> given[k].citations \cap ToSet(known)]]
      BY DEF ResolveProposal, ResolveAnswers
    <2>7. \A a \in ToSet(p.answers) : a.questionId \in IdsOf(questions) /\ a.citations \subseteq ToSet(known)
      <3> HIDE DEF p, given
      <3>1. /\ DOMAIN p.answers = DOMAIN given
            /\ \A k \in DOMAIN given :
                 p.answers[k].questionId = given[k].questionId /\ p.answers[k].citations \subseteq ToSet(known)
        BY <2>6
      <3> QED
        BY <2>3, <3>1 DEF ToSet
    <2>8. IsPath(p.patches) /\ ValidProposal(p)
      <3> HIDE DEF p, patches, J
      <3> QED
        BY <2>4, <2>5, <2>6 DEF ValidProposal
    <2> QED
      BY <2>7, <2>8 DEF Proposes
  <1> QED
    BY <1>1, <1>2

LEMMA ScoresAreValid ==
  ASSUME NEW v, v.overallPass \in BOOLEAN, ToSet(v.scores) \subseteq Scores
  PROVE  ValidVerdict(v)
  <1>1. \A x \in Scores : x \in 0..1000
    BY DEF Scores
  <1>2. ToSet(v.scores) \subseteq 0..1000
    BY <1>1
  <1> QED
    BY <1>2 DEF ValidVerdict

LEMMA VerdictsMade ==
  ASSUME NEW proposal, NEW known, options \in OptionSets
  PROVE  /\ Judges(MockVerdict(proposal, known, MinAnswerScore), proposal)
         /\ \A text \in AuditorTexts :
              LET verdict == ResolveVerdict(text, proposal, MinAnswerScore)
              IN Judges(verdict, proposal) /\ (ExtractJson(text) = Nothing => Unread(verdict, MinAnswerScore))
  <1>1. MinAnswerScore \in Scores
    BY RoundsAllowed
  <1>2. ASSUME NEW s \in Seq(Scores)
        PROVE  ToSet(s) \subseteq Scores /\ (Mean(s) >= MinAnswerScore) \in BOOLEAN
    <2>1. ToSet(s) \subseteq Scores
      BY DEF ToSet
    <2>2. Mean(s) \in Scores
      BY MeanRange
    <2>3. \A x, y \in Scores : (x >= y) \in BOOLEAN
      BY DEF Scores
    <2>4. (Mean(s) >= MinAnswerScore) \in BOOLEAN
      BY <1>1, <2>2, <2>3
    <2> QED
      BY <2>1, <2>4, Zenon
  <1>3. Judges(MockVerdict(proposal, known, MinAnswerScore), proposal)
    <2> DEFINE v == MockVerdict(proposal, known, MinAnswerScore)
               s == MockScores(proposal, known)
    <2>1. s \in Seq(Scores)
      BY VerdictScores
    <2>2. v.scores = s /\ v.overallPass = (Mean(s) >= MinAnswerScore)
      BY DEF MockVerdict
    <2>3. /\ DOMAIN v.patches = DOMAIN proposal.patches
          /\ \A k \in DOMAIN proposal.patches : v.patches[k].target = proposal.patches[k].target
      BY DEF MockVerdict
    <2> HIDE DEF v, s
    <2>4. ValidVerdict(v)
      <3>1. ToSet(s) \subseteq Scores /\ (Mean(s) >= MinAnswerScore) \in BOOLEAN
        BY <1>2, <2>1, Zenon
      <3>2. v.overallPass \in BOOLEAN
        BY <2>2, <3>1, Zenon
      <3>3. ToSet(v.scores) \subseteq Scores
        <4>1. v.scores = s /\ ToSet(s) \subseteq Scores
          BY <2>2, <3>1, Zenon
        <4> QED
          BY ONLY <4>1
      <3> QED
        BY <3>2, <3>3, ScoresAreValid
    <2>5. \A p \in ToSet(v.patches) : p.target \in TargetsOf(proposal)
      BY <2>3 DEF ToSet, TargetsOf
    <2> QED
      BY <2>4, <2>5 DEF Judges, v
  <1>4. ASSUME NEW text \in AuditorTexts
        PROVE  LET verdict == ResolveVerdict(text, proposal, MinAnswerScore)
               IN Judges(verdict, proposal) /\ (ExtractJson(text) = Nothing => Unread(verdict, MinAnswerScore))
    <2> DEFINE json == ExtractJson(text)
               rulings == ListIn(json, "patches")
               I == {k \in DOMAIN rulings : rulings[k].target \in TargetsOf(proposal)}
               kept == Chosen(rulings, I)
               v == ResolveVerdict(text, proposal, MinAnswerScore)
    <2>1. v.overallPass = OverallPass(json, MinAnswerScore) /\ v.scores = NormalizeScores(json) /\ v.patches = kept
      BY DEF ResolveVerdict
    <2>2. NormalizeScores(json) \in Seq(Scores)
      BY VerdictScores
    <2>3. OverallPass(json, MinAnswerScore) \in BOOLEAN
      <3> HIDE DEF json
      <3>1. (Mean(NormalizeScores(json)) >= MinAnswerScore) \in BOOLEAN
        BY <1>2, <2>2, Zenon
      <3> QED
        BY <3>1, Zenon DEF OverallPass
    <2>4. \A k \in DOMAIN kept : \E i \in I \cap DOMAIN rulings : kept[k] = rulings[i]
      <3>1. HasLists(text, {"patches"})
        BY AgentAssumption
      <3> HIDE DEF I
      <3> QED
        BY <3>1, ListsInTexts
    <2>5. \A k \in DOMAIN kept : kept[k].target \in TargetsOf(proposal)
      <3> HIDE DEF kept, rulings
      <3> QED
        BY <2>4
    <2>6. json = Nothing => rulings = <<>>
      BY DEF ListIn
    <2> HIDE DEF v, rulings
    <2>7. Judges(v, proposal)
      <3> HIDE DEF kept, json
      <3> QED
        <4>1. v.overallPass \in BOOLEAN
          BY <2>1, <2>3, Zenon
        <4>2. ValidVerdict(v)
          <5>1. ToSet(NormalizeScores(json)) \subseteq Scores
            BY <1>2, <2>2, Zenon
          <5>2. ToSet(v.scores) \subseteq Scores
            <6>1. v.scores = NormalizeScores(json)
              BY <2>1, Zenon
            <6> QED
              BY ONLY <5>1, <6>1
          <5> QED
            BY <4>1, <5>2, ScoresAreValid
        <4>3. \A p \in ToSet(v.patches) : p.target \in TargetsOf(proposal)
          BY <2>1, <2>5 DEF ToSet
        <4> QED
          BY <4>2, <4>3 DEF Judges
    <2>8. ASSUME json = Nothing PROVE Unread(v, MinAnswerScore)
      <3>1. DOMAIN rulings = {}
        BY <2>6, <2>8
      <3>2. DOMAIN kept = {}
        <4> HIDE DEF I, kept
        <4> QED
          BY <2>4, <3>1
      <3>3. Approved(v) = {}
        <4> HIDE DEF kept
        <4> QED
          BY <2>1, <3>2 DEF Approved
      <3>4. v.overallPass = (0 >= MinAnswerScore)
        <4>1. NormalizeScores(Nothing) = Zeros /\ Mean(Zeros) = 0
          BY MeanOfZeros DEF NormalizeScores, Zeros
        <4>2. OverallPass(Nothing, MinAnswerScore) = (0 >= MinAnswerScore)
          BY <4>1 DEF OverallPass
        <4> HIDE DEF json, kept
        <4> QED
          BY <2>1, <2>8, <4>2
      <3>5. (0 >= MinAnswerScore) => MinAnswerScore = 0
        BY <1>1 DEF Scores
      <3>6. v.overallPass => MinAnswerScore = 0
        BY ONLY <3>4, <3>5, Zenon
      <3> QED
        BY <3>3, <3>6 DEF Unread
    <2> QED
      BY <2>7, <2>8 DEF v
  <1> QED
    BY <1>3, <1>4

\* The inductive invariant.
Grounded ==
  /\ IsPath(shards)
  /\ current.silent \in BOOLEAN
  /\ options.mock => current.silent = FALSE
  /\ pc \in {"curator", "auditor", "apply"} /\ options.mock => ValidQuestions(current.questions)
  /\ pc \in {"auditor", "apply"} => Proposes(current.proposal, current.questions, KnownShardPaths)
  /\ pc = "apply" =>
       /\ Judges(current.verdict, current.proposal)
       /\ current.silent = TRUE => Unread(current.verdict, MinAnswerScore)

LEMMA InitGrounded == Init => Grounded
  <1> SUFFICES ASSUME Init PROVE Grounded
    OBVIOUS
  <1>1. IsPath(shards)
    <2>1. shards \in Seq({})
      BY DEF Init
    <2> QED
      BY <2>1 DEF IsPath
  <1> QED
    BY <1>1 DEF Init, Grounded, NoCommit

\* The shards stay a list.
LEMMA NextShards == Grounded /\ [Next]_vars => IsPath(shards')
  <1> SUFFICES ASSUME Grounded, [Next]_vars PROVE IsPath(shards')
    OBVIOUS
  <1>1. CASE RunArchitect
    <2>1. CASE options.mock
      <3>1. shards' \in Seq({MockShard})
        BY <1>1, <2>1 DEF RunArchitect
      <3> QED
        BY <3>1 DEF IsPath
    <2>2. CASE ~options.mock
      <3>1. PICK store \in AgentStores : shards' = store.shards
        BY <1>1, <2>2 DEF RunArchitect
      <3>2. shards' \in Seq(ToSet(shards'))
        BY <3>1, AgentAssumption
      <3> QED
        BY <3>2 DEF IsPath
    <2> QED
      BY <2>1, <2>2
  <1>2. CASE ApplyPatches
    <2>1. CASE shards' = shards
      BY <2>1 DEF Grounded
    <2>2. CASE shards' = Patched(shards, PatchesToApply)
      <3> DEFINE patches == current.proposal.patches
                 I == {k \in DOMAIN patches : patches[k].target \in Approved(current.verdict)}
      <3>1. IsPath(patches) /\ IsPath(shards)
        BY <1>2 DEF ApplyPatches, Grounded, Proposes
      <3>2. PatchesToApply = Chosen(patches, I)
        BY DEF PatchesToApply
      <3> HIDE DEF patches, I
      <3>3. PICK S : patches \in Seq(S)
        BY <3>1 DEF IsPath
      <3>4. IsPath(PatchesToApply)
        BY <3>2, <3>3, ChosenFacts DEF IsPath
      <3> QED
        BY <2>2, <3>1, <3>4, PatchedFacts
    <2> QED
      BY <1>2, <2>1, <2>2 DEF ApplyPatches
  <1>3. CASE shards' = shards
    BY <1>3 DEF Grounded
  <1> QED
    BY <1>1, <1>2, <1>3, Footprints

LEMMA NextGrounded == Sound /\ Grounded /\ [Next]_vars => Grounded'
  <1> SUFFICES ASSUME Sound, Grounded, [Next]_vars PROVE Grounded'
    OBVIOUS
  <1>1. IsPath(shards')
    BY NextShards
  <1>2. /\ options' = options /\ options \in OptionSets
        /\ MinAnswerScore' = MinAnswerScore /\ QuestionCount \in 5..30
    BY Footprints, RoundsAllowed DEF Sound, AboutInv, Shape, MinAnswerScore
  <1>3. /\ DOMAIN current = DOMAIN NoCommit
        /\ {"about", "metrics", "questions", "proposal", "verdict", "silent", "round"} \subseteq DOMAIN NoCommit
    BY DEF Sound, Scored, NoCommit
  <1>4. IsPath(KnownShardPaths)
    <2>1. KnownShardPaths = shards \/ KnownShardPaths \in Seq({})
      BY DEF KnownShardPaths
    <2> QED
      BY <2>1 DEF Grounded, IsPath
  <1>5. CASE RunCalibrator
    <2>1. pc' = "prober" /\ current'.silent = FALSE
      BY <1>5 DEF RunCalibrator, Goto, NoCommit
    <2> QED
      BY <1>1, <2>1 DEF Grounded
  <1>6. CASE RunProber
    <2>1. PICK q : /\ current' = [current EXCEPT !.questions = q]
                   /\ options.mock => q = MockQuestions(current.metrics, QuestionCount)
      BY <1>6 DEF RunProber
    <2>2. pc' = "curator" /\ current'.silent = current.silent /\ current'.questions = q
      BY <1>3, <1>6, <2>1 DEF RunProber, Goto
    <2>3. options.mock => ValidQuestions(current'.questions)
      BY <1>2, <2>1, <2>2, QuestionsMade
    <2> QED
      BY <1>1, <1>2, <2>2, <2>3 DEF Grounded
  <1>7. CASE RunCurator
    <2>1. PICK p : /\ current' = [current EXCEPT !.proposal = p, !.round = @ + 1]
                   /\ Proposes(p, current.questions, KnownShardPaths)
      BY <1>4, <1>7, ProposalsMade DEF RunCurator
    <2>2. /\ pc = "curator" /\ pc' = "auditor" /\ current'.silent = current.silent
          /\ current'.questions = current.questions /\ current'.proposal = p
      BY <1>3, <1>7, <2>1 DEF RunCurator, Goto
    <2>3. KnownShardPaths' = KnownShardPaths
      BY <1>7 DEF RunCurator, loopUnchanged, KnownShardPaths
    <2> QED
      BY <1>1, <1>2, <2>1, <2>2, <2>3 DEF Grounded
  <1>8. CASE RunAuditor
    <2>1. KnownShardPaths' = KnownShardPaths /\ pc = "auditor" /\ pc' \in {"curator", "apply"}
      BY <1>8 DEF RunAuditor, Goto, loopUnchanged, KnownShardPaths
    <2>2. CASE options.mock
      <3> DEFINE v == MockVerdict(current.proposal, KnownShardPaths, MinAnswerScore)
      <3>1. current' = [current EXCEPT !.verdict = v]
        BY <1>8, <2>2 DEF RunAuditor
      <3>2. Judges(v, current.proposal)
        BY <1>2, VerdictsMade
      <3> HIDE DEF v
      <3>3. /\ current'.silent = current.silent /\ current'.questions = current.questions
            /\ current'.proposal = current.proposal /\ current'.verdict = v
        BY <1>3, <3>1
      <3>4. current.silent = FALSE
        BY <2>2 DEF Grounded
      <3> QED
        BY <1>1, <1>2, <2>1, <2>2, <3>2, <3>3, <3>4 DEF Grounded
    <2>3. CASE ~options.mock
      <3>1. PICK text \in AuditorTexts :
              current' = [current EXCEPT
                !.verdict = ResolveVerdict(text, current.proposal, MinAnswerScore),
                !.silent = ExtractJson(text) = Nothing]
        BY <1>8, <2>3 DEF RunAuditor
      <3> DEFINE v == ResolveVerdict(text, current.proposal, MinAnswerScore)
                 b == ExtractJson(text) = Nothing
      <3>2. current' = [current EXCEPT !.verdict = v, !.silent = b]
        BY <3>1
      <3>3. Judges(v, current.proposal) /\ (b => Unread(v, MinAnswerScore)) /\ b \in BOOLEAN
        BY <1>2, VerdictsMade
      <3> HIDE DEF v, b
      <3>4. /\ current'.silent = b /\ current'.questions = current.questions
            /\ current'.proposal = current.proposal /\ current'.verdict = v
        BY <1>3, <3>2
      <3>5. current'.silent \in BOOLEAN /\ (current'.silent = TRUE => Unread(v, MinAnswerScore))
        BY ONLY <3>3, <3>4, Zenon
      <3> QED
        BY <1>1, <1>2, <2>1, <2>3, <3>3, <3>4, <3>5 DEF Grounded
    <2> QED
      BY <2>2, <2>3
  <1>9. CASE ApplyPatches
    <2>1. pc' \in {"failed", "commit"} /\ (current' = current \/ current'.silent = FALSE)
      BY <1>9 DEF ApplyPatches, Goto, walkVars, NoCommit
    <2> QED
      BY <1>1, <1>2, <2>1 DEF Grounded
  <1>10. CASE UNCHANGED current /\ (pc' \in Probing => pc' = pc)
    <2>1. CASE pc' \notin Probing
      BY <1>1, <1>2, <1>10, <2>1 DEF Grounded, Probing
    <2>2. CASE pc' = pc /\ pc \in Probing
      <3>1. UNCHANGED <<shards, hasManifest>>
        <4>1. ~RunArchitect
          BY <2>2 DEF RunArchitect, Probing
        <4>2. ~ApplyPatches
          BY <2>2 DEF ApplyPatches, Goto
        <4> QED
          BY <4>1, <4>2, Footprints
      <3>2. KnownShardPaths' = KnownShardPaths
        BY <3>1 DEF KnownShardPaths
      <3> QED
        BY <1>1, <1>2, <1>10, <2>2, <3>2 DEF Grounded
    <2> QED
      BY <1>10, <2>1, <2>2
  <1> QED
    BY <1>5, <1>6, <1>7, <1>8, <1>9, <1>10, Footprints

LEMMA AlwaysGrounded == Spec => [](Sound /\ Grounded)
  <1>1. Init => Sound /\ Grounded
    BY InitSound, InitGrounded
  <1>2. Sound /\ Grounded /\ [Next]_vars => (Sound /\ Grounded)'
    BY NextSound, NextGrounded
  <1> QED
    BY <1>1, <1>2, PTL DEF Spec

\* resolveAnswers, resolveProposal and resolveVerdict keep only what refers to something: for
\* any text of any agent, answers are to questions that were asked and cite shards that are in
\* the manifest, rulings are on patches that were proposed, the scores are in range, and an
\* auditor whose answer cannot be read approves of no patch.
THEOREM Groundedness == Spec => []ReportsAreGrounded
  <1>1. Sound /\ Grounded => ReportsAreGrounded
    <2> SUFFICES ASSUME Sound, Grounded PROVE ReportsAreGrounded
      OBVIOUS
    <2>1. pc \in {"prober", "curator", "auditor", "apply"} => ValidReport(current.metrics)
      BY DEF Sound, Scored, Probing, ValidReport, Scores
    <2>2. pc \in {"auditor", "apply"} =>
            /\ ValidProposal(current.proposal)
            /\ \A a \in ToSet(current.proposal.answers) :
                 a.questionId \in IdsOf(current.questions) /\ a.citations \subseteq ToSet(KnownShardPaths)
      BY DEF Grounded, Proposes
    <2>3. ASSUME pc = "apply"
          PROVE  /\ ValidVerdict(current.verdict)
                 /\ \A p \in ToSet(current.verdict.patches) : p.target \in TargetsOf(current.proposal)
                 /\ current.silent => /\ Approved(current.verdict) = {}
                                      /\ current.verdict.overallPass => MinAnswerScore = 0
      <3>1. /\ Judges(current.verdict, current.proposal) /\ current.silent \in BOOLEAN
            /\ current.silent = TRUE => Unread(current.verdict, MinAnswerScore)
        BY <2>3 DEF Grounded
      <3> QED
        BY ONLY <3>1, Zenon DEF Judges, Unread
    <2>4. pc \in {"curator", "auditor", "apply"} /\ options.mock => ValidQuestions(current.questions)
      BY DEF Grounded
    <2> QED
      BY <2>1, <2>2, <2>3, <2>4 DEF ReportsAreGrounded
  <1> QED
    BY <1>1, AlwaysGrounded, PTL

-----------------------------------------------------------------------------
(* Files: which paths are below which directories.                         *)

\* A path below directory name of .sdd.
InSdd(f, name) == IsPath(f) /\ Len(f) >= 2 /\ f[1] = ".sdd" /\ f[2] = name

LEMMA LiteralPaths ==
  /\ \A a : IsPath(<<a>>)
  /\ \A a, b : IsPath(<<a, b>>)
  /\ \A a, b, c : IsPath(<<a, b, c>>)
  /\ \A a, b, c, d : IsPath(<<a, b, c, d>>)
  /\ \A a, b, c, d, e : IsPath(<<a, b, c, d, e>>)
  <1>1. ASSUME NEW a PROVE IsPath(<<a>>)
    <2>1. <<a>> \in Seq({a})
      OBVIOUS
    <2> QED
      BY <2>1 DEF IsPath
  <1>2. ASSUME NEW a, NEW b PROVE IsPath(<<a, b>>)
    <2>1. <<a, b>> \in Seq({a, b})
      OBVIOUS
    <2> QED
      BY <2>1 DEF IsPath
  <1>3. ASSUME NEW a, NEW b, NEW c PROVE IsPath(<<a, b, c>>)
    <2>1. <<a, b, c>> \in Seq({a, b, c})
      OBVIOUS
    <2> QED
      BY <2>1 DEF IsPath
  <1>4. ASSUME NEW a, NEW b, NEW c, NEW d PROVE IsPath(<<a, b, c, d>>)
    <2>1. <<a, b, c, d>> \in Seq({a, b, c, d})
      OBVIOUS
    <2> QED
      BY <2>1 DEF IsPath
  <1>5. ASSUME NEW a, NEW b, NEW c, NEW d, NEW e PROVE IsPath(<<a, b, c, d, e>>)
    <2>1. <<a, b, c, d, e>> \in Seq({a, b, c, d, e})
      OBVIOUS
    <2> QED
      BY <2>1 DEF IsPath
  <1> QED
    BY <1>1, <1>2, <1>3, <1>4, <1>5

\* Path f goes on with e after d.
Continues(f, d, e) == \A i \in 1..Len(e) : f[Len(d) + i] = e[i]

LEMMA Joined ==
  ASSUME NEW d, IsPath(d), NEW e, IsPath(e)
  PROVE  /\ IsPath(d \o e) /\ Len(d \o e) = Len(d) + Len(e)
         /\ StartsWith(d \o e, d)
         /\ Continues(d \o e, d, e)
  <1>1. PICK S : d \in Seq(S)
    BY DEF IsPath
  <1>2. PICK T : e \in Seq(T)
    BY DEF IsPath
  <1>3. d \in Seq(S \cup T) /\ e \in Seq(S \cup T)
    BY <1>1, <1>2, SeqMonotonic
  <1>4. /\ d \o e \in Seq(S \cup T) /\ Len(d \o e) = Len(d) + Len(e)
        /\ \A i \in 1..(Len(d) + Len(e)) : (d \o e)[i] = IF i <= Len(d) THEN d[i] ELSE e[i - Len(d)]
    BY <1>3, ConcatProperties
  <1>5. Len(d) \in Nat /\ Len(e) \in Nat
    BY <1>3
  <1>6. ASSUME NEW i \in 1..Len(d) PROVE (d \o e)[i] = d[i]
    <2>1. i \in 1..(Len(d) + Len(e)) /\ i <= Len(d)
      BY <1>5
    <2> QED
      BY <1>4, <2>1
  <1>7. ASSUME NEW i \in 1..Len(e) PROVE (d \o e)[Len(d) + i] = e[i]
    <2>1. /\ Len(d) + i \in 1..(Len(d) + Len(e)) /\ ~(Len(d) + i <= Len(d))
          /\ (Len(d) + i) - Len(d) = i
      BY <1>5
    <2> QED
      BY <1>4, <2>1
  <1>8. Len(d \o e) >= Len(d)
    BY <1>4, <1>5
  <1> QED
    BY <1>4, <1>6, <1>7, <1>8 DEF StartsWith, IsPath, Continues

\* Below finds the paths that start with the directory.
LEMMA BelowFacts ==
  ASSUME NEW f, IsPath(f), NEW dir, IsPath(dir), NEW files
  PROVE  f \in Below(dir, files) <=> f \in files /\ StartsWith(f, dir)
  <1>1. ASSUME f \in files, StartsWith(f, dir) PROVE f \in Below(dir, files)
    BY <1>1, BeginningIs DEF Below, StartsWith
  <1>2. ASSUME f \in Below(dir, files) PROVE f \in files /\ StartsWith(f, dir)
    <2>1. f \in files /\ Len(f) >= Len(dir) /\ SubSeq(f, 1, Len(dir)) = dir
      BY <1>2 DEF Below
    <2>2. Len(f) \in Nat /\ Len(dir) \in Nat
      BY PathFacts
    <2>3. Len(dir) \in 0..Len(f)
      BY <2>1, <2>2
    <2>4. StartsWith(f, SubSeq(f, 1, Len(dir)))
      BY <2>3, BeginningOf
    <2> QED
      BY <2>1, <2>4
  <1> QED
    BY <1>1, <1>2

LEMMA SddFacts ==
  ASSUME NEW name
  PROVE  /\ IsPath(<<".sdd", name>>)
         /\ \A f : IsPath(f) => (StartsWith(f, <<".sdd", name>>) <=> InSdd(f, name))
  <1> DEFINE d == <<".sdd", name>>
  <1>1. Len(d) = 2 /\ d[1] = ".sdd" /\ d[2] = name
    OBVIOUS
  <1>2. IsPath(d)
    BY LiteralPaths
  <1> HIDE DEF d
  <1>3. ASSUME NEW f, IsPath(f) PROVE StartsWith(f, d) <=> InSdd(f, name)
    <2>1. 1..Len(d) = {1, 2}
      BY <1>1
    <2> QED
      BY <1>1, <1>3, <2>1 DEF StartsWith, InSdd
  <1> QED
    BY <1>2, <1>3 DEF d

\* Where each kind of file is.
LEMMA FilePlaces ==
  /\ \A c, name : IsPath(name) => InSdd(ReportFile(c, name), "reports")
  /\ InSdd(OnboardingReport, "reports")
  /\ \A s : IsPath(s) => InSdd(ShardFile(s), "knowledge")
  /\ InSdd(KnowledgeManifest, "knowledge")
  /\ \A k : InSdd(SpecFile(k), "features")
  /\ \A f \in TruthDocs : InSdd(f, "docs")
  <1>1. ASSUME NEW c, NEW name, IsPath(name) PROVE InSdd(ReportFile(c, name), "reports")
    <2> DEFINE d == <<".sdd", "reports", "calibration", ToString(c)>>
    <2>1. IsPath(d) /\ Len(d) = 4 /\ d[1] = ".sdd" /\ d[2] = "reports"
      BY LiteralPaths
    <2> HIDE DEF d
    <2>2. IsPath(d \o name) /\ StartsWith(d \o name, d)
      BY <1>1, <2>1, Joined
    <2>3. InSdd(d \o name, "reports")
      <3>1. Len(d \o name) \in Nat
        BY <2>2, PathFacts
      <3> QED
        BY <2>1, <2>2, <3>1 DEF StartsWith, InSdd
    <2> QED
      BY <2>3 DEF ReportFile, d
  <1>2. ASSUME NEW s, IsPath(s) PROVE InSdd(ShardFile(s), "knowledge")
    <2> DEFINE d == <<".sdd", "knowledge">>
    <2>1. IsPath(d)
      BY LiteralPaths
    <2> HIDE DEF d
    <2>2. IsPath(d \o s) /\ StartsWith(d \o s, d)
      BY <1>2, <2>1, Joined
    <2> QED
      BY <2>2, SddFacts DEF ShardFile, d
  <1>3. InSdd(OnboardingReport, "reports") /\ InSdd(KnowledgeManifest, "knowledge")
    BY LiteralPaths DEF InSdd, OnboardingReport, KnowledgeManifest
  <1>4. \A k : InSdd(SpecFile(k), "features")
    BY LiteralPaths DEF InSdd, SpecFile
  <1>5. \A f \in TruthDocs : InSdd(f, "docs")
    BY LiteralPaths DEF InSdd, TruthDocs
  <1> QED
    BY <1>1, <1>2, <1>3, <1>4, <1>5

LEMMA KitFacts ==
  /\ \A f \in VendorSddKit : IsPath(f) /\ f[1] # ".sdd"
  /\ KitPaths \cap Kit \subseteq VendorSddKit
  <1>1. \A f \in Kit : IsPath(f)
    BY FileAssumption DEF IsPath
  <1>2. \A root \in KitRoots : IsPath(root) /\ Len(root) = 1 /\ root[1] # ".sdd"
    BY LiteralPaths DEF KitRoots
  <1>3. ASSUME NEW f \in VendorSddKit PROVE IsPath(f) /\ f[1] # ".sdd"
    <2>1. PICK root \in KitRoots : f \in Below(root, Kit)
      BY <1>3 DEF VendorSddKit
    <2>2. f \in Kit
      BY <2>1 DEF Below
    <2>3. StartsWith(f, root)
      BY <1>1, <1>2, <2>1, <2>2, BelowFacts
    <2> QED
      BY <1>1, <1>2, <2>2, <2>3 DEF StartsWith
  <1>4. ASSUME NEW f \in KitPaths, f \in Kit PROVE f \in VendorSddKit
    <2>1. ASSUME NEW root \in KitRoots, StartsWith(f, root) PROVE f \in VendorSddKit
      <3>1. f \in Below(root, Kit)
        BY <1>1, <1>2, <1>4, <2>1, BelowFacts
      <3> QED
        BY <3>1 DEF VendorSddKit
    <2>2. CASE f \in KitRoots
      <3>1. StartsWith(f, f)
        BY <1>2, <2>2 DEF StartsWith
      <3> QED
        BY <2>1, <2>2, <3>1
    <2>3. CASE f \in { <<".cursor">> \o g : g \in Below(<<".cursor">>, Kit \ KitRoots) }
      <3>1. PICK g \in Kit : f = <<".cursor">> \o g
        BY <2>3 DEF Below
      <3>2. IsPath(<<".cursor">>) /\ <<".cursor">> \in KitRoots
        BY LiteralPaths DEF KitRoots
      <3>3. StartsWith(f, <<".cursor">>)
        BY <1>1, <3>1, <3>2, Joined
      <3> QED
        BY <2>1, <3>2, <3>3
    <2> QED
      BY <1>4, <2>2, <2>3 DEF KitPaths
  <1> QED
    BY <1>3, <1>4

\* The zip holds files of the workspace and the manifest of the bundle.
LEMMA PackedFiles ==
  ASSUME NEW files, VendorSddKit \subseteq files, NEW knowledge
  PROVE  PackBundle(BuildManifestFromWorkspace(files, knowledge)) \subseteq files \cup {ManifestPath}
  <1> DEFINE m == BuildManifestFromWorkspace(files, knowledge)
  <1>1. /\ m.sddKit = KitPaths \cap Kit /\ m.truthDocs = TruthDocs \cap files
        /\ m.knowledgeShards = Below(<<".sdd", "knowledge">>, files)
        /\ m.retroFeatures = Below(<<".sdd", "features", "completed">>, files)
        /\ m.reports = Below(<<".sdd", "reports">>, files)
    BY DEF BuildManifestFromWorkspace
  <1> HIDE DEF m
  <1>2. \A dir : Below(dir, files) \subseteq files
    BY DEF Below
  <1>3. /\ m.sddKit \subseteq files /\ m.truthDocs \subseteq files /\ m.knowledgeShards \subseteq files
        /\ m.retroFeatures \subseteq files /\ m.reports \subseteq files
    BY <1>1, <1>2, KitFacts
  <1>4. PackBundle(m) = m.sddKit \cup m.truthDocs \cup m.knowledgeShards
                          \cup m.retroFeatures \cup m.reports \cup {ManifestPath}
    BY DEF PackBundle
  <1> QED
    BY <1>3, <1>4 DEF m

\* Specs and reports of the workspace are in the zip.
LEMMA PackedWork ==
  ASSUME NEW files, NEW knowledge
  PROVE  LET zip == PackBundle(BuildManifestFromWorkspace(files, knowledge))
         IN /\ \A k : SpecFile(k) \in files => SpecFile(k) \in zip
            /\ \A c, name : IsPath(name) /\ ReportFile(c, name) \in files => ReportFile(c, name) \in zip
  <1> DEFINE m == BuildManifestFromWorkspace(files, knowledge)
  <1>1. /\ m.retroFeatures = Below(<<".sdd", "features", "completed">>, files)
        /\ m.reports = Below(<<".sdd", "reports">>, files)
    BY DEF BuildManifestFromWorkspace
  <1> HIDE DEF m
  <1>2. m.retroFeatures \subseteq PackBundle(m) /\ m.reports \subseteq PackBundle(m)
    BY DEF PackBundle
  <1>3. ASSUME NEW k, SpecFile(k) \in files PROVE SpecFile(k) \in m.retroFeatures
    <2> DEFINE d == <<".sdd", "features", "completed">>
    <2>1. IsPath(d) /\ IsPath(SpecFile(k))
      BY LiteralPaths DEF SpecFile
    <2>2. StartsWith(SpecFile(k), d)
      <3>1. Len(d) = 3 /\ d[1] = ".sdd" /\ d[2] = "features" /\ d[3] = "completed" /\ 1..3 = {1, 2, 3}
        OBVIOUS
      <3>2. /\ Len(SpecFile(k)) = 5 /\ SpecFile(k)[1] = ".sdd" /\ SpecFile(k)[2] = "features"
            /\ SpecFile(k)[3] = "completed"
        BY DEF SpecFile
      <3> HIDE DEF d
      <3> QED
        BY <3>1, <3>2 DEF StartsWith
    <2>3. m.retroFeatures = Below(d, files)
      BY <1>1
    <2> HIDE DEF d
    <2> QED
      BY <1>3, <2>1, <2>2, <2>3, BelowFacts
  <1>4. ASSUME NEW c, NEW name, IsPath(name), ReportFile(c, name) \in files
        PROVE  ReportFile(c, name) \in m.reports
    <2>1. InSdd(ReportFile(c, name), "reports")
      BY <1>4, FilePlaces
    <2>2. IsPath(ReportFile(c, name)) /\ StartsWith(ReportFile(c, name), <<".sdd", "reports">>)
      BY <2>1, SddFacts DEF InSdd
    <2>3. IsPath(<<".sdd", "reports">>)
      BY SddFacts
    <2> QED
      BY <1>1, <1>4, <2>2, <2>3, BelowFacts
  <1> QED
    BY <1>2, <1>3, <1>4 DEF m

\* With one shard and a manifest, these two are the files of the store.
LEMMA StoreFiles ==
  ASSUME shards = <<MockShard>>, hasManifest, docs \subseteq TruthDocs, left = {},
         \A f \in reports : InSdd(f, "reports")
  PROVE  Below(<<".sdd", "knowledge">>, WorkspaceFiles) \ {KnowledgeManifest} = {ShardFile(MockShard)}
  <1> DEFINE known == Below(<<".sdd", "knowledge">>, WorkspaceFiles)
  <1>1. IsPath(MockShard) /\ MockShard # <<"manifest.json">>
    BY FileAssumption DEF IsPath
  <1>2. InSdd(ShardFile(MockShard), "knowledge")
    BY <1>1, FilePlaces
  <1>3. {ShardFile(s) : s \in ToSet(shards)} = {ShardFile(MockShard)}
    <2>1. ToSet(shards) = {MockShard}
      BY DEF ToSet
    <2> QED
      BY <2>1
  <1>4. ShardFile(MockShard) \in known
    <2>1. ShardFile(MockShard) \in WorkspaceFiles
      BY <1>3 DEF WorkspaceFiles
    <2>2. IsPath(ShardFile(MockShard)) /\ StartsWith(ShardFile(MockShard), <<".sdd", "knowledge">>)
      BY <1>2, SddFacts DEF InSdd
    <2> QED
      BY <2>1, <2>2, SddFacts, BelowFacts
  <1>5. ASSUME NEW f \in known PROVE f \in {ShardFile(MockShard), KnowledgeManifest}
    <2>1. f \in WorkspaceFiles
      BY <1>5 DEF Below
    <2>2. \/ f \in {ShardFile(MockShard), KnowledgeManifest}
          \/ f \in docs \/ f \in reports \/ f \in VendorSddKit \/ \E k : f = SpecFile(k)
      BY <1>3, <2>1 DEF WorkspaceFiles
    <2>3. IsPath(f)
      <3>1. InSdd(KnowledgeManifest, "knowledge") /\ (\A k : InSdd(SpecFile(k), "features"))
        BY FilePlaces
      <3>2. \A g \in TruthDocs : InSdd(g, "docs")
        BY FilePlaces
      <3> QED
        BY <1>2, <2>2, <3>1, <3>2, KitFacts DEF InSdd
    <2>4. InSdd(f, "knowledge")
      BY <1>5, <2>3, SddFacts, BelowFacts
    <2>5. f \notin docs /\ f \notin reports /\ f \notin VendorSddKit /\ ~(\E k : f = SpecFile(k))
      <3>1. f[1] = ".sdd" /\ f[2] # "docs" /\ f[2] # "reports" /\ f[2] # "features"
        BY <2>4 DEF InSdd
      <3>2. f \notin docs /\ f \notin reports
        BY <3>1, FilePlaces DEF InSdd
      <3>3. \A k : f # SpecFile(k)
        BY <3>1, FilePlaces DEF InSdd
      <3> QED
        BY <3>1, <3>2, <3>3, KitFacts
    <2> QED
      BY <2>2, <2>5
  <1>6. ShardFile(MockShard) # KnowledgeManifest
    <2> SUFFICES ASSUME ShardFile(MockShard) = KnowledgeManifest PROVE FALSE
      OBVIOUS
    <2> DEFINE d == <<".sdd", "knowledge">>
               e == <<"manifest.json">>
    <2>1. IsPath(d) /\ IsPath(e) /\ Len(d) = 2 /\ Len(e) = 1 /\ e[1] = "manifest.json"
      BY LiteralPaths
    <2>2. Len(KnowledgeManifest) = 3 /\ KnowledgeManifest[3] = "manifest.json"
      BY DEF KnowledgeManifest
    <2>3. d \o MockShard = KnowledgeManifest
      BY DEF ShardFile
    <2> HIDE DEF d, e
    <2>4. Len(MockShard) \in Nat /\ Len(d) + Len(MockShard) = 3
      BY <1>1, <2>1, <2>2, <2>3, Joined, PathFacts
    <2>5. Len(MockShard) = 1 /\ 1 \in 1..Len(MockShard)
      BY <2>1, <2>4
    <2>6. (d \o MockShard)[Len(d) + 1] = MockShard[1]
      <3>1. Continues(d \o MockShard, d, MockShard)
        BY <1>1, <2>1, Joined
      <3> QED
        BY <2>5, <3>1 DEF Continues
    <2>7. MockShard[1] = "manifest.json"
      BY <2>1, <2>2, <2>3, <2>6
    <2>8. StartsWith(MockShard, e)
      BY <2>1, <2>5, <2>7 DEF StartsWith
    <2>9. MockShard = e
      BY <1>1, <2>1, <2>5, <2>8, SamePath
    <2> QED
      BY <1>1, <2>9 DEF e
  <1> HIDE DEF known
  <1>7. known \ {KnowledgeManifest} = {ShardFile(MockShard)}
    BY <1>4, <1>5, <1>6
  <1> QED
    BY <1>7 DEF known

-----------------------------------------------------------------------------
(* What the reports hold of the commits handled.                           *)

\* The rounds of the current commit that have been audited.
RoundsAudited == IF pc = "auditor" THEN current.round - 1 ELSE current.round

HasReports(files, c, rounds) ==
  /\ ReportFile(c, <<"calibration-report.json">>) \in files
  /\ \A r \in 1..rounds : ReportFile(c, <<"audit-verdict-round", ToString(r)>>) \in files

\* What a record says of its commit is on file.
OnFile(r) ==
  r.key # NoKey =>
    /\ HasReports(reports, r.commit, r.rounds)
    /\ r.about # Nothing => specs[r.key] # Nothing

Reported ==
  /\ \A f \in reports : InSdd(f, "reports")
  /\ pc \in Probing =>
       /\ HasReports(reports, Commit, RoundsAudited)
       /\ current.about # Nothing => specs[Key] # Nothing
  /\ \A i \in DOMAIN records : OnFile(records[i])

LEMMA ReportsGrow ==
  ASSUME Reported, [Next]_vars
  PROVE  reports \subseteq reports' /\ \A f \in reports' : InSdd(f, "reports")
  <1>1. ASSUME NEW name, IsPath(name), reports' = reports \cup {ReportFile(Commit, name)}
        PROVE  reports \subseteq reports' /\ \A f \in reports' : InSdd(f, "reports")
    BY <1>1, FilePlaces DEF Reported
  <1>2. CASE RunCalibrator \/ RunProber
    BY <1>1, <1>2, LiteralPaths DEF RunCalibrator, RunProber, WriteAndHandoff
  <1>3. CASE RunCurator
    <2>1. reports' = reports \cup {ReportFile(Commit, <<"curation-proposal-round", ToString(current'.round)>>)}
      BY <1>3 DEF RunCurator, WriteAndHandoff
    <2> QED
      BY <1>1, <2>1, LiteralPaths
  <1>4. CASE RunAuditor
    <2>1. reports' = reports \cup {ReportFile(Commit, <<"audit-verdict-round", ToString(current'.round)>>)}
      BY <1>4 DEF RunAuditor, WriteAndHandoff
    <2> QED
      BY <1>1, <2>1, LiteralPaths
  <1>5. CASE WriteReport
    BY <1>5, FilePlaces DEF WriteReport, Reported
  <1>6. CASE reports' = reports
    BY <1>6 DEF Reported
  <1> QED
    BY <1>2, <1>3, <1>4, <1>5, <1>6, Footprints

\* No step takes a spec out of the workspace.
LEMMA SpecsStay ==
  ASSUME AboutInv, [Next]_vars, NEW k \in Keys, specs[k] # Nothing
  PROVE  specs'[k] # Nothing
  <1>1. CASE RunHistorian
    <2>1. Key \in Keys /\ MockSpec # Nothing
      BY <1>1, KeyType, NothingAssumption DEF RunHistorian, WithKey
    <2>2. PICK x : specs' = [specs EXCEPT ![Key] = x] /\ (specs[Key] # Nothing => x # Nothing)
      <3>1. CASE options.mock
        BY <1>1, <2>1, <3>1 DEF RunHistorian
      <3>2. CASE ~options.mock
        <4>1. PICK wrote \in AgentSpecs, answer \in AgentSpecs :
                specs' = [specs EXCEPT ![Key] = ResolveTextArtifact(@, inRepo'[Key], answer)]
          BY <1>1, <3>2 DEF RunHistorian
        <4> DEFINE x == ResolveTextArtifact(specs[Key], inRepo'[Key], answer)
        <4>2. specs' = [specs EXCEPT ![Key] = x]
          BY <4>1
        <4>3. specs[Key] # Nothing => x # Nothing
          BY DEF ResolveTextArtifact
        <4> HIDE DEF x
        <4> QED
          BY <4>2, <4>3
      <3> QED
        BY <3>1, <3>2
    <2>3. DOMAIN specs = Keys
      BY DEF AboutInv, Shape
    <2> QED
      BY <2>1, <2>2, <2>3
  <1>2. CASE specs' = specs
    BY <1>2
  <1> QED
    BY <1>1, <1>2, Footprints

LEMMA HasReportsGrows ==
  ASSUME NEW F, NEW G, F \subseteq G, NEW c, NEW n, HasReports(F, c, n)
  PROVE  HasReports(G, c, n)
  BY DEF HasReports

\* The records of the commits handled stay true.
LEMMA OnFileStays ==
  ASSUME AboutInv, Walked, Reported, [Next]_vars, NEW i \in DOMAIN records
  PROVE  records[i].key # NoKey =>
           /\ HasReports(reports', records[i].commit, records[i].rounds)
           /\ records[i].about # Nothing => specs'[records[i].key] # Nothing
  <1> SUFFICES ASSUME records[i].key # NoKey
               PROVE  /\ HasReports(reports', records[i].commit, records[i].rounds)
                      /\ records[i].about # Nothing => specs'[records[i].key] # Nothing
    OBVIOUS
  <1>1. records[i].key \in Keys
    <2>1. PICK S : records \in Seq(S)
      BY DEF AboutInv, Shape
    <2>2. i \in 1..Len(records) /\ Len(records) \in Nat /\ Len(records) <= Len(Walk) /\ Len(Walk) \in Nat
      BY <2>1, WalkType DEF Walked, AboutInv, Shape
    <2>3. i \in 1..Len(Walk)
      BY <2>2
    <2>4. Walk[i].key \in Keys \cup {NoKey} /\ records[i].key = Walk[i].key
      BY <2>3, WalkType DEF Walked, AboutInv, Shape
    <2> QED
      BY <2>4
  <1>2. OnFile(records[i])
    BY DEF Reported
  <1> QED
    BY <1>1, <1>2, ReportsGrow, SpecsStay, HasReportsGrows DEF OnFile

LEMMA InitReported == Init => Reported
  BY DEF Init, Reported, Probing

LEMMA NextReported == Sound /\ Reported /\ [Next]_vars => Reported'
  <1> SUFFICES ASSUME Sound, Reported, [Next]_vars PROVE Reported'
    OBVIOUS
  <1>1. reports \subseteq reports' /\ \A f \in reports' : InSdd(f, "reports")
    BY ReportsGrow
  <1>2. /\ DOMAIN current = DOMAIN NoCommit
        /\ {"about", "metrics", "questions", "proposal", "verdict", "silent", "round"} \subseteq DOMAIN NoCommit
        /\ current.round \in Int
    <2>1. MaxRounds \in 1..3 /\ current.round \in 0..MaxRounds
      BY RoundsAllowed DEF Sound, Scored, AboutInv, Shape
    <2> QED
      BY <2>1 DEF Sound, Scored, NoCommit
  <1>3. options' = options
    BY Footprints
  <1>4. ASSUME records' = records,
               pc' \in Probing => /\ HasReports(reports', Commit', RoundsAudited')
                                  /\ current'.about # Nothing => specs'[Key'] # Nothing
        PROVE  Reported'
    <2>1. \A i \in DOMAIN records' : OnFile(records[i])'
      BY <1>4, OnFileStays DEF OnFile, Sound
    <2> QED
      BY <1>1, <1>4, <2>1 DEF Reported, OnFile
  <1>5. CASE RunCalibrator
    <2>1. /\ current' = [NoCommit EXCEPT !.about = SpecText.about, !.metrics = current'.metrics]
          /\ reports' = reports \cup {ReportFile(Commit, <<"calibration-report.json">>)}
          /\ pc' = "prober" /\ UNCHANGED <<records, next, specs>>
      BY <1>5 DEF RunCalibrator, WriteAndHandoff, Goto, loopUnchanged, NoCommit
    <2>2. current'.about = SpecText.about /\ current'.round = 0
      BY <2>1 DEF NoCommit
    <2>3. Commit' = Commit /\ Key' = Key /\ RoundsAudited' = 0
      BY <1>3, <2>1, <2>2 DEF Commit, Key, Walk, RoundsAudited
    <2>4. HasReports(reports', Commit, 0)
      BY <2>1 DEF HasReports
    <2>5. SpecText.about # Nothing => specs[Key] # Nothing
      BY DEF SpecText
    <2> QED
      BY <1>4, <2>1, <2>2, <2>3, <2>4, <2>5
  <1>6. CASE RunProber \/ RunCurator
    <2>1. /\ pc \in {"prober", "curator"} /\ UNCHANGED <<records, next, specs>>
          /\ pc = "prober" => pc' = "curator" /\ RunProber
          /\ pc = "curator" => pc' = "auditor" /\ RunCurator
      BY <1>6 DEF RunProber, RunCurator, Goto, loopUnchanged
    <2>2. /\ current'.about = current.about
          /\ current'.round = IF pc = "curator" THEN current.round + 1 ELSE current.round
      <3>1. CASE pc = "prober"
        <4>1. PICK q : current' = [current EXCEPT !.questions = q]
          BY <2>1, <3>1 DEF RunProber
        <4> QED
          BY <1>2, <3>1, <4>1
      <3>2. CASE pc = "curator"
        <4>1. PICK p : current' = [current EXCEPT !.proposal = p, !.round = @ + 1]
          BY <2>1, <3>2 DEF RunCurator
        <4> QED
          BY <1>2, <3>2, <4>1
      <3> QED
        BY <2>1, <3>1, <3>2
    <2>3. Commit' = Commit /\ Key' = Key
      BY <1>3, <2>1 DEF Commit, Key, Walk
    <2>4. RoundsAudited' = RoundsAudited
      BY <1>2, <2>1, <2>2 DEF RoundsAudited
    <2>5. HasReports(reports, Commit, RoundsAudited) /\ (current.about # Nothing => specs[Key] # Nothing)
      BY <2>1 DEF Reported, Probing
    <2> QED
      BY <1>1, <1>4, <2>1, <2>2, <2>3, <2>4, <2>5, HasReportsGrows
  <1>7. CASE RunAuditor
    <2>1. /\ pc = "auditor" /\ pc' \in {"curator", "apply"} /\ UNCHANGED <<records, next, specs>>
          /\ reports' = reports \cup {ReportFile(Commit, <<"audit-verdict-round", ToString(current'.round)>>)}
      BY <1>7 DEF RunAuditor, Goto, WriteAndHandoff, loopUnchanged
    <2>2. current'.about = current.about /\ current'.round = current.round
      <3>1. PICK v, b : current' = [current EXCEPT !.verdict = v] \/ current' = [current EXCEPT !.verdict = v, !.silent = b]
        BY <1>7 DEF RunAuditor
      <3> QED
        BY <1>2, <3>1
    <2>3. Commit' = Commit /\ Key' = Key
      BY <1>3, <2>1 DEF Commit, Key, Walk
    <2>4. RoundsAudited = current.round - 1 /\ RoundsAudited' = current.round
      BY <2>1, <2>2 DEF RoundsAudited
    <2>5. HasReports(reports, Commit, current.round - 1) /\ (current.about # Nothing => specs[Key] # Nothing)
      BY <2>1, <2>4 DEF Reported, Probing
    <2>6. \A r \in 1..current.round : r \in 1..(current.round - 1) \/ r = current.round
      BY <1>2
    <2>7. HasReports(reports', Commit, current.round)
      BY <2>1, <2>2, <2>5, <2>6 DEF HasReports
    <2> QED
      BY <1>4, <2>1, <2>2, <2>3, <2>4, <2>5, <2>7
  <1>8. ASSUME NEW r, records' = Append(records, r), pc' = "commit",
               r.key # NoKey => /\ HasReports(reports', r.commit, r.rounds)
                                /\ r.about # Nothing => specs'[r.key] # Nothing
        PROVE  Reported'
    <2>1. PICK S : records \in Seq(S)
      BY DEF Sound, AboutInv, Shape
    <2>2. /\ DOMAIN records' = 1..(Len(records) + 1) /\ DOMAIN records = 1..Len(records) /\ Len(records) \in Nat
          /\ \A i \in 1..Len(records) : records'[i] = records[i]
          /\ records'[Len(records) + 1] = r
      BY <1>8, <2>1
    <2>3. ASSUME NEW i \in DOMAIN records' PROVE OnFile(records[i])'
      <3>1. CASE i \in DOMAIN records
        <4>1. records'[i] = records[i]
          BY <2>2, <3>1
        <4> QED
          BY <3>1, <4>1, OnFileStays DEF OnFile, Sound
      <3>2. CASE i \notin DOMAIN records
        <4>1. i = Len(records) + 1
          BY <2>2, <3>2
        <4> QED
          BY <1>8, <2>2, <4>1 DEF OnFile
      <3> QED
        BY <3>1, <3>2
    <2> QED
      BY <1>1, <1>8, <2>3 DEF Reported, OnFile, Probing
  <1>9. CASE SkipCommit
    <2>1. records' = Append(records, Skipped) /\ pc' = "commit" /\ Skipped.key = NoKey
      BY <1>9 DEF SkipCommit, Skipped
    <2> QED
      BY <1>8, <2>1
  <1>10. CASE ApplyPatches
    <2>1. CASE PatchesToApply # <<>> /\ ~hasManifest
      <3>1. records' = records /\ pc' = "failed"
        BY <1>10, <2>1 DEF ApplyPatches, Goto, walkVars
      <3> QED
        BY <1>4, <3>1 DEF Probing
    <2>2. CASE ~(PatchesToApply # <<>> /\ ~hasManifest)
      <3>1. records' = Append(records, Summary) /\ pc = "apply" /\ pc' = "commit" /\ UNCHANGED <<specs, reports>>
        BY <1>10, <2>2 DEF ApplyPatches, Goto, loopUnchanged
      <3>2. Summary.commit = Commit /\ Summary.key = Key /\ Summary.about = current.about /\ Summary.rounds = current.round
        BY DEF Summary
      <3>3. HasReports(reports, Commit, current.round) /\ (current.about # Nothing => specs[Key] # Nothing)
        BY <3>1 DEF Reported, Probing, RoundsAudited
      <3> HIDE DEF Summary
      <3> QED
        BY <1>8, <3>1, <3>2, <3>3
    <2> QED
      BY <2>1, <2>2
  <1>11. CASE UNCHANGED <<current, next, records>> /\ (pc' \in Probing => pc' = pc)
    <2>1. ASSUME pc' \in Probing
          PROVE  /\ HasReports(reports', Commit', RoundsAudited')
                 /\ current'.about # Nothing => specs'[Key'] # Nothing
      <3>1. pc' = pc /\ pc \in Probing /\ RoundsAudited' = RoundsAudited
        BY <1>11, <2>1 DEF RoundsAudited
      <3>2. Commit' = Commit /\ Key' = Key
        BY <1>3, <1>11 DEF Commit, Key, Walk
      <3>3. HasReports(reports', Commit, RoundsAudited)
        BY <1>1, <3>1, HasReportsGrows DEF Reported
      <3>4. Key \in Keys
        BY <3>1, KeyType DEF Sound, WithKey
      <3>5. specs[Key] # Nothing => specs'[Key] # Nothing
        BY <3>4, SpecsStay DEF Sound
      <3> QED
        BY <1>11, <3>1, <3>2, <3>3, <3>5 DEF Reported
    <2> QED
      BY <1>4, <1>11, <2>1
  <1> QED
    BY <1>5, <1>6, <1>7, <1>9, <1>10, <1>11, Footprints

-----------------------------------------------------------------------------
(* The store of mock agents, and what is packed and delivered.             *)

\* The mock architect makes one shard, and the mock curator appends to it.
OneShard ==
  /\ docs \subseteq TruthDocs
  /\ options.mock => left = {}
  /\ options.mock /\ pc \notin Opening => shards = <<MockShard>> /\ hasManifest = TRUE /\ bootShards = 1
  /\ options.mock /\ pc \in {"auditor", "apply"} =>
       \A k \in DOMAIN current.proposal.patches :
         /\ current.proposal.patches[k].operation = "append"
         /\ current.proposal.patches[k].target = MockShard

LEMMA InitOneShard == Init => OneShard
  BY DEF Init, OneShard, Opening, Early

\* Mock agents leave nothing in the workspace.
LEMMA NothingLeft == options.mock /\ [Next]_vars => left' = left
  <1> SUFFICES ASSUME options.mock, [Next]_vars PROVE left' = left
    OBVIOUS
  <1> USE DEF workspace
  <1>1. CASE Bootstrap
    BY <1>1 DEF Bootstrap, Clone, DetectStack, WriteStackProfile, AskForPage, TakePage, PageThrows, RunArchitect
  <1>2. CASE WalkTheCommits
    BY <1>2 DEF WalkTheCommits, StartWalk, SkipCommit, StartCommit, TakeIssue, RunHistorian, WriteReport
  <1>3. CASE Calibrate
    BY <1>3 DEF Calibrate, RunCalibrator, RunProber, RunCurator, RunAuditor, RunSession, ApplyPatches
  <1>4. CASE Deliver \/ TakeReply \/ StageFails
    BY <1>4 DEF Deliver, Pack, UploadBundle, OpenPullRequest, TakeReply, StageFails
  <1>5. CASE UNCHANGED vars
    BY <1>5 DEF vars
  <1> QED
    BY <1>1, <1>2, <1>3, <1>4, <1>5 DEF Next, Step

LEMMA NextOneShard == Sound /\ Grounded /\ OneShard /\ [Next]_vars => OneShard'
  <1> SUFFICES ASSUME Sound, Grounded, OneShard, [Next]_vars PROVE OneShard'
    OBVIOUS
  <1>1. options' = options
    BY Footprints
  <1>2. docs' \subseteq TruthDocs
    <2>1. CASE RunArchitect
      BY <2>1, AgentAssumption DEF RunArchitect
    <2>2. CASE docs' = docs
      BY <2>2 DEF OneShard
    <2> QED
      BY <2>1, <2>2, Footprints
  <1>3. ASSUME options.mock, pc' \notin Opening
        PROVE  shards' = <<MockShard>> /\ hasManifest' = TRUE /\ bootShards' = 1
    <2>1. CASE RunArchitect
      <3>1. shards' = <<MockShard>> /\ hasManifest' = TRUE /\ bootShards' = IF hasManifest' THEN Len(shards') ELSE 0
        BY <1>3, <2>1 DEF RunArchitect
      <3> QED
        BY <3>1
    <2>2. CASE ~RunArchitect
      <3>1. shards = <<MockShard>> /\ hasManifest = TRUE /\ bootShards = 1
        BY <1>3, <2>2, Footprints DEF OneShard
      <3>2. UNCHANGED <<hasManifest, bootShards>>
        BY <2>2, Footprints
      <3>3. CASE shards' = shards
        BY <3>1, <3>2, <3>3
      <3>4. CASE ApplyPatches /\ shards' = Patched(shards, PatchesToApply)
        <4> DEFINE patches == current.proposal.patches
                   I == {k \in DOMAIN patches : patches[k].target \in Approved(current.verdict)}
                   T == {patches[k] : k \in I \cap DOMAIN patches}
        <4>1. /\ IsPath(patches) /\ IsPath(shards)
              /\ \A k \in DOMAIN patches : patches[k].operation = "append" /\ patches[k].target = MockShard
          BY <1>3, <3>4 DEF ApplyPatches, Grounded, Proposes, OneShard
        <4>2. PatchesToApply = Chosen(patches, I)
          BY DEF PatchesToApply
        <4>3. \A p \in T : p.operation = "append" /\ p.target = MockShard
          BY <4>1
        <4>4. PatchesToApply \in Seq(T)
          <5> HIDE DEF patches, I
          <5>1. PICK S : patches \in Seq(S)
            BY <4>1 DEF IsPath
          <5> QED
            BY <4>2, <5>1, ChosenFacts
        <4> HIDE DEF T, patches, I
        <4>5. MockShard \in ToSet(shards)
          BY <3>1 DEF ToSet
        <4>6. \A k \in DOMAIN PatchesToApply : PatchesToApply[k] \in T
          BY <4>4
        <4>7. \A k \in DOMAIN PatchesToApply :
                PatchesToApply[k].operation = "append" /\ PatchesToApply[k].target \in ToSet(shards)
          BY <4>3, <4>5, <4>6
        <4>8. IsPath(PatchesToApply)
          BY <4>4 DEF IsPath
        <4>9. Patched(shards, PatchesToApply) = shards
          BY <4>1, <4>7, <4>8, PatchedFacts
        <4> QED
          BY <3>1, <3>2, <3>4, <4>9
      <3>5. ApplyPatches => shards' \in {shards, Patched(shards, PatchesToApply)}
        BY DEF ApplyPatches
      <3> QED
        BY <2>2, <3>3, <3>4, <3>5, Footprints
    <2> QED
      BY <2>1, <2>2
  <1>4. ASSUME options.mock, pc' \in {"auditor", "apply"}, NEW k \in DOMAIN current'.proposal.patches
        PROVE  /\ current'.proposal.patches[k].operation = "append"
               /\ current'.proposal.patches[k].target = MockShard
    <2>1. /\ DOMAIN current = DOMAIN NoCommit
          /\ {"about", "metrics", "questions", "proposal", "verdict", "silent", "round"} \subseteq DOMAIN NoCommit
      BY DEF Sound, Scored, NoCommit
    <2>2. CASE RunCurator
      <3>1. shards = <<MockShard>> /\ hasManifest = TRUE
        BY <1>4, <2>2 DEF RunCurator, OneShard, Opening, Early
      <3>2. KnownShardPaths = <<MockShard>>
        BY <3>1 DEF KnownShardPaths
      <3> DEFINE p == MockProposal(current.questions, KnownShardPaths)
      <3>3. current' = [current EXCEPT !.proposal = p, !.round = @ + 1]
        BY <1>4, <2>2 DEF RunCurator
      <3>4. p.patches = << [target |-> MockShard, operation |-> "append"] >>
        BY <3>2 DEF MockProposal
      <3> HIDE DEF p
      <3>5. current'.proposal = p
        BY <2>1, <3>3
      <3>6. DOMAIN p.patches = {1} /\ p.patches[1].operation = "append" /\ p.patches[1].target = MockShard
        BY <3>4
      <3> QED
        BY <1>4, <3>5, <3>6
    <2>3. CASE RunAuditor
      <3>1. PICK v, b : current' = [current EXCEPT !.verdict = v] \/ current' = [current EXCEPT !.verdict = v, !.silent = b]
        BY <2>3 DEF RunAuditor
      <3>2. current'.proposal = current.proposal /\ pc = "auditor"
        BY <2>1, <2>3, <3>1 DEF RunAuditor
      <3> QED
        BY <1>4, <3>2 DEF OneShard
    <2>4. CASE RunCalibrator \/ RunProber \/ ApplyPatches
      BY <1>4, <2>4 DEF RunCalibrator, RunProber, ApplyPatches, Goto
    <2>5. CASE UNCHANGED current /\ (pc' \in Probing => pc' = pc)
      BY <1>4, <2>5 DEF OneShard, Probing
    <2> QED
      BY <2>2, <2>3, <2>4, <2>5, Footprints
  <1>5. options.mock => left' = {}
    BY NothingLeft DEF OneShard
  <1> QED
    BY <1>1, <1>2, <1>3, <1>4, <1>5 DEF OneShard

\* Stages with a bundle.
Packaged == {"upload", "deliver", "completed"}

Bundle ==
  LET manifest == BuildManifestFromWorkspace(WorkspaceFiles, Knowledge)
  IN [manifest |-> manifest, files |-> PackBundle(manifest)]

\* The bundle is that of the workspace, and where it went it is the same.
Packed ==
  /\ pc \in Packaged => bundle = Bundle
  /\ pc \in {"deliver", "completed"} /\ options.upload => blob = bundle
  /\ pc = "completed" /\ options.openPr => pr \in CollectWorkspaceFiles

\* From packing on, the workspace and the records stay.
LEMMA PackagedSteps ==
  ASSUME [Next]_vars, pc' \in Packaged
  PROVE  \/ Pack
         \/ UploadBundle
         \/ OpenPullRequest
         \/ pc' = pc /\ UNCHANGED <<options, workspace, records, results>>
  <1> USE DEF Goto, Packaged
  <1>1. CASE Bootstrap
    BY <1>1 DEF Bootstrap, Clone, DetectStack, WriteStackProfile, AskForPage, TakePage, PageThrows, RunArchitect
  <1>2. CASE WalkTheCommits
    BY <1>2 DEF WalkTheCommits, StartWalk, SkipCommit, StartCommit, TakeIssue, RunHistorian, WriteReport
  <1>3. CASE Calibrate
    BY <1>3 DEF Calibrate, RunCalibrator, RunProber, RunCurator, RunAuditor, ApplyPatches
  <1>4. CASE TakeReply \/ StageFails
    BY <1>4 DEF TakeReply, StageFails
  <1>5. CASE UNCHANGED vars
    BY <1>5 DEF vars, walkVars
  <1> QED
    BY <1>1, <1>2, <1>3, <1>4, <1>5 DEF Next, Step, Deliver

LEMMA InitPacked == Init => Packed
  BY DEF Init, Packed, Packaged

LEMMA NextPacked == Packed /\ [Next]_vars => Packed'
  <1> SUFFICES ASSUME Packed, [Next]_vars PROVE Packed'
    OBVIOUS
  <1>1. CASE pc' \notin Packaged
    BY <1>1 DEF Packed, Packaged
  <1>2. UNCHANGED <<workspace, records>> => WorkspaceFiles' = WorkspaceFiles /\ Knowledge' = Knowledge /\ Bundle' = Bundle
    BY DEF workspace, WorkspaceFiles, Knowledge, Average, Processed, ProcessedAt, Bundle
  <1>3. UNCHANGED workspace => CollectWorkspaceFiles' = CollectWorkspaceFiles
    <2> SUFFICES ASSUME UNCHANGED workspace PROVE CollectWorkspaceFiles' = CollectWorkspaceFiles
      OBVIOUS
    <2>1. WorkspaceFiles' = WorkspaceFiles
      BY DEF workspace, WorkspaceFiles
    <2> QED
      BY <2>1 DEF CollectWorkspaceFiles
  <1>4. CASE Pack
    <2>1. bundle' = Bundle /\ pc' = "upload" /\ UNCHANGED <<workspace, records>>
      BY <1>4 DEF Pack, Bundle, Goto, walkVars
    <2> QED
      BY <1>2, <2>1 DEF Packed
  <1>5. CASE UploadBundle
    <2>1. /\ pc = "upload" /\ pc' = "deliver" /\ UNCHANGED <<options, workspace, records, bundle>>
          /\ options.upload => blob' = bundle
      BY <1>5 DEF UploadBundle, Goto, walkVars
    <2> QED
      BY <1>2, <2>1 DEF Packed, Packaged
  <1>6. CASE OpenPullRequest
    <2>1. /\ pc = "deliver" /\ pc' = "completed" /\ UNCHANGED <<options, workspace, records, bundle, blob>>
          /\ options.openPr => pr' \in CollectWorkspaceFiles
      BY <1>6 DEF OpenPullRequest, Goto, walkVars
    <2> QED
      BY <1>2, <1>3, <2>1 DEF Packed, Packaged
  <1>7. CASE pc' = pc /\ UNCHANGED <<options, workspace, records, results>>
    BY <1>2, <1>3, <1>7 DEF Packed, results
  <1> QED
    BY <1>1, <1>4, <1>5, <1>6, <1>7, PackagedSteps

LEMMA AlwaysPacked == Spec => [](Sound /\ Grounded /\ Reported /\ OneShard /\ Packed)
  <1>1. Init => Sound /\ Grounded /\ Reported /\ OneShard /\ Packed
    BY InitSound, InitGrounded, InitReported, InitOneShard, InitPacked
  <1>2. Sound /\ Grounded /\ Reported /\ OneShard /\ Packed /\ [Next]_vars
          => (Sound /\ Grounded /\ Reported /\ OneShard /\ Packed)'
    BY NextSound, NextGrounded, NextReported, NextOneShard, NextPacked
  <1> QED
    BY <1>1, <1>2, PTL DEF Spec

\* runBrownfieldJob loses none of the work: for any history, any store and any answers, the
\* bundle of a completed job holds the retro spec and every audited round of each processed
\* commit, its counts add up to the walk, a mock job counts the shards it has, and what is
\* uploaded is the bundle, and what is proposed its files that are small and not below a
\* directory .git or node_modules, or as many as are allowed.
THEOREM WorkIsDelivered == Spec => []BundleHoldsTheWork
  <1>1. Sound /\ Reported /\ OneShard /\ Packed => BundleHoldsTheWork
    <2> SUFFICES ASSUME Sound, Reported, OneShard, Packed, pc = "completed" PROVE BundleHoldsTheWork
      BY DEF BundleHoldsTheWork
    <2> DEFINE knowledge == bundle.manifest.knowledge
               zip == PackBundle(BuildManifestFromWorkspace(WorkspaceFiles, Knowledge))
               shardFiles == Below(<<".sdd", "knowledge">>, WorkspaceFiles) \ {KnowledgeManifest}
    <2>1. /\ knowledge = Knowledge /\ bundle.files = zip
          /\ bundle.manifest.knowledgeShards \ {KnowledgeManifest} = shardFiles
      <3>1. bundle = Bundle
        BY DEF Packed, Packaged
      <3>2. bundle.manifest = BuildManifestFromWorkspace(WorkspaceFiles, Knowledge) /\ bundle.files = zip
        BY <3>1 DEF Bundle
      <3> HIDE DEF zip
      <3> QED
        BY <3>2 DEF BuildManifestFromWorkspace
    <2> HIDE DEF knowledge, zip, shardFiles
    <2>2. knowledge.commitsProcessed + knowledge.commitsSkipped = Len(Walk)
      <3>1. PICK S : records \in Seq(S)
        BY DEF Sound, AboutInv, Shape
      <3>2. Processed \in Seq({records[i] : i \in ProcessedAt \cap DOMAIN records})
        BY <3>1, ChosenFacts DEF Processed
      <3>3. Len(Processed) \in Nat /\ Len(records) \in Nat
        BY <3>1, <3>2
      <3>4. Len(Walk) \in Nat /\ next \in Nat /\ Len(records) = next /\ next <= Len(Walk) /\ ~(next < Len(Walk))
        BY WalkType DEF Sound, AboutInv, Shape, Walked, Finished, HasCommit
      <3>5. knowledge.commitsProcessed = Len(Processed) /\ knowledge.commitsSkipped = Len(records) - Len(Processed)
        BY <2>1 DEF Knowledge
      <3> QED
        BY <3>3, <3>4, <3>5
    <2>3. ASSUME NEW i \in DOMAIN records, records[i].key # NoKey
          PROVE  /\ records[i].about # Nothing => SpecFile(records[i].key) \in bundle.files
                 /\ ReportFile(records[i].commit, <<"calibration-report.json">>) \in bundle.files
                 /\ \A r \in 1..records[i].rounds :
                      ReportFile(records[i].commit, <<"audit-verdict-round", ToString(r)>>) \in bundle.files
      <3>1. HasReports(reports, records[i].commit, records[i].rounds)
        BY <2>3 DEF Reported, OnFile
      <3>2. reports \subseteq WorkspaceFiles
        BY DEF WorkspaceFiles
      <3>3. IsPath(<<"calibration-report.json">>) /\ \A r : IsPath(<<"audit-verdict-round", ToString(r)>>)
        BY LiteralPaths
      <3>4. \A c, name : IsPath(name) /\ ReportFile(c, name) \in WorkspaceFiles => ReportFile(c, name) \in bundle.files
        BY <2>1, PackedWork DEF zip
      <3>5. ReportFile(records[i].commit, <<"calibration-report.json">>) \in bundle.files
        BY <3>1, <3>2, <3>3, <3>4 DEF HasReports
      <3>6. \A r \in 1..records[i].rounds : ReportFile(records[i].commit, <<"audit-verdict-round", ToString(r)>>) \in bundle.files
        BY <3>1, <3>2, <3>3, <3>4 DEF HasReports
      <3>7. ASSUME records[i].about # Nothing PROVE SpecFile(records[i].key) \in bundle.files
        <4>1. specs[records[i].key] # Nothing
          BY <2>3, <3>7 DEF Reported, OnFile
        <4>2. records[i].key \in Keys
          <5>1. Len(records) = next /\ next <= Len(Walk) /\ Len(Walk) \in Nat /\ next \in Nat
            BY WalkType DEF Sound, AboutInv, Shape, Walked
          <5>2. PICK S : records \in Seq(S)
            BY DEF Sound, AboutInv, Shape
          <5>3. i \in 1..Len(Walk)
            BY <5>1, <5>2
          <5>4. Walk[i].key \in Keys \cup {NoKey} /\ records[i].key = Walk[i].key
            BY <5>3, WalkType DEF Sound, AboutInv, Shape, Walked
          <5> QED
            BY <2>3, <5>4
        <4>3. SpecFile(records[i].key) \in WorkspaceFiles
          BY <4>1, <4>2 DEF WorkspaceFiles
        <4> QED
          BY <2>1, <4>3, PackedWork DEF zip
      <3> QED
        BY <3>5, <3>6, <3>7
    <2>4. options.mock => knowledge.shardCount = Cardinality(shardFiles)
      <3> SUFFICES ASSUME options.mock PROVE knowledge.shardCount = Cardinality(shardFiles)
        OBVIOUS
      <3>1. shards = <<MockShard>> /\ hasManifest = TRUE /\ bootShards = 1
        BY DEF OneShard, Opening, Early
      <3>2. docs \subseteq TruthDocs /\ left = {} /\ \A f \in reports : InSdd(f, "reports")
        BY DEF OneShard, Reported
      <3>3. shardFiles = {ShardFile(MockShard)}
        BY <3>1, <3>2, StoreFiles DEF shardFiles
      <3>4. Cardinality(shardFiles) = 1
        BY <3>3, FS_Singleton
      <3> QED
        BY <2>1, <3>1, <3>4 DEF Knowledge
    <2>5. options.upload => blob = bundle
      BY DEF Packed
    <2>6. ASSUME options.openPr
          PROVE  LET due == {f \in bundle.files \ (LargeFiles \cup {ManifestPath}) : ~InSkipped(f)}
                 IN due \subseteq pr \/ Cardinality(pr) = MaxPrFiles
      <3> DEFINE small == {f \in WorkspaceFiles \ LargeFiles : ~InSkipped(f)}
      <3>1. pr \in CollectWorkspaceFiles
        BY <2>6 DEF Packed
      <3>2. pr = small \/ Cardinality(pr) = MaxPrFiles
        BY <3>1 DEF CollectWorkspaceFiles, kSubset
      <3>3. VendorSddKit \subseteq WorkspaceFiles
        BY DEF WorkspaceFiles
      <3>4. bundle.files \subseteq WorkspaceFiles \cup {ManifestPath}
        BY <2>1, <3>3, PackedFiles DEF zip
      <3> QED
        BY <3>2, <3>4
    <2> QED
      BY <2>1, <2>2, <2>3, <2>4, <2>5, <2>6 DEF BundleHoldsTheWork, knowledge
  <1> QED
    BY <1>1, AlwaysPacked, PTL
=============================================================================
