-------------------------- MODULE JobStreamProofs ---------------------------
(***************************************************************************)
(* Proofs of the safety properties of JobStream, for any events, outcomes, *)
(* connections and bounds.                                                 *)
(***************************************************************************)
EXTENDS JobStream, SequenceTheorems, WellFoundedInduction, TLAPS

-----------------------------------------------------------------------------
(* Sequences.                                                              *)

LEMMA ElementsOf ==
  ASSUME NEW S, NEW s \in Seq(S)
  PROVE  Elements(s) = {s[i] : i \in 1..Len(s)} /\ Elements(s) \subseteq S
  BY LenProperties, ElementOfSeq DEF Elements

LEMMA ElementsAppend ==
  ASSUME NEW S, NEW s \in Seq(S), NEW e \in S
  PROVE  Elements(Append(s, e)) = Elements(s) \cup {e}
<1>1. /\ Append(s, e) \in Seq(S) /\ Len(Append(s, e)) = Len(s) + 1
      /\ \A i \in 1..Len(s) : Append(s, e)[i] = s[i]
      /\ Append(s, e)[Len(s)+1] = e
  BY AppendProperties
<1>2. Len(s) \in Nat
  BY LenProperties
<1>3. /\ Elements(s) = {s[i] : i \in 1..Len(s)}
      /\ Elements(Append(s, e)) = {Append(s, e)[i] : i \in 1..Len(s)+1}
  BY <1>1, ElementsOf
<1>4. \A i \in 1..Len(s)+1 : i \in 1..Len(s) \/ i = Len(s)+1
  BY <1>2
<1>5. 1..Len(s) \subseteq 1..Len(s)+1 /\ Len(s)+1 \in 1..Len(s)+1
  BY <1>2
<1> HIDE DEF Elements
<1> QED BY <1>1, <1>3, <1>4, <1>5

LEMMA ElementsConcat ==
  ASSUME NEW S, NEW s \in Seq(S), NEW t \in Seq(S)
  PROVE  Elements(s \o t) = Elements(s) \cup Elements(t)
<1>1. /\ s \o t \in Seq(S)
      /\ Len(s \o t) = Len(s) + Len(t)
      /\ \A i \in 1..Len(s) + Len(t) : (s \o t)[i] = IF i <= Len(s) THEN s[i] ELSE t[i - Len(s)]
  BY ConcatProperties
<1>2. Len(s) \in Nat /\ Len(t) \in Nat
  BY LenProperties
<1>3. /\ Elements(s) = {s[i] : i \in 1..Len(s)} /\ Elements(t) = {t[i] : i \in 1..Len(t)}
      /\ Elements(s \o t) = {(s \o t)[i] : i \in 1..Len(s) + Len(t)}
  BY <1>1, ElementsOf
<1>4. ASSUME NEW i \in 1..Len(s) + Len(t)
      PROVE  (s \o t)[i] \in Elements(s) \cup Elements(t)
  <2>1. CASE i <= Len(s)
    BY <1>1, <1>2, <1>3, <2>1
  <2>2. CASE i > Len(s)
    <3>1. i - Len(s) \in 1..Len(t) /\ (s \o t)[i] = t[i - Len(s)]
      BY <1>1, <1>2, <2>2
    <3> QED BY <1>3, <3>1
  <2> QED BY <1>2, <2>1, <2>2
<1>5. \A i \in 1..Len(s) : i \in 1..Len(s) + Len(t) /\ (s \o t)[i] = s[i]
  BY <1>1, <1>2
<1>6. \A i \in 1..Len(t) : /\ i + Len(s) \in 1..Len(s) + Len(t)
                           /\ (s \o t)[i + Len(s)] = t[i]
  BY <1>1, <1>2
<1> QED BY <1>3, <1>4, <1>5, <1>6

LEMMA ElementsTail ==
  ASSUME NEW S, NEW s \in Seq(S), s # <<>>
  PROVE  Elements(s) = {Head(s)} \cup Elements(Tail(s)) /\ Tail(s) \in Seq(S) /\ Head(s) \in S
<1>1. /\ Head(s) \in S /\ Tail(s) \in Seq(S)
      /\ Len(Tail(s)) = Len(s) - 1
      /\ \A i \in 1..Len(Tail(s)) : Tail(s)[i] = s[i+1]
  BY HeadTailProperties
<1>2. Len(s) \in Nat \ {0} /\ Head(s) = s[1]
  BY EmptySeq
<1>3. /\ Elements(s) = {s[i] : i \in 1..Len(s)}
      /\ Elements(Tail(s)) = {Tail(s)[i] : i \in 1..Len(s) - 1}
  BY <1>1, ElementsOf
<1>4. \A i \in 1..Len(s) : i = 1 \/ (i - 1 \in 1..Len(s) - 1 /\ Tail(s)[i - 1] = s[i])
  BY <1>1, <1>2
<1>5. \A i \in 1..Len(s) - 1 : i + 1 \in 1..Len(s) /\ Tail(s)[i] = s[i + 1]
  BY <1>1, <1>2
<1>6. 1 \in 1..Len(s)
  BY <1>2
<1>7. ASSUME NEW x \in Elements(s)
      PROVE  x \in {Head(s)} \cup Elements(Tail(s))
  <2>1. PICK i \in 1..Len(s) : x = s[i]
    BY <1>3
  <2>2. CASE i = 1
    BY <1>2, <2>1, <2>2
  <2>3. CASE i # 1
    <3>1. i - 1 \in 1..Len(s) - 1 /\ Tail(s)[i - 1] = x
      BY <1>4, <2>1, <2>3
    <3> QED BY <1>3, <3>1
  <2> QED BY <2>2, <2>3
<1>8. {Head(s)} \cup Elements(Tail(s)) \subseteq Elements(s)
  BY <1>2, <1>3, <1>5, <1>6
<1> QED BY <1>1, <1>7, <1>8

\* The least index with an outcome.
LEMMA LeastIndex ==
  ASSUME NEW T \in SUBSET Nat, T # {}
  PROVE  \E m \in T : \A k \in T : ~(k < m)
<1>1. \E m \in T : \A k \in T : ~(<<k, m>> \in OpToRel(<, Nat))
  BY WFMin, NatLessThanWellFounded, Zenon
<1>2. \A k, m \in Nat : k < m => <<k, m>> \in OpToRel(<, Nat)
  BY DEF OpToRel
<1> QED BY <1>1, <1>2

-----------------------------------------------------------------------------
(* What the hub keeps and what a connection is written.                    *)

LEMMA Bufferings ==
  ASSUME NEW h \in Seq(Events), Len(h) <= MaxBuffered + 1
  PROVE  /\ Buffered(h) \in Seq(Events)
         /\ Len(Buffered(h)) <= MaxBuffered
         /\ Elements(Buffered(h)) \subseteq Elements(h)
<1>1. Len(h) \in Nat /\ MaxBuffered \in Nat \ {0}
  BY LenProperties, BoundsAssumption
<1>2. CASE Len(h) > MaxBuffered
  <2>1. h # <<>>
    BY <1>1, <1>2
  <2>2. Len(Tail(h)) = Len(h) - 1
    BY <2>1, HeadTailProperties
  <2> QED BY <1>1, <1>2, <2>1, <2>2, ElementsTail DEF Buffered
<1>3. CASE ~(Len(h) > MaxBuffered)
  BY <1>1, <1>3 DEF Buffered
<1> QED BY <1>2, <1>3

\* A loop without an outcome runs to the end; one with an outcome stops at the first.
LEMMA Loops ==
  ASSUME NEW s \in Seq(Events)
  PROVE  /\ UpToOutcome(s) \in Seq(Events)
         /\ ~HasOutcome(s) => UpToOutcome(s) = s
         /\ \A i \in 1..Len(UpToOutcome(s)) :
              UpToOutcome(s)[i] \in Outcomes => i = Len(UpToOutcome(s)) /\ HasOutcome(s)
         /\ Elements(UpToOutcome(s)) \subseteq Elements(s)
<1>1. DOMAIN s = 1..Len(s) /\ Len(s) \in Nat
  BY LenProperties
<1>2. CASE ~HasOutcome(s)
  <2>1. UpToOutcome(s) = s
    BY <1>2 DEF UpToOutcome
  <2> QED BY <1>1, <1>2, <2>1 DEF HasOutcome
<1>3. CASE HasOutcome(s)
  <2> DEFINE First(i) == s[i] \in Outcomes /\ \A k \in 1..(i-1) : s[k] \notin Outcomes
             n == CHOOSE i \in DOMAIN s : First(i)
             T == {i \in 1..Len(s) : s[i] \in Outcomes}
  <2>1. PICK m \in T : \A k \in T : ~(k < m)
    <3>1. T \in SUBSET Nat /\ T # {}
      BY <1>1, <1>3 DEF HasOutcome
    <3> QED BY <3>1, LeastIndex
  <2>2. m \in DOMAIN s /\ First(m)
    BY <1>1, <2>1
  <2>3. n \in DOMAIN s /\ First(n)
    BY <2>2
  <2>4. UpToOutcome(s) = SubSeq(s, 1, n)
    BY <1>3 DEF UpToOutcome
  <2> HIDE DEF n
  <2>5. n \in 1..Len(s) /\ n \in Int /\ \A i \in 1..n : s[i] \in Events
    BY <1>1, <2>3, ElementOfSeq
  <2>6. /\ SubSeq(s, 1, n) \in Seq(Events)
        /\ Len(SubSeq(s, 1, n)) = n
        /\ \A i \in 1..n : SubSeq(s, 1, n)[i] = s[i]
    <3>1. /\ SubSeq(s, 1, n) \in Seq(Events)
          /\ Len(SubSeq(s, 1, n)) = IF 1 <= n THEN n - 1 + 1 ELSE 0
          /\ \A i \in 1..n - 1 + 1 : SubSeq(s, 1, n)[i] = s[1 + i - 1]
      BY <2>5, SubSeqProperties
    <3> QED BY <2>5, <3>1
  <2>7. \A i \in 1..n : s[i] \in Outcomes => i = n
    BY <2>3, <2>5
  <2>8. Elements(UpToOutcome(s)) \subseteq Elements(s)
    <3>1. /\ Elements(UpToOutcome(s)) = {SubSeq(s, 1, n)[i] : i \in 1..n}
          /\ Elements(s) = {s[i] : i \in 1..Len(s)}
      BY <2>4, <2>6, ElementsOf
    <3>2. 1..n \subseteq 1..Len(s)
      BY <1>1, <2>5
    <3> QED BY <2>6, <3>1, <3>2
  <2> QED BY <1>3, <2>4, <2>6, <2>7, <2>8
<1> QED BY <1>2, <1>3

LEMMA Yielded ==
  ASSUME TypeOK, NEW c \in Connections, NEW s \in Seq(Events), NEW next \in ConnectionPCs,
         Yield(c, s, next)
  PROVE  /\ got' \in [Connections -> Seq(Events)]
         /\ conn' \in [Connections -> ConnectionPCs]
         /\ got'[c] = got[c] \o UpToOutcome(s)
         /\ Elements(got'[c]) = Elements(got[c]) \cup Elements(UpToOutcome(s))
         /\ conn'[c] = IF HasOutcome(s) THEN "ended" ELSE next
         /\ \A d \in Connections \ {c} : got'[d] = got[d] /\ conn'[d] = conn[d]
<1>1. got[c] \in Seq(Events) /\ UpToOutcome(s) \in Seq(Events)
  BY Loops DEF TypeOK
<1>2. got[c] \o UpToOutcome(s) \in Seq(Events)
  BY <1>1, ConcatProperties
<1>3. "ended" \in ConnectionPCs
  BY DEF ConnectionPCs
<1>4. got'[c] = got[c] \o UpToOutcome(s)
  BY DEF Yield, TypeOK
<1>5. Elements(got'[c]) = Elements(got[c]) \cup Elements(UpToOutcome(s))
  BY <1>1, <1>4, ElementsConcat
<1>6. got' \in [Connections -> Seq(Events)]
  BY <1>2 DEF Yield, TypeOK
<1>7. conn' \in [Connections -> ConnectionPCs]
  BY <1>3 DEF Yield, TypeOK
<1> QED BY <1>4, <1>5, <1>6, <1>7 DEF Yield, TypeOK

\* What the three loops of a connection run over.
LEMMA Sources ==
  ASSUME TypeOK
  PROVE  /\ LoadEvents \in Seq(Events) /\ Elements(LoadEvents) \subseteq Elements(stored)
         /\ history \in Seq(Events)
         /\ live # <<>> => /\ <<Head(live)>> \in Seq(Events)
                           /\ Elements(<<Head(live)>>) = {Head(live)}
                           /\ Elements(live) = {Head(live)} \cup Elements(Tail(live))
                           /\ Tail(live) \in Seq(Events)
<1>1. stored \in Seq(Events) /\ Len(stored) \in Nat /\ MaxReplay \in Nat
  BY SeqMonotonic, LenProperties, EventsAssumption, BoundsAssumption DEF TypeOK
<1> DEFINE n == IF Len(stored) < MaxReplay THEN Len(stored) ELSE MaxReplay
<1>2. n \in Nat /\ n <= Len(stored)
  BY <1>1
<1>3. LoadEvents = SubSeq(stored, 1, n)
  BY DEF LoadEvents
<1> HIDE DEF n
<1>4. \A i \in 1..n : stored[i] \in Events
  BY <1>1, <1>2, ElementOfSeq
<1>5. /\ SubSeq(stored, 1, n) \in Seq(Events)
      /\ Len(SubSeq(stored, 1, n)) = IF 1 <= n THEN n - 1 + 1 ELSE 0
      /\ \A i \in 1..n - 1 + 1 : SubSeq(stored, 1, n)[i] = stored[1 + i - 1]
  BY <1>2, <1>4, SubSeqProperties
<1>6. LoadEvents \in Seq(Events) /\ Len(LoadEvents) = n /\ \A i \in 1..n : LoadEvents[i] = stored[i]
  BY <1>2, <1>3, <1>5
<1>7. Elements(LoadEvents) \subseteq Elements(stored)
  <2>1. /\ Elements(LoadEvents) = {LoadEvents[i] : i \in 1..n}
        /\ Elements(stored) = {stored[i] : i \in 1..Len(stored)}
    BY <1>1, <1>6, ElementsOf
  <2>2. 1..n \subseteq 1..Len(stored)
    BY <1>1, <1>2
  <2> QED BY <1>6, <2>1, <2>2
<1>8. ASSUME live # <<>>
      PROVE  /\ <<Head(live)>> \in Seq(Events)
             /\ Elements(<<Head(live)>>) = {Head(live)}
             /\ Elements(live) = {Head(live)} \cup Elements(Tail(live))
             /\ Tail(live) \in Seq(Events)
  <2>1. /\ Elements(live) = {Head(live)} \cup Elements(Tail(live))
        /\ Tail(live) \in Seq(Events) /\ Head(live) \in Events
    BY <1>8, ElementsTail DEF TypeOK
  <2>2. <<Head(live)>> \in Seq(Events) /\ Len(<<Head(live)>>) = 1 /\ <<Head(live)>>[1] = Head(live)
    BY <2>1
  <2>3. Elements(<<Head(live)>>) = {<<Head(live)>>[i] : i \in 1..1}
    BY <2>2, ElementsOf
  <2>4. 1..1 = {1}
    OBVIOUS
  <2> QED BY <2>1, <2>2, <2>3, <2>4
<1> QED BY <1>6, <1>7, <1>8 DEF TypeOK

-----------------------------------------------------------------------------
(* Types.                                                                  *)

\* Only the handler of a worker event goes on to store it.
HandlersOfWorkers == \A e \in Events : handler[e] = "published" => e \in WorkerEvents

TypeInv == TypeOK /\ HandlersOfWorkers

LEMMA InitTypeInv == Init => TypeInv
<1> SUFFICES ASSUME Init PROVE TypeInv
  OBVIOUS
<1>1. <<>> \in Seq(Events) /\ <<>> \in Seq(WorkerEvents) /\ Len(<<>>) = 0
  BY EmptySeq
<1>2. /\ stored \in Seq(WorkerEvents) /\ live \in Seq(Events) /\ isTerminal \in BOOLEAN
      /\ handler \in [Events -> HandlerPCs] /\ conn \in [Connections -> ConnectionPCs]
      /\ got \in [Connections -> Seq(Events)] /\ alone \in [Connections -> BOOLEAN]
  BY <1>1 DEF Init, HandlerPCs, ConnectionPCs
<1>3. history \in Seq(Events) /\ Len(history) <= MaxBuffered /\ restarts \in 0..MaxRestarts
  BY <1>1, BoundsAssumption DEF Init
<1>4. HandlersOfWorkers
  BY DEF Init, HandlersOfWorkers
<1> QED BY <1>2, <1>3, <1>4 DEF TypeInv, TypeOK

LEMMA PublishTypeInv ==
  ASSUME TypeInv, NEW e \in Events, Publish(e)
  PROVE  /\ TypeInv'
         /\ Elements(history') \subseteq Elements(history) \cup {e}
         /\ Elements(live') = Elements(live) \cup {e}
<1>1. TypeOK /\ HandlersOfWorkers
  BY DEF TypeInv
<1>2. /\ history \in Seq(Events) /\ live \in Seq(Events)
      /\ Len(history) \in Nat /\ Len(history) <= MaxBuffered /\ MaxBuffered \in Nat
  BY <1>1, LenProperties, BoundsAssumption DEF TypeOK
<1>3. Append(history, e) \in Seq(Events) /\ Len(Append(history, e)) <= MaxBuffered + 1
  BY <1>2, AppendProperties
<1>4. live' = Append(live, e) /\ live' \in Seq(Events)
  BY <1>2, AppendProperties DEF Publish, WriteLive
<1>5. history' = Buffered(Append(history, e))
  BY DEF Publish
<1>6. /\ history' \in Seq(Events) /\ Len(history') <= MaxBuffered
      /\ Elements(history') \subseteq Elements(Append(history, e))
  BY <1>3, <1>5, Bufferings
<1>7. handler' \in [Events -> HandlerPCs] /\ isTerminal' \in BOOLEAN
  BY <1>1 DEF TypeOK, Publish, HandlerPCs, MarkTerminal
<1>8. HandlersOfWorkers'
  BY <1>1 DEF TypeOK, HandlersOfWorkers, Publish
<1>9. UNCHANGED <<stored, conn, got, alone, restarts>>
  BY DEF Publish
<1>10. TypeOK'
  BY <1>1, <1>4, <1>6, <1>7, <1>9 DEF TypeOK
<1>11. Elements(Append(history, e)) = Elements(history) \cup {e}
  BY <1>2, ElementsAppend
<1>12. Elements(live') = Elements(live) \cup {e}
  BY <1>2, <1>4, ElementsAppend
<1> QED BY <1>6, <1>8, <1>10, <1>11, <1>12 DEF TypeInv

LEMMA PersistTypeInv ==
  ASSUME TypeInv, NEW e \in Events, Persist(e)
  PROVE  TypeInv' /\ Elements(stored') \subseteq Elements(stored) \cup {e}
<1>1. TypeOK /\ HandlersOfWorkers
  BY DEF TypeInv
<1>2. e \in WorkerEvents
  BY <1>1 DEF HandlersOfWorkers, Persist
<1>3. /\ Append(stored, e) \in Seq(WorkerEvents)
      /\ Elements(Append(stored, e)) = Elements(stored) \cup {e}
  BY <1>1, <1>2, AppendProperties, ElementsAppend DEF TypeOK
<1>4. stored' = stored \/ stored' = Append(stored, e)
  BY DEF Persist
<1>5. handler' \in [Events -> HandlerPCs] /\ HandlersOfWorkers'
  BY <1>1 DEF TypeOK, HandlersOfWorkers, Persist, HandlerPCs
<1>6. UNCHANGED <<history, live, isTerminal, conn, got, alone, restarts>>
  BY DEF Persist, hub
<1>7. TypeOK'
  BY <1>1, <1>3, <1>4, <1>5, <1>6 DEF TypeOK
<1> QED BY <1>3, <1>4, <1>5, <1>7 DEF TypeInv

LEMMA ConnectionTypeInv ==
  ASSUME TypeInv, NEW c \in Connections, Replay(c) \/ StreamStep(c) \/ Disconnect(c)
  PROVE  TypeInv'
<1>1. TypeOK /\ HandlersOfWorkers
  BY DEF TypeInv
<1>2. UNCHANGED <<handler, stored, history, isTerminal, restarts>>
  BY DEF Replay, StreamStep, Snapshot, CheckTerminal, Receive, Disconnect, hub
<1>3. {"replayed", "snapshotted", "live", "closed", "ended"} \subseteq ConnectionPCs
  BY DEF ConnectionPCs, Open
<1>4. got' \in [Connections -> Seq(Events)] /\ conn' \in [Connections -> ConnectionPCs]
  <2>1. CASE Replay(c)
    BY <1>1, <1>3, <2>1, Sources, Yielded DEF Replay
  <2>2. CASE Snapshot(c)
    BY <1>1, <1>3, <2>2, Sources, Yielded DEF Snapshot
  <2>3. CASE Receive(c)
    BY <1>1, <1>3, <2>3, Sources, Yielded DEF Receive
  <2>4. CASE CheckTerminal(c) \/ Disconnect(c)
    BY <1>1, <1>3, <2>4 DEF CheckTerminal, Disconnect, TypeOK
  <2> QED BY <2>1, <2>2, <2>3, <2>4 DEF StreamStep
<1>5. live' \in Seq(Events)
  <2>1. CASE Receive(c)
    BY <1>1, <2>1, Sources DEF Receive
  <2>2. CASE UNCHANGED live
    BY <1>1, <2>2 DEF TypeOK
  <2> QED BY <2>1, <2>2 DEF Replay, StreamStep, Snapshot, CheckTerminal, Disconnect, hub
<1>6. alone' \in [Connections -> BOOLEAN]
  BY <1>1 DEF Replay, StreamStep, Snapshot, CheckTerminal, Receive, Disconnect, TypeOK
<1>7. TypeOK'
  BY <1>1, <1>2, <1>4, <1>5, <1>6 DEF TypeOK
<1> QED BY <1>1, <1>2, <1>7 DEF TypeInv, HandlersOfWorkers

LEMMA RestartTypeInv ==
  ASSUME TypeInv, Restart
  PROVE  TypeInv'
<1>1. <<>> \in Seq(Events) /\ Len(<<>>) = 0 /\ MaxBuffered \in Nat
  BY EmptySeq, BoundsAssumption
<1>2. /\ handler' \in [Events -> HandlerPCs] /\ conn' \in [Connections -> ConnectionPCs]
      /\ HandlersOfWorkers'
  BY DEF TypeInv, TypeOK, HandlersOfWorkers, Restart, HandlerPCs, ConnectionPCs
<1>3. history' \in Seq(Events) /\ live' \in Seq(Events) /\ Len(history') <= MaxBuffered
  BY <1>1 DEF Restart
<1>4. restarts' \in 0..MaxRestarts
  BY BoundsAssumption DEF TypeInv, TypeOK, Restart
<1>5. isTerminal' \in BOOLEAN /\ UNCHANGED <<stored, got, alone>>
  BY DEF Restart
<1> QED BY <1>2, <1>3, <1>4, <1>5 DEF TypeInv, TypeOK

LEMMA TypeInvHolds == Spec => []TypeInv
<1>1. TypeInv /\ UNCHANGED vars => TypeInv'
  BY DEF TypeInv, TypeOK, HandlersOfWorkers, vars
<1>2. TypeInv /\ [Next]_vars => TypeInv'
  BY <1>1, PublishTypeInv, PersistTypeInv, ConnectionTypeInv, RestartTypeInv DEF Next
<1> QED BY InitTypeInv, <1>2, PTL DEF Spec

\* Type correctness; the history stays within its buffer.
THEOREM TypeCorrect == Spec => []TypeOK
  BY TypeInvHolds, PTL DEF TypeInv

-----------------------------------------------------------------------------
(* No gap.                                                                 *)

\* Two open connections know of each other; what the hub remembers was written to a
\* lone connection that has copied the history, or is waiting for it.
GapInv ==
  /\ \A c, d \in Connections : c # d /\ conn[c] \in Open /\ conn[d] \in Open => ~alone[c]
  /\ \A c \in Connections :
       conn[c] \in {"snapshotted", "live"} /\ alone[c] =>
         Elements(history) \subseteq Elements(got[c]) \cup Elements(live)

LEMMA InitGapInv == Init => GapInv
  BY DEF Init, GapInv, Open

LEMMA PublishGapInv ==
  ASSUME TypeInv, GapInv, NEW e \in Events, Publish(e)
  PROVE  GapInv'
<1>1. /\ Elements(history') \subseteq Elements(history) \cup {e}
      /\ Elements(live') = Elements(live) \cup {e}
  BY PublishTypeInv
<1>2. UNCHANGED <<conn, got, alone>>
  BY DEF Publish
<1> QED BY <1>1, <1>2 DEF GapInv

LEMMA ReplayGapInv ==
  ASSUME TypeInv, GapInv, NEW c \in Connections, Replay(c)
  PROVE  GapInv'
<1> DEFINE others == {d \in Connections : conn[d] \in Open}
<1>1. TypeOK
  BY DEF TypeInv
<1>2. /\ conn[c] = "off"
      /\ \A d \in Connections \ {c} : got'[d] = got[d] /\ conn'[d] = conn[d]
      /\ conn'[c] \in {"ended", "replayed"}
  BY <1>1, Sources, Yielded DEF Replay, ConnectionPCs, Open
<1>3. \A d \in Connections : alone'[d] = (alone[d] /\ ~(d \in others \/ (d = c /\ others # {})))
  BY DEF Replay
<1>4. \A d \in Connections : conn[d] \in Open => ~alone'[d] /\ ~alone'[c]
  BY <1>3
<1>5. UNCHANGED <<history, live>>
  BY DEF Replay, hub
<1>6. \A a, b \in Connections : a # b /\ conn'[a] \in Open /\ conn'[b] \in Open => ~alone'[a]
  BY <1>2, <1>4
<1>7. ASSUME NEW d \in Connections, conn'[d] \in {"snapshotted", "live"}, alone'[d]
      PROVE  Elements(history') \subseteq Elements(got'[d]) \cup Elements(live')
  BY <1>2, <1>4, <1>7 DEF Open
<1> QED BY <1>6, <1>7 DEF GapInv

LEMMA StreamGapInv ==
  ASSUME TypeInv, GapInv, NEW c \in Connections, StreamStep(c)
  PROVE  GapInv'
<1>1. TypeOK
  BY DEF TypeInv
<1>2. {"replayed", "snapshotted", "live", "ended"} \subseteq ConnectionPCs
  BY DEF ConnectionPCs, Open
<1>3. UNCHANGED <<history, alone>>
  BY DEF StreamStep, Snapshot, CheckTerminal, Receive, hub
<1>4. CASE Snapshot(c)
  <2>1. /\ conn[c] = "replayed"
        /\ Elements(got'[c]) = Elements(got[c]) \cup Elements(UpToOutcome(history))
        /\ conn'[c] = IF HasOutcome(history) THEN "ended" ELSE "snapshotted"
        /\ \A d \in Connections \ {c} : got'[d] = got[d] /\ conn'[d] = conn[d]
    BY <1>1, <1>2, <1>4, Sources, Yielded DEF Snapshot
  <2>2. conn'[c] = "snapshotted" => Elements(history) \subseteq Elements(got'[c])
    BY <1>1, <2>1, Loops, Sources
  <2>3. UNCHANGED live
    BY <1>4 DEF Snapshot, hub
  <2> QED BY <1>3, <2>1, <2>2, <2>3 DEF GapInv, Open
<1>5. CASE CheckTerminal(c)
  <2>1. /\ conn[c] = "snapshotted" /\ conn'[c] \in {"ended", "live"}
        /\ \A d \in Connections \ {c} : conn'[d] = conn[d]
        /\ UNCHANGED <<live, got>>
    BY <1>1, <1>5 DEF CheckTerminal, TypeOK, hub
  <2> QED BY <1>3, <2>1 DEF GapInv, Open
<1>6. CASE Receive(c)
  <2>1. live # <<>> /\ live' = Tail(live) /\ conn[c] = "live"
    BY <1>6 DEF Receive
  <2>2. /\ <<Head(live)>> \in Seq(Events)
        /\ Elements(<<Head(live)>>) = {Head(live)}
        /\ Elements(live) = {Head(live)} \cup Elements(live')
    BY <1>1, <2>1, Sources
  <2>3. /\ Elements(got'[c]) = Elements(got[c]) \cup Elements(UpToOutcome(<<Head(live)>>))
        /\ conn'[c] = IF HasOutcome(<<Head(live)>>) THEN "ended" ELSE "live"
        /\ \A d \in Connections \ {c} : got'[d] = got[d] /\ conn'[d] = conn[d]
    BY <1>1, <1>2, <1>6, <2>2, Yielded DEF Receive
  <2>4. conn'[c] = "live" => Elements(got'[c]) = Elements(got[c]) \cup {Head(live)}
    BY <2>2, <2>3, Loops
  <2>5. \A d \in Connections \ {c} : conn[d] \in Open => ~alone[d]
    BY <2>1 DEF GapInv, Open
  <2>6. \A a, b \in Connections : a # b /\ conn'[a] \in Open /\ conn'[b] \in Open => ~alone'[a]
    BY <1>3, <2>1, <2>3 DEF GapInv, Open
  <2>7. ASSUME NEW d \in Connections, conn'[d] \in {"snapshotted", "live"}, alone'[d]
        PROVE  Elements(history') \subseteq Elements(got'[d]) \cup Elements(live')
    <3>1. d = c
      BY <1>3, <2>3, <2>5, <2>7 DEF Open
    <3>2. conn'[c] = "live"
      BY <2>3, <2>7, <3>1
    <3>3. Elements(history) \subseteq Elements(got[c]) \cup Elements(live)
      BY <1>3, <2>1, <2>7, <3>1 DEF GapInv
    <3> QED BY <1>3, <2>2, <2>4, <3>1, <3>2, <3>3
  <2> QED BY <2>6, <2>7 DEF GapInv
<1> QED BY <1>4, <1>5, <1>6 DEF StreamStep

\* Connections that close, and stores, change nothing the hub or an open stream has.
LEMMA QuietGapInv ==
  ASSUME GapInv, UNCHANGED <<history, live, got, alone>>,
         \A c \in Connections : conn'[c] = conn[c] \/ conn'[c] = "closed"
  PROVE  GapInv'
  BY DEF GapInv, Open

LEMMA RestartGapInv ==
  ASSUME TypeInv, GapInv, Restart
  PROVE  GapInv'
<1>1. \A c \in Connections : conn'[c] \notin Open
  BY DEF TypeInv, TypeOK, Restart, Open, ConnectionPCs
<1> QED BY <1>1 DEF GapInv, Open

\* A lone stream has no gap where the copy of the history ends and the channel begins.
THEOREM NoGap == Spec => []NoGapWhenAlone
<1>1. ASSUME TypeInv, GapInv, [Next]_vars
      PROVE  GapInv'
  <2>1. ASSUME NEW e \in Events, Persist(e) PROVE GapInv'
    BY <1>1, <2>1, QuietGapInv DEF Persist, hub
  <2>2. ASSUME NEW c \in Connections, Disconnect(c) PROVE GapInv'
    <3>1. \A d \in Connections : conn'[d] = conn[d] \/ conn'[d] = "closed"
      BY <1>1, <2>2 DEF Disconnect, TypeInv, TypeOK
    <3> QED BY <1>1, <2>2, <3>1, QuietGapInv DEF Disconnect, hub
  <2>3. CASE UNCHANGED vars
    BY <1>1, <2>3, QuietGapInv DEF vars
  <2> QED
    BY <1>1, <2>1, <2>2, <2>3, PublishGapInv, ReplayGapInv, StreamGapInv, RestartGapInv DEF Next
<1>2. TypeInv /\ GapInv /\ [Next]_vars => GapInv'
  BY <1>1
<1>3. GapInv => NoGapWhenAlone
  BY DEF GapInv, NoGapWhenAlone
<1> QED BY TypeInvHolds, InitGapInv, <1>2, <1>3, PTL DEF Spec

-----------------------------------------------------------------------------
(* Streams end only on an outcome.                                         *)

\* What the hub and the table hold was published.
AllPublished ==
  /\ isTerminal => \E e \in Outcomes : Published(e)
  /\ \A e \in Elements(stored) \cup Elements(history) \cup Elements(live) : Published(e)

EndInv == AllPublished /\ EndsOnlyOnOutcome

LEMMA InitEndInv == Init => EndInv
  BY DEF Init, EndInv, AllPublished, EndsOnlyOnOutcome, Elements

\* Handlers and restarts keep what the streams were written.
LEMMA QuietEnds ==
  ASSUME EndsOnlyOnOutcome, UNCHANGED got,
         \A e \in Events : Published(e) => Published(e)',
         \A c \in Connections : conn'[c] = "ended" <=> conn[c] = "ended"
  PROVE  EndsOnlyOnOutcome'
  BY EventsAssumption DEF EndsOnlyOnOutcome

LEMMA PublishEndInv ==
  ASSUME TypeInv, EndInv, NEW e \in Events, Publish(e)
  PROVE  EndInv'
<1>1. \A f \in Events : Published(f)' <=> Published(f) \/ f = e
  BY DEF Publish, Published, TypeInv, TypeOK
<1>2. /\ Elements(history') \subseteq Elements(history) \cup {e}
      /\ Elements(live') = Elements(live) \cup {e}
  BY PublishTypeInv
<1>3. UNCHANGED <<stored, conn, got>> /\ isTerminal' = (isTerminal \/ e \in Outcomes)
  BY DEF Publish, MarkTerminal
<1>4. Elements(stored) \cup Elements(history) \cup Elements(live) \subseteq Events
  <2>1. stored \in Seq(Events)
    BY SeqMonotonic, EventsAssumption DEF TypeInv, TypeOK
  <2> QED BY <2>1, ElementsOf DEF TypeInv, TypeOK
<1>5. AllPublished'
  BY <1>1, <1>2, <1>3, <1>4, EventsAssumption DEF EndInv, AllPublished
<1>6. EndsOnlyOnOutcome'
  BY <1>1, <1>3, QuietEnds DEF EndInv
<1> QED BY <1>5, <1>6 DEF EndInv

LEMMA PersistEndInv ==
  ASSUME TypeInv, EndInv, NEW e \in Events, Persist(e)
  PROVE  EndInv'
<1>1. \A f : Published(f)' <=> Published(f)
  <2>1. handler[e] # "idle" /\ handler' = [handler EXCEPT ![e] = "done"]
    BY DEF Persist
  <2> QED BY <2>1 DEF Published, TypeInv, TypeOK
<1>2. Elements(stored') \subseteq Elements(stored) \cup {e} /\ Published(e)
  BY PersistTypeInv DEF Persist, Published
<1>3. UNCHANGED <<history, live, isTerminal, conn, got>>
  BY DEF Persist, hub
<1>4. AllPublished'
  BY <1>1, <1>2, <1>3 DEF EndInv, AllPublished
<1>5. EndsOnlyOnOutcome'
  BY <1>1, <1>3, QuietEnds DEF EndInv
<1> QED BY <1>4, <1>5 DEF EndInv

\* A stream that has not ended is written events that were published.
LEMMA YieldEnds ==
  ASSUME TypeOK, EndsOnlyOnOutcome, UNCHANGED handler,
         NEW c \in Connections, conn[c] # "ended",
         NEW s \in Seq(Events), \A e \in Elements(s) : Published(e),
         NEW next \in ConnectionPCs \ {"ended"}, Yield(c, s, next)
  PROVE  EndsOnlyOnOutcome'
<1> DEFINE u == UpToOutcome(s)
<1>1. /\ got'[c] = got[c] \o u
      /\ conn'[c] = IF HasOutcome(s) THEN "ended" ELSE next
      /\ \A d \in Connections \ {c} : got'[d] = got[d] /\ conn'[d] = conn[d]
  BY Yielded
<1>2. u \in Seq(Events) /\ got[c] \in Seq(Events)
  BY Loops DEF TypeOK
<1>3. \A i \in 1..Len(u) : u[i] \in Outcomes => i = Len(u) /\ HasOutcome(s)
  BY Loops
<1> HIDE DEF u
<1>4. /\ Len(got'[c]) = Len(got[c]) + Len(u)
      /\ DOMAIN got'[c] = 1..Len(got[c]) + Len(u)
      /\ \A i \in 1..Len(got[c]) + Len(u) :
           got'[c][i] = IF i <= Len(got[c]) THEN got[c][i] ELSE u[i - Len(got[c])]
  BY <1>1, <1>2, ConcatProperties, LenProperties
<1>5. Len(got[c]) \in Nat /\ Len(u) \in Nat /\ DOMAIN got[c] = 1..Len(got[c])
  BY <1>2, LenProperties
<1>6. conn'[c] = "ended" => \E e \in Outcomes : Published(e)'
  <2>1. HasOutcome(s) => \E e \in Outcomes : Published(e)
    BY DEF HasOutcome, Elements
  <2> QED BY <1>1, <2>1 DEF Published
<1>7. ASSUME NEW i \in DOMAIN got'[c], got'[c][i] \in Outcomes
      PROVE  i = Len(got'[c]) /\ conn'[c] = "ended"
  <2>1. CASE i <= Len(got[c])
    <3>1. i \in DOMAIN got[c] /\ got[c][i] \in Outcomes
      BY <1>4, <1>5, <1>7, <2>1
    <3> QED BY <3>1 DEF EndsOnlyOnOutcome
  <2>2. CASE i > Len(got[c])
    <3>1. i - Len(got[c]) \in 1..Len(u) /\ u[i - Len(got[c])] \in Outcomes
      BY <1>4, <1>5, <1>7, <2>2
    <3>2. i - Len(got[c]) = Len(u) /\ HasOutcome(s)
      BY <1>3, <3>1
    <3>3. conn'[c] = "ended"
      BY <1>1, <3>2
    <3>4. i \in 1..Len(got[c]) + Len(u)
      BY <1>4, <1>7
    <3>5. i = Len(got[c]) + Len(u)
      BY <1>5, <3>2, <3>4
    <3> QED BY <1>4, <3>3, <3>5
  <2> QED BY <1>4, <1>5, <1>7, <2>1, <2>2
<1>8. ASSUME NEW d \in Connections \ {c}
      PROVE  /\ conn'[d] = "ended" => \E e \in Outcomes : Published(e)'
             /\ \A i \in DOMAIN got'[d] :
                  got'[d][i] \in Outcomes => i = Len(got'[d]) /\ conn'[d] = "ended"
  BY <1>1 DEF EndsOnlyOnOutcome, Published
<1> QED BY <1>6, <1>7, <1>8 DEF EndsOnlyOnOutcome

LEMMA ConnectionEndInv ==
  ASSUME TypeInv, EndInv, NEW c \in Connections, Replay(c) \/ StreamStep(c) \/ Disconnect(c)
  PROVE  EndInv'
<1>1. TypeOK /\ AllPublished /\ EndsOnlyOnOutcome
  BY DEF TypeInv, EndInv
<1>2. UNCHANGED <<handler, stored, history, isTerminal>>
  BY DEF Replay, StreamStep, Snapshot, CheckTerminal, Receive, Disconnect, hub
<1>3. {"replayed", "snapshotted", "live"} \subseteq ConnectionPCs \ {"ended"}
  BY DEF ConnectionPCs, Open
<1>4. AllPublished'
  <2>1. Elements(live') \subseteq Elements(live)
    <3>1. CASE Receive(c)
      BY <1>1, <3>1, Sources DEF Receive
    <3>2. CASE UNCHANGED live
      BY <3>2
    <3> QED BY <3>1, <3>2 DEF Replay, StreamStep, Snapshot, CheckTerminal, Disconnect, hub
  <2> QED BY <1>1, <1>2, <2>1 DEF AllPublished, Published
<1>5. EndsOnlyOnOutcome'
  <2>1. CASE Replay(c)
    <3>1. \A e \in Elements(LoadEvents) : Published(e)
      BY <1>1, Sources DEF AllPublished
    <3> QED BY <1>1, <1>2, <1>3, <2>1, <3>1, Sources, YieldEnds DEF Replay
  <2>2. CASE Snapshot(c)
    <3>1. \A e \in Elements(history) : Published(e)
      BY <1>1 DEF AllPublished
    <3> QED BY <1>1, <1>2, <1>3, <2>2, <3>1, Sources, YieldEnds DEF Snapshot
  <2>3. CASE Receive(c)
    <3>1. live # <<>>
      BY <2>3 DEF Receive
    <3>2. \A e \in Elements(<<Head(live)>>) : Published(e)
      BY <1>1, <3>1, Sources DEF AllPublished
    <3> QED BY <1>1, <1>2, <1>3, <2>3, <3>1, <3>2, Sources, YieldEnds DEF Receive
  <2>4. CASE CheckTerminal(c)
    <3>1. /\ UNCHANGED got /\ conn[c] = "snapshotted"
          /\ conn'[c] = "ended" => isTerminal
          /\ \A d \in Connections \ {c} : conn'[d] = conn[d]
      BY <1>1, <2>4 DEF CheckTerminal, TypeOK
    <3> QED BY <1>1, <1>2, <3>1 DEF EndsOnlyOnOutcome, AllPublished, Published
  <2>5. CASE Disconnect(c)
    <3>1. /\ UNCHANGED got
          /\ \A d \in Connections : conn'[d] = "ended" <=> conn[d] = "ended"
      BY <1>1, <2>5 DEF Disconnect, TypeOK, Open
    <3> QED BY <1>1, <1>2, <3>1, QuietEnds DEF Published
  <2> QED BY <2>1, <2>2, <2>3, <2>4, <2>5 DEF StreamStep
<1> QED BY <1>4, <1>5 DEF EndInv

LEMMA RestartEndInv ==
  ASSUME TypeInv, EndInv, Restart
  PROVE  EndInv'
<1>1. \A e \in Events : Published(e)' <=> Published(e)
  BY DEF Restart, Published, TypeInv, TypeOK
<1>2. Elements(stored) \subseteq Events
  <2>1. stored \in Seq(Events)
    BY SeqMonotonic, EventsAssumption DEF TypeInv, TypeOK
  <2> QED BY <2>1, ElementsOf
<1>3. /\ UNCHANGED <<stored, got>> /\ ~isTerminal'
      /\ Elements(history') = {} /\ Elements(live') = {}
  BY DEF Restart, Elements
<1>4. AllPublished'
  BY <1>1, <1>2, <1>3 DEF EndInv, AllPublished
<1>5. \A c \in Connections : conn'[c] = "ended" <=> conn[c] = "ended"
  BY DEF Restart, Open
<1>6. EndsOnlyOnOutcome'
  BY <1>1, <1>3, <1>5, QuietEnds DEF EndInv
<1> QED BY <1>4, <1>6 DEF EndInv

\* A stream ends on its own only if an outcome was published, and nothing is written to
\* it after one.
THEOREM EndsOnOutcome == Spec => []EndsOnlyOnOutcome
<1>1. TypeInv /\ EndInv /\ UNCHANGED vars => EndInv'
  BY DEF EndInv, AllPublished, EndsOnlyOnOutcome, vars, Published
<1>2. TypeInv /\ EndInv /\ [Next]_vars => EndInv'
  BY <1>1, PublishEndInv, PersistEndInv, ConnectionEndInv, RestartEndInv DEF Next
<1>3. EndInv => EndsOnlyOnOutcome
  BY DEF EndInv
<1> QED BY TypeInvHolds, InitEndInv, <1>2, <1>3, PTL DEF Spec
============================================================================
