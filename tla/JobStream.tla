----------------------------- MODULE JobStream ------------------------------
(***************************************************************************)
(* The event stream of one job: JobEventHub, the job_events table as       *)
(* JobProgressWriter writes and reads it, and the SSE connections of       *)
(* GET /v1/brownfield-jobs/{id}/events.                                    *)
(*                                                                         *)
(* The handler of a worker event publishes it to the hub, awaits the       *)
(* update of the job row, and stores it.  A connection replays the table,  *)
(* then the hub's history, and then reads the hub's live channel, which    *)
(* all connections of the job share.  Each event is published once, each   *)
(* connection is made once: a client that reconnects is a new one.         *)
(***************************************************************************)
EXTENDS Naturals, Sequences

CONSTANTS
  Events,        \* the events of the run, API events and worker events
  WorkerEvents,  \* those a worker posts: they are stored for replay
  Outcomes,      \* those of type job_completed or job_failed
  Connections,   \* SSE connections
  MaxBuffered,   \* JobEventHub.MaxBufferedEvents (500)
  MaxReplay,     \* rows LoadEventsAsync takes (500)
  MaxRestarts    \* bound: restarts of the API process in one run

ASSUME EventsAssumption ==
  /\ Outcomes \subseteq WorkerEvents
  /\ WorkerEvents \subseteq Events

ASSUME BoundsAssumption ==
  /\ MaxBuffered \in Nat \ {0}
  /\ MaxReplay \in Nat \ {0}
  /\ MaxRestarts \in Nat

VARIABLES
  handler,     \* handler[e]: where the handler that publishes e stands
  stored,      \* rows of job_events, in the order of CreatedAt
  history,     \* JobEventState.History (memory)
  live,        \* JobEventState.Live, an unbounded channel (memory)
  isTerminal,  \* JobEventState.IsTerminal (memory)
  conn,        \* conn[c]: where SubscribeAsync stands for c
  got,         \* history: got[c] is what was written to c, in order
  alone,       \* history: alone[c] until another connection was open beside c
  restarts     \* number of restarts so far

vars == <<handler, stored, history, live, isTerminal, conn, got, alone, restarts>>

hub == <<history, live, isTerminal>>

Published(e) == handler[e] # "idle"

HandlerPCs == {"idle", "published", "done"}

Open == {"replayed", "snapshotted", "live"}

ConnectionPCs == {"off", "ended", "closed"} \cup Open

Elements(s) == {s[i] : i \in DOMAIN s}

-----------------------------------------------------------------------------
(* Publishing.                                                             *)

\* Mutant: the history is never trimmed.
Unbuffered(h) == h

\* RemoveAt(0) once the history is over its bound.
Buffered(h) == IF Len(h) > MaxBuffered THEN Tail(h) ELSE h

\* Mutant: an event is handed to the channel only when somebody is reading it.
WriteToReaders(e) ==
  live' = IF \E c \in Connections : conn[c] = "live" THEN Append(live, e) ELSE live

\* Live.Writer.TryWrite, which an unbounded channel never refuses.
WriteLive(e) == live' = Append(live, e)

\* Mutant: the terminal flag is left to whoever updates the job row.
MarkNothing(e) == UNCHANGED isTerminal

MarkTerminal(e) == isTerminal' = (isTerminal \/ e \in Outcomes)

\* JobEventHub.Publish: history, terminal flag and channel under one lock.  The
\* events the API itself publishes are never stored.
Publish(e) ==
  /\ handler[e] = "idle"
  /\ handler' = [handler EXCEPT ![e] = IF e \in WorkerEvents THEN "published" ELSE "done"]
  /\ history' = Buffered(Append(history, e))
  /\ MarkTerminal(e)
  /\ WriteLive(e)
  /\ UNCHANGED <<stored, conn, got, alone, restarts>>

\* The row is updated and the event stored, or one of the two saves throws.
Persist(e) ==
  /\ handler[e] = "published"
  /\ handler' = [handler EXCEPT ![e] = "done"]
  /\ stored' \in {stored, Append(stored, e)}
  /\ UNCHANGED <<hub, conn, got, alone, restarts>>

-----------------------------------------------------------------------------
(* SubscribeAsync.                                                         *)

HasOutcome(s) == \E i \in DOMAIN s : s[i] \in Outcomes

\* Mutant: the loop goes on after an outcome.
UpToTheEnd(s) == s

\* A loop over s stops after the first outcome.
UpToOutcome(s) ==
  IF HasOutcome(s)
  THEN SubSeq(s, 1, CHOOSE i \in DOMAIN s :
                      s[i] \in Outcomes /\ \A k \in 1..(i-1) : s[k] \notin Outcomes)
  ELSE s

\* LoadEventsAsync: the oldest MaxReplay rows.
LoadEvents == SubSeq(stored, 1, IF Len(stored) < MaxReplay THEN Len(stored) ELSE MaxReplay)

\* c is written the events of s (the stored copy of an event and the hub's differ in
\* their timestamps, so the seen set drops nothing), and goes on at next unless an
\* outcome ended it.
Yield(c, s, next) ==
  /\ got' = [got EXCEPT ![c] = @ \o UpToOutcome(s)]
  /\ conn' = [conn EXCEPT ![c] = IF HasOutcome(s) THEN "ended" ELSE next]

\* The client connects and the table is replayed to it.
Replay(c) ==
  /\ conn[c] = "off"
  /\ Yield(c, LoadEvents, "replayed")
  /\ LET others == {d \in Connections : conn[d] \in Open}
     IN alone' = [d \in Connections |->
                    alone[d] /\ ~(\/ d \in others
                                  \/ d = c /\ others # {})]
  /\ UNCHANGED <<handler, stored, hub, restarts>>

Snapshot(c) ==
  /\ conn[c] = "replayed"
  /\ Yield(c, history, "snapshotted")
  /\ UNCHANGED <<handler, stored, hub, alone, restarts>>

\* Outside the lock: a stream whose job has ended is over.
CheckTerminal(c) ==
  /\ conn[c] = "snapshotted"
  /\ conn' = [conn EXCEPT ![c] = IF isTerminal THEN "ended" ELSE "live"]
  /\ UNCHANGED <<handler, stored, hub, got, alone, restarts>>

\* ReadAllAsync takes an event off the channel.
Receive(c) ==
  /\ conn[c] = "live"
  /\ live # <<>>
  /\ Yield(c, <<Head(live)>>, "live")
  /\ live' = Tail(live)
  /\ UNCHANGED <<handler, stored, history, isTerminal, alone, restarts>>

\* The client goes away, or the request is aborted.
Disconnect(c) ==
  /\ conn[c] \in Open
  /\ conn' = [conn EXCEPT ![c] = "closed"]
  /\ UNCHANGED <<handler, stored, hub, got, alone, restarts>>

-----------------------------------------------------------------------------
\* The API process dies and comes back: hub, handlers and connections are gone.
Restart ==
  /\ restarts < MaxRestarts
  /\ restarts' = restarts + 1
  /\ handler' = [e \in Events |-> IF handler[e] = "idle" THEN "idle" ELSE "done"]
  /\ conn' = [c \in Connections |-> IF conn[c] \in Open THEN "closed" ELSE conn[c]]
  /\ history' = <<>>
  /\ live' = <<>>
  /\ isTerminal' = FALSE
  /\ UNCHANGED <<stored, got, alone>>

Init ==
  /\ handler = [e \in Events |-> "idle"]
  /\ stored = <<>>
  /\ history = <<>>
  /\ live = <<>>
  /\ isTerminal = FALSE
  /\ conn = [c \in Connections |-> "off"]
  /\ got = [c \in Connections |-> <<>>]
  /\ alone = [c \in Connections |-> TRUE]
  /\ restarts = 0

StreamStep(c) == Snapshot(c) \/ CheckTerminal(c) \/ Receive(c)

Next ==
  \/ \E e \in Events : Publish(e) \/ Persist(e)
  \/ \E c \in Connections : Replay(c) \/ StreamStep(c) \/ Disconnect(c)
  \/ Restart

Spec == Init /\ [][Next]_vars

\* A connection that is open is served: its awaits complete.  Nobody has to
\* connect, to publish or to disconnect.
FairSpec == Spec /\ \A c \in Connections : WF_vars(StreamStep(c))

-----------------------------------------------------------------------------
(* Properties.                                                             *)

\* Types of all variables; the history never outgrows its buffer.
TypeOK ==
  /\ handler \in [Events -> HandlerPCs]
  /\ stored \in Seq(WorkerEvents)
  /\ history \in Seq(Events) /\ Len(history) <= MaxBuffered
  /\ live \in Seq(Events)
  /\ isTerminal \in BOOLEAN
  /\ conn \in [Connections -> ConnectionPCs]
  /\ got \in [Connections -> Seq(Events)]
  /\ alone \in [Connections -> BOOLEAN]
  /\ restarts \in 0..MaxRestarts

\* A stream that had the hub to itself has no gap where its snapshot ends and the
\* live channel begins: what the hub remembers was written to it, or is waiting.
NoGapWhenAlone ==
  \A c \in Connections :
    conn[c] = "live" /\ alone[c] =>
      Elements(history) \subseteq Elements(got[c]) \cup Elements(live)

\* A stream ends on its own only because an outcome of the job was published, and
\* nothing is written to it after an outcome.
EndsOnlyOnOutcome ==
  \A c \in Connections :
    /\ conn[c] = "ended" => \E e \in Outcomes : Published(e)
    /\ \A i \in DOMAIN got[c] : got[c][i] \in Outcomes => i = Len(got[c]) /\ conn[c] = "ended"

\* Once this process has published an outcome, or a restart has left it among the rows
\* that are replayed, a stream that has the hub to itself ends: also when the event has
\* left the history and another client has taken it off the channel.
OutcomeEndsStream ==
  \A c \in Connections :
    (/\ \/ restarts = 0 /\ \E e \in Outcomes : Published(e)
        \/ HasOutcome(LoadEvents)
     /\ conn[c] \in Open)
      ~> (conn[c] \notin Open \/ ~alone[c])

\* What pub/sub promises: an outcome published while streams are open ends each of
\* them, not only one.
OutcomeEndsEveryStream ==
  \A c \in Connections : (isTerminal /\ conn[c] \in Open) ~> conn[c] \notin Open
============================================================================
