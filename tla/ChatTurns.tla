----------------------------- MODULE ChatTurns -----------------------------
(***************************************************************************)
(* The chat endpoints of the web application (app/web.py): a turn of the   *)
(* agent waits for one of a few permits and runs; its events go through a  *)
(* queue to the client, as server-sent events, over a websocket, or not at *)
(* all; the result is recorded in memory and told to the client.  The turn *)
(* and what forwards its events are separate tasks, and clients leave.     *)
(***************************************************************************)
EXTENDS Naturals, Sequences, FiniteSets

CONSTANTS Turns,
          MaxConcurrent, \* METIS_MAX_CONCURRENT
          MaxEvents,     \* bound on the events of a turn
          MaxPings       \* bound on the heartbeats of a stream

ASSUME ChatAssumption ==
    /\ MaxConcurrent \in Nat
    /\ MaxEvents \in Nat
    /\ MaxPings \in Nat

VARIABLES kind,      \* the endpoint a turn came by
          stage,     \* where the task that runs the turn is
          permits,   \* the semaphore's value
          emitted,   \* events the turn put into its queue
          queue,     \* those that nobody took yet
          inHand,    \* what the pump of a websocket took and is sending
          pings,
          connected, \* clients that are there
          sent,      \* what the client was sent
          recorded   \* turns in app.state.sessions

chatVars == <<kind, stage, permits, emitted, queue, inHand, pings, connected, sent, recorded>>

Kinds == {"plain", "sse", "websocket"}

Stages == {"new",       \* not asked for
           "waiting",   \* for a permit
           "running",
           "finished",  \* run_agent_turn gave a result
           "failed",    \* it raised
           "cancelled",
           "closed"}    \* the endpoint is through with it

Final == {"done", "error"}

\* What goes over the wire: the n-th event of the turn, or something else.
Event(n) == <<"event", n>>
Note(what) == <<what, 0>>
Wire == {Event(n) : n \in 1..MaxEvents}
          \cup {Note(what) : what \in {"start", "ping", "results"} \cup Final}

ChatTypeOK ==
    /\ kind \in [Turns -> Kinds]
    /\ stage \in [Turns -> Stages]
    /\ permits \in 0..MaxConcurrent
    /\ emitted \in [Turns -> 0..MaxEvents]
    /\ queue \in [Turns -> Seq(1..MaxEvents)]
    /\ sent \in [Turns -> Seq(Wire)]
    /\ \A t \in Turns :
        /\ Len(queue[t]) <= MaxEvents
        /\ Len(sent[t]) <= MaxEvents + MaxPings + 3
    /\ inHand \in [Turns -> 0..MaxEvents]
    /\ pings \in [Turns -> 0..MaxPings]
    /\ connected \subseteq Turns
    /\ recorded \subseteq Turns

ChatInit ==
    /\ kind \in [Turns -> Kinds]
    /\ stage = [t \in Turns |-> "new"]
    /\ permits = MaxConcurrent
    /\ emitted = [t \in Turns |-> 0]
    /\ queue = [t \in Turns |-> <<>>]
    /\ inHand = [t \in Turns |-> 0]
    /\ pings = [t \in Turns |-> 0]
    /\ connected = Turns
    /\ sent = [t \in Turns |-> <<>>]
    /\ recorded = {}

-----------------------------------------------------------------------------
Goes(t, to) == stage' = [stage EXCEPT ![t] = to]

Send(t, items) == sent' = [sent EXCEPT ![t] = @ \o items]

\* _record_session
KeepResult(t) == recorded' = recorded \cup {t}

TaskDone(t) == stage[t] \in {"finished", "failed", "cancelled"}

\* A request for a turn; the stream of events begins at once.
Asked(t) ==
    /\ kind[t] # "websocket"
    /\ stage[t] = "new"
    /\ Goes(t, "waiting")
    /\ IF kind[t] = "sse" THEN Send(t, <<Note("start")>>) ELSE UNCHANGED sent
    /\ UNCHANGED <<kind, permits, emitted, queue, inHand, pings, connected, recorded>>

\* A websocket reads a message.
SocketAsks(t) ==
    /\ kind[t] = "websocket"
    /\ stage[t] = "new"
    /\ Goes(t, "waiting")
    /\ UNCHANGED <<kind, permits, emitted, queue, inHand, pings, connected, sent, recorded>>

\* A mutant: a turn does not wait for a permit.
BeginsAnyway(t) ==
    /\ stage[t] = "waiting"
    /\ permits' = permits - 1
    /\ Goes(t, "running")
    /\ UNCHANGED <<kind, emitted, queue, inHand, pings, connected, sent, recorded>>

\* async with concurrency_limiter
Begins(t) ==
    /\ stage[t] = "waiting"
    /\ permits > 0
    /\ permits' = permits - 1
    /\ Goes(t, "running")
    /\ UNCHANGED <<kind, emitted, queue, inHand, pings, connected, sent, recorded>>

\* A hook of the turn runs; the plain endpoint registers none.
Emits(t) ==
    /\ stage[t] = "running"
    /\ kind[t] # "plain"
    /\ emitted[t] < MaxEvents
    /\ emitted' = [emitted EXCEPT ![t] = @ + 1]
    /\ queue' = [queue EXCEPT ![t] = Append(@, emitted[t] + 1)]
    /\ UNCHANGED <<kind, stage, permits, inHand, pings, connected, sent, recorded>>

\* run_agent_turn is over and the permit goes back.  Where nothing is awaited
\* afterwards, the result is recorded in the same step.
TurnEnds(t, how) ==
    /\ stage[t] = "running"
    /\ permits' = permits + 1
    /\ Goes(t, how)
    /\ IF how = "finished" /\ kind[t] # "websocket" THEN KeepResult(t) ELSE UNCHANGED recorded
    /\ UNCHANGED <<kind, emitted, queue, inHand, pings, connected, sent>>

\* request_timeout gives up a request that has not begun to answer: it cancels a
\* plain chat, wherever it is.
TimesOut(t) ==
    /\ kind[t] = "plain"
    /\ stage[t] \in {"waiting", "running"}
    /\ permits' = IF stage[t] = "running" THEN permits + 1 ELSE permits
    /\ Goes(t, "cancelled")
    /\ UNCHANGED <<kind, emitted, queue, inHand, pings, connected, sent, recorded>>

Leaves(t) ==
    /\ t \in connected
    /\ stage[t] \notin {"new", "closed"}
    /\ connected' = connected \ {t}
    /\ UNCHANGED <<kind, stage, permits, emitted, queue, inHand, pings, sent, recorded>>

-----------------------------------------------------------------------------
\* Plain: the response, or the error that the middleware makes of the failure.
Responds(t) ==
    /\ kind[t] = "plain"
    /\ TaskDone(t)
    /\ Goes(t, "closed")
    /\ IF t \in connected
       THEN Send(t, <<Note(IF stage[t] = "finished" THEN "done" ELSE "error")>>)
       ELSE UNCHANGED sent
    /\ UNCHANGED <<kind, permits, emitted, queue, inHand, pings, connected, recorded>>

\* Server-sent events: the generator takes the next event while the task runs, and
\* drains the queue when it is done.  When the client leaves, the generator is
\* dropped and the task runs on.
Yields(t) ==
    /\ kind[t] = "sse"
    /\ t \in connected
    /\ stage[t] \in {"waiting", "running"} \/ TaskDone(t)
    /\ queue[t] # <<>>
    /\ Send(t, <<Event(Head(queue[t]))>>)
    /\ queue' = [queue EXCEPT ![t] = Tail(@)]
    /\ UNCHANGED <<kind, stage, permits, emitted, inHand, pings, connected, recorded>>

KeepsAlive(t) ==
    /\ kind[t] = "sse"
    /\ t \in connected
    /\ stage[t] \in {"waiting", "running"}
    /\ queue[t] = <<>>
    /\ pings[t] < MaxPings
    /\ pings' = [pings EXCEPT ![t] = @ + 1]
    /\ Send(t, <<Note("ping")>>)
    /\ UNCHANGED <<kind, stage, permits, emitted, queue, inHand, connected, recorded>>

\* A mutant: the queue is not drained when the task is done.
StreamEndsUndrained(t) ==
    /\ kind[t] = "sse"
    /\ TaskDone(t)
    /\ Goes(t, "closed")
    /\ IF t \in connected
       THEN Send(t, IF stage[t] = "finished" THEN <<Note("results"), Note("done")>>
                    ELSE <<Note("error")>>)
       ELSE UNCHANGED sent
    /\ UNCHANGED <<kind, permits, emitted, queue, inHand, pings, connected, recorded>>

\* The events left in the queue are yielded first, then what the task came to.
StreamEnds(t) ==
    /\ kind[t] = "sse"
    /\ TaskDone(t)
    /\ t \in connected => queue[t] = <<>>
    /\ Goes(t, "closed")
    /\ IF t \in connected
       THEN Send(t, IF stage[t] = "finished" THEN <<Note("results"), Note("done")>>
                    ELSE <<Note("error")>>)
       ELSE UNCHANGED sent
    /\ UNCHANGED <<kind, permits, emitted, queue, inHand, pings, connected, recorded>>

\* Websocket: event_pump takes an event, then sends it; the turn may end between.
PumpTakes(t) ==
    /\ kind[t] = "websocket"
    /\ stage[t] \in {"waiting", "running"}
    /\ inHand[t] = 0
    /\ queue[t] # <<>>
    /\ inHand' = [inHand EXCEPT ![t] = Head(queue[t])]
    /\ queue' = [queue EXCEPT ![t] = Tail(@)]
    /\ UNCHANGED <<kind, stage, permits, emitted, pings, connected, sent, recorded>>

PumpSends(t) ==
    /\ inHand[t] # 0
    /\ t \in connected
    /\ stage[t] \in {"waiting", "running"}
    /\ Send(t, <<Event(inHand[t])>>)
    /\ inHand' = [inHand EXCEPT ![t] = 0]
    /\ UNCHANGED <<kind, stage, permits, emitted, queue, pings, connected, recorded>>

Heartbeat(t) ==
    /\ kind[t] = "websocket"
    /\ t \in connected
    /\ stage[t] \in {"waiting", "running"}
    /\ pings[t] < MaxPings
    /\ pings' = [pings EXCEPT ![t] = @ + 1]
    /\ Send(t, <<Note("ping")>>)
    /\ UNCHANGED <<kind, stage, permits, emitted, queue, inHand, connected, recorded>>

\* The pump is cancelled and awaited: what it has in hand may still go out, what is
\* in the queue does not.  Then the result is recorded and told.  (The message with the
\* errors of the result, which precedes "done", is not told apart from it.)  A turn that
\* raised ends the connection without a word.
SocketEnds(t) ==
    /\ kind[t] = "websocket"
    /\ TaskDone(t)
    /\ Goes(t, "closed")
    /\ IF stage[t] = "finished" THEN KeepResult(t) ELSE UNCHANGED recorded
    /\ \E last \in {<<>>} \cup (IF inHand[t] = 0 THEN {} ELSE {<<Event(inHand[t])>>}) :
        IF t \in connected
        THEN Send(t, last \o (IF stage[t] = "finished" THEN <<Note("done")>> ELSE <<>>))
        ELSE UNCHANGED sent
    /\ inHand' = [inHand EXCEPT ![t] = 0]
    /\ queue' = [queue EXCEPT ![t] = <<>>]
    /\ UNCHANGED <<kind, permits, emitted, pings, connected>>

ChatStep(t) ==
    \/ Asked(t)
    \/ SocketAsks(t)
    \/ Begins(t)
    \/ Emits(t)
    \/ \E how \in {"finished", "failed"} : TurnEnds(t, how)
    \/ TimesOut(t)
    \/ Leaves(t)
    \/ Responds(t)
    \/ Yields(t)
    \/ KeepsAlive(t)
    \/ StreamEnds(t)
    \/ PumpTakes(t)
    \/ PumpSends(t)
    \/ Heartbeat(t)
    \/ SocketEnds(t)

ChatNext == \E t \in Turns : ChatStep(t)

ChatSpec == ChatInit /\ [][ChatNext]_chatVars

-----------------------------------------------------------------------------
\* The places of the events in what was sent, and the sequences that have the events from
\* the first one on, in their order and without a gap.
EventsIn(s) == {n \in DOMAIN s : s[n][1] = "event"}
InOrder(s)  == \A n \in EventsIn(s) : s[n] = Event(Cardinality(EventsIn(s) \cap 1..n))

\* A client is sent the events of its turn in their order and without a gap; when
\* a stream of server-sent events says how the turn ended, it has sent all of them,
\* and nothing follows; and a client that is told "done" finds the turn recorded.
StreamTellsAll ==
    \A t \in Turns :
        /\ InOrder(sent[t])
        /\ \A n \in DOMAIN sent[t] :
              sent[t][n][1] \in Final =>
                 /\ n = Len(sent[t])
                 /\ kind[t] = "sse" => Cardinality(EventsIn(sent[t])) = emitted[t]
                 /\ sent[t][n][1] = "done" => t \in recorded

=============================================================================
