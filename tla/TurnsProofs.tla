------------------------------ MODULE TurnsProofs ------------------------------
(***************************************************************************)
(* TLAPS proofs about what surrounds the turns of a run: ChatTurns,        *)
(* ProviderCalls, ContextFit and JudgedRuns, for any number of turns,      *)
(* calls, tasks and runs, any replies and any limits.                      *)
(*   Induction: the least element of a set of numbers (LeastNat) comes     *)
(* from the well-foundedness of inclusion among finite sets; from it come  *)
(* induction up to a number (Induction) and the count along a sequence     *)
(* (Counting) that the recursion of _contains_order computes.              *)
(*   Chat turns: the events sent, the one in hand and those in the queue   *)
(* are the events emitted (Owed), and a final word comes when none is left *)
(* (Told).                                                                 *)
(*   Judged runs: what a run was given and what it reported stay where the *)
(* judgement looks for them (LedgerShown, FinalBacked), and a run passes   *)
(* only with the results of its calls (Earned).                            *)
(*   Provider calls: of the pieces that came, each kind is put together in *)
(* order and in full (Gathered), so arguments that parse are those of      *)
(* their own call (StreamAsSent).                                          *)
(*   Contexts: items are picked at places that are numbered in their order *)
(* (NthFound, NthOnly); characters are a sum along these (Sums), so those  *)
(* of the parts add up (CharsConcat, CharsSplit); room is given away from  *)
(* turn to turn (LeavesRoom), and what is taken is what is no longer left  *)
(* (GivenChars); each step of the compressor makes of a conversation that  *)
(* has its layers, its order and its newest message (Source) one that also *)
(* has the length (FitToSend).                                             *)
(***************************************************************************)
EXTENDS ChatTurns, JudgedRuns, ProviderCalls, ContextFit, FiniteSetTheorems, SequenceTheorems,
        WellFoundedInduction, TLAPS

-----------------------------------------------------------------------------
(* Induction.                                                              *)

\* A set of natural numbers has a least one: the intervals below its elements are finite
\* sets, and inclusion is well-founded on these.
LEMMA LeastNat ==
    ASSUME NEW T \in SUBSET Nat, T # {}
    PROVE  \E x \in T : \A y \in T : x <= y
<1> DEFINE U == {0..(n - 1) : n \in T}
<1>1. IsWellFoundedOn(StrictSubsetOrdering(Nat), FiniteSubsetsOf(Nat))
  BY FS_StrictSubsetOrderingWellFounded
<1>2. U \subseteq FiniteSubsetsOf(Nat) /\ U # {}
  <2>1. ASSUME NEW n \in T PROVE IsFiniteSet(0..(n - 1)) /\ 0..(n - 1) \subseteq Nat
    <3>1. 0 \in Int /\ n - 1 \in Int
      OBVIOUS
    <3>2. IsFiniteSet(0..(n - 1))
      BY <3>1, FS_Interval
    <3> QED
      BY <3>2
  <2>2. U # {}
    OBVIOUS
  <2> QED
    BY <2>1, <2>2 DEF FiniteSubsetsOf
<1>3. PICK u \in U : \A v \in U : ~ (<<v, u>> \in StrictSubsetOrdering(Nat))
  <2> HIDE DEF U
  <2> QED
    BY <1>1, <1>2, WFMin
<1>4. PICK x \in T : u = 0..(x - 1)
  OBVIOUS
<1>5. ASSUME NEW y \in T, y < x PROVE FALSE
  <2>1. 0..(y - 1) \subseteq 0..(x - 1) /\ 0..(y - 1) # 0..(x - 1) /\ 0..(x - 1) \subseteq Nat
    <3>1. y \in 0..(x - 1) /\ y \notin 0..(y - 1)
      BY <1>5
    <3> QED
      BY <1>5, <3>1
  <2>2. 0..(y - 1) \in U
    OBVIOUS
  <2>3. ~(<<0..(y - 1), u>> \in StrictSubsetOrdering(Nat))
    BY <1>3, <2>2
  <2> QED
    BY <1>4, <2>1, <2>3 DEF StrictSubsetOrdering
<1> QED
  BY <1>5

\* Induction up to n, on the set of the numbers for which something holds.
LEMMA Induction ==
    ASSUME NEW n \in Nat, NEW T, 0 \in T, \A k \in 1..n : k - 1 \in T => k \in T
    PROVE  0..n \subseteq T
<1> SUFFICES ASSUME NEW j \in 0..n, j \notin T PROVE FALSE
  OBVIOUS
<1> DEFINE U == {k \in 0..n : k \notin T}
<1>1. U \in SUBSET Nat /\ U # {}
  OBVIOUS
<1>2. PICK k \in U : \A y \in U : k <= y
  BY <1>1, LeastNat
<1>3. k \in 1..n /\ k - 1 \in 0..n /\ k - 1 < k
  OBVIOUS
<1>4. k - 1 \notin U
  BY <1>2, <1>3
<1> QED
  BY <1>3, <1>4

\* What is made along n places, each time from what there was before.
Iterates(f, s0, n, g) == f[0] = s0 /\ \A i \in 1..n : f[i] = g[i][f[i - 1]]

\* It exists.
LEMMA Iterating ==
    ASSUME NEW S, NEW s0 \in S, NEW n \in Nat, NEW g \in [1..n -> [S -> S]]
    PROVE  \E f \in [0..n -> S] : Iterates(f, s0, n, g)
<1> DEFINE Good(k) == \E f \in [0..k -> S] : f[0] = s0 /\ \A i \in 1..k : f[i] = g[i][f[i - 1]]
           T == {k \in 0..n : Good(k)}
<1>1. 0 \in T
  <2> DEFINE h == [i \in 0..0 |-> s0]
  <2>1. h \in [0..0 -> S] /\ h[0] = s0 /\ \A i \in 1..0 : FALSE
    OBVIOUS
  <2> HIDE DEF h
  <2>2. Good(0)
    BY <2>1
  <2> QED
    BY <2>2
<1>2. ASSUME NEW k \in 1..n, k - 1 \in T PROVE k \in T
  <2>1. PICK f \in [0..(k - 1) -> S] : f[0] = s0 /\ \A i \in 1..(k - 1) : f[i] = g[i][f[i - 1]]
    BY <1>2
  <2> DEFINE h == [i \in 0..k |-> IF i = k THEN g[k][f[k - 1]] ELSE f[i]]
  <2>2. h \in [0..k -> S]
    <3>1. k - 1 \in 0..(k - 1) /\ f[k - 1] \in S /\ g[k] \in [S -> S]
      OBVIOUS
    <3>2. g[k][f[k - 1]] \in S
      BY <3>1
    <3> QED
      BY <3>2
  <2>3. h[0] = s0
    BY <2>1
  <2>4. ASSUME NEW i \in 1..k PROVE h[i] = g[i][h[i - 1]]
    <3>1. i - 1 \in 0..k /\ i - 1 # k /\ h[i - 1] = f[i - 1]
      OBVIOUS
    <3>2. CASE i = k
      BY <3>1, <3>2
    <3>3. CASE i # k
      <4>1. i \in 1..(k - 1) /\ h[i] = f[i]
        BY <3>3
      <4>2. f[i] = g[i][f[i - 1]]
        BY <2>1, <4>1
      <4> QED
        BY <3>1, <4>1, <4>2
    <3> QED
      BY <3>2, <3>3
  <2> HIDE DEF h
  <2>5. Good(k)
    BY <2>2, <2>3, <2>4
  <2> HIDE DEF Good
  <2> QED
    BY <2>5
<1>3. 0..n \subseteq T
  <2> HIDE DEF T
  <2> QED
    BY <1>1, <1>2, Induction
<1>4. Good(n)
  <2> HIDE DEF Good
  <2> QED
    BY <1>3
<1> QED
  BY <1>4 DEF Iterates

\* A count up to m that is kept along n places, each time from the one before, exists.
LEMMA Counting ==
    ASSUME NEW m \in Nat, NEW n \in Nat, NEW g \in [1..n -> [0..m -> 0..m]]
    PROVE  \E f \in [0..n -> 0..m] : f[0] = 0 /\ \A i \in 1..n : f[i] = g[i][f[i - 1]]
<1>1. 0 \in 0..m
  OBVIOUS
<1>2. \E f \in [0..n -> 0..m] : Iterates(f, 0, n, g)
  BY <1>1, Iterating
<1> QED
  BY <1>2 DEF Iterates

\* A sum along n places exists.
LEMMA Summing ==
    ASSUME NEW n \in Nat, NEW w \in [1..n -> Nat]
    PROVE  \E f \in [0..n -> Nat] : f[0] = 0 /\ \A i \in 1..n : f[i] = f[i - 1] + w[i]
<1> DEFINE g == [i \in 1..n |-> [x \in Nat |-> x + w[i]]]
<1>1. g \in [1..n -> [Nat -> Nat]]
  OBVIOUS
<1>2. \E f \in [0..n -> Nat] : Iterates(f, 0, n, g)
  <2> HIDE DEF g
  <2> QED
    BY <1>1, Iterating
<1>3. PICK f \in [0..n -> Nat] : Iterates(f, 0, n, g)
  BY <1>2
<1>4. ASSUME NEW i \in 1..n PROVE f[i] = f[i - 1] + w[i]
  <2>1. f[i] = g[i][f[i - 1]]
    BY <1>3 DEF Iterates
  <2>2. f[i - 1] \in Nat
    OBVIOUS
  <2> QED
    BY <2>1, <2>2
<1>5. f[0] = 0
  BY <1>3 DEF Iterates
<1> QED
  BY <1>4, <1>5

-----------------------------------------------------------------------------
(* Chat turns: what is sent.                                               *)

\* Events are known by their mark, and notes are no events.
LEMMA WireKnown ==
    /\ \A n \in 1..MaxEvents : Event(n) \in Wire /\ Event(n)[1] = "event" /\ Event(n)[1] \notin Final
    /\ \A w \in {"start", "ping", "results"} \cup Final :
         Note(w) \in Wire /\ Note(w)[1] = w /\ w # "event"
BY DEF Wire, Event, Note, Final

\* The events of a sequence can be counted.
LEMMA EventsFinite ==
    ASSUME NEW s \in Seq(Wire)
    PROVE  /\ EventsIn(s) \subseteq 1..Len(s)
           /\ IsFiniteSet(EventsIn(s)) /\ Cardinality(EventsIn(s)) \in Nat
           /\ EventsIn(s) \cap 1..Len(s) = EventsIn(s)
<1>1. EventsIn(s) \subseteq 1..Len(s)
  BY DEF EventsIn
<1>2. IsFiniteSet(1..Len(s))
  BY FS_Interval
<1> QED
  BY <1>1, <1>2, FS_Subset, FS_CardinalityType

\* One more item at the end.
LEMMA SentOne ==
    ASSUME NEW s \in Seq(Wire), NEW x \in Wire
    PROVE  /\ s \o <<x>> \in Seq(Wire)
           /\ Len(s \o <<x>>) = Len(s) + 1
           /\ (s \o <<x>>)[Len(s) + 1] = x
           /\ \A n \in 1..Len(s) : (s \o <<x>>)[n] = s[n]
BY ConcatProperties, <<x>> \in Seq(Wire), Len(<<x>>) = 1

\* A note changes neither the events nor their order.
LEMMA NoteSent ==
    ASSUME NEW s \in Seq(Wire), InOrder(s), NEW x \in Wire, x[1] # "event"
    PROVE  /\ EventsIn(s \o <<x>>) = EventsIn(s)
           /\ InOrder(s \o <<x>>)
<1> DEFINE r == s \o <<x>>
<1>1. /\ r \in Seq(Wire) /\ Len(r) = Len(s) + 1 /\ r[Len(s) + 1] = x
      /\ \A n \in 1..Len(s) : r[n] = s[n]
  BY SentOne
<1> HIDE DEF r
<1>2. EventsIn(r) = EventsIn(s)
  BY <1>1 DEF EventsIn
<1>3. \A n \in EventsIn(s) : r[n] = s[n]
  BY <1>1, EventsFinite
<1>4. InOrder(r)
  BY <1>2, <1>3 DEF InOrder
<1> QED
  BY <1>2, <1>4 DEF r

\* The next event is the one after those that were sent.
LEMMA EventSent ==
    ASSUME NEW s \in Seq(Wire), InOrder(s), Event(Cardinality(EventsIn(s)) + 1) \in Wire
    PROVE  LET r == s \o <<Event(Cardinality(EventsIn(s)) + 1)>> IN
           /\ Cardinality(EventsIn(r)) = Cardinality(EventsIn(s)) + 1
           /\ InOrder(r)
<1> DEFINE k == Cardinality(EventsIn(s)) + 1
           r == s \o <<Event(k)>>
           m == Len(s) + 1
<1>1. /\ r \in Seq(Wire) /\ Len(r) = m /\ r[m] = Event(k)
      /\ \A n \in 1..Len(s) : r[n] = s[n]
  BY SentOne
<1>2. EventsIn(s) \subseteq 1..Len(s) /\ IsFiniteSet(EventsIn(s)) /\ Len(s) \in Nat
  BY EventsFinite
<1>3. Event(k)[1] = "event"
  BY DEF Event
<1> HIDE DEF r, k
<1>4. EventsIn(r) = EventsIn(s) \cup {m}
  BY <1>1, <1>3 DEF EventsIn
<1>5. m \notin EventsIn(s)
  BY <1>2
<1>6. Cardinality(EventsIn(r)) = k
  BY <1>2, <1>4, <1>5, FS_AddElement DEF k
<1>7. ASSUME NEW n \in EventsIn(r)
      PROVE  r[n] = Event(Cardinality(EventsIn(r) \cap 1..n))
  <2>1. CASE n = m
    <3>1. EventsIn(r) \cap 1..n = EventsIn(r)
      BY <1>2, <1>4, <2>1
    <3> QED
      BY <1>1, <1>6, <2>1, <3>1
  <2>2. CASE n # m
    <3>1. n \in EventsIn(s) /\ n \in 1..Len(s)
      BY <1>2, <1>4, <1>7, <2>2
    <3>2. EventsIn(r) \cap 1..n = EventsIn(s) \cap 1..n
      BY <1>2, <1>4, <3>1
    <3> QED
      BY <1>1, <3>1, <3>2 DEF InOrder
  <2> QED
    BY <2>1, <2>2
<1>8. InOrder(r)
  BY <1>7 DEF InOrder
<1> QED
  BY <1>6, <1>8 DEF k, r

\* The events of a turn that its client was sent.
Number(t) == Cardinality(EventsIn(sent[t]))

ChatShape ==
    /\ kind \in [Turns -> Kinds]
    /\ stage \in [Turns -> Stages]
    /\ emitted \in [Turns -> 0..MaxEvents]
    /\ queue \in [Turns -> Seq(1..MaxEvents)]
    /\ inHand \in [Turns -> 0..MaxEvents]
    /\ pings \in [Turns -> 0..MaxPings]
    /\ connected \subseteq Turns
    /\ sent \in [Turns -> Seq(Wire)]
    /\ recorded \subseteq Turns

\* The queue ends with the newest event and has no gap.
QueueRuns(t) ==
    /\ Len(queue[t]) <= emitted[t]
    /\ \A n \in DOMAIN queue[t] : queue[t][n] = emitted[t] - Len(queue[t]) + n

\* Nothing got lost between the turn and the client: the events sent, the one in hand and
\* those in the queue are the events emitted.
Owed(t) ==
    /\ Number(t) + (IF inHand[t] = 0 THEN 0 ELSE 1) + Len(queue[t]) = emitted[t]
    /\ inHand[t] # 0 => inHand[t] = Number(t) + 1

\* Somebody forwards the events of the turn.
Served(t) == stage[t] # "closed" /\ (kind[t] = "sse" => t \in connected)

\* What was sent, and what it says of how the turn ended.
Told(t) ==
    /\ InOrder(sent[t])
    /\ Number(t) <= emitted[t]
    /\ Len(sent[t]) <= Number(t) + pings[t] + (IF stage[t] = "new" THEN 0 ELSE 1)
                         + (IF stage[t] = "closed" THEN 2 ELSE 0)
    /\ \A n \in DOMAIN sent[t] :
          sent[t][n][1] \in Final =>
             /\ stage[t] = "closed"
             /\ n = Len(sent[t])
             /\ kind[t] = "sse" => Number(t) = emitted[t]
             /\ sent[t][n][1] = "done" => t \in recorded

TurnInv(t) ==
    /\ QueueRuns(t)
    /\ Served(t) => Owed(t)
    /\ kind[t] # "websocket" => inHand[t] = 0
    /\ stage[t] = "finished" /\ kind[t] # "websocket" => t \in recorded
    /\ Told(t)

\* A permit is held by each turn that runs.
PermitsCounted ==
    /\ permits \in Nat
    /\ IsFiniteSet({t \in Turns : stage[t] = "running"})
    /\ permits + Cardinality({t \in Turns : stage[t] = "running"}) = MaxConcurrent

ChatInv ==
    /\ ChatShape
    /\ PermitsCounted
    /\ \A t \in Turns : TurnInv(t)

\* The state of a turn stays as it is.
Untouched(u) ==
    /\ kind'[u] = kind[u] /\ stage'[u] = stage[u] /\ emitted'[u] = emitted[u]
    /\ queue'[u] = queue[u] /\ inHand'[u] = inHand[u] /\ pings'[u] = pings[u]
    /\ sent'[u] = sent[u]
    /\ u \in connected' <=> u \in connected
    /\ u \in recorded' <=> u \in recorded

LEMMA UntouchedKeeps ==
    ASSUME NEW u \in Turns, TurnInv(u), Untouched(u)
    PROVE  TurnInv(u)'
BY DEF TurnInv, Untouched, QueueRuns, Served, Owed, Told, Number

\* A turn's step is its own.
LEMMA OthersUntouched ==
    ASSUME ChatShape, NEW t \in Turns, ChatStep(t), NEW u \in Turns \ {t}
    PROVE  Untouched(u)
<1> USE DEF ChatShape, Untouched, Goes, Send
<1>1. CASE Asked(t) \/ SocketAsks(t)
  BY <1>1 DEF Asked, SocketAsks
<1>2. CASE Begins(t) \/ Emits(t)
  BY <1>2 DEF Begins, Emits
<1>3. ASSUME NEW how, TurnEnds(t, how) PROVE Untouched(u)
  BY <1>3 DEF TurnEnds, KeepResult
<1>4. CASE TimesOut(t) \/ Leaves(t)
  BY <1>4 DEF TimesOut, Leaves
<1>5. CASE Responds(t) \/ Yields(t)
  BY <1>5 DEF Responds, Yields
<1>6. CASE KeepsAlive(t) \/ StreamEnds(t)
  BY <1>6 DEF KeepsAlive, StreamEnds
<1>7. CASE PumpTakes(t) \/ PumpSends(t) \/ Heartbeat(t)
  BY <1>7 DEF PumpTakes, PumpSends, Heartbeat
<1>8. CASE SocketEnds(t)
  BY <1>8 DEF SocketEnds, KeepResult
<1> QED
  BY <1>1, <1>2, <1>3, <1>4, <1>5, <1>6, <1>7, <1>8 DEF ChatStep

\* Turns that take and give back permits.
LEMMA PermitsStep ==
    ASSUME ChatShape, PermitsCounted, NEW t \in Turns, ChatStep(t)
    PROVE  PermitsCounted'
<1> DEFINE R == {u \in Turns : stage[u] = "running"}
<1>1. IsFiniteSet(R) /\ Cardinality(R) \in Nat /\ permits \in Nat
  BY FS_CardinalityType DEF PermitsCounted
<1>2. permits + Cardinality(R) = MaxConcurrent
  BY DEF PermitsCounted
<1>3. CASE Begins(t)
  <2>1. R' = R \cup {t} /\ t \notin R
    BY <1>3 DEF Begins, Goes, ChatShape
  <2>2. IsFiniteSet(R') /\ Cardinality(R') = Cardinality(R) + 1
    BY <1>1, <2>1, FS_AddElement
  <2>3. permits' = permits - 1 /\ permits > 0
    BY <1>3 DEF Begins
  <2> HIDE DEF R
  <2>4. permits' \in Nat /\ permits' + Cardinality(R') = MaxConcurrent
    BY <1>1, <1>2, <2>2, <2>3, ChatAssumption
  <2> QED
    BY <2>2, <2>4 DEF PermitsCounted, R
<1>4. CASE stage[t] = "running" /\ permits' = permits + 1 /\ \E to \in Stages \ {"running"} : Goes(t, to)
  <2>1. R' = R \ {t} /\ t \in R
    BY <1>4 DEF Goes, ChatShape
  <2>2. IsFiniteSet(R') /\ Cardinality(R') = Cardinality(R) - 1
    BY <1>1, <2>1, FS_RemoveElement
  <2> HIDE DEF R
  <2>3. permits' \in Nat /\ permits' + Cardinality(R') = MaxConcurrent
    BY <1>1, <1>2, <1>4, <2>2, ChatAssumption, FS_CardinalityType
  <2> QED
    BY <2>2, <2>3 DEF PermitsCounted, R
<1>5. CASE permits' = permits
             /\ (stage' = stage \/ (stage[t] # "running" /\ \E to \in Stages \ {"running"} : Goes(t, to)))
  <2>1. R' = R
    BY <1>5 DEF Goes, ChatShape
  <2> QED
    BY <1>5, <2>1 DEF PermitsCounted
<1>6. CASE Asked(t) \/ SocketAsks(t) \/ Emits(t) \/ Leaves(t) \/ Yields(t) \/ KeepsAlive(t)
  <2>1. permits' = permits /\ (stage' = stage \/ (stage[t] # "running" /\ Goes(t, "waiting")))
    BY <1>6 DEF Asked, SocketAsks, Emits, Leaves, Yields, KeepsAlive
  <2> QED
    BY <1>5, <2>1 DEF Stages
<1>7. CASE Responds(t) \/ StreamEnds(t) \/ SocketEnds(t)
  <2>1. permits' = permits /\ stage[t] # "running" /\ Goes(t, "closed")
    BY <1>7 DEF Responds, StreamEnds, SocketEnds, TaskDone
  <2> QED
    BY <1>5, <2>1 DEF Stages
<1>8. CASE PumpTakes(t) \/ PumpSends(t) \/ Heartbeat(t)
  BY <1>5, <1>8 DEF PumpTakes, PumpSends, Heartbeat
<1>9. CASE TimesOut(t)
  BY <1>4, <1>5, <1>9 DEF TimesOut, Stages
<1>10. CASE \E how \in {"finished", "failed"} : TurnEnds(t, how)
  BY <1>4, <1>10 DEF TurnEnds, Stages
<1> QED
  BY <1>3, <1>6, <1>7, <1>8, <1>9, <1>10 DEF ChatStep

\* What it takes to send an item: the sequence stays one of items, in order.
LEMMA NoteOut ==
    ASSUME ChatShape, NEW t \in Turns, InOrder(sent[t]),
           NEW what \in {"start", "ping", "results"} \cup Final, Send(t, <<Note(what)>>)
    PROVE  /\ sent' \in [Turns -> Seq(Wire)]
           /\ InOrder(sent'[t]) /\ Number(t)' = Number(t)
           /\ Len(sent'[t]) = Len(sent[t]) + 1
           /\ sent'[t][Len(sent[t]) + 1] = Note(what)
           /\ \A n \in 1..Len(sent[t]) : sent'[t][n] = sent[t][n]
<1>1. sent[t] \in Seq(Wire) /\ Note(what) \in Wire /\ Note(what)[1] # "event"
  BY WireKnown DEF ChatShape
<1>2. sent'[t] = sent[t] \o <<Note(what)>>
  BY DEF Send, ChatShape
<1>3. sent' \in [Turns -> Seq(Wire)]
  BY <1>1, SentOne DEF Send, ChatShape
<1> QED
  BY <1>1, <1>2, <1>3, SentOne, NoteSent DEF Number

LEMMA EventOut ==
    ASSUME ChatShape, NEW t \in Turns, InOrder(sent[t]),
           NEW i \in 1..MaxEvents, i = Number(t) + 1, Send(t, <<Event(i)>>)
    PROVE  /\ sent' \in [Turns -> Seq(Wire)]
           /\ InOrder(sent'[t]) /\ Number(t)' = Number(t) + 1
           /\ Len(sent'[t]) = Len(sent[t]) + 1
           /\ sent'[t][Len(sent[t]) + 1] = Event(i)
           /\ \A n \in 1..Len(sent[t]) : sent'[t][n] = sent[t][n]
<1>1. sent[t] \in Seq(Wire) /\ Event(i) \in Wire
  BY WireKnown DEF ChatShape
<1>2. sent'[t] = sent[t] \o <<Event(i)>>
  BY DEF Send, ChatShape
<1>3. sent' \in [Turns -> Seq(Wire)]
  BY <1>1, SentOne DEF Send, ChatShape
<1> QED
  BY <1>1, <1>2, <1>3, SentOne, EventSent DEF Number

\* Numbers are numbers.
LEMMA Counted ==
    ASSUME ChatShape, NEW t \in Turns
    PROVE  Number(t) \in Nat /\ Len(sent[t]) \in Nat /\ DOMAIN sent[t] = 1..Len(sent[t])
BY EventsFinite DEF ChatShape, Number

\* A queue that runs up to event e loses its head, or gets the next event.
LEMMA QueueTail ==
    ASSUME NEW q \in Seq(1..MaxEvents), q # <<>>, NEW e \in Nat, Len(q) <= e,
           \A n \in DOMAIN q : q[n] = e - Len(q) + n
    PROVE  /\ Tail(q) \in Seq(1..MaxEvents) /\ Len(Tail(q)) = Len(q) - 1
           /\ Len(q) \in Nat \ {0}
           /\ Head(q) = e - Len(q) + 1 /\ Head(q) \in 1..MaxEvents
           /\ Len(Tail(q)) <= e
           /\ \A n \in DOMAIN Tail(q) : Tail(q)[n] = e - Len(Tail(q)) + n
<1>1. /\ Tail(q) \in Seq(1..MaxEvents) /\ Len(Tail(q)) = Len(q) - 1
      /\ Head(q) = q[1] /\ Len(q) \in Nat \ {0} /\ DOMAIN q = 1..Len(q) /\ q[1] \in 1..MaxEvents
      /\ DOMAIN Tail(q) = 1..(Len(q) - 1)
      /\ \A n \in 1..(Len(q) - 1) : Tail(q)[n] = q[n + 1]
  <2>1. Len(q) \in Nat \ {0} /\ DOMAIN q = 1..Len(q) /\ q[1] \in 1..MaxEvents /\ Head(q) = q[1]
    <3>1. Len(q) \in Nat \ {0} /\ DOMAIN q = 1..Len(q) /\ q \in [1..Len(q) -> 1..MaxEvents]
      BY EmptySeq, LenProperties
    <3>2. Head(q) = q[1]
      OBVIOUS
    <3> QED
      BY <3>1, <3>2
  <2>2. /\ Tail(q) \in Seq(1..MaxEvents) /\ Len(Tail(q)) = Len(q) - 1
        /\ \A n \in 1..Len(Tail(q)) : Tail(q)[n] = q[n + 1]
    BY HeadTailProperties
  <2>3. DOMAIN Tail(q) = 1..Len(Tail(q))
    BY <2>2, LenProperties
  <2> QED
    BY <2>1, <2>2, <2>3
<1> QED
  BY <1>1

LEMMA QueueAppend ==
    ASSUME NEW q \in Seq(1..MaxEvents), NEW e \in Nat, Len(q) <= e, e + 1 \in 1..MaxEvents,
           \A n \in DOMAIN q : q[n] = e - Len(q) + n
    PROVE  LET r == Append(q, e + 1) IN
           /\ r \in Seq(1..MaxEvents) /\ Len(r) = Len(q) + 1
           /\ Len(q) \in Nat
           /\ Len(r) <= e + 1
           /\ \A n \in DOMAIN r : r[n] = e + 1 - Len(r) + n
<1> DEFINE r == Append(q, e + 1)
<1>1. /\ r \in Seq(1..MaxEvents) /\ Len(r) = Len(q) + 1 /\ Len(q) \in Nat
      /\ DOMAIN r = 1..(Len(q) + 1) /\ DOMAIN q = 1..Len(q) /\ r[Len(q) + 1] = e + 1
      /\ \A n \in 1..Len(q) : r[n] = q[n]
  BY AppendProperties, LenProperties
<1> HIDE DEF r
<1>2. ASSUME NEW n \in DOMAIN r PROVE r[n] = e + 1 - Len(r) + n
  BY <1>1, <1>2
<1> QED
  BY <1>1, <1>2 DEF r

\* The account of the events of a turn stays right when a step moves one from the turn to the
\* queue, from the queue to the hand or to the client, or from the hand to the client.
LEMMA OwedAfter ==
    ASSUME NEW t \in Turns, Owed(t), Number(t) \in Nat, Number(t)' \in Nat, emitted[t] \in Nat,
           Len(queue[t]) \in Nat,
           \/ /\ Number(t)' = Number(t) /\ inHand'[t] = inHand[t]
              /\ Len(queue'[t]) = Len(queue[t]) + 1 /\ emitted'[t] = emitted[t] + 1
           \/ /\ Number(t)' = Number(t) /\ inHand[t] = 0 /\ inHand'[t] = Number(t) + 1
              /\ Len(queue'[t]) = Len(queue[t]) - 1 /\ emitted'[t] = emitted[t]
           \/ /\ Number(t)' = Number(t) + 1 /\ inHand[t] = 0 /\ inHand'[t] = 0
              /\ Len(queue'[t]) = Len(queue[t]) - 1 /\ emitted'[t] = emitted[t]
           \/ /\ Number(t)' = Number(t) + 1 /\ inHand[t] # 0 /\ inHand'[t] = 0
              /\ Len(queue'[t]) = Len(queue[t]) /\ emitted'[t] = emitted[t]
    PROVE  Owed(t)'
<1> PICK n \in Nat : n = Number(t)
  OBVIOUS
<1> PICK l \in Nat : l = Len(queue[t])
  OBVIOUS
<1> PICK e \in Nat : e = emitted[t]
  OBVIOUS
<1>1. n + (IF inHand[t] = 0 THEN 0 ELSE 1) + l = e /\ (inHand[t] # 0 => inHand[t] = n + 1)
  BY DEF Owed
<1>2. CASE /\ Number(t)' = n /\ inHand'[t] = inHand[t]
           /\ Len(queue'[t]) = l + 1 /\ emitted'[t] = e + 1
  <2>1. n + (IF inHand[t] = 0 THEN 0 ELSE 1) + (l + 1) = e + 1
    <3>1. CASE inHand[t] = 0
      BY <1>1, <3>1
    <3>2. CASE inHand[t] # 0
      BY <1>1, <3>2
    <3> QED
      BY <3>1, <3>2
  <2> QED
    BY <1>1, <1>2, <2>1 DEF Owed
<1>3. CASE /\ Number(t)' = n /\ inHand[t] = 0 /\ inHand'[t] = n + 1
           /\ Len(queue'[t]) = l - 1 /\ emitted'[t] = e
  <2>1. n + 1 + (l - 1) = e /\ n + 1 # 0
    BY <1>1, <1>3
  <2> QED
    BY <1>3, <2>1 DEF Owed
<1>4. CASE /\ Number(t)' = n + 1 /\ inHand[t] = 0 /\ inHand'[t] = 0
           /\ Len(queue'[t]) = l - 1 /\ emitted'[t] = e
  <2>1. n + 1 + 0 + (l - 1) = e
    BY <1>1, <1>4, SMTT(30)
  <2> QED
    BY <1>4, <2>1 DEF Owed
<1>5. CASE /\ Number(t)' = n + 1 /\ inHand[t] # 0 /\ inHand'[t] = 0
           /\ Len(queue'[t]) = l /\ emitted'[t] = e
  <2>1. n + 1 + 0 + l = e
    BY <1>1, <1>5
  <2> QED
    BY <1>5, <2>1 DEF Owed
<1> QED
  BY <1>2, <1>3, <1>4, <1>5

\* Steps that send nothing.
LEMMA QuietSteps ==
    ASSUME ChatShape, NEW t \in Turns, TurnInv(t),
           \/ SocketAsks(t) \/ Begins(t) \/ Emits(t) \/ TimesOut(t) \/ Leaves(t)
           \/ PumpTakes(t) \/ \E how \in {"finished", "failed"} : TurnEnds(t, how)
    PROVE  ChatShape' /\ TurnInv(t)'
<1> USE ChatAssumption DEF ChatShape, Goes
<1>1. Number(t) \in Nat /\ Len(sent[t]) \in Nat
  BY Counted
<1>2. CASE SocketAsks(t) \/ Begins(t)
  <2>1. ChatShape'
    BY <1>2 DEF SocketAsks, Begins, Stages
  <2>2. TurnInv(t)'
    BY <1>1, <1>2 DEF SocketAsks, Begins, TurnInv, QueueRuns, Served, Owed, Told, Number
  <2> QED
    BY <2>1, <2>2
<1>3. CASE Emits(t)
  <2>1. emitted'[t] = emitted[t] + 1 /\ emitted[t] + 1 \in 1..MaxEvents /\ emitted[t] \in Nat
    BY <1>3 DEF Emits
  <2>2. queue' = [queue EXCEPT ![t] = Append(queue[t], emitted[t] + 1)]
    BY <1>3 DEF Emits
  <2>3. /\ queue[t] \in Seq(1..MaxEvents)
        /\ Len(queue[t]) <= emitted[t]
        /\ \A n \in DOMAIN queue[t] : queue[t][n] = emitted[t] - Len(queue[t]) + n
    BY DEF TurnInv, QueueRuns
  <2> DEFINE r == Append(queue[t], emitted[t] + 1)
  <2>4. /\ r \in Seq(1..MaxEvents) /\ Len(r) = Len(queue[t]) + 1 /\ Len(queue[t]) \in Nat
        /\ Len(r) <= emitted[t] + 1
        /\ \A n \in DOMAIN r : r[n] = emitted[t] + 1 - Len(r) + n
    BY <2>1, <2>3, QueueAppend
  <2> HIDE DEF r
  <2>5. queue'[t] = r /\ queue' \in [Turns -> Seq(1..MaxEvents)]
    BY <2>2, <2>4 DEF r
  <2>6. ChatShape'
    BY <1>3, <2>1, <2>5 DEF Emits
  <2>7. QueueRuns(t)'
    <3>1. Len(r) <= emitted'[t] /\ emitted'[t] = emitted[t] + 1
      BY <2>1, <2>4
    <3>2. \A n \in DOMAIN r : r[n] = emitted'[t] - Len(r) + n
      BY <2>4, <3>1, SMTT(30)
    <3> QED
      BY <2>5, <3>1, <3>2 DEF QueueRuns
  <2>8. Owed(t) => Owed(t)'
    <3>1. Number(t)' = Number(t) /\ inHand' = inHand
      BY <1>3 DEF Emits, Number
    <3>2. Len(queue'[t]) = Len(queue[t]) + 1 /\ inHand'[t] = inHand[t]
      BY <2>4, <2>5, <3>1
    <3> QED
      BY <1>1, <2>1, <2>4, <3>1, <3>2, OwedAfter
  <2>9. Told(t)'
    BY <1>1, <1>3, <2>1 DEF Emits, TurnInv, Told, Number
  <2> QED
    BY <1>3, <2>6, <2>7, <2>8, <2>9 DEF Emits, TurnInv, Served
<1>4. CASE TimesOut(t) \/ Leaves(t)
  <2>1. ChatShape'
    BY <1>4 DEF TimesOut, Leaves, Stages
  <2>2. TurnInv(t)'
    BY <1>1, <1>4 DEF TimesOut, Leaves, TurnInv, QueueRuns, Served, Owed, Told, Number
  <2> QED
    BY <2>1, <2>2
<1>5. CASE PumpTakes(t)
  <2>1. /\ queue[t] \in Seq(1..MaxEvents) /\ queue[t] # <<>> /\ inHand[t] = 0
        /\ emitted[t] \in Nat /\ Len(queue[t]) <= emitted[t]
        /\ \A n \in DOMAIN queue[t] : queue[t][n] = emitted[t] - Len(queue[t]) + n
    BY <1>5 DEF PumpTakes, TurnInv, QueueRuns
  <2> DEFINE r == Tail(queue[t])
  <2>2. /\ r \in Seq(1..MaxEvents) /\ Len(r) = Len(queue[t]) - 1 /\ Len(queue[t]) \in Nat \ {0}
        /\ Head(queue[t]) = emitted[t] - Len(queue[t]) + 1 /\ Head(queue[t]) \in 1..MaxEvents
        /\ Len(r) <= emitted[t]
        /\ \A n \in DOMAIN r : r[n] = emitted[t] - Len(r) + n
    BY <2>1, QueueTail
  <2>3. queue' = [queue EXCEPT ![t] = r] /\ inHand' = [inHand EXCEPT ![t] = Head(queue[t])]
    BY <1>5 DEF PumpTakes
  <2> HIDE DEF r
  <2>4. /\ queue'[t] = r /\ queue' \in [Turns -> Seq(1..MaxEvents)]
        /\ inHand'[t] = Head(queue[t]) /\ inHand' \in [Turns -> 0..MaxEvents]
    BY <2>2, <2>3
  <2>5. ChatShape'
    BY <1>5, <2>4 DEF PumpTakes
  <2>6. QueueRuns(t)'
    BY <1>5, <2>2, <2>4 DEF PumpTakes, QueueRuns
  <2>7. Owed(t) => Owed(t)'
    <3>1. Number(t)' = Number(t) /\ emitted' = emitted
      BY <1>5 DEF PumpTakes, Number
    <3>2. ASSUME Owed(t) PROVE inHand'[t] = Number(t) + 1
      BY <1>1, <2>1, <2>2, <2>4, <3>2 DEF Owed
    <3> QED
      BY <1>1, <2>1, <2>2, <2>4, <3>1, <3>2, OwedAfter
  <2>8. Told(t)'
    BY <1>1, <1>5 DEF PumpTakes, TurnInv, Told, Number
  <2> QED
    BY <1>5, <2>5, <2>6, <2>7, <2>8 DEF PumpTakes, TurnInv, Served
<1>6. ASSUME NEW how \in {"finished", "failed"}, TurnEnds(t, how)
      PROVE  ChatShape' /\ TurnInv(t)'
  <2>1. ChatShape'
    BY <1>6 DEF TurnEnds, KeepResult, Stages
  <2>2. QueueRuns(t)' /\ (Served(t)' => Served(t)) /\ (Owed(t) => Owed(t)')
    BY <1>6 DEF TurnEnds, TurnInv, QueueRuns, Served, Owed, Number
  <2>3. Told(t)'
    BY <1>1, <1>6 DEF TurnEnds, KeepResult, TurnInv, Told, Number
  <2> QED
    BY <1>6, <2>1, <2>2, <2>3 DEF TurnEnds, KeepResult, TurnInv
<1> QED
  BY <1>2, <1>3, <1>4, <1>5, <1>6

\* One more item that does not say how the turn ended.
LEMMA ToldMore ==
    ASSUME ChatShape, NEW t \in Turns, Told(t), stage[t] # "closed",
           sent' \in [Turns -> Seq(Wire)], InOrder(sent'[t]),
           Len(sent'[t]) = Len(sent[t]) + 1,
           sent'[t][Len(sent[t]) + 1][1] \notin Final,
           \A n \in 1..Len(sent[t]) : sent'[t][n] = sent[t][n],
           Number(t)' <= emitted'[t], Number(t)' \in Nat, pings'[t] \in Nat,
           Len(sent[t]) + 1 <= Number(t)' + pings'[t] + (IF stage'[t] = "new" THEN 0 ELSE 1)
    PROVE  Told(t)'
<1>1. ASSUME NEW n \in DOMAIN sent'[t]
      PROVE  sent'[t][n][1] \notin Final
  <2>1. n \in 1..(Len(sent[t]) + 1)
    BY <1>1
  <2>2. CASE n = Len(sent[t]) + 1
    BY <2>2
  <2>3. CASE n # Len(sent[t]) + 1
    <3>1. n \in 1..Len(sent[t]) /\ n \in DOMAIN sent[t]
      BY <2>1, <2>3, Counted
    <3> QED
      BY <3>1 DEF Told
  <2> QED
    BY <2>2, <2>3
<1>2. Len(sent'[t]) <= Number(t)' + pings'[t] + (IF stage'[t] = "new" THEN 0 ELSE 1)
                         + (IF stage'[t] = "closed" THEN 2 ELSE 0)
  BY Counted
<1> QED
  BY <1>1, <1>2 DEF Told

\* Steps that send a note or an event while the turn goes on.
LEMMA SpeakingSteps ==
    ASSUME ChatShape, NEW t \in Turns, TurnInv(t),
           Asked(t) \/ Yields(t) \/ KeepsAlive(t) \/ PumpSends(t) \/ Heartbeat(t)
    PROVE  ChatShape' /\ TurnInv(t)'
<1> USE ChatAssumption
<1>1. Number(t) \in Nat /\ Len(sent[t]) \in Nat /\ DOMAIN sent[t] = 1..Len(sent[t])
  BY Counted
<1>2. InOrder(sent[t])
  BY DEF TurnInv, Told
<1>3. CASE Asked(t)
  <2>1. CASE kind[t] = "sse"
    <3>1. Send(t, <<Note("start")>>)
      BY <1>3, <2>1 DEF Asked
    <3>2. /\ sent' \in [Turns -> Seq(Wire)]
          /\ InOrder(sent'[t]) /\ Number(t)' = Number(t)
          /\ Len(sent'[t]) = Len(sent[t]) + 1
          /\ sent'[t][Len(sent[t]) + 1] = Note("start")
          /\ \A n \in 1..Len(sent[t]) : sent'[t][n] = sent[t][n]
      BY <1>2, <3>1, NoteOut
    <3>3. ChatShape'
      BY <1>3, <3>2 DEF Asked, ChatShape, Goes, Stages
    <3>4. stage[t] = "new" /\ stage'[t] = "waiting"
      BY <1>3 DEF Asked, Goes, ChatShape
    <3>5. Note("start")[1] \notin Final
      BY DEF Note, Final
    <3>6. Len(sent[t]) <= Number(t) + pings[t] /\ pings[t] \in Nat /\ Number(t) <= emitted[t]
      <4>1. pings[t] \in Nat
        BY DEF ChatShape
      <4> QED
        BY <1>1, <3>4, <4>1 DEF TurnInv, Told
    <3>7. Told(t)'
      <4>1. emitted' = emitted /\ pings' = pings /\ stage[t] # "closed" /\ stage'[t] # "new" /\ Told(t)
        BY <1>3, <3>4 DEF Asked, TurnInv
      <4>2. /\ Number(t)' <= emitted'[t] /\ Number(t)' \in Nat /\ pings'[t] \in Nat
            /\ Len(sent[t]) + 1 <= Number(t)' + pings'[t] + 1
        BY <1>1, <3>2, <3>6, <4>1
      <4> QED
        BY <3>2, <3>5, <4>1, <4>2, ToldMore
    <3> QED
      BY <1>3, <3>2, <3>3, <3>4, <3>7 DEF Asked, TurnInv, QueueRuns, Served, Owed
  <2>2. CASE kind[t] # "sse"
    <3>1. ChatShape'
      BY <1>3, <2>2 DEF Asked, ChatShape, Goes, Stages
    <3>2. stage[t] = "new" /\ stage'[t] = "waiting"
      BY <1>3 DEF Asked, Goes, ChatShape
    <3> QED
      BY <1>1, <1>3, <2>2, <3>1, <3>2 DEF Asked, TurnInv, QueueRuns, Served, Owed, Told, Number, ChatShape
  <2> QED
    BY <2>1, <2>2
<1>4. CASE KeepsAlive(t) \/ Heartbeat(t)
  <2>1. Send(t, <<Note("ping")>>)
    BY <1>4 DEF KeepsAlive, Heartbeat
  <2>2. /\ sent' \in [Turns -> Seq(Wire)]
        /\ InOrder(sent'[t]) /\ Number(t)' = Number(t)
        /\ Len(sent'[t]) = Len(sent[t]) + 1
        /\ sent'[t][Len(sent[t]) + 1] = Note("ping")
        /\ \A n \in 1..Len(sent[t]) : sent'[t][n] = sent[t][n]
    BY <1>2, <2>1, NoteOut
  <2>3. pings'[t] = pings[t] + 1 /\ pings[t] \in Nat
    BY <1>4 DEF KeepsAlive, Heartbeat, ChatShape
  <2>4. ChatShape'
    <3>1. pings' \in [Turns -> 0..MaxPings]
      <4>1. pings' = [pings EXCEPT ![t] = pings[t] + 1] /\ pings[t] + 1 \in 0..MaxPings
        BY <1>4, <2>3 DEF KeepsAlive, Heartbeat
      <4> QED
        BY <4>1 DEF ChatShape
    <3>2. UNCHANGED <<kind, stage, emitted, queue, inHand, connected, recorded>>
      BY <1>4 DEF KeepsAlive, Heartbeat
    <3> QED
      BY <2>2, <3>1, <3>2 DEF ChatShape
  <2>5. Note("ping")[1] \notin Final
    BY DEF Note, Final
  <2>6. /\ stage[t] \notin {"new", "closed"} /\ stage' = stage /\ emitted' = emitted
        /\ Len(sent[t]) <= Number(t) + pings[t] + 1 /\ Number(t) <= emitted[t]
    <3>1. stage[t] \notin {"new", "closed"} /\ stage' = stage /\ emitted' = emitted
      BY <1>4 DEF KeepsAlive, Heartbeat
    <3> QED
      BY <1>1, <2>3, <3>1 DEF TurnInv, Told
  <2>7. Told(t)'
    <3>1. Told(t) /\ Len(sent[t]) + 1 <= Number(t) + pings'[t] + 1 /\ pings'[t] \in Nat
      BY <1>1, <2>3, <2>6 DEF TurnInv
    <3> QED
      BY <1>1, <2>2, <2>5, <2>6, <3>1, ToldMore
  <2> QED
    BY <1>4, <2>2, <2>4, <2>7 DEF KeepsAlive, Heartbeat, TurnInv, QueueRuns, Served, Owed
<1>5. ASSUME NEW i \in 1..MaxEvents, i = Number(t) + 1, Send(t, <<Event(i)>>),
             i <= emitted[t], emitted[t] \in Nat, stage[t] # "closed",
             UNCHANGED <<kind, stage, emitted, pings, recorded>>
      PROVE  sent' \in [Turns -> Seq(Wire)] /\ Told(t)' /\ Number(t)' = Number(t) + 1
  <2>1. /\ sent' \in [Turns -> Seq(Wire)]
        /\ InOrder(sent'[t]) /\ Number(t)' = Number(t) + 1
        /\ Len(sent'[t]) = Len(sent[t]) + 1
        /\ sent'[t][Len(sent[t]) + 1] = Event(i)
        /\ \A n \in 1..Len(sent[t]) : sent'[t][n] = sent[t][n]
    BY <1>2, <1>5, EventOut
  <2>2. Event(i)[1] \notin Final
    BY WireKnown
  <2>3. pings[t] \in Nat
    BY DEF ChatShape
  <2>4. Len(sent[t]) <= Number(t) + pings[t] + (IF stage[t] = "new" THEN 0 ELSE 1)
    BY <1>1, <1>5, <2>3 DEF TurnInv, Told
  <2>5. Told(t)'
    <3>1. /\ Told(t) /\ pings'[t] = pings[t] /\ stage'[t] = stage[t]
          /\ Number(t)' <= emitted'[t] /\ Number(t)' \in Nat
          /\ Len(sent[t]) + 1 <= Number(t)' + pings[t] + (IF stage[t] = "new" THEN 0 ELSE 1)
      BY <1>1, <1>5, <2>1, <2>3, <2>4, SMTT(30) DEF TurnInv
    <3> QED
      BY <1>5, <2>1, <2>2, <2>3, <3>1, ToldMore
  <2> QED
    BY <2>1, <2>5
<1>6. CASE Yields(t)
  <2>1. /\ queue[t] \in Seq(1..MaxEvents) /\ queue[t] # <<>> /\ inHand[t] = 0
        /\ emitted[t] \in Nat /\ Len(queue[t]) <= emitted[t]
        /\ \A n \in DOMAIN queue[t] : queue[t][n] = emitted[t] - Len(queue[t]) + n
    BY <1>6 DEF Yields, ChatShape, TurnInv, QueueRuns
  <2> DEFINE r == Tail(queue[t])
  <2>2. /\ r \in Seq(1..MaxEvents) /\ Len(r) = Len(queue[t]) - 1 /\ Len(queue[t]) \in Nat \ {0}
        /\ Head(queue[t]) = emitted[t] - Len(queue[t]) + 1 /\ Head(queue[t]) \in 1..MaxEvents
        /\ Len(r) <= emitted[t]
        /\ \A n \in DOMAIN r : r[n] = emitted[t] - Len(r) + n
    BY <2>1, QueueTail
  <2>3. Owed(t) /\ stage[t] # "closed"
    BY <1>6 DEF Yields, TurnInv, Served, TaskDone
  <2>4. Head(queue[t]) = Number(t) + 1 /\ Head(queue[t]) <= emitted[t]
    BY <1>1, <2>1, <2>2, <2>3 DEF Owed
  <2>5. sent' \in [Turns -> Seq(Wire)] /\ Told(t)' /\ Number(t)' = Number(t) + 1
    BY <1>5, <1>6, <2>1, <2>2, <2>3, <2>4 DEF Yields
  <2>6. queue' = [queue EXCEPT ![t] = r] /\ UNCHANGED <<kind, stage, emitted, inHand, pings, connected, recorded>>
    BY <1>6 DEF Yields
  <2> HIDE DEF r
  <2>7. queue'[t] = r /\ queue' \in [Turns -> Seq(1..MaxEvents)]
    BY <2>2, <2>6 DEF ChatShape
  <2>8. ChatShape'
    BY <2>5, <2>6, <2>7 DEF ChatShape
  <2>9. QueueRuns(t)'
    BY <2>2, <2>6, <2>7 DEF QueueRuns
  <2>10. Owed(t)'
    <3>1. /\ Len(queue'[t]) = Len(queue[t]) - 1 /\ inHand[t] = 0 /\ inHand'[t] = 0
          /\ emitted'[t] = emitted[t] /\ Len(queue[t]) \in Nat /\ emitted[t] \in Nat
      BY <2>1, <2>2, <2>6, <2>7
    <3>2. Number(t)' = Number(t) + 1 /\ Number(t) \in Nat /\ Number(t)' \in Nat
      BY <1>1, <2>5
    <3> QED
      BY <2>3, <3>1, <3>2, OwedAfter
  <2> QED
    BY <2>5, <2>6, <2>8, <2>9, <2>10 DEF TurnInv
<1>7. CASE PumpSends(t)
  <2>1. inHand[t] # 0 /\ inHand[t] \in 1..MaxEvents /\ emitted[t] \in Nat /\ inHand'[t] = 0
    BY <1>7 DEF PumpSends, ChatShape
  <2>2. kind[t] = "websocket" /\ stage[t] # "closed"
    BY <1>7, <2>1 DEF PumpSends, TurnInv
  <2>3. Owed(t)
    BY <2>2 DEF TurnInv, Served
  <2>4. inHand[t] = Number(t) + 1 /\ inHand[t] <= emitted[t]
    BY <1>1, <2>1, <2>3 DEF Owed, ChatShape
  <2>5. sent' \in [Turns -> Seq(Wire)] /\ Told(t)' /\ Number(t)' = Number(t) + 1
    BY <1>5, <1>7, <2>1, <2>2, <2>4 DEF PumpSends
  <2>6. ChatShape'
    <3>1. inHand' \in [Turns -> 0..MaxEvents]
      BY <1>7 DEF PumpSends, ChatShape
    <3> QED
      BY <1>7, <2>5, <3>1 DEF PumpSends, ChatShape
  <2>7. Owed(t)'
    BY <1>1, <1>7, <2>1, <2>3, <2>5 DEF PumpSends, Owed, ChatShape
  <2> QED
    BY <1>7, <2>1, <2>5, <2>6, <2>7 DEF PumpSends, TurnInv, QueueRuns
<1> QED
  BY <1>3, <1>4, <1>6, <1>7

\* The last item: what came before says nothing of how the turn ended, so only this one does.
LEMMA ToldLast ==
    ASSUME ChatShape, NEW t \in Turns, Told(t), stage[t] # "closed", stage'[t] = "closed",
           sent' \in [Turns -> Seq(Wire)], InOrder(sent'[t]),
           NEW k \in 0..3, Len(sent'[t]) = Len(sent[t]) + k,
           \A n \in 1..Len(sent[t]) : sent'[t][n] = sent[t][n],
           \A n \in 1..Len(sent'[t]) :
              /\ n > Len(sent[t])
              /\ sent'[t][n][1] \in Final
              => /\ n = Len(sent'[t])
                 /\ kind'[t] = "sse" => Number(t)' = emitted'[t]
                 /\ sent'[t][n][1] = "done" => t \in recorded',
           Number(t)' <= emitted'[t], Number(t)' \in Nat, pings'[t] \in Nat,
           Len(sent'[t]) <= Number(t)' + pings'[t] + 3
    PROVE  Told(t)'
<1>1. ASSUME NEW n \in DOMAIN sent'[t], sent'[t][n][1] \in Final
      PROVE  /\ n = Len(sent'[t])
             /\ kind'[t] = "sse" => Number(t)' = emitted'[t]
             /\ sent'[t][n][1] = "done" => t \in recorded'
  <2>1. n \in 1..Len(sent'[t]) /\ Len(sent[t]) \in Nat /\ DOMAIN sent[t] = 1..Len(sent[t])
    BY <1>1, Counted
  <2>2. n > Len(sent[t])
    <3> SUFFICES ASSUME n <= Len(sent[t]) PROVE FALSE
      BY <2>1
    <3>1. n \in DOMAIN sent[t] /\ sent'[t][n] = sent[t][n]
      BY <2>1
    <3> QED
      BY <1>1, <3>1 DEF Told
  <2> QED
    BY <1>1, <2>1, <2>2
<1> QED
  BY <1>1 DEF Told

\* The steps that end what a client is sent.
LEMMA ClosingSteps ==
    ASSUME ChatShape, NEW t \in Turns, TurnInv(t), Responds(t) \/ StreamEnds(t) \/ SocketEnds(t)
    PROVE  ChatShape' /\ TurnInv(t)'
<1> USE ChatAssumption
<1>1. Number(t) \in Nat /\ Len(sent[t]) \in Nat /\ DOMAIN sent[t] = 1..Len(sent[t])
  BY Counted
<1>2. InOrder(sent[t]) /\ Told(t) /\ stage[t] \notin {"new", "closed"} /\ stage'[t] = "closed"
  BY DEF TurnInv, Told, Responds, StreamEnds, SocketEnds, TaskDone, Goes, ChatShape
<1>3. /\ emitted' = emitted /\ pings' = pings /\ kind' = kind /\ connected' = connected
      /\ pings[t] \in Nat /\ emitted[t] \in Nat /\ recorded \subseteq recorded'
      /\ ~Served(t)'
  BY <1>2 DEF Responds, StreamEnds, SocketEnds, KeepResult, ChatShape, Served
<1>4. Len(sent[t]) <= Number(t) + pings[t] + 1 /\ Number(t) <= emitted[t]
  BY <1>1, <1>2, <1>3 DEF Told
<1>5. ASSUME sent'[t] = sent[t], sent' \in [Turns -> Seq(Wire)] PROVE Told(t)'
  <2>1. Number(t)' = Number(t)
    BY <1>5 DEF Number
  <2>2. \A n \in 1..Len(sent[t]) : n <= Len(sent[t])
    BY <1>1
  <2>3. Len(sent'[t]) = Len(sent[t]) + 0 /\ Len(sent'[t]) <= Number(t)' + pings'[t] + 3
    BY <1>1, <1>3, <1>4, <1>5, <2>1
  <2>4. \A n \in 1..Len(sent'[t]) : ~(n > Len(sent[t]))
    BY <1>1, <1>5
  <2>5. Told(t)'
    BY <1>1, <1>2, <1>3, <1>4, <1>5, <2>1, <2>3, <2>4, ToldLast
  <2> QED
    BY <2>5
<1>6. ASSUME NEW what \in Final, Send(t, <<Note(what)>>),
             kind[t] = "sse" => Number(t) = emitted[t],
             what = "done" => t \in recorded'
      PROVE  sent' \in [Turns -> Seq(Wire)] /\ Told(t)'
  <2>1. /\ sent' \in [Turns -> Seq(Wire)]
        /\ InOrder(sent'[t]) /\ Number(t)' = Number(t)
        /\ Len(sent'[t]) = Len(sent[t]) + 1
        /\ sent'[t][Len(sent[t]) + 1] = Note(what)
        /\ \A n \in 1..Len(sent[t]) : sent'[t][n] = sent[t][n]
    BY <1>2, <1>6, NoteOut
  <2>2. \A n \in 1..Len(sent'[t]) :
           n > Len(sent[t]) => n = Len(sent'[t]) /\ sent'[t][n] = Note(what)
    BY <1>1, <2>1
  <2>3. Note(what)[1] = what
    BY DEF Note
  <2>4. Len(sent'[t]) <= Number(t)' + pings'[t] + 3
    BY <1>1, <1>3, <1>4, <2>1
  <2>5. \A n \in 1..Len(sent'[t]) :
           /\ n > Len(sent[t])
           /\ sent'[t][n][1] \in Final
           => /\ n = Len(sent'[t])
              /\ kind'[t] = "sse" => Number(t)' = emitted'[t]
              /\ sent'[t][n][1] = "done" => t \in recorded'
    BY <1>3, <1>6, <2>1, <2>2, <2>3
  <2>6. Number(t)' <= emitted'[t] /\ Number(t)' \in Nat /\ pings'[t] \in Nat
    BY <1>1, <1>3, <1>4, <2>1
  <2> QED
    BY <1>2, <2>1, <2>4, <2>5, <2>6, ToldLast, SMTT(30)
<1>7. CASE Responds(t)
  <2>1. sent' \in [Turns -> Seq(Wire)] /\ Told(t)'
    <3>1. CASE t \in connected
      <4>1. Send(t, <<Note(IF stage[t] = "finished" THEN "done" ELSE "error")>>) /\ kind[t] = "plain"
        BY <1>7, <3>1 DEF Responds
      <4>2. stage[t] = "finished" => t \in recorded'
        BY <1>3, <4>1 DEF TurnInv
      <4> QED
        BY <1>6, <4>1, <4>2 DEF Final
    <3>2. CASE t \notin connected
      BY <1>5, <1>7, <3>2 DEF Responds, ChatShape
    <3> QED
      BY <3>1, <3>2
  <2>2. ChatShape'
    BY <1>7, <2>1 DEF Responds, ChatShape, Goes, Stages
  <2> QED
    BY <1>2, <1>3, <1>7, <2>1, <2>2 DEF Responds, TurnInv, QueueRuns
<1>8. CASE StreamEnds(t)
  <2>1. sent' \in [Turns -> Seq(Wire)] /\ Told(t)'
    <3>1. CASE t \in connected
      <4>1. kind[t] = "sse" /\ queue[t] = <<>> /\ inHand[t] = 0 /\ Owed(t)
        BY <1>2, <1>8, <3>1 DEF StreamEnds, TurnInv, Served
      <4>2. Number(t) = emitted[t]
        BY <1>1, <4>1 DEF Owed
      <4>3. CASE stage[t] # "finished"
        <5>1. Send(t, <<Note("error")>>)
          BY <1>8, <3>1, <4>3 DEF StreamEnds
        <5> QED
          BY <1>6, <4>2, <5>1 DEF Final
      <4>4. CASE stage[t] = "finished"
        <5> DEFINE s == sent[t]
                   r == s \o <<Note("results")>>
                   z == r \o <<Note("done")>>
        <5>1. /\ s \in Seq(Wire) /\ Note("results") \in Wire /\ Note("done") \in Wire
              /\ Note("results")[1] = "results" /\ Note("done")[1] = "done"
          BY WireKnown DEF ChatShape, Final
        <5>2. Send(t, <<Note("results"), Note("done")>>)
          BY <1>8, <3>1, <4>4 DEF StreamEnds
        <5>3. s \o <<Note("results"), Note("done")>> = z
          <6>1. <<Note("results"), Note("done")>> = <<Note("results")>> \o <<Note("done")>>
            BY <5>1
          <6>2. <<Note("results")>> \in Seq(Wire) /\ <<Note("done")>> \in Seq(Wire)
            BY <5>1
          <6> QED
            BY <5>1, <6>1, <6>2, ConcatAssociative
        <5>4. /\ r \in Seq(Wire) /\ Len(r) = Len(s) + 1 /\ r[Len(s) + 1] = Note("results")
              /\ \A n \in 1..Len(s) : r[n] = s[n]
              /\ EventsIn(r) = EventsIn(s) /\ InOrder(r)
          BY <1>2, <5>1, SentOne, NoteSent
        <5>5. /\ z \in Seq(Wire) /\ Len(z) = Len(r) + 1 /\ z[Len(r) + 1] = Note("done")
              /\ \A n \in 1..Len(r) : z[n] = r[n]
              /\ EventsIn(z) = EventsIn(r) /\ InOrder(z)
          BY <5>1, <5>4, SentOne, NoteSent
        <5>6. sent'[t] = z /\ sent' \in [Turns -> Seq(Wire)]
          BY <5>2, <5>3, <5>5 DEF Send, ChatShape
        <5>7. Number(t)' = Number(t)
          BY <5>4, <5>5, <5>6 DEF Number
        <5> HIDE DEF z, r
        <5>8. Len(z) = Len(sent[t]) + 2 /\ \A n \in 1..Len(sent[t]) : z[n] = sent[t][n]
          BY <1>1, <5>4, <5>5
        <5>9. \A n \in 1..Len(z) : n > Len(sent[t]) =>
                 \/ n = Len(z) /\ z[n][1] = "done"
                 \/ z[n][1] = "results"
          BY <1>1, <5>1, <5>4, <5>5
        <5>10. t \in recorded'
          BY <1>3, <4>1, <4>4 DEF TurnInv
        <5>11. Len(z) <= Number(t)' + pings'[t] + 3
          BY <1>1, <1>3, <1>4, <5>7, <5>8
        <5>12. "results" \notin Final
          BY DEF Final
        <5> QED
          BY <1>1, <1>2, <1>3, <1>4, <4>2, <5>5, <5>6, <5>7, <5>8, <5>9, <5>10, <5>11, <5>12, ToldLast
      <4> QED
        BY <4>3, <4>4
    <3>2. CASE t \notin connected
      BY <1>5, <1>8, <3>2 DEF StreamEnds, ChatShape
    <3> QED
      BY <3>1, <3>2
  <2>2. ChatShape'
    BY <1>8, <2>1 DEF StreamEnds, ChatShape, Goes, Stages
  <2> QED
    BY <1>2, <1>3, <1>8, <2>1, <2>2 DEF StreamEnds, TurnInv, QueueRuns
<1>9. CASE SocketEnds(t)
  <2>1. kind[t] = "websocket" /\ Owed(t)
    BY <1>2, <1>9 DEF SocketEnds, TurnInv, Served
  <2>2. sent' \in [Turns -> Seq(Wire)] /\ Told(t)'
    <3>1. CASE t \notin connected
      BY <1>5, <1>9, <3>1 DEF SocketEnds, ChatShape
    <3>2. CASE t \in connected
      <4> DEFINE s == sent[t]
                 bye == IF stage[t] = "finished" THEN <<Note("done")>> ELSE <<>>
      <4>1. PICK last \in {<<>>} \cup (IF inHand[t] = 0 THEN {} ELSE {<<Event(inHand[t])>>}) :
               Send(t, last \o bye)
        BY <1>9, <3>2 DEF SocketEnds
      <4>2. s \in Seq(Wire) /\ last \in Seq(Wire) /\ bye \in Seq(Wire)
        <5>1. inHand[t] # 0 => Event(inHand[t]) \in Wire
          BY WireKnown DEF ChatShape
        <5>2. s \in Seq(Wire)
          BY DEF ChatShape
        <5>3. last \in Seq(Wire)
          <6>1. last = <<>> \/ (inHand[t] # 0 /\ last = <<Event(inHand[t])>>)
            OBVIOUS
          <6>2. \A x \in Wire : <<x>> \in Seq(Wire)
            OBVIOUS
          <6>3. <<>> \in Seq(Wire)
            BY EmptySeq
          <6>4. inHand[t] # 0 => <<Event(inHand[t])>> \in Seq(Wire)
            BY <5>1, <6>2
          <6> QED
            BY <6>1, <6>3, <6>4
        <5>4. Note("done") \in Wire
          BY WireKnown DEF Final
        <5>5. bye \in Seq(Wire)
          BY <5>4
        <5> QED
          BY <5>2, <5>3, <5>5
      <4>3. sent'[t] = (s \o last) \o bye
        <5>1. sent'[t] = s \o (last \o bye)
          BY <4>1 DEF Send, ChatShape
        <5> HIDE DEF s, bye
        <5> QED
          BY <4>2, <5>1, ConcatAssociative, SMTT(30)
      <4> DEFINE r == s \o last
                 z == r \o bye
      <4>4. /\ r \in Seq(Wire) /\ InOrder(r) /\ Cardinality(EventsIn(r)) \in Nat
            /\ Cardinality(EventsIn(r)) <= emitted[t]
            /\ \E k \in 0..1 : /\ Len(r) = Len(s) + k
                              /\ Len(r) <= Cardinality(EventsIn(r)) + pings[t] + 1
            /\ \A n \in 1..Len(s) : r[n] = s[n]
            /\ \A n \in 1..Len(r) : n > Len(s) => r[n][1] \notin Final
        <5>1. CASE last = <<>>
          <6>1. r = s
            BY <4>2, <5>1, ConcatEmptySeq
          <6>2. Len(r) = Len(s) + 0
            BY <1>1, <6>1
          <6>3. \A n \in 1..Len(r) : ~(n > Len(s))
            BY <1>1, <6>1
          <6> HIDE DEF r
          <6> QED
            BY <1>1, <1>2, <1>4, <4>2, <6>1, <6>2, <6>3 DEF Number
        <5>2. CASE last # <<>>
          <6>1. last = <<Event(inHand[t])>> /\ inHand[t] # 0
            BY <5>2
          <6>2. inHand[t] = Number(t) + 1 /\ inHand[t] \in 1..MaxEvents /\ inHand[t] <= emitted[t]
            <7>1. inHand[t] \in 1..MaxEvents /\ queue[t] \in Seq(1..MaxEvents) /\ Len(queue[t]) \in Nat
              BY <6>1 DEF ChatShape
            <7> QED
              BY <1>1, <1>3, <2>1, <6>1, <7>1 DEF Owed
          <6>3. Event(inHand[t]) \in Wire /\ Event(inHand[t])[1] \notin Final
            BY <6>2, WireKnown
          <6>4. Cardinality(EventsIn(r)) = Cardinality(EventsIn(s)) + 1 /\ InOrder(r)
            BY <1>2, <4>2, <6>1, <6>2, <6>3, EventSent DEF Number
          <6>5. /\ r \in Seq(Wire) /\ Len(r) = Len(s) + 1 /\ r[Len(s) + 1] = Event(inHand[t])
                /\ \A n \in 1..Len(s) : r[n] = s[n]
            BY <4>2, <6>1, <6>3, SentOne
          <6> HIDE DEF r
          <6>6. \A n \in 1..Len(r) : n > Len(s) => n = Len(s) + 1
            BY <1>1, <6>5
          <6>7. Number(t) = Cardinality(EventsIn(s))
            BY DEF Number
          <6>8. Len(r) <= Cardinality(EventsIn(r)) + pings[t] + 1
            BY <1>1, <1>3, <1>4, <6>4, <6>5, <6>7
          <6> HIDE DEF s
          <6> QED
            BY <1>1, <1>3, <6>2, <6>3, <6>4, <6>5, <6>6, <6>7, <6>8
        <5> QED
          BY <5>1, <5>2
      <4>5. sent'[t] = z /\ sent' \in [Turns -> Seq(Wire)]
        <5>1. z \in Seq(Wire)
          BY <4>2, <4>4, ConcatProperties
        <5> QED
          BY <4>1, <4>3, <5>1 DEF Send, ChatShape
      <4>6. CASE stage[t] # "finished"
        <5>1. z = r
          BY <4>4, <4>6, ConcatEmptySeq
        <5> HIDE DEF r, z
        <5>2. Number(t)' = Cardinality(EventsIn(r)) /\ sent'[t] = r
          BY <4>5, <5>1 DEF Number
        <5>3. PICK k \in 0..1 : Len(r) = Len(s) + k /\ Len(r) <= Number(t)' + pings[t] + 1
          BY <4>4, <5>2
        <5>4. Len(r) <= Number(t)' + pings'[t] + 3 /\ k \in 0..3 /\ Len(r) \in Nat
          BY <1>1, <1>3, <4>4, <5>2, <5>3
        <5> QED
          BY <1>2, <1>3, <4>4, <4>5, <5>2, <5>3, <5>4, ToldLast
      <4>7. CASE stage[t] = "finished"
        <5>1. z = r \o <<Note("done")>> /\ Note("done") \in Wire /\ Note("done")[1] = "done"
          BY <4>7, WireKnown DEF Final
        <5>2. /\ Len(z) = Len(r) + 1 /\ z[Len(r) + 1] = Note("done")
              /\ \A n \in 1..Len(r) : z[n] = r[n]
              /\ EventsIn(z) = EventsIn(r) /\ InOrder(z)
          <6> HIDE DEF r
          <6>1. r \in Seq(Wire) /\ InOrder(r) /\ Note("done")[1] # "event"
            BY <4>4, <5>1
          <6>2. Len(z) = Len(r) + 1 /\ z[Len(r) + 1] = Note("done")
            BY <5>1, <6>1, SentOne
          <6>3. \A n \in 1..Len(r) : z[n] = r[n]
            BY <5>1, <6>1, SentOne
          <6>4. EventsIn(z) = EventsIn(r) /\ InOrder(z)
            BY <5>1, <6>1, NoteSent
          <6> QED
            BY <6>2, <6>3, <6>4
        <5> HIDE DEF r, z
        <5>3. Number(t)' = Cardinality(EventsIn(r))
          BY <4>5, <5>2 DEF Number
        <5>4. PICK k \in 0..1 : Len(r) = Len(s) + k /\ Len(r) <= Number(t)' + pings[t] + 1
          BY <4>4, <5>3
        <5>5. /\ Len(z) = Len(s) + (k + 1) /\ k + 1 \in 0..3 /\ Number(t)' \in Nat
              /\ Len(z) <= Number(t)' + pings'[t] + 3
          <6>1. Len(s) \in Nat /\ Len(r) \in Nat /\ Number(t)' \in Nat /\ pings[t] \in Nat
            BY <1>1, <1>3, <4>4, <5>3
          <6> HIDE DEF s
          <6> QED
            BY <1>3, <5>2, <5>4, <6>1
        <5>6. \A n \in 1..Len(s) : z[n] = s[n]
          BY <1>1, <4>4, <5>2, <5>4
        <5>7. \A n \in 1..Len(z) : n > Len(s) => n = Len(z) \/ z[n][1] \notin Final
          BY <1>1, <4>4, <5>2, <5>4
        <5>8. t \in recorded'
          BY <1>9, <4>7 DEF SocketEnds, KeepResult
        <5> QED
          BY <1>2, <1>3, <2>1, <4>4, <4>5, <5>2, <5>3, <5>5, <5>6, <5>7, <5>8, ToldLast
      <4> QED
        BY <4>6, <4>7
    <3> QED
      BY <3>1, <3>2
  <2>3. ChatShape'
    <3>1. inHand' \in [Turns -> 0..MaxEvents] /\ queue' \in [Turns -> Seq(1..MaxEvents)]
      BY <1>9 DEF SocketEnds, ChatShape
    <3>2. recorded' \subseteq Turns /\ stage' \in [Turns -> Stages]
      BY <1>9 DEF SocketEnds, ChatShape, KeepResult, Goes, Stages
    <3> QED
      BY <1>3, <2>2, <3>1, <3>2 DEF ChatShape
  <2>4. QueueRuns(t)' /\ inHand'[t] = 0
    BY <1>3, <1>9 DEF SocketEnds, QueueRuns, ChatShape
  <2> QED
    BY <1>2, <1>3, <2>2, <2>3, <2>4 DEF TurnInv
<1> QED
  BY <1>7, <1>8, <1>9

LEMMA ChatInvStep ==
    ASSUME ChatInv, [ChatNext]_chatVars PROVE ChatInv'
<1>1. CASE UNCHANGED chatVars
  BY <1>1 DEF chatVars, ChatInv, ChatShape, PermitsCounted, TurnInv, QueueRuns, Served, Owed,
              Told, Number
<1>2. ASSUME NEW t \in Turns, ChatStep(t) PROVE ChatInv'
  <2>1. ChatShape /\ PermitsCounted /\ TurnInv(t)
    BY DEF ChatInv
  <2>2. ChatShape' /\ TurnInv(t)'
    BY <1>2, <2>1, QuietSteps, SpeakingSteps, ClosingSteps DEF ChatStep
  <2>3. ASSUME NEW u \in Turns \ {t} PROVE TurnInv(u)'
    BY <1>2, <2>1, OthersUntouched, UntouchedKeeps DEF ChatInv
  <2>4. PermitsCounted'
    BY <1>2, <2>1, PermitsStep
  <2> QED
    BY <2>2, <2>3, <2>4 DEF ChatInv
<1> QED
  BY <1>1, <1>2 DEF ChatNext

LEMMA ChatInitHolds ==
    ASSUME ChatInit PROVE ChatInv
<1>1. ChatShape
  BY ChatAssumption DEF ChatInit, ChatShape, Stages
<1>2. PermitsCounted
  <2>1. {t \in Turns : stage[t] = "running"} = {}
    BY DEF ChatInit
  <2> QED
    BY <2>1, ChatAssumption, FS_EmptySet DEF ChatInit, PermitsCounted
<1>3. ASSUME NEW t \in Turns PROVE TurnInv(t)
  <2>1. sent[t] = <<>> /\ emitted[t] = 0 /\ queue[t] = <<>> /\ inHand[t] = 0 /\ pings[t] = 0
        /\ stage[t] = "new"
    BY DEF ChatInit
  <2>2. EventsIn(sent[t]) = {} /\ Number(t) = 0
    BY <2>1, FS_EmptySet DEF EventsIn, Number
  <2> QED
    BY <2>1, <2>2 DEF TurnInv, QueueRuns, Owed, Told, InOrder
<1> QED
  BY <1>1, <1>2, <1>3 DEF ChatInv

LEMMA ChatInvMeans ==
    ASSUME ChatInv PROVE ChatTypeOK /\ StreamTellsAll
<1>1. permits \in 0..MaxConcurrent
  <2>1. Cardinality({t \in Turns : stage[t] = "running"}) \in Nat
    BY FS_CardinalityType DEF ChatInv, PermitsCounted
  <2> QED
    BY <2>1, ChatAssumption DEF ChatInv, PermitsCounted
<1>2. ASSUME NEW t \in Turns
      PROVE  Len(queue[t]) <= MaxEvents /\ Len(sent[t]) <= MaxEvents + MaxPings + 3
  <2>1. /\ Number(t) \in Nat /\ Len(sent[t]) \in Nat /\ Len(queue[t]) \in Nat
        /\ emitted[t] \in 0..MaxEvents /\ pings[t] \in 0..MaxPings
    BY Counted DEF ChatInv, ChatShape
  <2>2. Len(queue[t]) <= emitted[t] /\ Number(t) <= emitted[t]
        /\ Len(sent[t]) <= Number(t) + pings[t] + (IF stage[t] = "new" THEN 0 ELSE 1)
                         + (IF stage[t] = "closed" THEN 2 ELSE 0)
    BY DEF ChatInv, TurnInv, QueueRuns, Told
  <2>3. Len(sent[t]) <= Number(t) + pings[t] + 3
    BY <2>1, <2>2
  <2> QED
    BY <2>1, <2>2, <2>3, ChatAssumption, SMTT(30)
<1>3. ChatTypeOK
  BY <1>1, <1>2 DEF ChatInv, ChatShape, ChatTypeOK
<1>4. StreamTellsAll
  BY DEF ChatInv, TurnInv, Told, Number, StreamTellsAll
<1> QED
  BY <1>3, <1>4

LEMMA ChatAlways == ChatSpec => []ChatInv
<1>1. ChatInit => ChatInv
  BY ChatInitHolds
<1>2. ChatInv /\ [ChatNext]_chatVars => ChatInv'
  BY ChatInvStep
<1> QED
  BY <1>1, <1>2, PTL DEF ChatSpec

\* The turns of the chat endpoints keep their types, for any number of them.
THEOREM ChatTyped == ChatSpec => []ChatTypeOK
<1>1. ChatInv => ChatTypeOK
  BY ChatInvMeans
<1> QED
  BY <1>1, ChatAlways, PTL

\* A client gets the events of its turn in their order and without a gap, a stream that says
\* how the turn ended has sent all of them, and "done" comes after the turn was recorded.
THEOREM ClientsAreTold == ChatSpec => []StreamTellsAll
<1>1. ChatInv => StreamTellsAll
  BY ChatInvMeans
<1> QED
  BY <1>1, ChatAlways, PTL

RunRecord == [phase : RunPhases, task : EvalTasks \cup {"nil"}, results : Seq(CallResult),
              status : FinalStatuses, refs : SUBSET Evidence, claimed : BOOLEAN,
              alone : BOOLEAN, success : BOOLEAN]

JudgedShape ==
    /\ rows \in [EvalTasks -> Seq(CallResult)]
    /\ settled \in [EvalTasks -> Nat]
    /\ ledger \in [EvalTasks -> SUBSET Evidence]
    /\ judged \in [TaskRuns -> RunRecord]
    /\ \A t \in EvalTasks : settled[t] <= Len(rows[t]) /\ Len(rows[t]) <= MaxRows

\* The run has not ended yet, or waits for its judgement.
Unjudged(r) == judged[r].phase \in {"working", "calling", "finished"}

\* The results of a run are among the calls of its session, and are all of them when no
\* other run called tools there.
ResultsStored(r) ==
    /\ Len(judged[r].results) <= MaxRows
    /\ Unjudged(r) =>
         /\ judged[r].task \in EvalTasks
         /\ Len(judged[r].results) <= Len(rows[judged[r].task])
         /\ Range(judged[r].results) \subseteq Range(rows[judged[r].task])
         /\ judged[r].alone => Range(rows[judged[r].task]) \subseteq Range(judged[r].results)

\* How a run's phase goes with what is known of it.
PhaseFits(r) ==
    /\ judged[r].phase = "new" => judged[r].results = <<>>
    /\ judged[r].phase \in {"new", "working", "calling"} => judged[r].status = "nil"
    /\ judged[r].phase = "calling" => judged[r].results # <<>>
    /\ judged[r].success => judged[r].phase = "judged"

\* Evidence comes from a stored call of its session.
LedgerShown ==
    \A t \in EvalTasks : \A e \in ledger[t] :
        /\ e.session = t
        /\ \E x \in Range(rows[t]) : e \in Extracted(t, x.call, x.out)

\* FinalsAreBacked and SuccessIsEarned for one run.
FinalBacked(r) ==
    judged[r].status = "final" =>
        /\ judged[r].task \in EvalTasks
        /\ judged[r].claimed => SomethingDone(judged[r].task)
        /\ \A e \in judged[r].refs :
             /\ e.session = judged[r].task
             /\ \E x \in Range(rows[judged[r].task]) : x.out = "ok" /\ SourceOf[x.call] = e.source

\* What SuccessIsEarned says of one run.
Earned(run) ==
    LET s    == run.results
        spec == SpecOf[run.task]
    IN  /\ \A i \in DOMAIN s : ~Succeeded(s[i].out) =>
             \E j \in DOMAIN s : j > i /\ SameTool(s, i, j) /\ Succeeded(s[j].out)
        /\ \A k \in spec.criteria : k.tool # Whatever => \E i \in DOMAIN s :
             ToolOf[s[i].call] = k.tool /\ Succeeded(s[i].out)
        /\ run.alone =>
             /\ Range(spec.required) \subseteq Range(ToolsOf(s))
             /\ spec.forbidden \cap Range(ToolsOf(s)) = {}
             /\ spec.calls \subseteq {s[i].call : i \in DOMAIN s}
             /\ \A k \in spec.criteria : k.source # Whatever => \E i \in DOMAIN s :
                  Named(s[i].call, s[i].out) = k.source
             /\ spec.verified => \E e \in run.refs, i \in DOMAIN s :
                  s[i].out = "ok" /\ SourceOf[s[i].call] = e.source

JudgedInv ==
    /\ JudgedShape
    /\ LedgerShown
    /\ \A r \in TaskRuns : ResultsStored(r) /\ PhaseFits(r) /\ FinalBacked(r)
    /\ \A r \in TaskRuns : judged[r].success => Earned(judged[r])

-----------------------------------------------------------------------------
\* One call more, at the end or somewhere in the middle.
LEMMA RangeAppend ==
    ASSUME NEW S, NEW s \in Seq(S), NEW x \in S
    PROVE  /\ Append(s, x) \in Seq(S) /\ Len(Append(s, x)) = Len(s) + 1 /\ Len(s) \in Nat
           /\ Range(Append(s, x)) = Range(s) \cup {x}
           /\ Append(s, x) # <<>>
<1> DEFINE r == Append(s, x)
<1>1. /\ r \in Seq(S) /\ Len(r) = Len(s) + 1 /\ Len(s) \in Nat /\ r # <<>>
      /\ DOMAIN r = 1..(Len(s) + 1) /\ DOMAIN s = 1..Len(s) /\ r[Len(s) + 1] = x
      /\ \A n \in 1..Len(s) : r[n] = s[n]
  BY AppendProperties, LenProperties
<1> HIDE DEF r
<1>2. Range(r) = Range(s) \cup {x}
  BY <1>1 DEF Range
<1> QED
  BY <1>1, <1>2 DEF r

LEMMA Concatenated ==
    ASSUME NEW S, NEW s \in Seq(S), NEW t \in Seq(S)
    PROVE  /\ s \o t \in Seq(S) /\ Len(s \o t) = Len(s) + Len(t)
           /\ \A k \in 1..Len(s) : (s \o t)[k] = s[k]
           /\ \A k \in 1..Len(t) : (s \o t)[Len(s) + k] = t[k]
<1> DEFINE r == s \o t
<1>1. PICK m \in Nat, n \in Nat : m = Len(s) /\ n = Len(t)
  BY LenProperties
<1>2. /\ r \in Seq(S) /\ Len(r) = m + n
      /\ \A k \in 1..(m + n) : r[k] = IF k <= m THEN s[k] ELSE t[k - m]
  BY <1>1, ConcatProperties
<1> HIDE DEF r
<1>3. \A k \in 1..m : k \in 1..(m + n) /\ k <= m
  OBVIOUS
<1>4. \A k \in 1..n : m + k \in 1..(m + n) /\ ~(m + k <= m) /\ (m + k) - m = k
  OBVIOUS
<1>5. \A k \in 1..n : r[m + k] = t[k]
  BY <1>2, <1>4
<1> QED
  BY <1>1, <1>2, <1>3, <1>5 DEF r

LEMMA RangeInserted ==
    ASSUME NEW S, NEW s \in Seq(S), NEW i \in 0..Len(s), NEW x \in S
    PROVE  /\ Inserted(s, i, x) \in Seq(S) /\ Len(Inserted(s, i, x)) = Len(s) + 1
           /\ Range(Inserted(s, i, x)) = Range(s) \cup {x}
<1>0. PICK L \in Nat : L = Len(s)
  BY LenProperties
<1> DEFINE a == SubSeq(s, 1, i)
           b == SubSeq(s, i + 1, L)
           c == a \o <<x>>
           r == c \o b
<1>1. DOMAIN s = 1..L /\ i \in Nat /\ i <= L
  BY <1>0, LenProperties
<1>2. \A k \in 1..L : s[k] \in S
  BY <1>0, ElementOfSeq
<1>3. /\ a \in Seq(S) /\ Len(a) = i
      /\ \A k \in 1..i : a[k] = s[k]
  <2>1. \A k \in 1..i : s[k] \in S
    BY <1>1, <1>2
  <2>2. (1 <= i => i - 1 + 1 = i) /\ (~(1 <= i) => i = 0)
    BY <1>1
  <2>3. \A k \in 1..i : k \in 1..(i - 1 + 1) /\ s[1 + k - 1] = s[k]
    BY <1>1
  <2> QED
    BY <1>1, <2>1, <2>2, <2>3, SubSeqProperties
<1>4. /\ b \in Seq(S) /\ Len(b) = L - i
      /\ \A k \in 1..(L - i) : b[k] = s[i + k]
  <2>1. \A k \in (i + 1)..L : s[k] \in S
    BY <1>1, <1>2
  <2>2. /\ i + 1 \in Int /\ L \in Int
        /\ (i + 1 <= L => L - (i + 1) + 1 = L - i)
        /\ (~(i + 1 <= L) => L - i = 0)
    BY <1>1
  <2>3. \A k \in 1..(L - i) : k \in 1..(L - (i + 1) + 1) /\ s[(i + 1) + k - 1] = s[i + k]
    BY <1>1
  <2> QED
    BY <2>1, <2>2, <2>3, SubSeqProperties
<1>5. /\ c \in Seq(S) /\ Len(c) = i + 1 /\ c[i + 1] = x
      /\ \A k \in 1..i : c[k] = s[k]
  <2> DEFINE z == <<x>>
  <2>1. z \in Seq(S) /\ Len(z) = 1 /\ z[1] = x
    OBVIOUS
  <2> HIDE DEF a, z
  <2>2. /\ a \o z \in Seq(S) /\ Len(a \o z) = i + 1
        /\ \A k \in 1..i : (a \o z)[k] = a[k]
        /\ \A k \in 1..1 : (a \o z)[i + k] = z[k]
    <3>1. /\ a \o z \in Seq(S) /\ Len(a \o z) = Len(a) + Len(z)
          /\ \A k \in 1..Len(a) : (a \o z)[k] = a[k]
          /\ \A k \in 1..Len(z) : (a \o z)[Len(a) + k] = z[k]
      <4>1. a \in Seq(S) /\ z \in Seq(S)
        BY <1>3, <2>1
      <4> QED
        <5>1. a \o z \in Seq(S)
          BY <4>1, Concatenated
        <5>2. Len(a \o z) = Len(a) + Len(z)
          BY <4>1, Concatenated
        <5>3. \A k \in 1..Len(a) : (a \o z)[k] = a[k]
          BY <4>1, Concatenated
        <5>4. \A k \in 1..Len(z) : (a \o z)[Len(a) + k] = z[k]
          BY <4>1, Concatenated
        <5> QED
          BY <5>1, <5>2, <5>3, <5>4
    <3> QED
      BY <1>3, <2>1, <3>1
  <2>4. (a \o z)[i + 1] = z[1]
    BY <2>2
  <2> QED
    BY <1>3, <2>1, <2>2, <2>4 DEF z
<1> HIDE DEF a, c, b
<1>6. /\ r \in Seq(S) /\ Len(r) = L + 1 /\ DOMAIN r = 1..(L + 1)
      /\ \A k \in 1..(i + 1) : r[k] = c[k]
      /\ \A k \in (i + 2)..(L + 1) : r[k] = s[k - 1]
  <2>1. /\ r \in Seq(S) /\ Len(r) = (i + 1) + (L - i)
        /\ \A k \in 1..(i + 1) : r[k] = c[k]
        /\ \A k \in 1..(L - i) : r[(i + 1) + k] = b[k]
    <3>1. /\ r \in Seq(S) /\ Len(r) = Len(c) + Len(b)
          /\ \A k \in 1..Len(c) : r[k] = c[k]
          /\ \A k \in 1..Len(b) : r[Len(c) + k] = b[k]
      <4>1. b \in Seq(S) /\ c \in Seq(S)
        BY <1>4, <1>5
      <4> QED
        <5>1. c \o b \in Seq(S)
          BY <4>1, Concatenated
        <5>2. Len(c \o b) = Len(c) + Len(b)
          BY <4>1, Concatenated
        <5>3. \A k \in 1..Len(c) : (c \o b)[k] = c[k]
          BY <4>1, Concatenated
        <5>4. \A k \in 1..Len(b) : (c \o b)[Len(c) + k] = b[k]
          BY <4>1, Concatenated
        <5> QED
          BY <5>1, <5>2, <5>3, <5>4
    <3> HIDE DEF r
    <3> QED
      BY <1>4, <1>5, <3>1
  <2>2. (i + 1) + (L - i) = L + 1
    BY <1>1
  <2>3. \A k \in (i + 2)..(L + 1) :
           /\ k - (i + 1) \in 1..(L - i) /\ i + (k - (i + 1)) = k - 1
           /\ (i + 1) + (k - (i + 1)) = k
    BY <1>1
  <2> HIDE DEF r
  <2>4. DOMAIN r = 1..(L + 1)
    BY <2>1, <2>2, LenProperties
  <2>5. ASSUME NEW k \in (i + 2)..(L + 1) PROVE r[k] = s[k - 1]
    <3>1. r[(i + 1) + (k - (i + 1))] = b[k - (i + 1)]
      BY <2>1, <2>3
    <3>2. b[k - (i + 1)] = s[i + (k - (i + 1))]
      BY <1>4, <2>3
    <3> QED
      BY <2>3, <3>1, <3>2
  <2> QED
    BY <2>1, <2>2, <2>4, <2>5
<1> HIDE DEF r
<1>7. Range(r) = Range(s) \cup {x}
  <2>1. ASSUME NEW k \in 1..(L + 1) PROVE r[k] \in Range(s) \cup {x}
    <3>1. k \in 1..i \/ k = i + 1 \/ k \in (i + 2)..(L + 1)
      BY <1>1
    <3>2. k \in (i + 2)..(L + 1) => k - 1 \in 1..L
      BY <1>1
    <3>3. k \in 1..i => k \in 1..L /\ k \in 1..(i + 1)
      BY <1>1
    <3>4. i + 1 \in 1..(i + 1)
      BY <1>1
    <3> QED
      BY <1>1, <1>5, <1>6, <3>1, <3>2, <3>3, <3>4 DEF Range
  <2>2. ASSUME NEW k \in 1..L PROVE s[k] \in Range(r)
    <3>1. CASE k <= i
      <4>1. k \in 1..i /\ k \in 1..(i + 1) /\ k \in 1..(L + 1)
        BY <1>1, <3>1
      <4> QED
        BY <1>5, <1>6, <4>1 DEF Range
    <3>2. CASE ~(k <= i)
      <4>1. k + 1 \in (i + 2)..(L + 1) /\ k + 1 \in 1..(L + 1) /\ (k + 1) - 1 = k
        BY <1>1, <3>2
      <4>2. r[k + 1] = s[k]
        BY <1>6, <4>1
      <4> QED
        BY <1>6, <4>1, <4>2 DEF Range
    <3> QED
      BY <3>1, <3>2
  <2>3. x \in Range(r)
    <3>1. i + 1 \in 1..(i + 1) /\ i + 1 \in 1..(L + 1)
      BY <1>1
    <3> QED
      BY <1>5, <1>6, <3>1 DEF Range
  <2>4. Range(r) = {r[k] : k \in 1..(L + 1)} /\ Range(s) = {s[k] : k \in 1..L}
    BY <1>1, <1>6 DEF Range
  <2> QED
    BY <2>1, <2>2, <2>3, <2>4
<1> QED
  BY <1>0, <1>6, <1>7 DEF r, c, a, b, Inserted

\* The required tools that were matched are among the tools.
LEMMA OrderContained ==
    ASSUME NEW S, NEW tools \in Seq(S), NEW required \in Seq(S), ContainsOrder(tools, required)
    PROVE  Range(required) \subseteq Range(tools)
<1> DEFINE n == Len(tools)
           m == Len(required)
           f == MatchedSoFar(tools, required)
<1>1. n \in Nat /\ m \in Nat /\ DOMAIN tools = 1..n /\ DOMAIN required = 1..m
  BY LenProperties
<1>2. PICK h \in [0..n -> 0..m] :
         /\ h[0] = 0
         /\ \A i \in 1..n : h[i] = IF h[i - 1] < m /\ tools[i] = required[h[i - 1] + 1]
                                   THEN h[i - 1] + 1 ELSE h[i - 1]
  <2> DEFINE g == [i \in 1..n |-> [k \in 0..m |->
                     IF k < m /\ tools[i] = required[k + 1] THEN k + 1 ELSE k]]
  <2>1. g \in [1..n -> [0..m -> 0..m]] /\ 0 \in 0..m
    BY <1>1
  <2>2. \A i \in 1..n, k \in 0..m :
           g[i][k] = IF k < m /\ tools[i] = required[k + 1] THEN k + 1 ELSE k
    OBVIOUS
  <2> HIDE DEF g
  <2>3. PICK h \in [0..n -> 0..m] : h[0] = 0 /\ \A i \in 1..n : h[i] = g[i][h[i - 1]]
    <3> HIDE DEF n, m
    <3> QED
      BY <1>1, <2>1, Counting
  <2>4. \A i \in 1..n : h[i - 1] \in 0..m
    BY <1>1
  <2>5. \A i \in 1..n : h[i] = IF h[i - 1] < m /\ tools[i] = required[h[i - 1] + 1]
                                THEN h[i - 1] + 1 ELSE h[i - 1]
    <3> TAKE i \in 1..n
    <3>1. h[i] = g[i][h[i - 1]] /\ h[i - 1] \in 0..m
      BY <2>3, <2>4
    <3> DEFINE k == h[i - 1]
    <3>2. k \in 0..m /\ g[i][k] = IF k < m /\ tools[i] = required[k + 1] THEN k + 1 ELSE k
      BY <2>2, <3>1
    <3> QED
      BY <3>1, <3>2
  <2> QED
    BY <2>3, <2>5
<1>3. h = [i \in 0..n |->
             IF i = 0 THEN 0
             ELSE IF h[i - 1] < m /\ tools[i] = required[h[i - 1] + 1]
             THEN h[i - 1] + 1
             ELSE h[i - 1]]
  BY <1>1, <1>2
<1>4. f = [i \in 0..n |->
             IF i = 0 THEN 0
             ELSE IF f[i - 1] < m /\ tools[i] = required[f[i - 1] + 1]
             THEN f[i - 1] + 1
             ELSE f[i - 1]]
  BY <1>3, Zenon DEF MatchedSoFar
<1> HIDE DEF f
<1>5. /\ f[0] = 0
      /\ \A i \in 1..n : f[i] = IF f[i - 1] < m /\ tools[i] = required[f[i - 1] + 1]
                                THEN f[i - 1] + 1 ELSE f[i - 1]
  <2>1. 0 \in 0..n /\ \A i \in 1..n : i \in 0..n /\ i # 0
    BY <1>1
  <2>2. \A i \in 0..n : f[i] = IF i = 0 THEN 0
             ELSE IF f[i - 1] < m /\ tools[i] = required[f[i - 1] + 1]
             THEN f[i - 1] + 1
             ELSE f[i - 1]
    BY <1>4, Zenon
  <2> QED
    BY <2>1, <2>2
<1> DEFINE T == {k \in 0..n : f[k] \in 0..m /\ \A j \in 1..f[k] : required[j] \in Range(tools)}
<1>6. 0 \in T
  BY <1>1, <1>5
<1>7. ASSUME NEW k \in 1..n, k - 1 \in T PROVE k \in T
  <2>1. f[k - 1] \in 0..m /\ \A j \in 1..f[k - 1] : required[j] \in Range(tools)
    BY <1>7
  <2>2. CASE f[k - 1] < m /\ tools[k] = required[f[k - 1] + 1]
    <3>1. f[k] = f[k - 1] + 1 /\ f[k] \in 0..m
      BY <1>1, <1>5, <2>1, <2>2
    <3>2. required[f[k]] \in Range(tools)
      BY <1>1, <2>2, <3>1 DEF Range
    <3>3. \A j \in 1..f[k] : j \in 1..f[k - 1] \/ j = f[k]
      BY <2>1, <3>1
    <3> QED
      BY <2>1, <3>1, <3>2, <3>3
  <2>3. CASE ~(f[k - 1] < m /\ tools[k] = required[f[k - 1] + 1])
    <3>1. f[k] = f[k - 1]
      BY <1>5, <2>3
    <3> QED
      BY <2>1, <3>1
  <2> QED
    BY <2>2, <2>3
<1>8. n \in T
  <2> HIDE DEF T
  <2>1. 0..n \subseteq T
    BY <1>1, <1>6, <1>7, Induction
  <2> QED
    BY <1>1, <2>1
<1>9. f[n] = m
  BY DEF ContainsOrder, f
<1> QED
  BY <1>1, <1>8, <1>9 DEF Range

\* A call that is stored is one more item of its session, and of no other.
LEMMA StoredMore ==
    ASSUME JudgedShape, NEW t \in EvalTasks, NEW x \in CallResult, Stored(t, x),
           Len(rows[t]) < MaxRows
    PROVE  /\ rows' \in [EvalTasks -> Seq(CallResult)]
           /\ settled' \in [EvalTasks -> Nat]
           /\ Len(rows'[t]) = Len(rows[t]) + 1
           /\ Range(rows'[t]) = Range(rows[t]) \cup {x}
           /\ \A u \in EvalTasks \ {t} : rows'[u] = rows[u]
           /\ \A u \in EvalTasks : settled'[u] <= Len(rows'[u]) /\ Len(rows'[u]) <= MaxRows
<1>1. /\ rows[t] \in Seq(CallResult) /\ Len(rows[t]) \in Nat /\ settled[t] \in Nat
      /\ settled[t] <= Len(rows[t]) /\ MaxRows \in Nat
  BY LenProperties, JudgedAssumption DEF JudgedShape
<1>2. CASE rows' = [rows EXCEPT ![t] = Append(@, x)] /\ settled' = [settled EXCEPT ![t] = Len(rows[t])]
  <2> DEFINE s == Append(rows[t], x)
  <2>1. s \in Seq(CallResult) /\ Len(s) = Len(rows[t]) + 1 /\ Range(s) = Range(rows[t]) \cup {x}
    BY <1>1, RangeAppend
  <2>2. rows' = [rows EXCEPT ![t] = s] /\ rows'[t] = s
    BY <1>2 DEF JudgedShape
  <2> HIDE DEF s
  <2>3. settled'[t] = Len(rows[t]) /\ settled' \in [EvalTasks -> Nat]
    BY <1>1, <1>2 DEF JudgedShape
  <2>4. rows' \in [EvalTasks -> Seq(CallResult)]
    BY <2>1, <2>2 DEF JudgedShape
  <2>5. settled'[t] <= Len(rows'[t]) /\ Len(rows'[t]) <= MaxRows
    BY <1>1, <2>1, <2>2, <2>3
  <2>6. \A u \in EvalTasks \ {t} : rows'[u] = rows[u] /\ settled'[u] = settled[u]
    BY <1>2, <2>2 DEF JudgedShape
  <2> QED
    BY <2>1, <2>2, <2>3, <2>4, <2>5, <2>6 DEF JudgedShape
<1>3. ASSUME NEW i \in settled[t]..Len(rows[t]), rows' = [rows EXCEPT ![t] = Inserted(@, i, x)],
             settled' = settled
      PROVE  /\ rows' \in [EvalTasks -> Seq(CallResult)]
             /\ Len(rows'[t]) = Len(rows[t]) + 1
             /\ Range(rows'[t]) = Range(rows[t]) \cup {x}
             /\ \A u \in EvalTasks \ {t} : rows'[u] = rows[u]
  <2> DEFINE s == Inserted(rows[t], i, x)
  <2>1. i \in 0..Len(rows[t])
    BY <1>1
  <2>2. s \in Seq(CallResult) /\ Len(s) = Len(rows[t]) + 1 /\ Range(s) = Range(rows[t]) \cup {x}
    <3>1. s \in Seq(CallResult)
      BY <1>1, <2>1, RangeInserted
    <3>2. Len(s) = Len(rows[t]) + 1
      BY <1>1, <2>1, RangeInserted
    <3>3. Range(s) = Range(rows[t]) \cup {x}
      BY <1>1, <2>1, RangeInserted
    <3> QED
      BY <3>1, <3>2, <3>3
  <2>3. rows' = [rows EXCEPT ![t] = s] /\ rows'[t] = s
    BY <1>3 DEF JudgedShape
  <2> HIDE DEF s
  <2> QED
    BY <2>2, <2>3 DEF JudgedShape
<1>4. CASE \E i \in settled[t]..Len(rows[t]) : rows' = [rows EXCEPT ![t] = Inserted(@, i, x)]
           /\ settled' = settled
  <2>1. /\ rows' \in [EvalTasks -> Seq(CallResult)]
        /\ Len(rows'[t]) = Len(rows[t]) + 1
        /\ Range(rows'[t]) = Range(rows[t]) \cup {x}
        /\ \A u \in EvalTasks \ {t} : rows'[u] = rows[u]
    BY <1>3, <1>4
  <2>2. settled'[t] <= Len(rows'[t]) /\ Len(rows'[t]) <= MaxRows /\ settled' = settled
    BY <1>1, <1>4, <2>1
  <2> QED
    BY <2>1, <2>2 DEF JudgedShape
<1> QED
  BY <1>2, <1>4 DEF Stored

\* While a call is allowed, no session has its fill of calls.
LEMMA RoomLeft ==
    ASSUME JudgedShape, NEW r \in TaskRuns, CanCall(r), NEW t \in EvalTasks
    PROVE  Len(rows[t]) < MaxRows
<1> DEFINE Z == {x \in EvalTasks \X (1..MaxRows) : x[2] \in DOMAIN rows[x[1]]}
           W == {t} \X (1..MaxRows)
<1>1. MaxRows \in Nat /\ Len(rows[t]) \in Nat /\ Len(rows[t]) <= MaxRows /\ DOMAIN rows[t] = 1..Len(rows[t])
  BY LenProperties, JudgedAssumption DEF JudgedShape
<1>2. IsFiniteSet(1..MaxRows) /\ Cardinality(1..MaxRows) = MaxRows
  BY <1>1, FS_Interval
<1>3. IsFiniteSet(Z) /\ Cardinality(Z) \in Nat
  <2>1. IsFiniteSet(EvalTasks \X (1..MaxRows))
    BY <1>2, FS_Product, JudgedAssumption
  <2> QED
    BY <2>1, FS_Subset, FS_CardinalityType
<1>4. Cardinality(W) = MaxRows
  <2>1. IsFiniteSet({t}) /\ Cardinality({t}) = 1
    BY FS_Singleton
  <2>2. Cardinality(W) = Cardinality({t}) * Cardinality(1..MaxRows)
    BY <1>2, <2>1, FS_Product
  <2> QED
    BY <1>1, <1>2, <2>1, <2>2
<1>5. Cardinality(Z) < MaxRows
  BY DEF CanCall
<1>6. CASE Len(rows[t]) = MaxRows
  <2>1. W \subseteq Z
    BY <1>1, <1>6
  <2> HIDE DEF W, Z
  <2>2. Cardinality(W) <= Cardinality(Z)
    BY <1>3, <2>1, FS_Subset
  <2> QED
    BY <1>1, <1>3, <1>4, <1>5, <2>2
<1> QED
  BY <1>1, <1>6

\* What a call shows is evidence of its session.
LEMMA ShownIsEvidence ==
    ASSUME NEW t \in EvalTasks, NEW x \in CallResult
    PROVE  /\ Extracted(t, x.call, x.out) \subseteq Evidence
           /\ \A e \in Extracted(t, x.call, x.out) :
                /\ e.session = t
                /\ e.good <=> Succeeded(x.out)
                /\ e.source = Named(x.call, x.out)
<1>1. x.call \in ToolCalls /\ ToolOf[x.call] \in Tools /\ SourceOf[x.call] \in Sources
  BY DEF CallResult, Tools, Sources
<1>2. KindOf[ToolOf[x.call]] \in ToolKinds
  BY <1>1, JudgedAssumption
<1>3. Named(x.call, x.out) \in Sources /\ Succeeded(x.out) \in BOOLEAN
  BY <1>1 DEF Named, Sources, Succeeded
<1> QED
  BY <1>2, <1>3 DEF Extracted, Evidence, ToolKinds, Types

\* Nothing that was stored in a session goes away.
RowsGrow == \A t \in EvalTasks : Range(rows[t]) \subseteq Range(rows'[t])

LEMMA DoneIsDone ==
    ASSUME NEW t \in EvalTasks, rows[t] \in Seq(CallResult)
    PROVE  SomethingDone(t) <=> \E x \in Range(rows[t]) : Succeeded(x.out)
BY DEF SomethingDone, Range

LEMMA DoneStaysDone ==
    ASSUME RowsGrow, NEW t \in EvalTasks, SomethingDone(t)
    PROVE  SomethingDone(t)'
<1>1. PICK i \in DOMAIN rows[t] : Succeeded(rows[t][i].out)
  BY DEF SomethingDone
<1>2. rows[t][i] \in Range(rows'[t])
  BY DEF RowsGrow, Range
<1>3. PICK j \in DOMAIN rows'[t] : rows'[t][j] = rows[t][i]
  BY <1>2 DEF Range
<1> QED
  BY <1>1, <1>3 DEF SomethingDone

\* A run whose answer has not changed stays backed, and a success earned.
LEMMA FinalStaysBacked ==
    ASSUME RowsGrow, NEW r \in TaskRuns, FinalBacked(r),
           judged'[r].status = judged[r].status, judged'[r].task = judged[r].task,
           judged'[r].refs = judged[r].refs, judged'[r].claimed = judged[r].claimed
    PROVE  FinalBacked(r)'
<1>1. ASSUME judged[r].status = "final", NEW e \in judged[r].refs
      PROVE  e.session = judged[r].task
             /\ \E x \in Range(rows'[judged[r].task]) : x.out = "ok" /\ SourceOf[x.call] = e.source
  BY <1>1 DEF FinalBacked, RowsGrow
<1>2. judged[r].status = "final" /\ judged[r].claimed => SomethingDone(judged[r].task)'
  BY DoneStaysDone DEF FinalBacked
<1> QED
  BY <1>1, <1>2 DEF FinalBacked

LEMMA StaysEarned ==
    ASSUME NEW run, NEW next, Earned(run), next.results = run.results, next.task = run.task,
           next.refs = run.refs, next.alone => run.alone
    PROVE  Earned(next)
BY DEF Earned

LEMMA LedgerStaysShown ==
    ASSUME RowsGrow, LedgerShown, ledger' = ledger
    PROVE  LedgerShown'
BY DEF LedgerShown, RowsGrow

-----------------------------------------------------------------------------
\* The steps.

LEMMA CallStep ==
    ASSUME JudgedInv, NEW r \in TaskRuns, CanCall(r), NEW x \in CallResult,
           NEW phase \in {"working", "calling"}, Stored(judged[r].task, x),
           WithResult(r, x, phase), ledger' = ledger
    PROVE  JudgedInv'
<1> DEFINE t == judged[r].task
           old == judged[r].results
<1>1. /\ JudgedShape /\ LedgerShown /\ judged[r].phase = "working" /\ judged[r] \in RunRecord
      /\ ResultsStored(r) /\ PhaseFits(r) /\ Unjudged(r)
  BY DEF JudgedInv, CanCall, JudgedShape, Unjudged
<1>2. t \in EvalTasks /\ judged[r].status = "nil" /\ ~judged[r].success
  BY <1>1 DEF ResultsStored, PhaseFits
<1>3. /\ rows' \in [EvalTasks -> Seq(CallResult)]
      /\ settled' \in [EvalTasks -> Nat]
      /\ Len(rows'[t]) = Len(rows[t]) + 1
      /\ Range(rows'[t]) = Range(rows[t]) \cup {x}
      /\ \A u \in EvalTasks \ {t} : rows'[u] = rows[u]
      /\ \A u \in EvalTasks : settled'[u] <= Len(rows'[u]) /\ Len(rows'[u]) <= MaxRows
  BY <1>1, <1>2, RoomLeft, StoredMore
<1>4. RowsGrow
  BY <1>2, <1>3 DEF RowsGrow
<1>5. /\ old \in Seq(CallResult) /\ Append(old, x) \in Seq(CallResult)
      /\ Len(Append(old, x)) = Len(old) + 1 /\ Len(old) \in Nat
      /\ Range(Append(old, x)) = Range(old) \cup {x} /\ Append(old, x) # <<>>
  <2>1. old \in Seq(CallResult)
    BY <1>1 DEF RunRecord
  <2> QED
    BY <2>1, RangeAppend
<1>6. judged'[r] = [judged[r] EXCEPT !.results = Append(old, x), !.phase = phase]
  BY <1>1 DEF WithResult, Touched, JudgedShape, RunRecord
<1>7. /\ judged'[r].results = Append(old, x) /\ judged'[r].phase = phase
      /\ judged'[r].task = t /\ judged'[r].status = "nil" /\ judged'[r].success = FALSE
      /\ judged'[r].alone = judged[r].alone
      /\ judged'[r] \in RunRecord
  BY <1>1, <1>2, <1>5, <1>6 DEF RunRecord, RunPhases
<1>8. ASSUME NEW q \in TaskRuns \ {r}
      PROVE  /\ judged'[q] \in RunRecord
             /\ judged'[q].phase = judged[q].phase /\ judged'[q].task = judged[q].task
             /\ judged'[q].results = judged[q].results /\ judged'[q].status = judged[q].status
             /\ judged'[q].refs = judged[q].refs /\ judged'[q].claimed = judged[q].claimed
             /\ judged'[q].success = judged[q].success
             /\ judged'[q].alone => judged[q].alone /\ judged[q].task # t
             /\ judged'[q] = judged[q] \/ judged[q].task = t
  <2>1. judged'[q] = Touched(r)[q] /\ judged[q] \in RunRecord
    BY <1>1, <1>8 DEF WithResult, Touched, JudgedShape
  <2>2. CASE judged[q].task = t
    <3>1. judged'[q] = [judged[q] EXCEPT !.alone = FALSE]
      BY <2>1, <2>2, <1>8 DEF Touched
    <3> QED
      BY <2>1, <2>2, <3>1 DEF RunRecord
  <2>3. CASE judged[q].task # t
    BY <2>1, <2>3, <1>8 DEF Touched
  <2> QED
    BY <2>2, <2>3
<1>9. JudgedShape'
  <2>1. judged' \in [TaskRuns -> RunRecord]
    <3>1. judged' = [Touched(r) EXCEPT ![r].results = Append(@, x), ![r].phase = phase]
      BY DEF WithResult
    <3>2. DOMAIN judged' = TaskRuns /\ judged' = [q \in TaskRuns |-> judged'[q]]
      BY <3>1 DEF Touched
    <3>3. \A q \in TaskRuns : judged'[q] \in RunRecord
      BY <1>7, <1>8
    <3> QED
      BY <3>2, <3>3
  <2>2. ledger' \in [EvalTasks -> SUBSET Evidence]
    BY <1>1 DEF JudgedShape
  <2> QED
    BY <1>3, <2>1, <2>2 DEF JudgedShape
<1>10. LedgerShown'
  BY <1>1, <1>4, LedgerStaysShown
<1>11. ResultsStored(r)' /\ PhaseFits(r)' /\ FinalBacked(r)'
  <2>1. Len(old) + 1 <= Len(rows[t]) + 1 /\ Len(rows[t]) + 1 <= MaxRows
    BY <1>1, <1>2, <1>3, <1>5, LenProperties DEF ResultsStored, JudgedShape
  <2>2. Len(judged'[r].results) <= MaxRows /\ Len(judged'[r].results) <= Len(rows'[t])
    <3>1. Len(rows[t]) \in Nat /\ MaxRows \in Nat
      BY <1>1, <1>2, LenProperties, JudgedAssumption DEF JudgedShape
    <3> QED
      BY <1>3, <1>5, <1>7, <2>1, <3>1
  <2>3. ResultsStored(r)'
    BY <1>1, <1>2, <1>3, <1>5, <1>7, <2>2 DEF ResultsStored
  <2> QED
    BY <1>5, <1>7, <2>3 DEF PhaseFits, FinalBacked
<1>12. ASSUME NEW q \in TaskRuns \ {r}
       PROVE  /\ ResultsStored(q)' /\ PhaseFits(q)' /\ FinalBacked(q)'
              /\ judged'[q].success => Earned(judged'[q])
  <2>1. ResultsStored(q) /\ PhaseFits(q) /\ FinalBacked(q) /\ (judged[q].success => Earned(judged[q]))
    BY DEF JudgedInv
  <2>2. FinalBacked(q)'
    BY <1>4, <1>8, <2>1, FinalStaysBacked
  <2>3. judged'[q].success => Earned(judged'[q])
    BY <1>8, <2>1, StaysEarned
  <2>4. PhaseFits(q)'
    BY <1>8, <2>1 DEF PhaseFits
  <2>5. ResultsStored(q)'
    <3>1. CASE Unjudged(q)
      <4>1. judged[q].task \in EvalTasks /\ Len(judged[q].results) \in Nat
            /\ Len(rows[judged[q].task]) \in Nat
        <5>1. judged[q].results \in Seq(CallResult)
          BY <1>1 DEF JudgedShape, RunRecord
        <5> QED
          BY <1>1, <2>1, <3>1, <5>1, LenProperties DEF ResultsStored, JudgedShape
      <4>2. CASE judged[q].task = t
        <5>1. Len(judged[q].results) <= Len(rows'[t])
          <6>1. Len(judged[q].results) <= Len(rows[t]) /\ Len(rows[t]) \in Nat
            BY <2>1, <3>1, <4>1, <4>2 DEF ResultsStored
          <6> QED
            BY <1>3, <4>1, <6>1
        <5>2. Range(judged[q].results) \subseteq Range(rows'[t]) /\ judged'[q].alone = FALSE
          <6>1. Range(judged[q].results) \subseteq Range(rows[t])
            BY <2>1, <3>1, <4>2 DEF ResultsStored
          <6>2. judged'[q].alone \in BOOLEAN
            BY <1>8 DEF RunRecord
          <6> QED
            BY <1>3, <1>8, <4>2, <6>1, <6>2
        <5>3. judged'[q].task = t /\ judged'[q].results = judged[q].results
              /\ Len(judged[q].results) <= MaxRows
          BY <1>8, <2>1, <4>2 DEF ResultsStored
        <5> QED
          BY <1>2, <5>1, <5>2, <5>3 DEF ResultsStored
      <4>3. CASE judged[q].task # t
        BY <1>3, <1>8, <2>1, <3>1, <4>1, <4>3 DEF ResultsStored
      <4> QED
        BY <4>2, <4>3
    <3>2. CASE ~Unjudged(q)
      BY <1>8, <2>1, <3>2 DEF ResultsStored, Unjudged
    <3> QED
      BY <3>1, <3>2
  <2> QED
    BY <2>2, <2>3, <2>4, <2>5
<1> QED
  BY <1>7, <1>9, <1>10, <1>11, <1>12 DEF JudgedInv

\* A run that a step does not touch.
LEMMA SameRun ==
    ASSUME JudgedInv, NEW q \in TaskRuns, judged'[q] = judged[q], rows' = rows
    PROVE  /\ ResultsStored(q)' /\ PhaseFits(q)' /\ FinalBacked(q)'
           /\ judged'[q].success => Earned(judged'[q])
<1>1. ResultsStored(q)'
  BY DEF JudgedInv, ResultsStored, Unjudged
<1>2. PhaseFits(q)'
  BY DEF JudgedInv, PhaseFits
<1>3. FinalBacked(q)'
  BY DEF JudgedInv, FinalBacked, SomethingDone
<1> QED
  BY <1>1, <1>2, <1>3 DEF JudgedInv

LEMMA BeginStep ==
    ASSUME JudgedInv, NEW r \in TaskRuns, NEW t \in EvalTasks, BeginTask(r, t)
    PROVE  JudgedInv'
<1>1. /\ JudgedShape /\ judged[r] \in RunRecord /\ judged[r].phase = "new" /\ ResultsStored(r) /\ PhaseFits(r)
  BY DEF JudgedInv, BeginTask, JudgedShape
<1>2. judged' = [judged EXCEPT ![r] = [judged[r] EXCEPT !.phase = "working", !.task = t,
                                                       !.alone = (rows[t] = <<>>)]]
      /\ UNCHANGED <<rows, settled, ledger>>
  BY <1>1 DEF BeginTask, JudgedShape, RunRecord
<1>3. /\ judged'[r] \in RunRecord /\ judged'[r].phase = "working" /\ judged'[r].task = t
      /\ judged'[r].alone = (rows[t] = <<>>) /\ judged'[r].results = <<>>
      /\ judged'[r].status = "nil" /\ judged'[r].success = judged[r].success
      /\ judged[r].success = FALSE
  BY <1>1, <1>2 DEF JudgedShape, RunRecord, RunPhases, PhaseFits
<1>4. \A q \in TaskRuns \ {r} : judged'[q] = judged[q]
  BY <1>1, <1>2 DEF JudgedShape
<1>5. JudgedShape' /\ LedgerShown'
  BY <1>1, <1>2, <1>3, <1>4 DEF JudgedInv, JudgedShape, LedgerShown
<1>6. ResultsStored(r)'
  <2>1. Len(<<>>) = 0 /\ Range(<<>>) = {} /\ rows'[t] = rows[t] /\ Len(rows[t]) \in Nat /\ MaxRows \in Nat
    BY <1>1, <1>2, LenProperties, JudgedAssumption DEF Range, JudgedShape
  <2>2. 0 <= MaxRows /\ 0 <= Len(rows[t])
    BY <2>1
  <2> QED
    BY <1>3, <2>1, <2>2 DEF ResultsStored
<1>7. PhaseFits(r)' /\ FinalBacked(r)'
  BY <1>3 DEF PhaseFits, FinalBacked
<1>8. ASSUME NEW q \in TaskRuns \ {r}
      PROVE  /\ ResultsStored(q)' /\ PhaseFits(q)' /\ FinalBacked(q)'
             /\ judged'[q].success => Earned(judged'[q])
  BY <1>2, <1>4, SameRun
<1> QED
  BY <1>3, <1>5, <1>6, <1>7, <1>8 DEF JudgedInv

LEMMA EvidenceStep ==
    ASSUME JudgedInv, NEW r \in TaskRuns, RecordEvidence(r)
    PROVE  JudgedInv'
<1> DEFINE t == judged[r].task
           s == judged[r].results
           x == s[Len(s)]
<1>1. /\ JudgedShape /\ LedgerShown /\ judged[r] \in RunRecord /\ judged[r].phase = "calling"
      /\ ResultsStored(r) /\ PhaseFits(r) /\ FinalBacked(r) /\ Unjudged(r)
  BY DEF JudgedInv, RecordEvidence, JudgedShape, Unjudged
<1>2. /\ t \in EvalTasks /\ s \in Seq(CallResult) /\ s # <<>>
      /\ Range(s) \subseteq Range(rows[t])
  BY <1>1 DEF ResultsStored, PhaseFits, RunRecord
<1>3. x \in CallResult /\ x \in Range(rows[t])
  <2>1. Len(s) \in Nat \ {0} /\ DOMAIN s = 1..Len(s)
    BY <1>2, EmptySeq, LenProperties
  <2>2. Len(s) \in 1..Len(s)
    BY <2>1
  <2>3. x \in Range(s) /\ x \in CallResult
    BY <1>2, <2>1, <2>2, ElementOfSeq DEF Range
  <2> QED
    BY <1>2, <2>3
<1>4. /\ ledger' = [ledger EXCEPT ![t] = @ \cup Extracted(t, x.call, x.out)]
      /\ judged' = [judged EXCEPT ![r].phase = "working"]
      /\ UNCHANGED <<rows, settled>>
  BY DEF RecordEvidence
<1>5. judged'[r] = [judged[r] EXCEPT !.phase = "working"]
      /\ \A q \in TaskRuns \ {r} : judged'[q] = judged[q]
  BY <1>1, <1>4 DEF JudgedShape
<1>6. /\ judged'[r] \in RunRecord /\ judged'[r].phase = "working" /\ judged'[r].task = t
      /\ judged'[r].alone = judged[r].alone /\ judged'[r].results = s
      /\ judged'[r].status = judged[r].status /\ judged'[r].success = judged[r].success
  BY <1>1, <1>5 DEF RunRecord, RunPhases
<1> HIDE DEF x, s
<1>7. ledger'[t] = ledger[t] \cup Extracted(t, x.call, x.out)
      /\ \A u \in EvalTasks \ {t} : ledger'[u] = ledger[u]
  BY <1>1, <1>2, <1>4 DEF JudgedShape
<1>8. /\ Extracted(t, x.call, x.out) \subseteq Evidence
      /\ \A e \in Extracted(t, x.call, x.out) : e.session = t
  BY <1>2, <1>3, ShownIsEvidence
<1>9. JudgedShape'
  <2>1. ledger' \in [EvalTasks -> SUBSET Evidence]
    BY <1>1, <1>2, <1>4, <1>8 DEF JudgedShape
  <2>2. judged' \in [TaskRuns -> RunRecord]
    BY <1>1, <1>4, <1>5, <1>6 DEF JudgedShape
  <2> QED
    BY <1>1, <1>4, <2>1, <2>2 DEF JudgedShape
<1>10. LedgerShown'
  <2>1. ASSUME NEW u \in EvalTasks, NEW e \in ledger'[u]
        PROVE  e.session = u /\ \E y \in Range(rows[u]) : e \in Extracted(u, y.call, y.out)
    <3>1. CASE e \in ledger[u]
      BY <1>1, <3>1 DEF LedgerShown
    <3>2. CASE e \notin ledger[u]
      <4>1. u = t /\ e \in Extracted(t, x.call, x.out)
        BY <1>7, <2>1, <3>2
      <4> QED
        BY <1>3, <1>8, <4>1
    <3> QED
      BY <3>1, <3>2
  <2> QED
    BY <1>4, <2>1 DEF LedgerShown
<1>11. ResultsStored(r)' /\ PhaseFits(r)'
  BY <1>1, <1>2, <1>4, <1>6 DEF ResultsStored, PhaseFits, Unjudged, s
<1>12. FinalBacked(r)' /\ ~judged'[r].success
  BY <1>1, <1>6 DEF FinalBacked, PhaseFits
<1>13. ASSUME NEW q \in TaskRuns \ {r}
       PROVE  /\ ResultsStored(q)' /\ PhaseFits(q)' /\ FinalBacked(q)'
              /\ judged'[q].success => Earned(judged'[q])
  BY <1>4, <1>5, SameRun
<1> QED
  BY <1>9, <1>10, <1>11, <1>12, <1>13 DEF JudgedInv

\* A step that only changes the record of one run.
LEMMA RunSteps ==
    ASSUME JudgedInv, NEW r \in TaskRuns, NEW run \in RunRecord,
           judged' = [judged EXCEPT ![r] = run], UNCHANGED <<rows, settled, ledger>>,
           ResultsStored(r)', PhaseFits(r)', FinalBacked(r)', run.success => Earned(run)
    PROVE  JudgedInv'
<1>1. JudgedShape /\ LedgerShown
  BY DEF JudgedInv
<1>2. judged'[r] = run /\ \A q \in TaskRuns \ {r} : judged'[q] = judged[q]
  BY <1>1 DEF JudgedShape
<1>3. JudgedShape' /\ LedgerShown'
  BY <1>1, <1>2 DEF JudgedShape, LedgerShown
<1>4. ASSUME NEW q \in TaskRuns \ {r}
      PROVE  /\ ResultsStored(q)' /\ PhaseFits(q)' /\ FinalBacked(q)'
             /\ judged'[q].success => Earned(judged'[q])
  BY <1>2, SameRun
<1> QED
  BY <1>2, <1>3, <1>4 DEF JudgedInv

LEMMA EmptyRun ==
    ASSUME MaxRows \in Nat, NEW phase \in RunPhases \ {"calling", "working", "finished"}
    PROVE  LET run == [NoRun EXCEPT !.phase = phase] IN
           /\ run \in RunRecord /\ run.phase = phase /\ run.status = "nil" /\ run.results = <<>>
           /\ run.success = FALSE /\ Len(run.results) = 0
  BY EmptySeq DEF NoRun, RunRecord, FinalStatuses

LEMMA EmptyStep ==
    ASSUME JudgedInv, NEW r \in TaskRuns, NEW phase \in {"judged", "dead"},
           judged' = [judged EXCEPT ![r] = [NoRun EXCEPT !.phase = phase]],
           UNCHANGED <<rows, settled, ledger>>
    PROVE  JudgedInv'
<1> DEFINE run == [NoRun EXCEPT !.phase = phase]
<1>1. /\ run \in RunRecord /\ run.phase = phase /\ run.status = "nil" /\ run.results = <<>>
      /\ run.success = FALSE /\ Len(run.results) = 0 /\ MaxRows \in Nat
  BY EmptyRun, JudgedAssumption DEF RunPhases
<1> HIDE DEF run
<1>2. judged' = [judged EXCEPT ![r] = run] /\ judged'[r] = run
  BY DEF run, JudgedInv, JudgedShape
<1>3. ResultsStored(r)' /\ PhaseFits(r)' /\ FinalBacked(r)'
  <2>1. Len(judged'[r].results) <= MaxRows /\ judged'[r].phase \notin {"working", "calling", "finished"}
    <3>1. Len(run.results) <= MaxRows
      BY <1>1
    <3> QED
      BY <1>1, <1>2, <3>1
  <2>2. ResultsStored(r)'
    BY <2>1 DEF ResultsStored, Unjudged
  <2>3. PhaseFits(r)' /\ FinalBacked(r)'
    BY <1>1, <1>2 DEF PhaseFits, FinalBacked
  <2> QED
    BY <2>2, <2>3
<1> QED
  BY <1>1, <1>2, <1>3, RunSteps

\* A claim that is supported has a successful call behind it.
LEMMA SupportMeansDone ==
    ASSUME JudgedInv, NEW r \in TaskRuns, judged[r].phase = "working", NEW claim, NEW words,
           Supported(r, claim, words)
    PROVE  SomethingDone(judged[r].task)
<1> DEFINE t == judged[r].task
<1>1. /\ t \in EvalTasks /\ rows[t] \in Seq(CallResult)
      /\ Range(judged[r].results) \subseteq Range(rows[t]) /\ LedgerShown
  BY DEF JudgedInv, ResultsStored, Unjudged, JudgedShape
<1>2. ASSUME NEW e \in ledger[t], e.good PROVE SomethingDone(t)
  <2>1. PICK x \in Range(rows[t]) : e \in Extracted(t, x.call, x.out)
    BY <1>1, <1>2 DEF LedgerShown
  <2>2. x \in CallResult
    BY <1>1, <2>1 DEF Range
  <2>3. Succeeded(x.out)
    BY <1>1, <1>2, <2>1, <2>2, ShownIsEvidence
  <2> QED
    BY <1>1, <2>1, <2>3, DoneIsDone
<1>3. ASSUME Successful(r) # {} PROVE SomethingDone(t)
  <2>1. PICK i \in DOMAIN judged[r].results : Succeeded(judged[r].results[i].out)
    BY <1>3 DEF Successful
  <2>2. judged[r].results[i] \in Range(rows[t])
    BY <1>1 DEF Range
  <2> QED
    BY <1>1, <2>1, <2>2, DoneIsDone
<1>4. Successful(r) # {} \/ \E e \in ledger[t] : e.good
  BY DEF Supported, Did, Listed
<1> QED
  BY <1>2, <1>3, <1>4

LEMMA AnswerStep ==
    ASSUME JudgedInv, NEW r \in TaskRuns, NotFinal(r) \/ FinalAnswer(r)
    PROVE  JudgedInv'
<1> DEFINE t == judged[r].task
<1>1. /\ JudgedShape /\ judged[r] \in RunRecord /\ judged[r].phase = "working"
      /\ ResultsStored(r) /\ PhaseFits(r) /\ LedgerShown /\ UNCHANGED <<rows, settled, ledger>>
  BY DEF JudgedInv, NotFinal, FinalAnswer, JudgedShape
<1>2. t \in EvalTasks /\ rows[t] \in Seq(CallResult) /\ ~judged[r].success
  BY <1>1 DEF ResultsStored, Unjudged, PhaseFits, JudgedShape
<1>3. ASSUME NEW status \in FinalStatuses, NEW refs \in SUBSET Evidence, NEW claimed \in BOOLEAN,
             judged' = [judged EXCEPT ![r].phase = "finished", ![r].status = status,
                                      ![r].refs = refs, ![r].claimed = claimed],
             status = "final" =>
                /\ claimed => SomethingDone(t)
                /\ \A e \in refs :
                     /\ e.session = t
                     /\ \E x \in Range(rows[t]) : x.out = "ok" /\ SourceOf[x.call] = e.source
      PROVE  JudgedInv'
  <2> DEFINE run == [judged[r] EXCEPT !.phase = "finished", !.status = status, !.refs = refs,
                                      !.claimed = claimed]
  <2>1. judged' = [judged EXCEPT ![r] = run] /\ judged'[r] = run
    BY <1>1, <1>3 DEF JudgedShape, RunRecord
  <2>2. /\ run \in RunRecord /\ run.phase = "finished" /\ run.status = status /\ run.refs = refs
        /\ run.claimed = claimed /\ run.task = t /\ run.results = judged[r].results
        /\ run.alone = judged[r].alone /\ ~run.success
    BY <1>1, <1>2, <1>3 DEF RunRecord, RunPhases
  <2> HIDE DEF run
  <2>3. ResultsStored(r)'
    BY <1>1, <2>1, <2>2 DEF ResultsStored, Unjudged
  <2>4. PhaseFits(r)'
    BY <2>1, <2>2 DEF PhaseFits
  <2>5. FinalBacked(r)'
    <3>1. SomethingDone(t) => SomethingDone(t)'
      <4>1. rows' = rows
        BY <1>1
      <4> HIDE DEF t
      <4>2. t' = t
        BY <2>1, <2>2 DEF t
      <4> QED
        BY <4>1, <4>2 DEF SomethingDone
    <3> QED
      BY <1>1, <1>2, <1>3, <2>1, <2>2, <3>1 DEF FinalBacked
  <2> QED
    BY <1>1, <2>1, <2>2, <2>3, <2>4, <2>5, RunSteps
<1>4. ASSUME NEW status \in {"blocked", "needs_more_work"},
             judged' = [judged EXCEPT ![r].phase = "finished", ![r].status = status]
      PROVE  JudgedInv'
  <2>1. judged' = [judged EXCEPT ![r].phase = "finished", ![r].status = status,
                                 ![r].refs = judged[r].refs, ![r].claimed = judged[r].claimed]
    BY <1>1, <1>4 DEF JudgedShape, RunRecord
  <2>2. judged[r].refs \in SUBSET Evidence /\ judged[r].claimed \in BOOLEAN
    BY <1>1 DEF RunRecord
  <2> QED
    BY <1>3, <2>1, <2>2 DEF FinalStatuses
<1>5. CASE NotFinal(r)
  BY <1>4, <1>5 DEF NotFinal
<1>6. CASE FinalAnswer(r)
  <2>1. PICK refs \in SUBSET UNION {ledger[u] : u \in EvalTasks},
             claims \in {{}} \cup {{c} : c \in Claims}, found \in BOOLEAN :
         judged' = IF Validated(r, refs, claims, IF found THEN claims ELSE {})
                   THEN [judged EXCEPT ![r].phase = "finished", ![r].status = "final",
                                       ![r].refs = refs, ![r].claimed = claims # {}]
                   ELSE [judged EXCEPT ![r].phase = "finished", ![r].status = "blocked"]
    BY <1>6 DEF FinalAnswer
  <2>2. CASE ~Validated(r, refs, claims, IF found THEN claims ELSE {})
    BY <1>4, <2>1, <2>2
  <2>3. CASE Validated(r, refs, claims, IF found THEN claims ELSE {})
    <3>1. judged' = [judged EXCEPT ![r].phase = "finished", ![r].status = "final",
                                       ![r].refs = refs, ![r].claimed = (claims # {})]
      BY <2>1, <2>3
    <3>2. refs \subseteq ledger[t] /\ refs \in SUBSET Evidence
      BY <1>1, <1>2, <2>3 DEF Validated, Listed, JudgedShape
    <3>3. ASSUME NEW e \in refs
          PROVE  e.session = t /\ \E x \in Range(rows[t]) : x.out = "ok" /\ SourceOf[x.call] = e.source
      <4>1. PICK i \in DOMAIN rows[t] : rows[t][i].out = "ok" /\ SourceOf[rows[t][i].call] = e.source
        BY <2>3 DEF Validated, Resolves
      <4>2. rows[t][i] \in Range(rows[t])
        BY DEF Range
      <4> QED
        BY <1>1, <1>2, <3>2, <4>1, <4>2 DEF LedgerShown
    <3>4. ASSUME claims # {} PROVE SomethingDone(t)
      <4>1. PICK c \in claims : Supported(r, c, IF found THEN claims ELSE {})
        BY <2>3, <3>4 DEF Validated
      <4> QED
        BY <1>1, <4>1, SupportMeansDone
    <3>5. "final" \in FinalStatuses /\ (claims # {}) \in BOOLEAN
      BY DEF FinalStatuses
    <3> QED
      BY <1>3, <3>1, <3>2, <3>3, <3>4, <3>5
  <2> QED
    BY <2>2, <2>3
<1> QED
  BY <1>5, <1>6

LEMMA PassesAreEarned ==
    ASSUME JudgedInv, NEW r \in TaskRuns, judged[r].phase = "finished", Passes(r)
    PROVE  Earned(judged[r])
<1> DEFINE s == judged[r].results
           t == judged[r].task
           spec == SpecOf[t]
<1>1. /\ t \in EvalTasks /\ s \in Seq(CallResult) /\ rows[t] \in Seq(CallResult)
      /\ Range(s) \subseteq Range(rows[t])
      /\ judged[r].alone => Range(rows[t]) \subseteq Range(s)
      /\ FinalBacked(r) /\ LedgerShown /\ IsSpec(spec)
  BY JudgedAssumption DEF JudgedInv, ResultsStored, Unjudged, JudgedShape, RunRecord
<1>2. \A i \in DOMAIN s : ~Succeeded(s[i].out) =>
         \E j \in DOMAIN s : j > i /\ SameTool(s, i, j) /\ Succeeded(s[j].out)
  BY DEF Passes, Unforgiven, Recovered
<1>3. \A k \in spec.criteria : k.tool # Whatever => \E i \in DOMAIN s :
         ToolOf[s[i].call] = k.tool /\ Succeeded(s[i].out)
  BY DEF Passes, Covered, RequirementsCovered, Meets, Successful
<1>4. /\ Range(ToolsOf(s)) = {ToolOf[x.call] : x \in Range(s)}
      /\ Range(ToolsOf(rows[t])) = {ToolOf[x.call] : x \in Range(rows[t])}
      /\ {s[i].call : i \in DOMAIN s} = {x.call : x \in Range(s)}
      /\ {rows[t][i].call : i \in DOMAIN rows[t]} = {x.call : x \in Range(rows[t])}
  BY DEF Range, ToolsOf
<1>5. spec.forbidden \cap Range(ToolsOf(rows[t])) = {} /\ ContainsOrder(ToolsOf(rows[t]), spec.required)
      /\ spec.calls \subseteq {rows[t][i].call : i \in DOMAIN rows[t]}
  BY DEF Passes, TrajectoryHolds
<1>6. Range(spec.required) \subseteq Range(ToolsOf(rows[t]))
  <2>1. spec.required \in Seq(Tools)
    BY <1>1 DEF IsSpec
  <2>2. ToolsOf(rows[t]) \in Seq(Tools)
    <3>1. Len(rows[t]) \in Nat /\ DOMAIN rows[t] = 1..Len(rows[t])
      BY <1>1, LenProperties
    <3>2. \A i \in 1..Len(rows[t]) : ToolOf[rows[t][i].call] \in Tools
      <4>1. \A i \in 1..Len(rows[t]) : rows[t][i] \in CallResult
        BY <1>1, ElementOfSeq
      <4> QED
        BY <4>1 DEF CallResult, Tools
    <3>3. ToolsOf(rows[t]) \in [1..Len(rows[t]) -> Tools]
      BY <3>1, <3>2 DEF ToolsOf
    <3> QED
      BY <3>1, <3>3, IsASeq
  <2> QED
    BY <1>5, <2>1, <2>2, OrderContained
<1>7. ASSUME NEW k \in spec.criteria, k.source # Whatever, judged[r].alone
      PROVE  \E i \in DOMAIN s : Named(s[i].call, s[i].out) = k.source
  <2>1. PICK e \in ledger[t] : e.source = k.source
    BY <1>7 DEF Passes, Covered, RequirementsCovered, Meets, Matches, Listed
  <2>2. PICK x \in Range(rows[t]) : e \in Extracted(t, x.call, x.out)
    BY <1>1, <2>1 DEF LedgerShown
  <2>3. x \in CallResult /\ x \in Range(s)
    <3>1. Range(rows[t]) \subseteq CallResult
      BY <1>1 DEF Range
    <3> QED
      BY <1>1, <1>7, <2>2, <3>1
  <2>4. Named(x.call, x.out) = k.source
    BY <1>1, <2>1, <2>2, <2>3, ShownIsEvidence
  <2> QED
    BY <2>3, <2>4 DEF Range
<1>8. ASSUME spec.verified, judged[r].alone
      PROVE  \E e \in judged[r].refs, i \in DOMAIN s : s[i].out = "ok" /\ SourceOf[s[i].call] = e.source
  <2>1. judged[r].status = "final" /\ judged[r].refs # {}
    BY <1>8 DEF Passes, RunVerified
  <2>2. PICK e \in judged[r].refs :
           \E x \in Range(rows[t]) : x.out = "ok" /\ SourceOf[x.call] = e.source
    BY <1>1, <2>1 DEF FinalBacked
  <2>3. PICK x \in Range(s) : x.out = "ok" /\ SourceOf[x.call] = e.source
    BY <1>1, <1>8, <2>2
  <2>4. PICK i \in DOMAIN s : s[i] = x
    BY <2>3 DEF Range
  <2> QED
    BY <2>3, <2>4
<1>9. ASSUME judged[r].alone
      PROVE  /\ Range(spec.required) \subseteq Range(ToolsOf(s))
             /\ spec.forbidden \cap Range(ToolsOf(s)) = {}
             /\ spec.calls \subseteq {s[i].call : i \in DOMAIN s}
  <2>1. Range(s) = Range(rows[t])
    BY <1>1, <1>9
  <2> QED
    BY <1>4, <1>5, <1>6, <2>1
<1> QED
  BY <1>2, <1>3, <1>7, <1>8, <1>9 DEF Earned

LEMMA JudgeStep ==
    ASSUME JudgedInv, NEW r \in TaskRuns, Judged(r)
    PROVE  JudgedInv'
<1> DEFINE run == [judged[r] EXCEPT !.phase = "judged", !.success = TRUE]
<1>1. judged[r].phase = "finished" /\ judged[r] \in RunRecord /\ JudgedShape
      /\ ResultsStored(r) /\ PhaseFits(r) /\ FinalBacked(r) /\ UNCHANGED <<rows, settled, ledger>>
  BY DEF Judged, JudgedInv, JudgedShape
<1>2. CASE /\ Passes(r)
           /\ judged' = [judged EXCEPT ![r].phase = "judged", ![r].success = TRUE]
  <2>1. /\ run \in RunRecord /\ run.phase = "judged" /\ run.results = judged[r].results
        /\ run.task = judged[r].task /\ run.refs = judged[r].refs /\ run.alone = judged[r].alone
        /\ run.status = judged[r].status /\ run.claimed = judged[r].claimed
    BY <1>1 DEF RunRecord, RunPhases
  <2>2. judged' = [judged EXCEPT ![r] = run] /\ judged'[r] = run
    BY <1>1, <1>2 DEF JudgedShape, RunRecord
  <2> HIDE DEF run
  <2>3. Earned(run)
    BY <1>1, <1>2, <2>1, PassesAreEarned, StaysEarned
  <2>4. ResultsStored(r)' /\ PhaseFits(r)'
    BY <1>1, <2>1, <2>2 DEF ResultsStored, Unjudged, PhaseFits
  <2>5. FinalBacked(r)'
    <3>1. RowsGrow
      BY <1>1 DEF RowsGrow
    <3> QED
      BY <1>1, <2>1, <2>2, <3>1, FinalStaysBacked
  <2> QED
    BY <1>1, <2>1, <2>2, <2>3, <2>4, <2>5, RunSteps
<1>3. CASE judged' = [judged EXCEPT ![r] = [NoRun EXCEPT !.phase = "judged"]]
  BY <1>1, <1>3, EmptyStep
<1> QED
  BY <1>2, <1>3 DEF Judged

LEMMA JudgedInvStep ==
    ASSUME JudgedInv, [JudgedNext]_judgedVars
    PROVE  JudgedInv'
<1>1. CASE UNCHANGED judgedVars
  <2>1. rows' = rows /\ settled' = settled /\ ledger' = ledger /\ judged' = judged
    BY <1>1 DEF judgedVars
  <2>2. ASSUME NEW q \in TaskRuns
        PROVE  /\ ResultsStored(q)' /\ PhaseFits(q)' /\ FinalBacked(q)'
               /\ judged'[q].success => Earned(judged'[q])
    BY <2>1, SameRun
  <2>3. JudgedShape' /\ LedgerShown'
    BY <2>1 DEF JudgedInv, JudgedShape, LedgerShown
  <2> QED
    BY <2>2, <2>3 DEF JudgedInv
<1>2. ASSUME NEW r \in TaskRuns, NEW c \in ToolCalls, Dispatched(r, c) PROVE JudgedInv'
  <2>1. PICK o \in CallOutcomes \ {"blocked"} :
           Stored(judged[r].task, [call |-> c, out |-> o]) /\ WithResult(r, [call |-> c, out |-> o], "calling")
    BY <1>2 DEF Dispatched
  <2>2. [call |-> c, out |-> o] \in CallResult /\ CanCall(r) /\ ledger' = ledger
    BY <1>2 DEF Dispatched, CallResult
  <2> QED
    BY <2>1, <2>2, CallStep
<1>3. ASSUME NEW r \in TaskRuns, NEW c \in ToolCalls, RepliedAtOnce(r, c) PROVE JudgedInv'
  <2>1. PICK o \in {"ok", "large", "blocked"} :
           Stored(judged[r].task, [call |-> c, out |-> o]) /\ WithResult(r, [call |-> c, out |-> o], "working")
    BY <1>3 DEF RepliedAtOnce
  <2>2. [call |-> c, out |-> o] \in CallResult /\ CanCall(r) /\ ledger' = ledger
    BY <1>3 DEF RepliedAtOnce, CallResult, CallOutcomes
  <2> QED
    BY <2>1, <2>2, CallStep
<1>4. ASSUME NEW r \in TaskRuns, RunDies(r) PROVE JudgedInv'
  <2>1. judged' = [judged EXCEPT ![r] = [NoRun EXCEPT !.phase = "dead"]]
        /\ UNCHANGED <<rows, settled, ledger>>
    BY <1>4 DEF RunDies
  <2> QED
    BY <2>1, EmptyStep
<1>5. CASE JudgedNext
  BY <1>2, <1>3, <1>4, <1>5, BeginStep, EvidenceStep, AnswerStep, JudgeStep DEF JudgedNext
<1> QED
  BY <1>1, <1>5

LEMMA JudgedInitHolds ==
    ASSUME JudgedInit PROVE JudgedInv
<1>1. MaxRows \in Nat /\ Len(<<>>) = 0 /\ 0 <= MaxRows
  BY JudgedAssumption
<1>2. NoRun \in RunRecord /\ NoRun.phase = "new" /\ NoRun.status = "nil" /\ NoRun.results = <<>>
      /\ ~NoRun.success
  BY EmptySeq DEF NoRun, RunRecord, RunPhases, FinalStatuses
<1>3. \A r \in TaskRuns : judged[r] = NoRun
  BY DEF JudgedInit
<1>4. JudgedShape
  <2>1. rows \in [EvalTasks -> Seq(CallResult)] /\ ledger \in [EvalTasks -> SUBSET Evidence]
    BY EmptySeq DEF JudgedInit
  <2>2. settled \in [EvalTasks -> Nat] /\ judged \in [TaskRuns -> RunRecord]
    BY <1>2 DEF JudgedInit
  <2>3. \A t \in EvalTasks : rows[t] = <<>> /\ settled[t] = 0
    BY DEF JudgedInit
  <2>4. \A t \in EvalTasks : settled[t] <= Len(rows[t]) /\ Len(rows[t]) <= MaxRows
    BY <1>1, <2>3
  <2> QED
    BY <2>1, <2>2, <2>4 DEF JudgedShape
<1>5. LedgerShown
  BY DEF JudgedInit, LedgerShown
<1>6. ASSUME NEW r \in TaskRuns
      PROVE  ResultsStored(r) /\ PhaseFits(r) /\ FinalBacked(r) /\ ~judged[r].success
  BY <1>1, <1>2, <1>3 DEF ResultsStored, Unjudged, PhaseFits, FinalBacked
<1> QED
  BY <1>4, <1>5, <1>6 DEF JudgedInv

LEMMA JudgedInvMeans ==
    ASSUME JudgedInv PROVE JudgedTypeOK /\ FinalsAreBacked /\ SuccessIsEarned
<1>1. JudgedTypeOK
  <2>1. \A t \in EvalTasks : rows[t] \in Seq(CallResult) /\ settled[t] \in 0..Len(rows[t])
    <3> TAKE t \in EvalTasks
    <3>1. rows[t] \in Seq(CallResult) /\ Len(rows[t]) \in Nat /\ settled[t] \in Nat
          /\ settled[t] <= Len(rows[t])
      BY LenProperties DEF JudgedInv, JudgedShape
    <3> QED
      BY <3>1
  <2>2. \A r \in TaskRuns : judged[r] \in RunRecord /\ Len(judged[r].results) <= MaxRows
    BY DEF JudgedInv, JudgedShape, ResultsStored
  <2> QED
    BY <2>1, <2>2 DEF JudgedInv, JudgedShape, JudgedTypeOK, RunRecord
<1>2. FinalsAreBacked
  <2>1. ASSUME NEW r \in TaskRuns, judged[r].status = "final", NEW e \in judged[r].refs
        PROVE  e.session = judged[r].task
               /\ \E i \in DOMAIN rows[judged[r].task] :
                    /\ rows[judged[r].task][i].out = "ok"
                    /\ SourceOf[rows[judged[r].task][i].call] = e.source
    BY <2>1 DEF JudgedInv, FinalBacked, Range
  <2>2. ASSUME NEW r \in TaskRuns, judged[r].status = "final", judged[r].claimed
        PROVE  SomethingDone(judged[r].task)
    BY <2>2 DEF JudgedInv, FinalBacked
  <2> QED
    BY <2>1, <2>2 DEF FinalsAreBacked
<1>3. SuccessIsEarned
  <2>1. \A r \in TaskRuns : judged[r].success => Earned(judged[r])
    BY DEF JudgedInv
  <2> QED
    BY <2>1 DEF SuccessIsEarned, Earned
<1> QED
  BY <1>1, <1>2, <1>3

LEMMA JudgedAlways == JudgedSpec => []JudgedInv
<1>1. JudgedInit => JudgedInv
  BY JudgedInitHolds
<1>2. JudgedInv /\ [JudgedNext]_judgedVars => JudgedInv'
  BY JudgedInvStep
<1> QED
  BY <1>1, <1>2, PTL DEF JudgedSpec

\* The runs that are judged, their results and their evidence keep their types.
THEOREM RunsTyped == JudgedSpec => []JudgedTypeOK
<1>1. JudgedInv => JudgedTypeOK
  BY JudgedInvMeans
<1> QED
  BY <1>1, JudgedAlways, PTL

\* A final answer is believed only for successes that its session has on record: of some
\* call when it claims any, and of the path or command of each evidence it refers to.
THEOREM AnswersAreBacked == JudgedSpec => []FinalsAreBacked
<1>1. JudgedInv => FinalsAreBacked
  BY JudgedInvMeans
<1> QED
  BY <1>1, JudgedAlways, PTL

\* A task that counts as passed was done by its run: it called each required tool and no
\* forbidden one, made good what failed, and has its coverage and its evidence.
THEOREM PassesMeanSomething == JudgedSpec => []SuccessIsEarned
<1>1. JudgedInv => SuccessIsEarned
  BY JudgedInvMeans
<1> QED
  BY <1>1, JudgedAlways, PTL

-----------------------------------------------------------------------------
(* Provider calls.                                                         *)

CallRecord == [phase : CallPhases, prompt : Prompts \cup {"nil"}, tries : 0..(MaxRetries + 1),
               streamed : BOOLEAN, reply : Replies \cup {<<>>}, got : Nat, skipped : SUBSET Nat,
               text : SUBSET Nat, tools : Seq(SUBSET Nat), cut : BOOLEAN]

\* The reply is one to the prompt.
OfPrompt(x) == x.prompt \in Prompts /\ x.reply \in RepliesTo[x.prompt]

Came(x) == (1..x.got) \ x.skipped
Here(x, k) == {i \in Came(x) : x.reply[i].of # 0 /\ Place(x.reply[i]) = k}

\* What has come is put together, each piece where its line says.
Gathered(x) ==
    /\ x.skipped \subseteq 1..x.got
    /\ x.text = Of(x.reply, 0, Came(x))
    /\ \A k \in DOMAIN x.tools : x.tools[k] = Here(x, k)
    /\ \A i \in Came(x) : x.reply[i].of # 0 => Place(x.reply[i]) \in DOMAIN x.tools

\* Each call with its own arguments, and none missing.
OwnCalls(x) ==
    /\ \A j \in DOMAIN x.tools :
         \/ x.tools[j] = {}
         \/ \E k \in CallsOf(x.reply) :
              \/ x.tools[j] = PiecesOf(x.reply, k)
              \/ /\ x.cut /\ x.tools[j] = Of(x.reply, k, Came(x))
                 /\ ArgumentsIn(x.reply, x.tools[j]) = {}
    /\ ~x.cut => \A k \in CallsOf(x.reply) :
         \E j \in DOMAIN x.tools : x.tools[j] = PiecesOf(x.reply, k)

\* AnswersAsSent for one call.
AsSent(x) ==
    /\ x.reply \in RepliesTo[x.prompt]
    /\ x.text = Of(x.reply, 0, Came(x))
    /\ \A i \in Came(x) : x.reply[i].of # 0 =>
         \E k \in DOMAIN x.tools : \A j \in DOMAIN x.tools : i \in x.tools[j] <=> j = k
    /\ ~x.cut => x.got = Len(x.reply)
    /\ ~x.streamed \/ (Indexed(x.reply) /\ x.skipped = {}) => OwnCalls(x)

CallFits(x) ==
    /\ x \in CallRecord
    /\ x.got \in 0..Len(x.reply)
    /\ x.phase \in {"posting", "backoff"} =>
         x.prompt \in Prompts /\ ~x.cut /\ ~x.streamed /\ x.skipped = {}
    /\ x.phase = "backoff" => x.tries <= MaxRetries
    /\ x.phase = "streaming" => OfPrompt(x) /\ Gathered(x) /\ x.streamed
    /\ x.phase = "answered" => AsSent(x)

SoundEntry == {e \in CacheEntry : e.reply \in RepliesTo[e.prompt]}

ProviderInv ==
    /\ DOMAIN call = Callers
    /\ \A c \in Callers : CallFits(call[c])
    /\ cached \in Seq(SoundEntry) /\ Len(cached) <= CacheSize
    /\ moment \in 0..MaxMoment

LEMMA ProviderMeans == ProviderInv => ProviderTypeOK /\ AnswersAsSent
<1> SUFFICES ASSUME ProviderInv PROVE ProviderTypeOK /\ AnswersAsSent
  OBVIOUS
<1>1. AnswersAsSent
  BY DEF ProviderInv, CallFits, AsSent, AnswersAsSent, OwnCalls, Came
<1>2. ASSUME NEW c \in Callers
      PROVE  /\ call[c].phase \in CallPhases
             /\ call[c].prompt \in Prompts \cup {"nil"}
             /\ call[c].tries \in 0..(MaxRetries + 1)
             /\ call[c].reply \in Replies \cup {<<>>}
             /\ call[c].got \in 0..Len(call[c].reply)
             /\ call[c].skipped \in SUBSET Nat
             /\ call[c].text \in SUBSET Nat /\ call[c].tools \in Seq(SUBSET Nat)
             /\ call[c].streamed \in BOOLEAN /\ call[c].cut \in BOOLEAN
  BY DEF ProviderInv, CallFits, CallRecord
<1>3. cached \in Seq(CacheEntry)
  <2>1. SoundEntry \subseteq CacheEntry
    BY DEF SoundEntry
  <2> QED
    BY <2>1, SeqMonotonic DEF ProviderInv
<1> QED
  BY <1>1, <1>2, <1>3 DEF ProviderTypeOK, ProviderInv

\* A piece is of some call, or of the text, and its line names a place.
LEMMA PieceKnown == \A piece \in Piece : piece.of \in Nat /\ Place(piece) \in Nat \ {0}
<1> TAKE piece \in Piece
<1>1. CASE piece \in [of : Nat]
  BY <1>1 DEF Place
<1>2. CASE piece \in [of : Nat, index : Nat]
  BY <1>2 DEF Place
<1> QED
  BY <1>1, <1>2 DEF Piece

\* A reply to a prompt is a sequence that numbers its calls.
LEMMA ReplyKnown ==
    ASSUME NEW p \in Prompts, NEW reply \in RepliesTo[p]
    PROVE  /\ reply \in Seq(Piece) /\ reply \in Replies
           /\ Len(reply) \in Nat /\ DOMAIN reply = 1..Len(reply)
           /\ \A i \in 1..Len(reply) : reply[i].of \in Nat /\ Place(reply[i]) \in Nat \ {0}
           /\ \E n \in Nat : CallsOf(reply) = 1..n
<1>1. reply \in Seq(Piece) /\ \E n \in 0..Len(reply) : CallsOf(reply) = 1..n
  BY ProviderAssumption
<1>2. reply \in Replies
  BY DEF Replies
<1>3. \A i \in 1..Len(reply) : reply[i] \in Piece
  BY <1>1
<1> QED
  BY <1>1, <1>2, <1>3, PieceKnown

\* An answer that came at once, from the server or from the cache, is as it was sent.
LEMMA ReceivedAsSent ==
    ASSUME NEW x \in CallRecord, ~x.cut, ~x.streamed, x.skipped = {},
           NEW p \in Prompts, x.prompt = p, NEW reply \in RepliesTo[p]
    PROVE  CallFits(Received(x, reply))
<1> DEFINE y == Received(x, reply)
           tools == [k \in CallsOf(reply) |-> PiecesOf(reply, k)]
<1>1. /\ reply \in Seq(Piece) /\ reply \in Replies
      /\ Len(reply) \in Nat /\ DOMAIN reply = 1..Len(reply)
  BY ReplyKnown
<1>2. PICK n \in Nat : CallsOf(reply) = 1..n
  BY ReplyKnown
<1>3. \A k : PiecesOf(reply, k) \in SUBSET Nat
  BY <1>1 DEF PiecesOf, Of
<1>4. tools \in Seq(SUBSET Nat) /\ DOMAIN tools = CallsOf(reply)
  <2>1. tools \in [1..n -> SUBSET Nat]
    BY <1>2, <1>3
  <2> HIDE DEF tools
  <2> QED
    BY <1>2, <2>1, SeqDef
<1>5. \A k \in DOMAIN tools : tools[k] = PiecesOf(reply, k)
  OBVIOUS
<1>6. y \in CallRecord
  <2> HIDE DEF tools
  <2> QED
    BY <1>1, <1>3, <1>4 DEF Received, CallRecord, CallPhases, tools
<1>7. /\ y.phase = "answered" /\ y.reply = reply /\ y.got = Len(reply) /\ y.skipped = {}
      /\ y.text = PiecesOf(reply, 0) /\ y.tools = tools /\ ~y.cut /\ y.prompt = p
  BY DEF Received, CallRecord
<1> HIDE DEF y, tools
<1>8. Came(y) = DOMAIN reply
  BY <1>1, <1>7 DEF Came
<1>9. ASSUME NEW i \in Came(y), y.reply[i].of # 0
      PROVE  \E k \in DOMAIN y.tools : \A j \in DOMAIN y.tools : i \in y.tools[j] <=> j = k
  <2>1. reply[i].of \in DOMAIN tools
    BY <1>4, <1>7, <1>8, <1>9 DEF CallsOf
  <2>2. \A j \in DOMAIN tools : i \in tools[j] <=> j = reply[i].of
    BY <1>5, <1>8 DEF PiecesOf, Of
  <2> QED
    BY <1>7, <2>1, <2>2
<1>10. OwnCalls(y)
  BY <1>4, <1>5, <1>7 DEF OwnCalls
<1>11. AsSent(y)
  BY <1>7, <1>8, <1>9, <1>10 DEF AsSent, PiecesOf
<1>12. y.got \in 0..Len(y.reply)
  BY <1>1, <1>7
<1> QED
  BY <1>6, <1>7, <1>11, <1>12 DEF CallFits, y

LEMMA RecordPut ==
    ASSUME NEW x \in CallRecord, NEW i \in Nat
    PROVE  /\ \A t \in SUBSET Nat : [x EXCEPT !.got = i, !.text = t] \in CallRecord
           /\ \A t \in SUBSET Nat : [x EXCEPT !.got = i, !.skipped = t] \in CallRecord
           /\ \A t \in Seq(SUBSET Nat) : [x EXCEPT !.got = i, !.tools = t] \in CallRecord
BY DEF CallRecord

\* The piece after those that have come.
LEMMA NextPiece ==
    ASSUME NEW x \in CallRecord, OfPrompt(x), Gathered(x), x.got < Len(x.reply)
    PROVE  /\ x.got \in Nat /\ x.got + 1 \in 1..Len(x.reply) /\ x.got + 1 \notin x.skipped
           /\ x.reply[x.got + 1].of \in Nat /\ Place(x.reply[x.got + 1]) \in Nat \ {0}
           /\ Came(x) \subseteq 1..x.got /\ x.got + 1 \notin Came(x)
           /\ (1..(x.got + 1)) \ x.skipped = Came(x) \cup {x.got + 1}
           /\ (1..(x.got + 1)) \ (x.skipped \cup {x.got + 1}) = Came(x)
<1>1. x.got \in Nat /\ Len(x.reply) \in Nat
  BY ReplyKnown DEF OfPrompt, CallRecord
<1>2. x.got + 1 \in 1..Len(x.reply)
  BY <1>1
<1>3. x.skipped \subseteq 1..x.got
  BY DEF Gathered
<1> QED
  BY <1>1, <1>2, <1>3, ReplyKnown DEF OfPrompt, Came

\* The next piece goes where its line says.
LEMMA DeltaTaken ==
    ASSUME NEW x \in CallRecord, OfPrompt(x), Gathered(x), x.got < Len(x.reply)
    PROVE  LET y == TakeDelta(x, x.reply) IN
           /\ y \in CallRecord /\ Gathered(y)
           /\ y.got = x.got + 1 /\ y.reply = x.reply /\ y.prompt = x.prompt
           /\ y.phase = x.phase /\ y.streamed = x.streamed
<1> DEFINE reply == x.reply
           i == x.got + 1
           y == TakeDelta(x, reply)
<1>1. /\ i \in Nat /\ x.got \in Nat /\ reply[i].of \in Nat /\ Place(reply[i]) \in Nat \ {0}
      /\ (1..i) \ x.skipped = Came(x) \cup {i} /\ i \notin Came(x)
      /\ x.skipped \subseteq 1..i
  BY NextPiece DEF Gathered
<1>2. x.tools \in Seq(SUBSET Nat) /\ x.text \in SUBSET Nat
  BY DEF CallRecord
<1>3. CASE reply[i].of = 0
  <2>1. y = [x EXCEPT !.got = i, !.text = x.text \cup {i}]
    BY <1>3 DEF TakeDelta
  <2>2. x.text \cup {i} \in SUBSET Nat
    BY <1>1, <1>2
  <2>3. /\ y.got = i /\ y.text = x.text \cup {i} /\ y.tools = x.tools /\ y.skipped = x.skipped
        /\ y.reply = reply /\ y.prompt = x.prompt /\ y.phase = x.phase
        /\ y.streamed = x.streamed
    BY <2>1 DEF CallRecord
  <2> HIDE DEF y, reply, i
  <2>4. y \in CallRecord
    BY <1>1, <2>1, <2>2, RecordPut
  <2>5. Came(y) = Came(x) \cup {i}
    BY <1>1, <2>3 DEF Came
  <2>6. \A k : Here(y, k) = Here(x, k)
    BY <1>3, <2>3, <2>5 DEF Here, reply
  <2>7. Of(reply, 0, Came(y)) = Of(reply, 0, Came(x)) \cup {i}
    BY <1>3, <2>5 DEF Of
  <2>8. y.skipped \subseteq 1..y.got /\ y.text = Of(y.reply, 0, Came(y))
    BY <1>1, <2>3, <2>7 DEF Gathered, reply
  <2>9. \A k \in DOMAIN y.tools : y.tools[k] = Here(y, k)
    BY <2>3, <2>6 DEF Gathered
  <2>10. \A j \in Came(y) : y.reply[j].of # 0 => Place(y.reply[j]) \in DOMAIN y.tools
    BY <1>3, <2>3, <2>5 DEF Gathered, reply
  <2>11. Gathered(y)
    BY <2>8, <2>9, <2>10 DEF Gathered
  <2> QED
    BY <2>3, <2>4, <2>11 DEF y, reply, i
<1>4. CASE reply[i].of # 0
  <2> DEFINE at == Place(reply[i])
             pad == Padded(x.tools, at)
             tools == [pad EXCEPT ![at] = pad[at] \cup {i}]
             m == IF at > Len(x.tools) THEN at ELSE Len(x.tools)
  <2>1. y = [x EXCEPT !.got = i, !.tools = tools]
    BY <1>4 DEF TakeDelta, pad
  <2>2. /\ y.got = i /\ y.text = x.text /\ y.tools = tools /\ y.skipped = x.skipped
        /\ y.reply = reply /\ y.prompt = x.prompt /\ y.phase = x.phase
        /\ y.streamed = x.streamed
    BY <2>1 DEF CallRecord
  <2>3. Len(x.tools) \in Nat /\ DOMAIN x.tools = 1..Len(x.tools)
    BY <1>2
  <2>4. m \in Nat /\ at \in 1..m /\ DOMAIN x.tools \subseteq 1..m
    BY <1>1, <2>3
  <2>5. pad = [k \in 1..m |-> IF k \in DOMAIN x.tools THEN x.tools[k] ELSE {}]
    BY DEF Padded
  <2> HIDE DEF y, i, pad, m, at
  <2>6. /\ DOMAIN tools = 1..m
        /\ \A k \in 1..m : tools[k] = IF k = at THEN pad[k] \cup {i} ELSE pad[k]
    BY <2>4, <2>5
  <2>7. \A k \in 1..m : pad[k] \in SUBSET Nat
    <3>1. \A k \in DOMAIN x.tools : x.tools[k] \in SUBSET Nat
      BY <1>2
    <3> QED
      BY <2>5, <3>1
  <2>8. tools \in Seq(SUBSET Nat)
    <3>1. \A k \in 1..m : tools[k] \in SUBSET Nat
      BY <1>1, <2>6, <2>7
    <3>2. tools = [k \in 1..m |-> tools[k]]
      BY <2>5
    <3> HIDE DEF tools
    <3>3. tools \in [1..m -> SUBSET Nat]
      BY <3>1, <3>2
    <3> QED
      BY <2>4, <3>3, SeqDef
  <2> HIDE DEF tools, reply
  <2>9. y \in CallRecord
    BY <1>1, <2>1, <2>8, RecordPut
  <2>10. Came(y) = Came(x) \cup {i}
    BY <1>1, <2>2 DEF Came
  <2>11. \A k : Here(y, k) = IF k = at THEN Here(x, k) \cup {i} ELSE Here(x, k)
    BY <1>4, <2>2, <2>10 DEF Here, reply, at
  <2>12. \A k \in 1..m : pad[k] = Here(x, k)
    <3> TAKE k \in 1..m
    <3>1. CASE k \in DOMAIN x.tools
      BY <2>5, <3>1 DEF Gathered
    <3>2. CASE k \notin DOMAIN x.tools
      <4>1. Here(x, k) = {}
        BY <3>2 DEF Gathered, Here
      <4> QED
        BY <2>5, <3>2, <4>1
    <3> QED
      BY <3>1, <3>2
  <2>13. \A k \in DOMAIN y.tools : y.tools[k] = Here(y, k)
    BY <2>2, <2>6, <2>11, <2>12
  <2>14. \A j \in Came(y) : y.reply[j].of # 0 => Place(y.reply[j]) \in DOMAIN y.tools
    BY <2>2, <2>4, <2>6, <2>10 DEF Gathered, reply, at
  <2>15. y.text = Of(y.reply, 0, Came(y))
    BY <1>4, <2>2, <2>10 DEF Gathered, Of, reply
  <2>16. Gathered(y)
    BY <1>1, <2>2, <2>13, <2>14, <2>15 DEF Gathered
  <2> QED
    BY <2>2, <2>9, <2>16 DEF y, reply, i
<1> QED
  BY <1>3, <1>4

\* A line that is passed over leaves what has come as it is.
LEMMA LineSkipped ==
    ASSUME NEW x \in CallRecord, OfPrompt(x), Gathered(x), x.got < Len(x.reply), NEW y,
           y = [x EXCEPT !.got = x.got + 1, !.skipped = x.skipped \cup {x.got + 1}]
    PROVE  y \in CallRecord /\ Gathered(y)
<1>1. /\ y.got = x.got + 1 /\ y.skipped = x.skipped \cup {x.got + 1}
      /\ y.text = x.text /\ y.tools = x.tools /\ y.reply = x.reply
  BY DEF CallRecord
<1>2. x.got \in Nat /\ x.got + 1 \in Nat /\ x.skipped \in SUBSET Nat
  BY NextPiece DEF CallRecord
<1>3. Came(y) = Came(x)
  BY <1>1, NextPiece DEF Came
<1>4. \A k : Here(y, k) = Here(x, k)
  BY <1>1, <1>3 DEF Here
<1>5. y.skipped \subseteq 1..y.got
  BY <1>1, <1>2 DEF Gathered
<1>6. Gathered(y)
  BY <1>1, <1>3, <1>4, <1>5 DEF Gathered
<1>7. x.skipped \cup {x.got + 1} \in SUBSET Nat
  BY <1>2
<1> QED
  BY <1>2, <1>6, <1>7, RecordPut

\* What a run is given at the end of a stream whose calls can be parsed.
LEMMA StreamAsSent ==
    ASSUME NEW x \in CallRecord, OfPrompt(x), Gathered(x), x.got \in 0..Len(x.reply), x.streamed,
           \A k \in DOMAIN x.tools : ~Begun(x.reply, x.tools[k]),
           NEW y, y = [x EXCEPT !.phase = "answered", !.cut = x.got < Len(x.reply)]
    PROVE  AsSent(y)
<1> DEFINE reply == x.reply
           g == x.got
<1>1. /\ y.reply = reply /\ y.text = x.text /\ y.got = g /\ y.tools = x.tools
      /\ y.prompt = x.prompt /\ y.cut = (g < Len(reply)) /\ y.skipped = x.skipped
      /\ Came(y) = Came(x)
  BY DEF CallRecord, Came
<1>2. Len(reply) \in Nat /\ DOMAIN reply = 1..Len(reply) /\ g \in Nat /\ g <= Len(reply)
  BY ReplyKnown DEF OfPrompt
<1>3. /\ y.reply \in RepliesTo[y.prompt] /\ y.text = Of(y.reply, 0, Came(y))
      /\ y.streamed
  BY <1>1 DEF OfPrompt, Gathered, CallRecord
<1>6. ASSUME ~y.cut
      PROVE  g = Len(reply)
  <2>1. ~(g < Len(reply))
    BY <1>1, <1>6
  <2> QED
    BY <1>2, <2>1
<1>4. ASSUME NEW i \in Came(y), y.reply[i].of # 0
      PROVE  \E k \in DOMAIN y.tools : \A j \in DOMAIN y.tools : i \in y.tools[j] <=> j = k
  <2>1. Place(reply[i]) \in DOMAIN x.tools
    BY <1>1, <1>4 DEF Gathered
  <2>2. \A j \in DOMAIN x.tools : i \in x.tools[j] <=> j = Place(reply[i])
    BY <1>1, <1>4 DEF Gathered, Here
  <2> QED
    BY <1>1, <2>1, <2>2
<1>5. ASSUME Indexed(reply), x.skipped = {}
      PROVE  OwnCalls(y)
  <2>1. Came(x) = 1..g /\ 1..g \subseteq DOMAIN reply
    BY <1>2, <1>5 DEF Came
  <2>2. ASSUME NEW j \in DOMAIN x.tools, NEW i \in x.tools[j]
        PROVE  /\ reply[i].of \in CallsOf(reply)
               /\ x.tools[j] = Of(reply, reply[i].of, 1..g)
               /\ i \in 1..g
    <3>1. x.tools[j] = Here(x, j)
      BY DEF Gathered
    <3>2. i \in 1..g /\ reply[i].of # 0 /\ Place(reply[i]) = j
      BY <2>1, <2>2, <3>1 DEF Here
    <3>3. \A l \in 1..g : l \in Here(x, j) <=> reply[l].of = reply[i].of
      BY <1>5, <2>1, <3>2 DEF Here, Indexed
    <3> QED
      BY <2>1, <3>1, <3>2, <3>3 DEF Here, Of, CallsOf
  <2>3. ASSUME ~y.cut
        PROVE  \A k : PiecesOf(reply, k) = Of(reply, k, 1..g)
    BY <1>2, <1>6, <2>3 DEF PiecesOf
  <2>4. ASSUME NEW j \in DOMAIN x.tools, NEW i \in x.tools[j], y.cut
        PROVE  \/ x.tools[j] = PiecesOf(reply, reply[i].of)
               \/ ArgumentsIn(reply, x.tools[j]) = {}
    <3> DEFINE k == reply[i].of
    <3>1. k \in CallsOf(reply) /\ x.tools[j] = Of(reply, k, 1..g) /\ i \in 1..g
      BY <2>2
    <3> HIDE DEF k, reply, g
    <3>2. ArgumentsIn(reply, x.tools[j]) = ArgumentsOf(reply, k) \cap (1..g)
      BY <2>1, <3>1 DEF ArgumentsIn, ArgumentsOf, PiecesOf, Of
    <3>3. g \in DOMAIN reply
      BY <1>2, <3>1
    <3>4. ArgumentsIn(reply, x.tools[j]) \in {{}, ArgumentsOf(reply, k)}
      BY <3>1, <3>2, <3>3 DEF Begun, reply
    <3>5. ASSUME ArgumentsIn(reply, x.tools[j]) = ArgumentsOf(reply, k)
          PROVE  x.tools[j] = PiecesOf(reply, k)
      <4>1. ASSUME NEW l \in PiecesOf(reply, k), l \notin 1..g
            PROVE  FALSE
        <5>1. l \in 1..Len(reply) /\ reply[l].of = k /\ i \in 1..(l - 1)
          BY <1>2, <3>1, <4>1 DEF PiecesOf, Of
        <5>2. ~IsName(reply, l)
          BY <5>1 DEF IsName, k
        <5>3. l \in ArgumentsOf(reply, k)
          BY <4>1, <5>2 DEF ArgumentsOf, ArgumentsIn
        <5> QED
          BY <3>2, <3>5, <4>1, <5>3
      <4> QED
        BY <2>1, <3>1, <4>1 DEF PiecesOf, Of
    <3> QED
      BY <3>4, <3>5 DEF k
  <2>5. ASSUME NEW j \in DOMAIN x.tools
        PROVE  \/ x.tools[j] = {}
               \/ \E k \in CallsOf(reply) :
                    \/ x.tools[j] = PiecesOf(reply, k)
                    \/ /\ y.cut /\ x.tools[j] = Of(reply, k, Came(x))
                       /\ ArgumentsIn(reply, x.tools[j]) = {}
    <3>1. CASE x.tools[j] = {}
      BY <3>1
    <3>2. ASSUME NEW i \in x.tools[j]
          PROVE  \E k \in CallsOf(reply) :
                    \/ x.tools[j] = PiecesOf(reply, k)
                    \/ /\ y.cut /\ x.tools[j] = Of(reply, k, Came(x))
                       /\ ArgumentsIn(reply, x.tools[j]) = {}
      <4>1. reply[i].of \in CallsOf(reply) /\ x.tools[j] = Of(reply, reply[i].of, Came(x))
        BY <2>1, <2>2
      <4>2. CASE ~y.cut
        BY <2>1, <2>3, <4>1, <4>2
      <4>3. CASE y.cut
        BY <2>4, <4>1, <4>3
      <4> QED
        BY <4>2, <4>3
    <3> QED
      BY <3>1, <3>2
  <2>6. ASSUME ~y.cut, NEW k \in CallsOf(reply)
        PROVE  \E j \in DOMAIN x.tools : x.tools[j] = PiecesOf(reply, k)
    <3>1. PICK i \in DOMAIN reply : reply[i].of = k /\ k # 0
      BY DEF CallsOf
    <3>2. g = Len(reply) /\ i \in Came(x)
      BY <1>2, <1>6, <2>1, <2>6, <3>1
    <3>3. Place(reply[i]) \in DOMAIN x.tools /\ i \in x.tools[Place(reply[i])]
      BY <3>1, <3>2 DEF Gathered, Here
    <3>4. x.tools[Place(reply[i])] = Of(reply, k, 1..g)
      BY <2>2, <3>1, <3>3
    <3> QED
      BY <2>3, <2>6, <3>3, <3>4
  <2>7. /\ y.reply = reply /\ y.tools = x.tools /\ Came(y) = Came(x)
    BY <1>1
  <2> HIDE DEF reply, g
  <2>8. \A j \in DOMAIN y.tools :
           \/ y.tools[j] = {}
           \/ \E k \in CallsOf(y.reply) :
                \/ y.tools[j] = PiecesOf(y.reply, k)
                \/ /\ y.cut /\ y.tools[j] = Of(y.reply, k, Came(y))
                   /\ ArgumentsIn(y.reply, y.tools[j]) = {}
    BY <2>5, <2>7, ZenonT(30)
  <2>9. ~y.cut => \A k \in CallsOf(y.reply) :
           \E j \in DOMAIN y.tools : y.tools[j] = PiecesOf(y.reply, k)
    BY <2>6, <2>7
  <2> QED
    BY <2>8, <2>9 DEF OwnCalls
<1>7. ~y.streamed \/ (Indexed(y.reply) /\ y.skipped = {}) => OwnCalls(y)
  BY <1>1, <1>3, <1>5
<1>8. ~y.cut => y.got = Len(y.reply)
  BY <1>1, <1>6
<1> QED
  BY <1>3, <1>4, <1>7, <1>8 DEF AsSent

\* A step of one call leaves the others alone.
LEMMA CallPut ==
    ASSUME ProviderInv, NEW c \in Callers, NEW x, CallFits(x), call' = [call EXCEPT ![c] = x],
           cached' \in Seq(SoundEntry), Len(cached') <= CacheSize, moment' = moment
    PROVE  ProviderInv'
BY DEF ProviderInv

LEMMA Fits ==
    ASSUME ProviderInv, NEW c \in Callers
    PROVE  /\ CallFits(call[c]) /\ call[c] \in CallRecord
           /\ cached \in Seq(SoundEntry) /\ Len(cached) <= CacheSize /\ Len(cached) \in Nat
BY DEF ProviderInv, CallFits

\* The fields that a call begins with.
LEMMA NoCallKnown ==
    /\ NoCall \in CallRecord /\ ~NoCall.cut /\ ~NoCall.streamed /\ NoCall.skipped = {}
    /\ \A p \in Prompts : [NoCall EXCEPT !.prompt = p] \in CallRecord
    /\ CallFits(NoCall)
<1>1. MaxRetries \in Nat
  BY ProviderAssumption
<1>2. << >> \in Seq(SUBSET Nat) /\ {} \in SUBSET Nat
  OBVIOUS
<1>3. NoCall \in CallRecord /\ ~NoCall.cut /\ ~NoCall.streamed /\ NoCall.skipped = {}
  BY <1>1, <1>2 DEF NoCall, CallRecord, CallPhases
<1>4. \A p \in Prompts : [NoCall EXCEPT !.prompt = p] \in CallRecord
  BY <1>3 DEF CallRecord
<1> QED
  BY <1>3, <1>4 DEF CallFits, NoCall

\* The cache without an entry.
LEMMA OneRemoved ==
    ASSUME ProviderInv, NEW i \in DOMAIN cached
    PROVE  Removed(i) \in Seq(SoundEntry) /\ Len(Removed(i)) = Len(cached) - 1
<1> DEFINE a == SubSeq(cached, 1, i - 1)
           b == SubSeq(cached, i + 1, Len(cached))
<1>1. cached \in Seq(SoundEntry)
  BY DEF ProviderInv
<1>2. PICK n \in Nat : n = Len(cached)
  BY <1>1
<1>3. i \in 1..n /\ \A j \in 1..n : cached[j] \in SoundEntry
  BY <1>1, <1>2
<1>4. a \in Seq(SoundEntry) /\ Len(a) = i - 1
  <2>1. 1 \in Int /\ i - 1 \in Int /\ \A j \in 1..(i - 1) : cached[j] \in SoundEntry
    BY <1>3
  <2>2. a \in Seq(SoundEntry)
    BY <2>1, SubSeqProperties
  <2>3. Len(a) = IF 1 <= i - 1 THEN i - 1 - 1 + 1 ELSE 0
    BY <2>1, SubSeqProperties
  <2> QED
    BY <1>3, <2>2, <2>3
<1>5. b \in Seq(SoundEntry) /\ Len(b) = n - i
  <2>1. i + 1 \in Int /\ n \in Int /\ \A j \in (i + 1)..n : cached[j] \in SoundEntry
    BY <1>3
  <2>2. b \in Seq(SoundEntry)
    BY <1>2, <2>1, SubSeqProperties
  <2>3. Len(b) = IF i + 1 <= n THEN n - (i + 1) + 1 ELSE 0
    BY <1>2, <2>1, SubSeqProperties
  <2> QED
    BY <1>3, <2>2, <2>3
<1> HIDE DEF a, b
<1>6. a \o b \in Seq(SoundEntry) /\ Len(a \o b) = Len(a) + Len(b)
  BY <1>4, <1>5, ConcatProperties
<1>7. Removed(i) = a \o b
  BY DEF Removed, a, b
<1>8. (i - 1) + (n - i) = n - 1
  BY <1>3
<1> QED
  BY <1>2, <1>4, <1>5, <1>6, <1>7, <1>8

LEMMA PromptRemoved ==
    ASSUME ProviderInv, NEW p
    PROVE  /\ Without(p) \in Seq(SoundEntry) /\ Len(Without(p)) \in Nat
           /\ Len(Without(p)) <= CacheSize
<1>1. cached \in Seq(SoundEntry) /\ Len(cached) <= CacheSize /\ Len(cached) \in Nat
      /\ CacheSize \in Nat
  BY ProviderAssumption DEF ProviderInv
<1>2. CASE Found(p) = {}
  BY <1>1, <1>2 DEF Without
<1>3. CASE Found(p) # {}
  <2>1. PICK i \in DOMAIN cached : Without(p) = Removed(i)
    BY <1>3 DEF Without, Found
  <2>2. Removed(i) \in Seq(SoundEntry)
    BY OneRemoved
  <2>3. Len(Removed(i)) = Len(cached) - 1
    BY OneRemoved
  <2>4. Len(Removed(i)) \in Nat
    BY <2>2
  <2> QED
    BY <1>1, <2>1, <2>2, <2>3, <2>4
<1> QED
  BY <1>2, <1>3

\* The cache with an entry more, the oldest of too many dropped.
LEMMA EntryPut ==
    ASSUME ProviderInv, NEW p \in Prompts, NEW reply \in RepliesTo[p]
    PROVE  Put(p, reply) \in Seq(SoundEntry) /\ Len(Put(p, reply)) <= CacheSize
<1> DEFINE e == [prompt |-> p, reply |-> reply, at |-> moment]
           all == Append(Without(p), e)
<1>1. CacheSize \in Nat /\ cached \in Seq(SoundEntry) /\ Len(cached) <= CacheSize
  BY ProviderAssumption DEF ProviderInv
<1>2. e \in SoundEntry
  <2>1. moment \in Nat
    BY ProviderAssumption DEF ProviderInv
  <2> QED
    BY <2>1, ReplyKnown DEF SoundEntry, CacheEntry
<1>3. all \in Seq(SoundEntry)
  <2> HIDE DEF e
  <2> QED
    BY <1>2, PromptRemoved, AppendProperties
<1> HIDE DEF all
<1>4. PICK n \in Nat : n = Len(all)
  BY <1>3
<1> DEFINE m == (IF n > CacheSize THEN n - CacheSize ELSE 0) + 1
<1>5. m \in Int /\ m >= 1 /\ n - m + 1 <= CacheSize /\ 0 <= CacheSize
  BY <1>1, <1>4
<1>6. CASE CacheSize = 0
  BY <1>1, <1>6 DEF Put
<1>7. CASE CacheSize # 0
  <2>1. Put(p, reply) = SubSeq(all, m, n)
    BY <1>4, <1>7 DEF Put, all
  <2> HIDE DEF m
  <2>2. \A i \in m..n : all[i] \in SoundEntry
    BY <1>3, <1>4, <1>5
  <2>3. SubSeq(all, m, n) \in Seq(SoundEntry)
    BY <1>5, <2>2, SubSeqProperties
  <2>4. Len(SubSeq(all, m, n)) = IF m <= n THEN n - m + 1 ELSE 0
    BY <1>5, <2>2, SubSeqProperties
  <2> QED
    BY <1>5, <2>1, <2>3, <2>4
<1> QED
  BY <1>6, <1>7

LEMMA CompleteKept ==
    ASSUME ProviderInv, NEW c \in Callers, NEW p \in Prompts, Complete(c, p)
    PROVE  ProviderInv'
<1>1. moment' = moment /\ Len(cached) <= CacheSize /\ CacheSize \in Nat
  BY ProviderAssumption, Fits DEF Complete
<1>2. ASSUME NEW i \in Found(p),
             call' = [call EXCEPT ![c] = [Received(NoCall, cached[i].reply) EXCEPT !.prompt = p]],
             cached' = Append(Removed(i), cached[i])
      PROVE  ProviderInv'
  <2> DEFINE reply == cached[i].reply
             x == [NoCall EXCEPT !.prompt = p]
  <2>1. i \in DOMAIN cached /\ cached[i].prompt = p /\ cached[i] \in SoundEntry
    BY <1>2, Fits DEF Found
  <2>2. reply \in RepliesTo[p]
    BY <2>1 DEF SoundEntry
  <2>3. x \in CallRecord /\ ~x.cut /\ ~x.streamed /\ x.skipped = {} /\ x.prompt = p
    BY NoCallKnown DEF NoCall
  <2>4. [Received(NoCall, reply) EXCEPT !.prompt = p] = Received(x, reply)
    BY DEF Received, NoCall
  <2> HIDE DEF reply, x
  <2>5. CallFits(Received(x, reply))
    BY <2>2, <2>3, ReceivedAsSent
  <2>6. call' = [call EXCEPT ![c] = Received(x, reply)]
    BY <1>2, <2>4 DEF reply
  <2>7. Removed(i) \in Seq(SoundEntry)
    BY <2>1, OneRemoved
  <2>8. Len(Removed(i)) = Len(cached) - 1
    BY <2>1, OneRemoved
  <2>9. cached' \in Seq(SoundEntry) /\ Len(cached') = Len(Removed(i)) + 1
    BY <1>2, <2>1, <2>7, AppendProperties
  <2>10. Len(cached') <= CacheSize
    BY <1>1, <2>8, <2>9, Fits
  <2> QED
    BY <1>1, <2>5, <2>6, <2>9, <2>10, CallPut
<1>3. ASSUME call' = [call EXCEPT ![c] = [NoCall EXCEPT !.phase = "posting", !.prompt = p,
                                                        !.tries = 1]],
             cached' = Without(p)
      PROVE  ProviderInv'
  <2> DEFINE x == [NoCall EXCEPT !.phase = "posting", !.prompt = p, !.tries = 1]
  <2>1. x \in CallRecord
    <3>1. MaxRetries \in Nat
      BY ProviderAssumption
    <3>2. 1 \in 0..(MaxRetries + 1)
      BY <3>1
    <3> QED
      BY <3>2, NoCallKnown DEF CallRecord, CallPhases
  <2>2. CallFits(x)
    BY <2>1 DEF CallFits, NoCall
  <2> HIDE DEF x
  <2>3. call' = [call EXCEPT ![c] = x]
    BY <1>3 DEF x
  <2>4. cached' \in Seq(SoundEntry) /\ Len(cached') <= CacheSize
    BY <1>3, PromptRemoved
  <2> QED
    BY <1>1, <2>2, <2>3, <2>4, CallPut
<1> QED
  BY <1>2, <1>3 DEF Complete

LEMMA PostAnsweredKept ==
    ASSUME ProviderInv, NEW c \in Callers, PostAnswered(c)
    PROVE  ProviderInv'
<1> DEFINE x == call[c]
<1>1. x \in CallRecord /\ x.prompt \in Prompts /\ ~x.cut /\ ~x.streamed /\ x.skipped = {}
  BY Fits DEF PostAnswered, CallFits
<1>2. PICK reply \in RepliesTo[x.prompt] :
         /\ call' = [call EXCEPT ![c] = Received(x, reply)]
         /\ cached' = Put(x.prompt, reply)
  BY DEF PostAnswered
<1>3. CallFits(Received(x, reply))
  BY <1>1, ReceivedAsSent
<1>4. cached' \in Seq(SoundEntry) /\ Len(cached') <= CacheSize
  BY <1>1, <1>2, EntryPut
<1>5. moment' = moment
  BY DEF PostAnswered
<1> HIDE DEF x
<1> QED
  BY <1>2, <1>3, <1>4, <1>5, CallPut

\* Steps of a call that leave the cache alone.
LEMMA CallsKept ==
    ASSUME ProviderInv, NEW c \in Callers,
           \/ PostFails(c) \/ PostAgain(c) \/ Delta(c) \/ SkipLine(c) \/ StreamOver(c)
           \/ CallFailed(c)
    PROVE  ProviderInv'
<1> DEFINE x == call[c]
<1>1. x \in CallRecord /\ CallFits(x) /\ cached \in Seq(SoundEntry) /\ Len(cached) <= CacheSize
  BY Fits
<1>2. cached' = cached /\ moment' = moment
  BY DEF PostFails, PostAgain, Delta, SkipLine, StreamOver, CallFailed
<1>3. ASSUME NEW y, CallFits(y), call' = [call EXCEPT ![c] = y]
      PROVE  ProviderInv'
  BY <1>1, <1>2, <1>3, CallPut
<1>4. MaxRetries \in Nat
  BY ProviderAssumption
<1>5. CASE PostFails(c)
  <2>1. PICK ph \in {"backoff", "raised"} :
           /\ call' = [call EXCEPT ![c] = [x EXCEPT !.phase = ph]]
           /\ ph = "backoff" => x.tries <= MaxRetries
    BY <1>5 DEF PostFails
  <2> DEFINE y == [x EXCEPT !.phase = ph]
  <2>2. y \in CallRecord /\ y.got = x.got /\ y.reply = x.reply /\ y.prompt = x.prompt
        /\ y.phase = ph /\ y.tries = x.tries /\ y.cut = x.cut /\ y.streamed = x.streamed
        /\ y.skipped = x.skipped
    BY <1>1 DEF CallRecord, CallPhases
  <2> HIDE DEF y
  <2>3. CallFits(y)
    BY <1>1, <1>5, <2>1, <2>2 DEF CallFits, PostFails
  <2> QED
    BY <1>3, <2>1, <2>3 DEF y
<1>6. CASE PostAgain(c)
  <2> DEFINE y == [x EXCEPT !.phase = "posting", !.tries = x.tries + 1]
  <2>1. x.tries + 1 \in 0..(MaxRetries + 1)
    BY <1>1, <1>4, <1>6 DEF PostAgain, CallFits, CallRecord
  <2>2. y \in CallRecord /\ y.got = x.got /\ y.reply = x.reply /\ y.prompt = x.prompt
        /\ y.phase = "posting" /\ y.cut = x.cut /\ y.streamed = x.streamed
        /\ y.skipped = x.skipped
    BY <1>1, <2>1 DEF CallRecord, CallPhases
  <2>3. call' = [call EXCEPT ![c] = y]
    BY <1>6 DEF PostAgain
  <2> HIDE DEF y
  <2>4. CallFits(y)
    BY <1>1, <1>6, <2>2 DEF CallFits, PostAgain
  <2> QED
    BY <1>3, <2>3, <2>4
<1>7. CASE Delta(c)
  <2> DEFINE y == TakeDelta(x, x.reply)
  <2>1. /\ OfPrompt(x) /\ Gathered(x) /\ x.got < Len(x.reply) /\ x.streamed
        /\ x.phase = "streaming"
    BY <1>1, <1>7 DEF CallFits, Delta
  <2>2. /\ y \in CallRecord /\ Gathered(y)
        /\ y.got = x.got + 1 /\ y.reply = x.reply /\ y.prompt = x.prompt
        /\ y.phase = x.phase /\ y.streamed = x.streamed
    <3> HIDE DEF x
    <3> QED
      BY <1>1, <2>1, DeltaTaken
  <2>3. call' = [call EXCEPT ![c] = y]
    BY <1>7 DEF Delta
  <2> HIDE DEF y
  <2>4. x.got + 1 \in 0..Len(x.reply)
    <3>1. Len(x.reply) \in Nat /\ x.got \in Nat
      BY <1>1, <2>1, ReplyKnown DEF OfPrompt, CallRecord
    <3> QED
      BY <2>1, <3>1
  <2>5. CallFits(y)
    BY <2>1, <2>2, <2>4 DEF CallFits, OfPrompt
  <2> QED
    BY <1>3, <2>3, <2>5
<1>8. CASE SkipLine(c)
  <2> DEFINE y == [x EXCEPT !.got = x.got + 1, !.skipped = x.skipped \cup {x.got + 1}]
  <2>1. /\ OfPrompt(x) /\ Gathered(x) /\ x.got < Len(x.reply) /\ x.streamed
        /\ x.phase = "streaming"
    BY <1>1, <1>8 DEF CallFits, SkipLine
  <2>2. call' = [call EXCEPT ![c] = y]
    BY <1>8 DEF SkipLine
  <2>3. y.got = x.got + 1 /\ y.reply = x.reply /\ y.prompt = x.prompt /\ y.phase = x.phase
        /\ y.streamed = x.streamed
    BY <1>1 DEF CallRecord
  <2>4. y \in CallRecord /\ Gathered(y)
    <3> HIDE DEF x
    <3> QED
      BY <1>1, <2>1, LineSkipped
  <2> HIDE DEF y
  <2>5. x.got + 1 \in 0..Len(x.reply)
    <3>1. Len(x.reply) \in Nat /\ x.got \in Nat
      BY <1>1, <2>1, ReplyKnown DEF OfPrompt, CallRecord
    <3> QED
      BY <2>1, <3>1
  <2>6. CallFits(y)
    BY <2>1, <2>3, <2>4, <2>5 DEF CallFits, OfPrompt
  <2> QED
    BY <1>3, <2>2, <2>6
<1>9. CASE StreamOver(c)
  <2>1. OfPrompt(x) /\ Gathered(x) /\ x.got \in 0..Len(x.reply) /\ x.streamed
    BY <1>1, <1>9 DEF CallFits, StreamOver
  <2>2. PICK ph \in {"answered", "raised"} :
           /\ call' = [call EXCEPT ![c] = [x EXCEPT !.phase = ph, !.cut = x.got < Len(x.reply)]]
           /\ ph = "answered" => \A k \in DOMAIN x.tools : ~Begun(x.reply, x.tools[k])
    BY <1>9 DEF StreamOver
  <2> DEFINE y == [x EXCEPT !.phase = ph, !.cut = x.got < Len(x.reply)]
  <2>3. y \in CallRecord /\ y.got = x.got /\ y.reply = x.reply /\ y.phase = ph
    <3>1. (x.got < Len(x.reply)) \in BOOLEAN
      OBVIOUS
    <3> QED
      BY <1>1, <3>1 DEF CallRecord, CallPhases
  <2>4. ph = "answered" => AsSent(y)
    <3> HIDE DEF x
    <3> QED
      BY <1>1, <2>1, <2>2, StreamAsSent
  <2>5. call' = [call EXCEPT ![c] = y]
    BY <2>2
  <2> HIDE DEF y
  <2>6. CallFits(y)
    BY <2>1, <2>3, <2>4 DEF CallFits
  <2> QED
    BY <1>3, <2>5, <2>6
<1>10. CASE CallFailed(c)
  <2> DEFINE y == [x EXCEPT !.phase = "raised"]
  <2>1. call' = [call EXCEPT ![c] = y]
    BY <1>10 DEF CallFailed
  <2>2. y \in CallRecord /\ y.got = x.got /\ y.reply = x.reply /\ y.phase = "raised"
    BY <1>1 DEF CallRecord, CallPhases
  <2> HIDE DEF y
  <2>3. CallFits(y)
    BY <1>1, <2>2 DEF CallFits
  <2> QED
    BY <1>3, <2>1, <2>3
<1> QED
  BY <1>5, <1>6, <1>7, <1>8, <1>9, <1>10

LEMMA OpenStreamKept ==
    ASSUME ProviderInv, NEW c \in Callers, NEW p \in Prompts, OpenStream(c, p)
    PROVE  ProviderInv'
<1>1. PICK reply \in RepliesTo[p] :
         call' = [call EXCEPT ![c] = [NoCall EXCEPT !.phase = "streaming", !.prompt = p,
                                                    !.streamed = TRUE, !.reply = reply]]
  BY DEF OpenStream
<1> DEFINE y == [NoCall EXCEPT !.phase = "streaming", !.prompt = p, !.streamed = TRUE,
                               !.reply = reply]
<1>2. reply \in Replies /\ Len(reply) \in Nat
  BY ReplyKnown
<1>3. y \in CallRecord
  BY <1>2, NoCallKnown DEF CallRecord, CallPhases
<1>4. /\ y.phase = "streaming" /\ y.prompt = p /\ y.reply = reply /\ y.got = 0 /\ y.streamed
      /\ y.text = {} /\ y.tools = << >> /\ y.skipped = {}
  BY DEF NoCall
<1> HIDE DEF y
<1>5. Came(y) = {} /\ DOMAIN y.tools = {}
  BY <1>4 DEF Came
<1>6. Gathered(y)
  BY <1>4, <1>5 DEF Gathered, Of
<1>7. CallFits(y)
  BY <1>2, <1>3, <1>4, <1>6 DEF CallFits, OfPrompt
<1>8. cached' = cached /\ moment' = moment
  BY DEF OpenStream
<1> QED
  BY <1>1, <1>7, <1>8, CallPut, Fits DEF y

LEMMA ProviderStarts == ProviderInit => ProviderInv
BY NoCallKnown, ProviderAssumption DEF ProviderInit, ProviderInv

LEMMA ProviderStep == ProviderInv /\ [ProviderNext]_providerVars => ProviderInv'
<1> SUFFICES ASSUME ProviderInv, [ProviderNext]_providerVars PROVE ProviderInv'
  OBVIOUS
<1>1. CASE UNCHANGED providerVars
  BY <1>1 DEF providerVars, ProviderInv
<1>2. CASE MomentPasses
  BY <1>2, ProviderAssumption DEF MomentPasses, ProviderInv
<1>3. ASSUME NEW c \in Callers,
             \/ \E p \in Prompts : Complete(c, p) \/ OpenStream(c, p)
             \/ PostAnswered(c) \/ PostFails(c) \/ PostAgain(c)
             \/ Delta(c) \/ SkipLine(c) \/ StreamOver(c) \/ CallFailed(c)
      PROVE  ProviderInv'
  BY <1>3, CompleteKept, OpenStreamKept, PostAnsweredKept, CallsKept
<1> QED
  BY <1>1, <1>2, <1>3 DEF ProviderNext

\* The calls of the provider and its cache keep their types.
THEOREM CallsTyped == ProviderSpec => []ProviderTypeOK
BY ProviderStarts, ProviderStep, ProviderMeans, PTL DEF ProviderSpec

\* A run acts on what the server sent for its own messages, for any replies, retries and
\* sizes of the cache, whatever indices the lines name and whichever are passed over: the
\* text and each piece of a call that came, and, where the lines tell the calls apart and
\* none was passed over, each call with its own arguments in full.
THEOREM RunsGetTheirAnswers == ProviderSpec => []AnswersAsSent
BY ProviderStarts, ProviderStep, ProviderMeans, PTL DEF ProviderSpec

-----------------------------------------------------------------------------
(* Places in their order.                                                  *)

UpTo(S, i) == Cardinality({j \in S : j <= i})

\* Numbers of 1..|S| that are all different number S.
LEMMA AllNumbered ==
    ASSUME NEW S, IsFiniteSet(S), NEW u \in [S -> 1..Cardinality(S)],
           \A i, j \in S : i # j => u[i] # u[j]
    PROVE  \A n \in 1..Cardinality(S) : \E i \in S : u[i] = n
<1> DEFINE c == Cardinality(S)
<1>1. c \in Nat
  BY FS_CardinalityType
<1> HIDE DEF c
<1>2. IsFiniteSet(1..c) /\ Cardinality(1..c) = c
  BY <1>1, FS_Interval
<1>3. u \in Injection(S, 1..c)
  BY DEF Injection, IsInjective, c
<1>4. u \in Surjection(S, 1..c)
  BY <1>2, <1>3, FS_Injection DEF c
<1> QED
  BY <1>4 DEF Surjection, c

\* Up to a later place of S there are more.
LEMMA MoreUpTo ==
    ASSUME NEW S \in SUBSET Nat, IsFiniteSet(S)
    PROVE  /\ \A i \in Nat : UpTo(S, i) \in Nat /\ UpTo(S, i) <= Cardinality(S)
           /\ \A i \in S : UpTo(S, i) \in 1..Cardinality(S)
           /\ \A i \in Nat, j \in S : i < j => UpTo(S, i) < UpTo(S, j)
<1> DEFINE To(i) == {j \in S : j <= i}
<1>1. ASSUME NEW i \in Nat
      PROVE  IsFiniteSet(To(i)) /\ UpTo(S, i) \in Nat /\ UpTo(S, i) <= Cardinality(S)
  <2>1. To(i) \in SUBSET S
    OBVIOUS
  <2>2. UpTo(S, i) = Cardinality(To(i))
    BY DEF UpTo
  <2> HIDE DEF To
  <2> QED
    BY <2>1, <2>2, FS_Subset, FS_CardinalityType
<1>2. ASSUME NEW i \in Nat, NEW j \in S, i < j PROVE UpTo(S, i) < UpTo(S, j)
  <2>1. To(i) \in SUBSET To(j) /\ To(i) # To(j)
    <3>1. j \in To(j) /\ j \notin To(i) /\ j \in Nat
      BY <1>2
    <3>2. \A x \in S : x <= i => x <= j
      <4> TAKE x \in S
      <4>1. x \in Nat
        OBVIOUS
      <4> QED
        BY <1>2, <3>1, <4>1
    <3>3. To(i) \subseteq To(j)
      BY <3>2
    <3>4. j \notin To(i)
      BY <1>2, <3>1
    <3> QED
      BY <3>1, <3>3, <3>4
  <2>2. UpTo(S, i) = Cardinality(To(i)) /\ UpTo(S, j) = Cardinality(To(j))
    BY DEF UpTo
  <2>3. j \in Nat
    OBVIOUS
  <2> HIDE DEF To
  <2>4. Cardinality(To(i)) <= Cardinality(To(j)) /\ Cardinality(To(i)) # Cardinality(To(j))
    BY <1>1, <2>1, <2>3, FS_Subset
  <2> QED
    BY <1>1, <2>2, <2>3, <2>4
<1>3. ASSUME NEW i \in S PROVE UpTo(S, i) >= 1
  <2>1. {i} \in SUBSET To(i) /\ i \in Nat
    OBVIOUS
  <2>2. UpTo(S, i) = Cardinality(To(i))
    BY DEF UpTo
  <2> HIDE DEF To
  <2>3. Cardinality({i}) <= Cardinality(To(i))
    BY <1>1, <2>1, FS_Subset
  <2> QED
    BY <2>2, <2>3, FS_Singleton
<1>4. \A i \in S : UpTo(S, i) \in 1..Cardinality(S)
  <2> TAKE i \in S
  <2>1. i \in Nat /\ Cardinality(S) \in Nat
    BY FS_CardinalityType
  <2>2. UpTo(S, i) \in Nat /\ UpTo(S, i) <= Cardinality(S) /\ UpTo(S, i) >= 1
    BY <1>1, <1>3, <2>1
  <2> QED
    BY <2>1, <2>2
<1> QED
  BY <1>1, <1>2, <1>4

\* Nth enumerates S.
LEMMA NthFound ==
    ASSUME NEW S \in SUBSET Nat, IsFiniteSet(S)
    PROVE  /\ \A n \in 1..Cardinality(S) : Nth(S, n) \in S /\ UpTo(S, Nth(S, n)) = n
           /\ \A i \in S : Nth(S, UpTo(S, i)) = i
           /\ \A m, n \in 1..Cardinality(S) : m < n => Nth(S, m) < Nth(S, n)
<1> DEFINE u == [i \in S |-> UpTo(S, i)]
<1>1. \A i, j \in S : i # j => UpTo(S, i) # UpTo(S, j)
  <2> TAKE i, j \in S
  <2>1. i \in Nat /\ j \in Nat /\ UpTo(S, i) \in Nat /\ UpTo(S, j) \in Nat
    BY MoreUpTo
  <2>2. i < j => UpTo(S, i) < UpTo(S, j)
    BY <2>1, MoreUpTo
  <2>3. j < i => UpTo(S, j) < UpTo(S, i)
    BY <2>1, MoreUpTo
  <2> QED
    BY <2>1, <2>2, <2>3
<1>2. u \in [S -> 1..Cardinality(S)]
  BY MoreUpTo
<1>3. \A n \in 1..Cardinality(S) : \E i \in S : UpTo(S, i) = n
  <2>1. \A i, j \in S : i # j => u[i] # u[j]
    BY <1>1
  <2>2. \A i \in S : u[i] = UpTo(S, i)
    OBVIOUS
  <2> HIDE DEF u
  <2>3. \A n \in 1..Cardinality(S) : \E i \in S : u[i] = n
    BY <1>2, <2>1, AllNumbered
  <2> QED
    BY <2>2, <2>3
<1>4. \A n \in 1..Cardinality(S) : Nth(S, n) \in S /\ UpTo(S, Nth(S, n)) = n
  BY <1>3 DEF Nth, UpTo
<1>5. \A i \in S : Nth(S, UpTo(S, i)) = i
  BY <1>1, <1>4, MoreUpTo
<1>6. ASSUME NEW m \in 1..Cardinality(S), NEW n \in 1..Cardinality(S), m < n
      PROVE  Nth(S, m) < Nth(S, n)
  <2>1. PICK a \in S, b \in S : a = Nth(S, m) /\ b = Nth(S, n) /\ UpTo(S, a) = m /\ UpTo(S, b) = n
    BY <1>4
  <2>2. b < a => UpTo(S, b) < UpTo(S, a)
    BY MoreUpTo
  <2>3. a \in Nat /\ b \in Nat /\ m \in Nat /\ n \in Nat
    BY <2>1, MoreUpTo
  <2> QED
    BY <1>6, <2>1, <2>2, <2>3
<1> QED
  BY <1>4, <1>5, <1>6

\* There is no other enumeration.
LEMMA NthOnly ==
    ASSUME NEW S \in SUBSET Nat, IsFiniteSet(S), NEW k \in Nat, NEW g \in [1..k -> S],
           \A m, n \in 1..k : m < n => g[m] < g[n],
           \A i \in S : \E n \in 1..k : g[n] = i
    PROVE  Cardinality(S) = k /\ \A n \in 1..k : Nth(S, n) = g[n]
<1>1. ASSUME NEW n \in 0..k
      PROVE  LET T == {j \in S : \E m \in 1..n : g[m] = j}
             IN  IsFiniteSet(T) /\ Cardinality(T) = n
  <2> DEFINE T == {j \in S : \E m \in 1..n : g[m] = j}
             h == [m \in 1..n |-> g[m]]
  <2>1. IsFiniteSet(1..n) /\ Cardinality(1..n) = n
    BY FS_Interval
  <2>2. h \in Bijection(1..n, T)
    <3>1. h \in [1..n -> T]
      OBVIOUS
    <3>2. \A a, b \in 1..n : h[a] = h[b] => a = b
      <4> TAKE a, b \in 1..n
      <4>0. a \in 1..k /\ b \in 1..k
        OBVIOUS
      <4>1. g[a] \in Nat /\ g[b] \in Nat
        BY <4>0
      <4>2. a < b => g[a] < g[b]
        BY <4>0
      <4>3. b < a => g[b] < g[a]
        BY <4>0
      <4> QED
        BY <4>0, <4>1, <4>2, <4>3
    <3>3. \A t \in T : \E a \in 1..n : h[a] = t
      OBVIOUS
    <3> HIDE DEF h, T
    <3> QED
      BY <3>1, <3>2, <3>3 DEF Bijection, Injection, IsInjective, Surjection
  <2>3. ExistsBijection(1..n, T)
    <3> HIDE DEF h, T
    <3> QED
      BY <2>2 DEF ExistsBijection
  <2> HIDE DEF T
  <2>4. IsFiniteSet(T) /\ Cardinality(T) = n
    BY <2>1, <2>3, FS_Bijection
  <2> QED
    BY <2>4 DEF T
<1>2. Cardinality(S) = k
  <2>1. {j \in S : \E m \in 1..k : g[m] = j} = S
    OBVIOUS
  <2>2. k \in 0..k
    OBVIOUS
  <2> QED
    BY <1>1, <2>1, <2>2
<1>3. ASSUME NEW n \in 1..k PROVE Nth(S, n) = g[n]
  <2>1. {j \in S : j <= g[n]} = {j \in S : \E m \in 1..n : g[m] = j}
    <3>1. ASSUME NEW j \in S, j <= g[n] PROVE \E m \in 1..n : g[m] = j
      <4>1. PICK m \in 1..k : g[m] = j
        OBVIOUS
      <4>2. g[m] \in Nat /\ g[n] \in Nat
        OBVIOUS
      <4>3. ~(n < m)
        BY <3>1, <4>1, <4>2
      <4> QED
        BY <4>1, <4>3
    <3>2. ASSUME NEW m \in 1..n PROVE g[m] <= g[n]
      <4>1. m \in 1..k
        OBVIOUS
      <4>2. g[m] \in Nat /\ g[n] \in Nat
        BY <4>1
      <4>3. m < n => g[m] < g[n]
        BY <4>1
      <4> QED
        BY <4>1, <4>2, <4>3
    <3> QED
      BY <3>1, <3>2
  <2>2. UpTo(S, g[n]) = n
    <3>1. n \in 0..k
      OBVIOUS
    <3> QED
      BY <1>1, <2>1, <3>1 DEF UpTo
  <2>3. g[n] \in S
    OBVIOUS
  <2> QED
    BY <2>2, <2>3, NthFound
<1> QED
  BY <1>2, <1>3

-----------------------------------------------------------------------------
(* Items that are picked.                                                  *)

LEMMA FunctionIsSeq ==
    ASSUME NEW T, NEW n \in Nat, NEW f \in [1..n -> T]
    PROVE  f \in Seq(T) /\ Len(f) = n
OBVIOUS

\* What is picked is known.
LEMMA PickedKnown ==
    ASSUME NEW T, NEW c \in Seq(T), NEW S \in SUBSET (DOMAIN c)
    PROVE  /\ S \in SUBSET Nat /\ IsFiniteSet(S) /\ Cardinality(S) \in Nat
           /\ Picked(c, S) \in Seq(T) /\ Len(Picked(c, S)) = Cardinality(S)
           /\ DOMAIN Picked(c, S) = 1..Cardinality(S)
           /\ \A n \in 1..Cardinality(S) : Nth(S, n) \in S /\ Picked(c, S)[n] = c[Nth(S, n)]
<1>1. Len(c) \in Nat /\ DOMAIN c = 1..Len(c) /\ c \in [1..Len(c) -> T]
  BY LenProperties
<1>2. S \in SUBSET Nat /\ IsFiniteSet(S) /\ Cardinality(S) \in Nat
  <2>1. IsFiniteSet(1..Len(c))
    BY <1>1, FS_Interval
  <2>2. IsFiniteSet(S)
    BY <1>1, <2>1, FS_Subset
  <2> QED
    BY <1>1, <2>2, FS_CardinalityType
<1>3. \A n \in 1..Cardinality(S) : Nth(S, n) \in S
  BY <1>2, NthFound
<1>4. Picked(c, S) \in [1..Cardinality(S) -> T]
  <2>1. \A n \in 1..Cardinality(S) : c[Nth(S, n)] \in T
    BY <1>1, <1>3
  <2> QED
    BY <2>1 DEF Picked
<1>5. \A n \in 1..Cardinality(S) : Picked(c, S)[n] = c[Nth(S, n)]
  BY DEF Picked
<1>6. Picked(c, S) \in Seq(T) /\ Len(Picked(c, S)) = Cardinality(S)
  BY <1>2, <1>4, FunctionIsSeq
<1>7. DOMAIN Picked(c, S) = 1..Cardinality(S)
  BY DEF Picked
<1> QED
  BY <1>2, <1>3, <1>5, <1>6, <1>7

\* Only the items at the places matter.
LEMMA PickedSame ==
    ASSUME NEW T, NEW c \in Seq(T), NEW S \in SUBSET (DOMAIN c), NEW d, \A i \in S : d[i] = c[i]
    PROVE  Picked(d, S) = Picked(c, S)
<1>1. \A n \in 1..Cardinality(S) : Nth(S, n) \in S
  BY PickedKnown
<1> QED
  BY <1>1 DEF Picked

\* Each item at a place of S is picked.
LEMMA PickedAll ==
    ASSUME NEW T, NEW c \in Seq(T), NEW S \in SUBSET (DOMAIN c), NEW i \in S
    PROVE  \E n \in DOMAIN Picked(c, S) : Picked(c, S)[n] = c[i]
<1>1. S \in SUBSET Nat /\ IsFiniteSet(S)
  BY PickedKnown
<1>2. UpTo(S, i) \in 1..Cardinality(S) /\ Nth(S, UpTo(S, i)) = i
  BY <1>1, MoreUpTo, NthFound
<1> QED
  BY <1>2, PickedKnown

\* To pick all is to change nothing.
LEMMA PickedWhole ==
    ASSUME NEW T, NEW c \in Seq(T)
    PROVE  Picked(c, DOMAIN c) = c
<1> DEFINE k == Len(c)
           g == [n \in 1..k |-> n]
<1>1. k \in Nat /\ DOMAIN c = 1..k /\ c \in [1..k -> T]
  BY LenProperties
<1> HIDE DEF k
<1>2. g \in [1..k -> 1..k] /\ \A n \in 1..k : g[n] = n
  OBVIOUS
<1>3. \A m, n \in 1..k : m < n => g[m] < g[n]
  OBVIOUS
<1>4. \A i \in 1..k : \E n \in 1..k : g[n] = i
  OBVIOUS
<1>5. IsFiniteSet(1..k) /\ 1..k \in SUBSET Nat
  BY <1>1, FS_Interval
<1> HIDE DEF g
<1>6. Cardinality(1..k) = k /\ \A n \in 1..k : Nth(1..k, n) = g[n]
  BY <1>1, <1>2, <1>3, <1>4, <1>5, NthOnly
<1> QED
  BY <1>1, <1>2, <1>6 DEF Picked

\* To pick T from what was picked at S is to pick T.
LEMMA PickedAgain ==
    ASSUME NEW U, NEW c \in Seq(U), NEW S \in SUBSET (DOMAIN c), NEW T \in SUBSET S
    PROVE  Picked(Picked(c, S), {n \in DOMAIN Picked(c, S) : Nth(S, n) \in T}) = Picked(c, T)
<1> DEFINE d == Picked(c, S)
           M == {n \in DOMAIN d : Nth(S, n) \in T}
           k == Cardinality(M)
           g == [n \in 1..k |-> Nth(S, Nth(M, n))]
<1>1. /\ S \in SUBSET Nat /\ IsFiniteSet(S) /\ Cardinality(S) \in Nat
      /\ d \in Seq(U) /\ DOMAIN d = 1..Cardinality(S)
      /\ \A n \in 1..Cardinality(S) : Nth(S, n) \in S /\ d[n] = c[Nth(S, n)]
  BY PickedKnown
<1>2. M \in SUBSET (DOMAIN d) /\ M \in SUBSET 1..Cardinality(S)
  BY <1>1
<1>3. M = {n \in 1..Cardinality(S) : Nth(S, n) \in T}
  BY <1>1
<1> HIDE DEF d, M
<1>4. /\ M \in SUBSET Nat /\ IsFiniteSet(M) /\ k \in Nat
      /\ DOMAIN Picked(d, M) = 1..k
      /\ \A n \in 1..k : Nth(M, n) \in M /\ Picked(d, M)[n] = d[Nth(M, n)]
  BY <1>1, <1>2, PickedKnown
<1>5. \A n \in 1..k : g[n] \in T /\ Picked(d, M)[n] = c[g[n]]
  BY <1>1, <1>3, <1>4
<1>6. \A m, n \in 1..k : m < n => g[m] < g[n]
  <2> TAKE m, n \in 1..k
  <2> HAVE m < n
  <2>1. Nth(M, m) < Nth(M, n)
    BY <1>4, NthFound
  <2>2. Nth(M, m) \in 1..Cardinality(S) /\ Nth(M, n) \in 1..Cardinality(S)
    BY <1>2, <1>4
  <2>3. Nth(S, Nth(M, m)) < Nth(S, Nth(M, n))
    BY <1>1, <2>1, <2>2, NthFound
  <2> QED
    BY <2>3
<1>7. ASSUME NEW i \in T PROVE \E n \in 1..k : g[n] = i
  <2>1. UpTo(S, i) \in 1..Cardinality(S) /\ Nth(S, UpTo(S, i)) = i
    BY <1>1, MoreUpTo, NthFound
  <2>2. UpTo(S, i) \in M
    BY <1>3, <2>1
  <2>3. UpTo(M, UpTo(S, i)) \in 1..k /\ Nth(M, UpTo(M, UpTo(S, i))) = UpTo(S, i)
    BY <1>4, <2>2, MoreUpTo, NthFound
  <2> QED
    BY <2>1, <2>3
<1>8. T \in SUBSET Nat /\ IsFiniteSet(T)
  BY <1>1, FS_Subset
<1>9. g \in [1..k -> T]
  BY <1>5
<1>10. Cardinality(T) = k /\ \A n \in 1..k : Nth(T, n) = g[n]
  <2> HIDE DEF g, k
  <2> QED
    BY <1>4, <1>6, <1>7, <1>8, <1>9, NthOnly
<1>11. Picked(d, M) = Picked(c, T)
  <2>1. Picked(d, M) = [n \in 1..k |-> Picked(d, M)[n]]
    BY DEF Picked
  <2>2. Picked(c, T) = [n \in 1..k |-> c[g[n]]]
    <3> HIDE DEF g, k
    <3> QED
      BY <1>10 DEF Picked
  <2> HIDE DEF g, k
  <2> QED
    BY <1>5, <2>1, <2>2
<1> QED
  BY <1>11 DEF d, M

\* What is picked from the first part of a sequence.
LEMMA PickedFirst ==
    ASSUME NEW T, NEW c \in Seq(T), NEW d \in Seq(T), NEW S \in SUBSET (DOMAIN c)
    PROVE  Picked(c \o d, S) = Picked(c, S)
<1>1. Len(c) \in Nat /\ DOMAIN c = 1..Len(c) /\ Len(d) \in Nat
  BY LenProperties
<1>2. \A i \in S : (c \o d)[i] = c[i]
  <2> TAKE i \in S
  <2>1. i \in 1..Len(c) + Len(d) /\ i <= Len(c)
    BY <1>1
  <2> QED
    BY <2>1, ConcatProperties
<1> QED
  BY <1>2, PickedSame

-----------------------------------------------------------------------------
(* Characters.                                                             *)

Weight(m) == m.size + m.think

LEMMA ItemKnown ==
    ASSUME NEW m \in Item
    PROVE  m.id \in Nat /\ m.size \in Nat /\ m.think \in Nat /\ Weight(m) \in Nat
<1>1. m.id \in Nat /\ m.size \in Nat /\ m.think \in Nat
  BY DEF Item
<1> QED
  BY <1>1 DEF Weight

LEMMA ItemsKnown ==
    ASSUME NEW c \in Seq(Item)
    PROVE  /\ Len(c) \in Nat /\ DOMAIN c = 1..Len(c)
           /\ \A i \in 1..Len(c) :
                c[i] \in Item /\ c[i].size \in Nat /\ c[i].think \in Nat /\ Weight(c[i]) \in Nat
<1>1. \A i \in 1..Len(c) : c[i] \in Item
  BY ElementOfSeq
<1> QED
  BY <1>1, LenProperties, ItemKnown

\* f counts the characters of c, item by item.
Sums(f, c) ==
    /\ f \in [0..Len(c) -> Nat]
    /\ f[0] = 0
    /\ \A i \in 1..Len(c) : f[i] = f[i - 1] + Weight(c[i])

LEMMA SumsOnly ==
    ASSUME NEW c \in Seq(Item), NEW f, NEW h, Sums(f, c), Sums(h, c)
    PROVE  f = h
<1> DEFINE n == Len(c)
           T == {k \in 0..n : f[k] = h[k]}
<1>1. n \in Nat
  BY LenProperties
<1>2. 0 \in T
  BY <1>1 DEF Sums
<1>3. ASSUME NEW k \in 1..n, k - 1 \in T PROVE k \in T
  BY <1>1, <1>3 DEF Sums
<1>4. 0..n \subseteq T
  <2> HIDE DEF T, n
  <2> QED
    BY <1>1, <1>2, <1>3, Induction
<1> QED
  BY <1>4 DEF Sums

LEMMA CharsFound ==
    ASSUME NEW c \in Seq(Item)
    PROVE  \E f : Sums(f, c) /\ Chars(c) = f[Len(c)] /\ Chars(c) \in Nat
<1> DEFINE n == Len(c)
           w == [i \in 1..n |-> c[i].size + c[i].think]
           f == CHOOSE f : f = [k \in 0..n |-> IF k = 0 THEN 0
                                               ELSE f[k - 1] + c[k].size + c[k].think]
<1>1. n \in Nat /\ DOMAIN c = 1..n /\ \A i \in 1..n : c[i].size \in Nat /\ c[i].think \in Nat
  BY ItemsKnown
<1>2. w \in [1..n -> Nat]
  BY <1>1
<1>3. PICK h \in [0..n -> Nat] : h[0] = 0 /\ \A i \in 1..n : h[i] = h[i - 1] + w[i]
  <2> HIDE DEF w, n
  <2> QED
    BY <1>1, <1>2, Summing
<1>4. \A i \in 1..n : h[i] = h[i - 1] + c[i].size + c[i].think
  <2> TAKE i \in 1..n
  <2>1. h[i - 1] \in Nat /\ c[i].size \in Nat /\ c[i].think \in Nat
    BY <1>1
  <2>2. h[i] = h[i - 1] + (c[i].size + c[i].think)
    BY <1>3
  <2> QED
    BY <2>1, <2>2
<1>5. \A i \in 1..n : h[i] = h[i - 1] + Weight(c[i])
  BY <1>3 DEF Weight
<1>6. h = [k \in 0..n |-> IF k = 0 THEN 0 ELSE h[k - 1] + c[k].size + c[k].think]
  <2> DEFINE Sum(k) == h[k - 1] + c[k].size + c[k].think
  <2>1. h[0] = 0 /\ \A k \in 1..n : h[k] = Sum(k)
    BY <1>3, <1>4
  <2> HIDE DEF Sum, n
  <2>2. h = [k \in 0..n |-> IF k = 0 THEN 0 ELSE Sum(k)]
    BY <1>1, <2>1
  <2> QED
    BY <2>2 DEF Sum
<1>7. f = [k \in 0..n |-> IF k = 0 THEN 0 ELSE f[k - 1] + c[k].size + c[k].think]
  BY <1>6, Zenon
<1>8. Chars(c) = f[n]
  BY DEF Chars
<1> HIDE DEF f, w
<1>9. \A k \in 0..n : f[k] \in Nat /\ f[k] = h[k]
  <2> DEFINE T == {k \in 0..n : f[k] = h[k]}
  <2>1. 0 \in T
    BY <1>1, <1>3, <1>7
  <2>2. ASSUME NEW k \in 1..n, k - 1 \in T PROVE k \in T
    <3>1. k \in 0..n /\ k # 0
      BY <1>1
    <3>2. f[k] = f[k - 1] + c[k].size + c[k].think
      BY <1>7, <3>1
    <3> QED
      BY <1>4, <2>2, <3>1, <3>2
  <2>3. 0..n \subseteq T
    <3> HIDE DEF T, n
    <3> QED
      BY <1>1, <2>1, <2>2, Induction
  <2> QED
    BY <1>3, <2>3
<1>10. Chars(c) = h[n] /\ h[n] \in Nat
  BY <1>1, <1>8, <1>9
<1>11. Sums(h, c)
  BY <1>3, <1>5 DEF Sums
<1> QED
  BY <1>10, <1>11

\* Who counts the characters of c ends with their number.
LEMMA CharsAre ==
    ASSUME NEW c \in Seq(Item), NEW f, Sums(f, c)
    PROVE  Chars(c) = f[Len(c)]
BY CharsFound, SumsOnly

LEMMA CharsNat == ASSUME NEW c \in Seq(Item) PROVE Chars(c) \in Nat
BY CharsFound

\* When no item of c or d is together longer than that of e, neither are c and d.
LEMMA CharsBelow ==
    ASSUME NEW c \in Seq(Item), NEW d \in Seq(Item), NEW e \in Seq(Item),
           Len(c) = Len(e), Len(d) = Len(e),
           \A i \in 1..Len(e) : Weight(c[i]) + Weight(d[i]) <= Weight(e[i])
    PROVE  Chars(c) + Chars(d) <= Chars(e)
<1> DEFINE n == Len(e)
<1>1. PICK f : Sums(f, c) /\ Chars(c) = f[n]
  BY CharsFound
<1>2. PICK g : Sums(g, d) /\ Chars(d) = g[n]
  BY CharsFound
<1>3. PICK h : Sums(h, e) /\ Chars(e) = h[n]
  BY CharsFound
<1> DEFINE T == {k \in 0..n : f[k] + g[k] <= h[k]}
<1>4. n \in Nat
  BY LenProperties
<1>5. 0 \in T
  BY <1>1, <1>2, <1>3, <1>4 DEF Sums
<1>6. ASSUME NEW k \in 1..n, k - 1 \in T PROVE k \in T
  <2>1. k \in 0..n /\ k - 1 \in 0..n
    BY <1>4
  <2>2. /\ f[k - 1] \in Nat /\ g[k - 1] \in Nat /\ h[k - 1] \in Nat
        /\ f[k - 1] + g[k - 1] <= h[k - 1]
    BY <1>1, <1>2, <1>3, <1>6, <2>1 DEF Sums
  <2>3. /\ f[k] = f[k - 1] + Weight(c[k]) /\ g[k] = g[k - 1] + Weight(d[k])
        /\ h[k] = h[k - 1] + Weight(e[k])
    BY <1>1, <1>2, <1>3 DEF Sums
  <2>5. Weight(c[k]) \in Nat /\ Weight(d[k]) \in Nat /\ Weight(e[k]) \in Nat
    BY ItemsKnown
  <2>6. Weight(c[k]) + Weight(d[k]) <= Weight(e[k])
    OBVIOUS
  <2>7. f[k] + g[k] <= h[k]
    BY <2>2, <2>3, <2>5, <2>6, SMTT(30)
  <2> QED
    BY <2>1, <2>7
<1>7. 0..n \subseteq T
  <2> HIDE DEF T, n
  <2> QED
    BY <1>4, <1>5, <1>6, Induction
<1> QED
  BY <1>1, <1>2, <1>3, <1>4, <1>7

\* The characters of two parts.
LEMMA CharsConcat ==
    ASSUME NEW c \in Seq(Item), NEW d \in Seq(Item)
    PROVE  Chars(c \o d) = Chars(c) + Chars(d)
<1> DEFINE m == Len(c)
           n == Len(d)
<1>1. PICK f : Sums(f, c) /\ Chars(c) = f[m]
  BY CharsFound
<1>2. PICK g : Sums(g, d) /\ Chars(d) = g[n]
  BY CharsFound
<1> DEFINE h == [k \in 0..(m + n) |-> IF k <= m THEN f[k] ELSE f[m] + g[k - m]]
<1>3. /\ m \in Nat /\ n \in Nat /\ c \o d \in Seq(Item) /\ Len(c \o d) = m + n
      /\ \A i \in 1..m + n : (c \o d)[i] = IF i <= m THEN c[i] ELSE d[i - m]
  BY LenProperties, ConcatProperties
<1>4. /\ f \in [0..m -> Nat] /\ f[0] = 0 /\ \A i \in 1..m : f[i] = f[i - 1] + Weight(c[i])
      /\ g \in [0..n -> Nat] /\ g[0] = 0 /\ \A i \in 1..n : g[i] = g[i - 1] + Weight(d[i])
  BY <1>1, <1>2 DEF Sums
<1>5. \A i \in 1..n : Weight(d[i]) \in Nat
  BY ItemsKnown
<1> HIDE DEF m, n
<1>6. h \in [0..(m + n) -> Nat]
  <2> SUFFICES ASSUME NEW k \in 0..(m + n) PROVE h[k] \in Nat
    OBVIOUS
  <2>1. CASE k <= m
    BY <1>3, <1>4, <2>1
  <2>2. CASE ~(k <= m)
    <3>1. k - m \in 0..n /\ m \in 0..m
      BY <1>3, <2>2
    <3>2. f[m] \in Nat /\ g[k - m] \in Nat
      BY <1>4, <3>1
    <3> QED
      BY <2>2, <3>2
  <2> QED
    BY <2>1, <2>2
<1>7. ASSUME NEW i \in 1..(m + n) PROVE h[i] = h[i - 1] + Weight((c \o d)[i])
  <2>0. i \in 0..(m + n) /\ i - 1 \in 0..(m + n)
    BY <1>3
  <2>1. CASE i <= m
    <3>1. i \in 1..m /\ i - 1 <= m /\ (c \o d)[i] = c[i]
      BY <1>3, <2>1
    <3>2. h[i] = f[i] /\ h[i - 1] = f[i - 1]
      BY <2>0, <2>1, <3>1
    <3> QED
      BY <1>4, <3>1, <3>2
  <2>2. CASE ~(i <= m)
    <3>1. i - m \in 1..n /\ (i - m) - 1 = (i - 1) - m /\ (c \o d)[i] = d[i - m]
      BY <1>3, <2>2
    <3>2. h[i] = f[m] + g[i - m]
      BY <2>0, <2>2
    <3>3. h[i - 1] = f[m] + g[(i - 1) - m]
      <4>1. CASE i - 1 = m
        <5>1. h[i - 1] = f[m] /\ (i - 1) - m = 0
          BY <1>3, <2>0, <4>1
        <5>2. f[m] \in Nat
          BY <1>3, <1>4
        <5> QED
          BY <1>4, <5>1, <5>2
      <4>2. CASE i - 1 # m
        BY <1>3, <2>0, <2>2, <4>2
      <4> QED
        BY <4>1, <4>2
    <3>4. g[i - m] = g[(i - 1) - m] + Weight(d[i - m])
      BY <1>4, <3>1
    <3>5. f[m] \in Nat /\ g[(i - 1) - m] \in Nat /\ Weight(d[i - m]) \in Nat
      <4>1. (i - 1) - m \in 0..n
        BY <1>3, <3>1
      <4> QED
        BY <1>3, <1>4, <1>5, <3>1, <4>1
    <3> HIDE DEF h
    <3> QED
      BY <3>1, <3>2, <3>3, <3>4, <3>5
  <2> QED
    BY <2>1, <2>2
<1>8. h[0] = 0 /\ h[m + n] = f[m] + g[n]
  <2>1. 0 \in 0..(m + n) /\ m + n \in 0..(m + n) /\ 0 <= m
    BY <1>3
  <2>2. h[0] = 0
    BY <1>4, <2>1
  <2>3. CASE n = 0
    <3>1. m + n <= m /\ m + n = m /\ f[m] \in Nat
      BY <1>3, <1>4, <2>3
    <3> QED
      BY <1>4, <2>1, <2>2, <2>3, <3>1
  <2>4. CASE n # 0
    <3>1. ~(m + n <= m) /\ (m + n) - m = n
      BY <1>3, <2>4
    <3> QED
      BY <2>1, <2>2, <3>1
  <2> QED
    BY <2>3, <2>4
<1>9. Sums(h, c \o d)
  <2> HIDE DEF h
  <2> QED
    BY <1>3, <1>6, <1>7, <1>8 DEF Sums
<1> QED
  BY <1>1, <1>2, <1>3, <1>8, <1>9, CharsAre DEF m, n

-----------------------------------------------------------------------------
(* Characters at some places.                                              *)

Nothing == [id |-> 0, size |-> 0, think |-> 0]
Within(c, S) == [i \in DOMAIN c |-> IF i \in S THEN c[i] ELSE Nothing]

LEMMA WithinKnown ==
    ASSUME NEW c \in Seq(Item), NEW S
    PROVE  /\ Within(c, S) \in Seq(Item) /\ Len(Within(c, S)) = Len(c)
           /\ \A i \in 1..Len(c) : Within(c, S)[i] = IF i \in S THEN c[i] ELSE Nothing
           /\ Weight(Nothing) = 0
<1>1. Nothing \in Item /\ Weight(Nothing) = 0
  BY DEF Nothing, Item, Weight
<1>2. Len(c) \in Nat /\ DOMAIN c = 1..Len(c) /\ \A i \in 1..Len(c) : c[i] \in Item
  BY ItemsKnown
<1>3. Within(c, S) \in [1..Len(c) -> Item]
  BY <1>1, <1>2 DEF Within
<1>4. \A i \in 1..Len(c) : Within(c, S)[i] = IF i \in S THEN c[i] ELSE Nothing
  BY <1>2 DEF Within
<1> QED
  BY <1>1, <1>2, <1>3, <1>4, FunctionIsSeq

LEMMA UpToStep ==
    ASSUME NEW S \in SUBSET Nat, IsFiniteSet(S), NEW k \in Nat
    PROVE  UpTo(S, k + 1) = UpTo(S, k) + (IF k + 1 \in S THEN 1 ELSE 0)
<1> DEFINE A == {j \in S : j <= k}
           B == {j \in S : j <= k + 1}
<1>1. \A j \in S : j <= k + 1 <=> j <= k \/ j = k + 1
  <2> TAKE j \in S
  <2>1. j \in Nat
    OBVIOUS
  <2> QED
    BY <2>1
<1>2. B = IF k + 1 \in S THEN A \cup {k + 1} ELSE A
  BY <1>1
<1>3. k + 1 \notin A
  OBVIOUS
<1>4. IsFiniteSet(A)
  <2>1. A \in SUBSET S
    OBVIOUS
  <2> HIDE DEF A
  <2> QED
    BY <2>1, FS_Subset
<1>5. UpTo(S, k) = Cardinality(A) /\ UpTo(S, k + 1) = Cardinality(B)
  BY DEF UpTo
<1> HIDE DEF A, B
<1>6. Cardinality(A \cup {k + 1}) = Cardinality(A) + 1 /\ Cardinality(A) \in Nat
  BY <1>3, <1>4, FS_AddElement, FS_CardinalityType
<1> QED
  BY <1>2, <1>5, <1>6

\* What is picked has the characters that are there.
LEMMA CharsPicked ==
    ASSUME NEW c \in Seq(Item), NEW S \in SUBSET (DOMAIN c)
    PROVE  Chars(Picked(c, S)) = Chars(Within(c, S))
<1> DEFINE n == Len(c)
           p == Picked(c, S)
           r == Within(c, S)
<1>1. /\ S \in SUBSET Nat /\ IsFiniteSet(S) /\ Cardinality(S) \in Nat
      /\ p \in Seq(Item) /\ Len(p) = Cardinality(S)
      /\ \A k \in 1..Cardinality(S) : p[k] = c[Nth(S, k)]
  BY PickedKnown
<1>2. /\ r \in Seq(Item) /\ Len(r) = n /\ Weight(Nothing) = 0
      /\ \A i \in 1..n : r[i] = IF i \in S THEN c[i] ELSE Nothing
  BY WithinKnown
<1>3. n \in Nat /\ DOMAIN c = 1..n
  BY ItemsKnown
<1> HIDE DEF p, r, n
<1>4. PICK f : Sums(f, p) /\ Chars(p) = f[Cardinality(S)]
  BY <1>1, CharsFound
<1>5. PICK h : Sums(h, r) /\ Chars(r) = h[n]
  BY <1>2, CharsFound
<1> DEFINE T == {k \in 0..n : h[k] = f[UpTo(S, k)]}
<1>6. UpTo(S, 0) = 0 /\ UpTo(S, n) = Cardinality(S)
  <2>1. {j \in S : j <= 0} = {} /\ {j \in S : j <= n} = S
    BY <1>3
  <2> QED
    BY <2>1, FS_EmptySet DEF UpTo
<1>7. 0 \in T
  BY <1>3, <1>4, <1>5, <1>6 DEF Sums
<1>8. ASSUME NEW k \in 1..n, k - 1 \in T PROVE k \in T
  <2>1. k - 1 \in Nat /\ k = (k - 1) + 1 /\ k \in 0..n
    BY <1>3
  <2>2. h[k - 1] = f[UpTo(S, k - 1)] /\ h[k] = h[k - 1] + Weight(r[k])
    BY <1>2, <1>5, <1>8 DEF Sums
  <2>3. UpTo(S, k) = UpTo(S, k - 1) + (IF k \in S THEN 1 ELSE 0)
    BY <1>1, <2>1, UpToStep
  <2>4. CASE k \in S
    <3>1. UpTo(S, k) \in 1..Cardinality(S) /\ Nth(S, UpTo(S, k)) = k
      BY <1>1, <2>4, MoreUpTo, NthFound
    <3>2. f[UpTo(S, k)] = f[UpTo(S, k) - 1] + Weight(p[UpTo(S, k)])
      BY <1>1, <1>4, <3>1 DEF Sums
    <3>3. p[UpTo(S, k)] = c[k] /\ r[k] = c[k]
      BY <1>1, <1>2, <2>4, <3>1
    <3>4. UpTo(S, k - 1) \in Nat
      BY <1>1, <2>1, MoreUpTo
    <3>5. UpTo(S, k) - 1 = UpTo(S, k - 1)
      BY <2>3, <2>4, <3>4
    <3> QED
      BY <2>1, <2>2, <3>2, <3>3, <3>5
  <2>5. CASE k \notin S
    <3>1. UpTo(S, k - 1) \in Nat /\ UpTo(S, k - 1) <= Cardinality(S)
      BY <1>1, <2>1, MoreUpTo
    <3>2. UpTo(S, k) = UpTo(S, k - 1) /\ UpTo(S, k) \in 0..Cardinality(S)
      BY <1>1, <2>3, <2>5, <3>1
    <3>3. h[k - 1] \in Nat
      BY <1>1, <1>4, <2>2, <3>2 DEF Sums
    <3>4. Weight(r[k]) = 0
      BY <1>2, <2>5
    <3> QED
      BY <2>1, <2>2, <3>2, <3>3, <3>4
  <2> QED
    BY <2>4, <2>5
<1>9. 0..n \subseteq T
  <2> HIDE DEF T
  <2> QED
    BY <1>3, <1>7, <1>8, Induction
<1>10. h[n] = f[Cardinality(S)]
  BY <1>3, <1>6, <1>9
<1> QED
  BY <1>4, <1>5, <1>10 DEF p, r

LEMMA CharsNowhere ==
    ASSUME NEW c \in Seq(Item)
    PROVE  Chars(Within(c, {})) = 0
<1> DEFINE r == Within(c, {})
           n == Len(c)
           f == [k \in 0..n |-> 0]
<1>1. /\ r \in Seq(Item) /\ Len(r) = n /\ n \in Nat
      /\ \A i \in 1..n : Weight(r[i]) = 0
  BY WithinKnown, ItemsKnown
<1> HIDE DEF r, n
<1>2. Sums(f, r)
  BY <1>1 DEF Sums
<1>3. f[n] = 0
  BY <1>1
<1> HIDE DEF f
<1> QED
  BY <1>1, <1>2, <1>3, CharsAre DEF r

LEMMA CharsOneMore ==
    ASSUME NEW c \in Seq(Item), NEW S, NEW x \in DOMAIN c, x \notin S
    PROVE  Chars(Within(c, S \cup {x})) = Chars(Within(c, S)) + Weight(c[x])
<1> DEFINE n == Len(c)
           r == Within(c, S)
           q == Within(c, S \cup {x})
           w == Weight(c[x])
<1>1. /\ r \in Seq(Item) /\ Len(r) = n /\ Weight(Nothing) = 0
      /\ \A i \in 1..n : r[i] = IF i \in S THEN c[i] ELSE Nothing
  BY WithinKnown
<1>2. /\ q \in Seq(Item) /\ Len(q) = n
      /\ \A i \in 1..n : q[i] = IF i \in S \cup {x} THEN c[i] ELSE Nothing
  BY WithinKnown
<1>3. n \in Nat /\ x \in 1..n /\ w \in Nat
  BY ItemsKnown
<1>4. \A i \in 1..n : Weight(r[i]) \in Nat
  BY <1>1, ItemsKnown
<1>5. Weight(q[x]) = w /\ Weight(r[x]) = 0 /\ \A i \in 1..n : i # x => q[i] = r[i]
  BY <1>1, <1>2, <1>3
<1> HIDE DEF n, r, q, w
<1>6. PICK f : Sums(f, r) /\ Chars(r) = f[n]
  BY <1>1, CharsFound
<1> DEFINE h == [k \in 0..n |-> IF k < x THEN f[k] ELSE f[k] + w]
<1>7. f \in [0..n -> Nat] /\ f[0] = 0 /\ \A i \in 1..n : f[i] = f[i - 1] + Weight(r[i])
  BY <1>1, <1>6 DEF Sums
<1>8. h \in [0..n -> Nat] /\ h[0] = 0 /\ h[n] = f[n] + w
  <2>1. \A k \in 0..n : f[k] \in Nat
    BY <1>7
  <2>2. 0 \in 0..n /\ n \in 0..n /\ 0 < x /\ ~(n < x)
    BY <1>3
  <2>3. \A k \in 0..n : (IF k < x THEN f[k] ELSE f[k] + w) \in Nat
    BY <1>3, <2>1
  <2>4. h \in [0..n -> Nat]
    BY <2>3
  <2>5. h[0] = f[0] /\ h[n] = f[n] + w
    BY <2>2
  <2> QED
    BY <1>7, <2>4, <2>5
<1>9. ASSUME NEW i \in 1..n PROVE h[i] = h[i - 1] + Weight(q[i])
  <2>1. i \in 0..n /\ i - 1 \in 0..n /\ f[i - 1] \in Nat /\ f[i] \in Nat
    BY <1>3, <1>7
  <2>2. f[i] = f[i - 1] + Weight(r[i])
    BY <1>7
  <2>3. CASE i < x
    <3>1. h[i] = f[i] /\ h[i - 1] = f[i - 1] /\ q[i] = r[i]
      BY <1>3, <1>5, <2>1, <2>3
    <3> QED
      BY <2>2, <3>1
  <2>4. CASE i = x
    <3>1. h[i] = f[i] + w /\ h[i - 1] = f[i - 1]
      BY <1>3, <2>1, <2>4
    <3> QED
      BY <1>3, <1>5, <2>1, <2>2, <2>4, <3>1
  <2>5. CASE i > x
    <3>1. h[i] = f[i] + w /\ h[i - 1] = f[i - 1] + w /\ q[i] = r[i]
      BY <1>3, <1>5, <2>1, <2>5
    <3> QED
      BY <1>3, <1>4, <2>1, <2>2, <3>1, SMTT(30)
  <2> QED
    BY <1>3, <2>3, <2>4, <2>5
<1>10. Sums(h, q)
  <2> HIDE DEF h
  <2> QED
    BY <1>2, <1>8, <1>9 DEF Sums
<1>11. Chars(q) = Chars(r) + w
  <2> HIDE DEF h
  <2> QED
    BY <1>2, <1>6, <1>8, <1>10, CharsAre
<1> QED
  BY <1>11 DEF r, q, w

\* What is picked at two sets of places has no more characters than there are.
LEMMA CharsSplit ==
    ASSUME NEW c \in Seq(Item), NEW S \in SUBSET (DOMAIN c), NEW T \in SUBSET (DOMAIN c),
           S \cap T = {}
    PROVE  Chars(Picked(c, S)) + Chars(Picked(c, T)) <= Chars(c)
<1>1. /\ Within(c, S) \in Seq(Item) /\ Len(Within(c, S)) = Len(c)
      /\ \A i \in 1..Len(c) : Within(c, S)[i] = IF i \in S THEN c[i] ELSE Nothing
  BY WithinKnown
<1>2. /\ Within(c, T) \in Seq(Item) /\ Len(Within(c, T)) = Len(c) /\ Weight(Nothing) = 0
      /\ \A i \in 1..Len(c) : Within(c, T)[i] = IF i \in T THEN c[i] ELSE Nothing
  BY WithinKnown
<1>3. ASSUME NEW i \in 1..Len(c)
      PROVE  Weight(Within(c, S)[i]) + Weight(Within(c, T)[i]) <= Weight(c[i])
  <2>1. Weight(c[i]) \in Nat
    BY ItemsKnown
  <2>2. i \notin S \/ i \notin T
    OBVIOUS
  <2> QED
    BY <1>1, <1>2, <2>1, <2>2
<1>4. Chars(Within(c, S)) + Chars(Within(c, T)) <= Chars(c)
  BY <1>1, <1>2, <1>3, CharsBelow
<1> QED
  BY <1>4, CharsPicked

-----------------------------------------------------------------------------
(* The last resort: who gets the room.                                     *)

TalkFits ==
    /\ talk \in Seq(TalkMessage)
    /\ \A i \in DOMAIN talk : talk[i].layer => talk[i].kind = "system"

\* Items of the messages of the run.
Known(c) == c \in Seq(Item) /\ \A i \in DOMAIN c : c[i].id \in 0..Len(talk)

LEMMA RankKnown ==
    ASSUME TalkFits, NEW m \in Item, m.id \in 0..Len(talk), NEW place \in Nat, NEW total \in Nat
    PROVE  Rank(m, place, total) \in Nat
<1>1. CASE m.id = 0
  BY <1>1 DEF Rank
<1>2. CASE m.id # 0
  <2>1. m.id \in 1..Len(talk)
    BY <1>2, LenProperties DEF TalkFits
  <2>2. talk[m.id] \in TalkMessage
    BY <2>1, ElementOfSeq DEF TalkFits
  <2>3. talk[m.id].kind \in {"system", "user", "calls", "text", "tool"}
    BY <2>2 DEF TalkMessage
  <2>4. CASE talk[m.id].kind = "system"
    BY <1>2, <2>4 DEF Rank
  <2>5. CASE talk[m.id].kind = "user"
    BY <1>2, <2>5 DEF Rank
  <2>6. CASE talk[m.id].kind = "calls"
    BY <1>2, <2>6 DEF Rank
  <2>7. CASE talk[m.id].kind = "text"
    BY <1>2, <2>7 DEF Rank
  <2>8. CASE talk[m.id].kind = "tool"
    BY <1>2, <2>8 DEF Rank
  <2> QED
    BY <2>3, <2>4, <2>5, <2>6, <2>7, <2>8
<1> QED
  BY <1>1, <1>2

\* The order is a strict one of all that may be cut.
LEMMA OneGoesBefore ==
    ASSUME TalkFits, NEW c, Known(c)
    PROVE  /\ \A i, j \in Evictable(c) : i # j => GoesBefore(c, i, j) \/ GoesBefore(c, j, i)
           /\ \A i \in Evictable(c) : ~GoesBefore(c, i, i)
           /\ \A i, j, k \in Evictable(c) :
                GoesBefore(c, i, j) /\ GoesBefore(c, j, k) => GoesBefore(c, i, k)
<1>1. Len(c) \in Nat /\ DOMAIN c = 1..Len(c) /\ \A i \in 1..Len(c) : c[i] \in Item
  BY ItemsKnown DEF Known
<1>2. \A i \in Evictable(c) : i \in Nat /\ Rank(c[i], i, Len(c)) \in Nat
  <2> TAKE i \in Evictable(c)
  <2>1. i \in DOMAIN c /\ i \in Nat /\ c[i] \in Item /\ c[i].id \in 0..Len(talk)
    BY <1>1 DEF Evictable, Known
  <2> QED
    BY <1>1, <2>1, RankKnown
<1>3. ASSUME NEW i \in Evictable(c), NEW j \in Evictable(c), i # j
      PROVE  GoesBefore(c, i, j) \/ GoesBefore(c, j, i)
  BY <1>2, <1>3 DEF GoesBefore
<1>4. ASSUME NEW i \in Evictable(c) PROVE ~GoesBefore(c, i, i)
  BY <1>2 DEF GoesBefore
<1>5. ASSUME NEW i \in Evictable(c), NEW j \in Evictable(c), NEW k \in Evictable(c),
             GoesBefore(c, i, j), GoesBefore(c, j, k)
      PROVE  GoesBefore(c, i, k)
  BY <1>2, <1>5 DEF GoesBefore
<1> QED
  BY <1>3, <1>4, <1>5

LEMMA EvictableKnown ==
    ASSUME NEW c \in Seq(Item)
    PROVE  /\ Evictable(c) \in SUBSET (DOMAIN c) /\ IsFiniteSet(Evictable(c))
           /\ Cardinality(Evictable(c)) \in Nat
<1>1. Evictable(c) \in SUBSET (DOMAIN c)
  BY DEF Evictable
<1> QED
  BY <1>1, PickedKnown

\* Each has its turn, and each turn is somebody's.
LEMMA TurnsTaken ==
    ASSUME TalkFits, NEW c, Known(c)
    PROVE  /\ \A i \in Evictable(c) : Turn(c, i) \in 1..Cardinality(Evictable(c))
           /\ \A i, j \in Evictable(c) : Turn(c, i) = Turn(c, j) => i = j
           /\ \A n \in 1..Cardinality(Evictable(c)) : \E i \in Evictable(c) : Turn(c, i) = n
<1> DEFINE E == Evictable(c)
           Up(i) == {j \in E : j = i \/ GoesBefore(c, j, i)}
           N == Cardinality(E)
           u == [i \in E |-> Turn(c, i)]
<1>1. IsFiniteSet(E) /\ N \in Nat
  BY EvictableKnown DEF Known
<1>2. \A i \in E : Up(i) \in SUBSET E /\ i \in Up(i)
  OBVIOUS
<1>3. \A i, j \in E : GoesBefore(c, i, j) => Up(i) \in SUBSET Up(j) /\ j \notin Up(i)
  <2> TAKE i, j \in E
  <2> HAVE GoesBefore(c, i, j)
  <2>1. i \in Evictable(c) /\ j \in Evictable(c)
    OBVIOUS
  <2>2. ASSUME NEW k \in Up(i) PROVE k \in Up(j)
    <3>1. k \in Evictable(c) /\ (k = i \/ GoesBefore(c, k, i))
      OBVIOUS
    <3> QED
      BY <2>1, <3>1, OneGoesBefore
  <2>3. j \notin Up(i)
    <3>1. ASSUME j \in Up(i) PROVE FALSE
      <4>1. j = i \/ GoesBefore(c, j, i)
        BY <3>1
      <4>2. GoesBefore(c, i, i)
        BY <2>1, <4>1, OneGoesBefore
      <4> QED
        BY <2>1, <4>2, OneGoesBefore
    <3> QED
      BY <3>1
  <2> QED
    BY <2>2, <2>3
<1>4. \A i \in E : Turn(c, i) = Cardinality(Up(i))
  BY DEF Turn
<1>5. \A i, j \in E : i # j => GoesBefore(c, i, j) \/ GoesBefore(c, j, i)
  BY OneGoesBefore
<1> HIDE DEF E, Up
<1>6. \A i \in E : IsFiniteSet(Up(i)) /\ Cardinality(Up(i)) \in Nat /\ Cardinality(Up(i)) <= N
  BY <1>1, <1>2, FS_Subset, FS_CardinalityType
<1>7. \A i, j \in E : GoesBefore(c, i, j) => Turn(c, i) # Turn(c, j)
  <2> TAKE i, j \in E
  <2> HAVE GoesBefore(c, i, j)
  <2>1. Up(i) \in SUBSET Up(j) /\ Up(i) # Up(j)
    BY <1>2, <1>3
  <2>2. Cardinality(Up(i)) # Cardinality(Up(j))
    BY <1>6, <2>1, FS_Subset
  <2> QED
    BY <1>4, <2>2
<1>8. \A i, j \in E : Turn(c, i) = Turn(c, j) => i = j
  BY <1>5, <1>7
<1>9. \A i \in E : Turn(c, i) \in 1..N
  <2> TAKE i \in E
  <2>1. Up(i) # {}
    BY <1>2
  <2>2. Cardinality(Up(i)) # 0
    BY <1>6, <2>1, FS_EmptySet
  <2> QED
    BY <1>1, <1>4, <1>6, <2>2
<1>10. u \in [E -> 1..N] /\ \A i, j \in E : i # j => u[i] # u[j]
  BY <1>8, <1>9
<1>11. \A i \in E : u[i] = Turn(c, i)
  OBVIOUS
<1> HIDE DEF u
<1>12. \A n \in 1..N : \E i \in E : u[i] = n
  BY <1>1, <1>10, AllNumbered
<1> QED
  BY <1>8, <1>9, <1>11, <1>12 DEF E

\* What a message is shortened to.
LEMMA ShortenedKnown ==
    ASSUME NEW m \in Item, NEW left \in Nat, left > 0
    PROVE  /\ Shortened(m, left) \in Item /\ Shortened(m, left).id = m.id
           /\ Weight(Shortened(m, left)) \in Nat /\ Weight(Shortened(m, left)) <= left + 3
<1> DEFINE size == IF 10 * m.size > 7 * left THEN Larger(0, (7 * left) \div 10 - 4) + 4 ELSE m.size
           rest == left - size
           think == IF m.think <= rest THEN m.think ELSE IF rest > ThinkRoom THEN rest ELSE 0
           r == [m EXCEPT !.size = size, !.think = think]
<1>1. m.id \in Nat /\ m.size \in Nat /\ m.think \in Nat /\ Weight(m) = m.size + m.think
  BY ItemKnown DEF Weight
<1>2. ThinkRoom \in Nat
  BY ContextAssumption
<1>3. (7 * left) \div 10 \in Int /\ 10 * ((7 * left) \div 10) <= 7 * left
  OBVIOUS
<1>4. size \in Nat /\ (size <= left \/ size = 4)
  <2>1. PICK d \in Int : d = (7 * left) \div 10
    BY <1>3
  <2>2. 10 * d <= 7 * left
    BY <1>3, <2>1
  <2>3. size = IF 10 * m.size > 7 * left THEN Larger(0, d - 4) + 4 ELSE m.size
    BY <2>1
  <2> HIDE DEF size
  <2>4. d <= left
    BY <2>2
  <2>5. CASE 10 * m.size > 7 * left
    <3>1. size = Larger(0, d - 4) + 4
      BY <2>3, <2>5
    <3> QED
      BY <2>4, <3>1 DEF Larger
  <2>6. CASE ~(10 * m.size > 7 * left)
    <3>1. size = m.size /\ m.size <= left
      BY <1>1, <2>3, <2>6
    <3> QED
      BY <1>1, <3>1
  <2> QED
    BY <2>5, <2>6
<1> HIDE DEF size
<1>5. think \in Nat /\ size + think <= left + 3
  BY <1>1, <1>2, <1>4
<1> HIDE DEF think
<1>6. r \in Item /\ r.id = m.id /\ r.size = size /\ r.think = think
  BY <1>1, <1>4, <1>5 DEF Item
<1>7. Shortened(m, left) = IF m.size + m.think > left THEN r ELSE m
  BY DEF Shortened, size, think
<1> HIDE DEF r
<1>8. CASE m.size + m.think > left
  BY <1>4, <1>5, <1>6, <1>7, <1>8 DEF Weight
<1>9. CASE ~(m.size + m.think > left)
  BY <1>1, <1>7, <1>9
<1> QED
  BY <1>8, <1>9

-----------------------------------------------------------------------------
(* The last resort: what it leaves.                                        *)

LEMMA LayersKnown ==
    ASSUME NEW c \in Seq(Item)
    PROVE  Layers(c) \in Seq(Item) /\ Chars(Layers(c)) \in Nat
<1>1. {i \in DOMAIN c : IsLayer(c[i])} \in SUBSET (DOMAIN c)
  OBVIOUS
<1>2. Layers(c) \in Seq(Item)
  BY <1>1, PickedKnown DEF Layers
<1> QED
  BY <1>2, CharsNat

TurnsOf(c) == Cardinality(Evictable(c))

\* What one message takes of so much room.
CharsTaken(m, left) == IF left <= 0 THEN 0 ELSE Weight(Shortened(m, left))

\* Room is given from turn to turn.
LeavesRoom(f, c, room) ==
    /\ f \in [0..TurnsOf(c) -> Int]
    /\ f[0] = Larger(0, room - Chars(Layers(c)))
    /\ \A i \in Evictable(c) : f[Turn(c, i)] = f[Turn(c, i) - 1] - CharsTaken(c[i], f[Turn(c, i) - 1])

LEMMA TakenKnown ==
    ASSUME NEW m \in Item, NEW left \in Int
    PROVE  CharsTaken(m, left) \in Nat /\ (left > 0 => CharsTaken(m, left) <= left + 3)
<1>1. CASE left <= 0
  BY <1>1 DEF CharsTaken
<1>2. CASE ~(left <= 0)
  <2>1. left \in Nat /\ left > 0
    BY <1>2
  <2> QED
    BY <1>2, <2>1, ShortenedKnown DEF CharsTaken
<1> QED
  BY <1>1, <1>2

LEMMA LeftFound ==
    ASSUME TalkFits, NEW c, Known(c), NEW room \in Int
    PROVE  LeavesRoom(Left(c, room), c, room)
<1> DEFINE N == TurnsOf(c)
           next(n) == CHOOSE i \in Evictable(c) : Turn(c, i) = n
           first == Larger(0, room - Chars(Layers(c)))
           g == [n \in 1..N |-> [x \in Int |-> x - CharsTaken(c[next(n)], x)]]
           f == Left(c, room)
<1>1. N \in Nat /\ c \in Seq(Item) /\ \A i \in Evictable(c) : c[i] \in Item
  BY EvictableKnown, ElementOfSeq, LenProperties DEF Known, TurnsOf
<1>2. /\ \A i \in Evictable(c) : Turn(c, i) \in 1..N
      /\ \A n \in 1..N : next(n) \in Evictable(c) /\ Turn(c, next(n)) = n
      /\ \A i \in Evictable(c) : next(Turn(c, i)) = i
  BY TurnsTaken DEF TurnsOf
<1>3. first \in Int
  BY <1>1, LayersKnown DEF Larger
<1>4. g \in [1..N -> [Int -> Int]]
  <2> SUFFICES ASSUME NEW n \in 1..N, NEW x \in Int PROVE x - CharsTaken(c[next(n)], x) \in Int
    OBVIOUS
  <2>1. c[next(n)] \in Item
    BY <1>1, <1>2
  <2>2. CharsTaken(c[next(n)], x) \in Nat
    BY <2>1, TakenKnown
  <2> QED
    BY <2>2
<1>5. \E h \in [0..N -> Int] : Iterates(h, first, N, g)
  <2> HIDE DEF g, first, N
  <2> QED
    BY <1>1, <1>3, <1>4, Iterating
<1>6. PICK h \in [0..N -> Int] : Iterates(h, first, N, g)
  BY <1>5
<1>7. h[0] = first /\ \A n \in 1..N : h[n] = h[n - 1] - CharsTaken(c[next(n)], h[n - 1])
  <2>1. h[0] = first /\ \A n \in 1..N : h[n] = g[n][h[n - 1]]
    <3> HIDE DEF g, first, N
    <3> QED
      BY <1>6 DEF Iterates
  <2>2. \A n \in 1..N : h[n - 1] \in Int
    BY <1>1
  <2> HIDE DEF first, N, next
  <2> QED
    BY <2>1, <2>2
<1> DEFINE Next(n, x) == LET m == Shortened(c[next(n)], x)
                         IN  IF x <= 0 THEN x ELSE x - m.size - m.think
<1>8. \A n \in 1..N, x \in Int : Next(n, x) = x - CharsTaken(c[next(n)], x)
  <2> TAKE n \in 1..N, x \in Int
  <2>1. c[next(n)] \in Item
    BY <1>1, <1>2
  <2> HIDE DEF next
  <2>2. CASE x <= 0
    BY <2>2 DEF CharsTaken
  <2>3. CASE ~(x <= 0)
    <3>1. Shortened(c[next(n)], x) \in Item
      BY <2>1, <2>3, ShortenedKnown
    <3>2. /\ Shortened(c[next(n)], x).size \in Nat /\ Shortened(c[next(n)], x).think \in Nat
          /\ Weight(Shortened(c[next(n)], x))
               = Shortened(c[next(n)], x).size + Shortened(c[next(n)], x).think
      BY <3>1, ItemKnown DEF Weight
    <3> QED
      BY <2>3, <3>2 DEF CharsTaken
  <2> QED
    BY <2>2, <2>3
<1>9. h = [n \in 0..N |-> IF n = 0 THEN first ELSE Next(n, h[n - 1])]
  <2>1. \A n \in 1..N : h[n] = Next(n, h[n - 1])
    <3> HIDE DEF Next, N, next
    <3> TAKE n \in 1..N
    <3>1. h[n - 1] \in Int
      BY <1>1
    <3> QED
      BY <1>7, <1>8, <3>1
  <2> HIDE DEF Next, N, first
  <2> QED
    BY <1>1, <1>7, <2>1
<1>10. f = [n \in 0..N |-> IF n = 0 THEN first ELSE Next(n, f[n - 1])]
  BY <1>9, Zenon DEF Left, TurnsOf
<1> HIDE DEF f, g, first, next
<1>11. \A k \in 0..N : f[k] = h[k]
  <2> DEFINE T == {k \in 0..N : f[k] = h[k]}
  <2> HIDE DEF Next
  <2>1. 0 \in T
    BY <1>1, <1>7, <1>10
  <2>2. ASSUME NEW k \in 1..N, k - 1 \in T PROVE k \in T
    <3>1. k \in 0..N /\ k # 0
      BY <1>1
    <3>2. f[k] = Next(k, f[k - 1])
      BY <1>10, <3>1
    <3>3. h[k] = Next(k, h[k - 1])
      BY <1>9, <3>1
    <3> QED
      BY <2>2, <3>1, <3>2, <3>3
  <2>3. 0..N \subseteq T
    <3> HIDE DEF T, N
    <3> QED
      BY <1>1, <2>1, <2>2, Induction
  <2> QED
    BY <2>3
<1>12. f = h
  <2> HIDE DEF Next, N
  <2>1. DOMAIN f = 0..N /\ f = [k \in 0..N |-> f[k]]
    BY <1>10
  <2> QED
    BY <1>11, <2>1
<1>13. \A i \in Evictable(c) : h[Turn(c, i)] = h[Turn(c, i) - 1] - CharsTaken(c[i], h[Turn(c, i) - 1])
  BY <1>2, <1>7
<1>14. LeavesRoom(h, c, room)
  BY <1>6, <1>7, <1>13 DEF LeavesRoom, first
<1> QED
  BY <1>12, <1>14 DEF f

\* Room gets less, and at the end at most three characters too many are taken.
LEMMA LeftBounds ==
    ASSUME TalkFits, NEW c, Known(c), NEW room, NEW f, LeavesRoom(f, c, room)
    PROVE  /\ \A k \in 0..TurnsOf(c), j \in 0..TurnsOf(c) : j <= k => f[k] <= f[j]
           /\ \A k \in 0..TurnsOf(c) : f[k] >= -3 /\ (f[0] <= 0 => f[k] = f[0])
<1> DEFINE N == TurnsOf(c)
           T == {k \in 0..N : /\ f[k] >= -3 /\ (f[0] <= 0 => f[k] = f[0])
                              /\ \A j \in 0..k : f[k] <= f[j]}
<1>1. N \in Nat /\ c \in Seq(Item) /\ \A i \in Evictable(c) : c[i] \in Item
  BY EvictableKnown, ElementOfSeq, LenProperties DEF Known, TurnsOf
<1>2. f \in [0..N -> Int] /\ f[0] >= 0
  <2>1. 0 \in 0..N
    BY <1>1
  <2>2. f[0] = Larger(0, room - Chars(Layers(c))) /\ f[0] \in Int
    BY <2>1 DEF LeavesRoom
  <2>3. f[0] >= 0
    BY <2>2 DEF Larger
  <2> QED
    BY <2>3 DEF LeavesRoom
<1>3. \A k \in 1..N : \E i \in Evictable(c) : Turn(c, i) = k
  BY TurnsTaken DEF TurnsOf
<1>4. \A k \in 1..N : \E m \in Item : f[k] = f[k - 1] - CharsTaken(m, f[k - 1])
  BY <1>1, <1>3 DEF LeavesRoom
<1> HIDE DEF N
<1>5. 0 \in T
  BY <1>1, <1>2
<1>6. ASSUME NEW k \in 1..N, k - 1 \in T PROVE k \in T
  <2>1. k \in 0..N /\ k - 1 \in 0..N
    BY <1>1
  <2>2. PICK m \in Item : f[k] = f[k - 1] - CharsTaken(m, f[k - 1])
    BY <1>4
  <2>3. f[k] \in Int /\ f[k - 1] \in Int
    BY <1>2, <2>1
  <2>4. CharsTaken(m, f[k - 1]) \in Nat /\ (f[k - 1] > 0 => CharsTaken(m, f[k - 1]) <= f[k - 1] + 3)
    BY <2>3, TakenKnown
  <2>5. f[k - 1] <= 0 => CharsTaken(m, f[k - 1]) = 0
    BY DEF CharsTaken
  <2>6. f[k] <= f[k - 1]
    BY <2>2, <2>3, <2>4
  <2>7. f[k] >= -3 /\ (f[0] <= 0 => f[k] = f[0])
    <3>1. f[k - 1] >= -3 /\ (f[0] <= 0 => f[k - 1] = f[0])
      BY <1>6
    <3> QED
      BY <2>2, <2>3, <2>4, <2>5, <3>1
  <2>8. \A j \in 0..k : f[k] <= f[j]
    <3> TAKE j \in 0..k
    <3>1. CASE j = k
      BY <2>3, <3>1
    <3>2. CASE j # k
      <4>1. j \in 0..(k - 1) /\ j \in 0..N
        BY <1>1, <3>2
      <4>2. f[k - 1] <= f[j] /\ f[j] \in Int
        BY <1>2, <1>6, <4>1
      <4> QED
        BY <2>3, <2>6, <4>2
    <3> QED
      BY <3>1, <3>2
  <2> QED
    BY <2>1, <2>7, <2>8
<1>7. 0..N \subseteq T
  <2> HIDE DEF T
  <2> QED
    BY <1>1, <1>5, <1>6, Induction
<1>8. ASSUME NEW k \in 0..N, NEW j \in 0..N, j <= k PROVE f[k] <= f[j]
  <2>1. j \in 0..k /\ k \in T
    BY <1>1, <1>7, <1>8
  <2> QED
    BY <2>1
<1> QED
  BY <1>7, <1>8 DEF N

-----------------------------------------------------------------------------
(* The last resort: how long it is.                                        *)

\* The messages that find room, and what is left of them.
Given(c, f) == {i \in Evictable(c) : f[Turn(c, i) - 1] > 0}
Fitted(c, f) == [i \in DOMAIN c |->
                   IF i \in Given(c, f) THEN Shortened(c[i], f[Turn(c, i) - 1]) ELSE c[i]]

LEMMA FittedKnown ==
    ASSUME TalkFits, NEW c, Known(c), NEW room, NEW f, LeavesRoom(f, c, room)
    PROVE  /\ Given(c, f) \in SUBSET (DOMAIN c)
           /\ Fitted(c, f) \in Seq(Item) /\ Len(Fitted(c, f)) = Len(c)
           /\ \A i \in DOMAIN c : Fitted(c, f)[i].id = c[i].id
           /\ \A i \in Given(c, f) : Weight(Fitted(c, f)[i]) = CharsTaken(c[i], f[Turn(c, i) - 1])
<1>1. Len(c) \in Nat /\ DOMAIN c = 1..Len(c) /\ \A i \in 1..Len(c) : c[i] \in Item
  BY ItemsKnown DEF Known
<1>2. Given(c, f) \in SUBSET Evictable(c) /\ Evictable(c) \in SUBSET (DOMAIN c)
  BY EvictableKnown DEF Given, Known
<1>3. ASSUME NEW i \in Given(c, f)
      PROVE  /\ f[Turn(c, i) - 1] \in Nat /\ f[Turn(c, i) - 1] > 0 /\ c[i] \in Item
             /\ Fitted(c, f)[i] = Shortened(c[i], f[Turn(c, i) - 1])
  <2>1. i \in Evictable(c) /\ i \in DOMAIN c /\ f[Turn(c, i) - 1] > 0
    BY <1>2 DEF Given
  <2>2. Turn(c, i) \in 1..TurnsOf(c) /\ TurnsOf(c) \in Nat
    BY <2>1, TurnsTaken, EvictableKnown DEF TurnsOf, Known
  <2>3. Turn(c, i) - 1 \in 0..TurnsOf(c)
    BY <2>2
  <2>4. f[Turn(c, i) - 1] \in Int
    BY <2>3 DEF LeavesRoom
  <2> QED
    BY <1>1, <2>1, <2>4 DEF Fitted
<1>4. ASSUME NEW i \in DOMAIN c
      PROVE  Fitted(c, f)[i] \in Item /\ Fitted(c, f)[i].id = c[i].id
  <2>1. CASE i \in Given(c, f)
    <3>1. PICK left \in Nat : left > 0 /\ Fitted(c, f)[i] = Shortened(c[i], left) /\ c[i] \in Item
      BY <1>3, <2>1
    <3> QED
      BY <3>1, ShortenedKnown
  <2>2. CASE i \notin Given(c, f)
    BY <1>1, <2>2 DEF Fitted
  <2> QED
    BY <2>1, <2>2
<1>5. Fitted(c, f) \in [1..Len(c) -> Item]
  <2>1. DOMAIN Fitted(c, f) = 1..Len(c) /\ Fitted(c, f) = [i \in 1..Len(c) |-> Fitted(c, f)[i]]
    BY <1>1 DEF Fitted
  <2> QED
    BY <1>1, <1>4, <2>1
<1>6. ASSUME NEW i \in Given(c, f)
      PROVE  Weight(Fitted(c, f)[i]) = CharsTaken(c[i], f[Turn(c, i) - 1])
  <2>1. ~(f[Turn(c, i) - 1] <= 0)
    BY <1>3
  <2> QED
    BY <1>3, <2>1 DEF CharsTaken
<1>7. Fitted(c, f) \in Seq(Item) /\ Len(Fitted(c, f)) = Len(c)
  BY <1>1, <1>5, FunctionIsSeq
<1> QED
  BY <1>2, <1>4, <1>6, <1>7

\* LayersThenOthers they take what is given away.
LEMMA GivenChars ==
    ASSUME TalkFits, NEW c, Known(c), NEW room, NEW f, LeavesRoom(f, c, room)
    PROVE  Chars(Picked(Fitted(c, f), Given(c, f))) = f[0] - f[TurnsOf(c)]
<1> DEFINE N == TurnsOf(c)
           d == Fitted(c, f)
           G == Given(c, f)
           K(n) == {i \in G : Turn(c, i) <= n}
           T == {n \in 0..N : Chars(Within(d, K(n))) = f[0] - f[n]}
<1>1. N \in Nat /\ c \in Seq(Item) /\ \A i \in Evictable(c) : c[i] \in Item
  BY EvictableKnown, ElementOfSeq, LenProperties DEF Known, TurnsOf
<1>2. /\ G \in SUBSET (DOMAIN c) /\ d \in Seq(Item) /\ Len(d) = Len(c)
      /\ \A i \in G : Weight(d[i]) = CharsTaken(c[i], f[Turn(c, i) - 1])
  BY FittedKnown
<1>3. /\ \A i \in Evictable(c) : Turn(c, i) \in 1..N
      /\ \A i, j \in Evictable(c) : Turn(c, i) = Turn(c, j) => i = j
      /\ \A n \in 1..N : \E i \in Evictable(c) : Turn(c, i) = n
  BY TurnsTaken DEF TurnsOf
<1>4. f \in [0..N -> Int]
  BY DEF LeavesRoom
<1>5. G \in SUBSET Evictable(c) /\ \A i \in Evictable(c) : i \in G <=> f[Turn(c, i) - 1] > 0
  BY DEF Given
<1>6. DOMAIN d = DOMAIN c
  BY <1>1, <1>2, LenProperties
<1> HIDE DEF N, d, G
<1>7. 0 \in T
  <2>1. K(0) = {}
    <3> SUFFICES ASSUME NEW i \in G, Turn(c, i) <= 0 PROVE FALSE
      OBVIOUS
    <3>1. Turn(c, i) \in 1..N
      BY <1>3, <1>5
    <3> QED
      BY <1>1, <3>1
  <2>2. Chars(Within(d, K(0))) = 0
    BY <1>2, <2>1, CharsNowhere
  <2>3. 0 \in 0..N /\ f[0] \in Int
    BY <1>1, <1>4
  <2> HIDE DEF K
  <2> QED
    BY <2>2, <2>3
<1>8. ASSUME NEW n \in 1..N, n - 1 \in T PROVE n \in T
  <2>1. n \in 0..N /\ n - 1 \in 0..N /\ f[n] \in Int /\ f[n - 1] \in Int /\ f[0] \in Int
    BY <1>1, <1>4
  <2>2. PICK x \in Evictable(c) : Turn(c, x) = n
    BY <1>3
  <2>3. f[n] = f[n - 1] - CharsTaken(c[x], f[n - 1])
    BY <2>2 DEF LeavesRoom
  <2>4. \A i \in G : Turn(c, i) <= n <=> Turn(c, i) <= n - 1 \/ i = x
    <3> TAKE i \in G
    <3>1. i \in Evictable(c) /\ Turn(c, i) \in 1..N
      BY <1>3, <1>5
    <3>2. Turn(c, i) = n <=> i = x
      BY <1>3, <2>2, <3>1
    <3> QED
      BY <1>1, <2>1, <2>2, <3>1, <3>2
  <2>5. CASE x \in G
    <3>1. K(n) = K(n - 1) \cup {x}
      <4>1. K(n) \subseteq K(n - 1) \cup {x}
        BY <2>4
      <4>2. K(n - 1) \cup {x} \subseteq K(n)
        BY <2>4, <2>5
      <4> QED
        BY <4>1, <4>2
    <3>2. x \notin K(n - 1) /\ x \in DOMAIN d
      <4>1. ~(n <= n - 1)
        BY <2>1
      <4> QED
        BY <1>2, <1>6, <2>2, <2>5, <4>1
    <3> HIDE DEF K
    <3>3. Chars(Within(d, K(n - 1) \cup {x})) = Chars(Within(d, K(n - 1))) + Weight(d[x])
      BY <1>2, <3>2, CharsOneMore
    <3>4. Weight(d[x]) = CharsTaken(c[x], f[n - 1]) /\ CharsTaken(c[x], f[n - 1]) \in Nat
      <4>1. CharsTaken(c[x], f[n - 1]) \in Nat
        BY <1>1, <2>1, TakenKnown
      <4> QED
        BY <1>2, <2>2, <2>5, <4>1
    <3>5. Chars(Within(d, K(n - 1))) = f[0] - f[n - 1]
      BY <1>8
    <3>6. Chars(Within(d, K(n))) = f[0] - f[n]
      BY <2>1, <2>3, <3>1, <3>3, <3>4, <3>5
    <3> QED
      BY <2>1, <3>6
  <2>6. CASE x \notin G
    <3>1. K(n) = K(n - 1)
      BY <2>4, <2>6
    <3>2. f[n - 1] <= 0
      <4>1. ~(f[n - 1] > 0)
        BY <1>5, <2>2, <2>6
      <4> QED
        BY <2>1, <4>1
    <3>3. f[n] = f[n - 1]
      BY <2>1, <2>3, <3>2 DEF CharsTaken
    <3> HIDE DEF K
    <3> QED
      BY <1>8, <2>1, <3>1, <3>3
  <2> QED
    BY <2>5, <2>6
<1>9. 0..N \subseteq T
  <2> HIDE DEF T
  <2> QED
    BY <1>1, <1>7, <1>8, Induction
<1>10. Chars(Within(d, K(N))) = f[0] - f[N]
  <2>1. N \in 0..N
    BY <1>1
  <2> QED
    BY <1>9, <2>1
<1>11. K(N) = G
  <2> SUFFICES ASSUME NEW i \in G PROVE Turn(c, i) <= N
    OBVIOUS
  <2>1. Turn(c, i) \in 1..N
    BY <1>3, <1>5
  <2> QED
    BY <1>1, <2>1
<1>12. Chars(Picked(d, G)) = Chars(Within(d, G))
  BY <1>2, <1>6, CharsPicked
<1> QED
  BY <1>10, <1>11, <1>12 DEF d, G, N

LEMMA ForceFitIs ==
    ASSUME TalkFits, NEW c, Known(c), NEW room \in Int
    PROVE  \E f : /\ LeavesRoom(f, c, room)
                  /\ ForceFit(c, room) = Layers(c) \o Picked(Fitted(c, f), Given(c, f))
<1> DEFINE f == Left(c, room)
           e == [i \in DOMAIN c |->
                   IF i \in Evictable(c) THEN Shortened(c[i], f[Turn(c, i) - 1]) ELSE c[i]]
<1>1. LeavesRoom(f, c, room)
  BY LeftFound
<1>2. ForceFit(c, room) = Layers(c) \o Picked(e, Given(c, f))
  BY DEF ForceFit, Given
<1> HIDE DEF f
<1>3. /\ Given(c, f) \in SUBSET (DOMAIN c) /\ Fitted(c, f) \in Seq(Item)
      /\ DOMAIN Fitted(c, f) = DOMAIN c
  BY <1>1, FittedKnown DEF Fitted
<1>4. \A i \in Given(c, f) : e[i] = Fitted(c, f)[i]
  BY <1>3 DEF Fitted, Given
<1> HIDE DEF e
<1>5. Picked(e, Given(c, f)) = Picked(Fitted(c, f), Given(c, f))
  BY <1>3, <1>4, PickedSame
<1> QED
  BY <1>1, <1>2, <1>5

\* It has the room it was given, unless the layers need more; and when it does not fill the
\* room, nothing is missing.
LEMMA ForceFitLength ==
    ASSUME TalkFits, NEW c, Known(c), NEW room \in Int, NEW f, LeavesRoom(f, c, room),
           NEW p, p = Picked(Fitted(c, f), Given(c, f))
    PROVE  /\ Chars(Layers(c) \o p) <= Larger(room, Chars(Layers(c))) + 3
           /\ Chars(Layers(c) \o p) >= room \/ Given(c, f) = Evictable(c)
<1> DEFINE N == TurnsOf(c)
           L == Chars(Layers(c))
<1>1. Layers(c) \in Seq(Item) /\ L \in Nat
  BY LayersKnown DEF Known
<1>2. N \in Nat
  BY EvictableKnown DEF Known, TurnsOf
<1>3. Fitted(c, f) \in Seq(Item) /\ Given(c, f) \in SUBSET (DOMAIN Fitted(c, f))
  <2>1. DOMAIN Fitted(c, f) = DOMAIN c
    BY DEF Fitted
  <2> QED
    BY <2>1, FittedKnown
<1>4. p \in Seq(Item)
  BY <1>3, PickedKnown
<1>5. Chars(Layers(c) \o p) = L + Chars(p)
  BY <1>1, <1>4, CharsConcat
<1>6. Chars(p) = f[0] - f[N]
  BY GivenChars
<1> HIDE DEF N
<1>7. f[0] \in Int /\ f[N] \in Int /\ f[0] = Larger(0, room - L) /\ f \in [0..N -> Int]
  <2>1. 0 \in 0..N /\ N \in 0..N
    BY <1>2
  <2> QED
    BY <2>1 DEF LeavesRoom, N
<1>8. f[N] >= -3 /\ (f[0] <= 0 => f[N] = f[0]) /\ \A j \in 0..N : f[N] <= f[j]
  <2>1. N \in 0..N /\ \A j \in 0..N : j <= N
    BY <1>2
  <2> QED
    BY <2>1, LeftBounds DEF N
<1> HIDE DEF L
<1>9. Chars(Layers(c) \o p) <= Larger(room, L) + 3
  BY <1>1, <1>5, <1>6, <1>7, <1>8 DEF Larger
<1>10. CASE f[N] <= 0
  <2>1. f[0] >= room - L
    BY <1>1, <1>7 DEF Larger
  <2>2. Chars(Layers(c) \o p) >= room
    BY <1>1, <1>5, <1>6, <1>7, <1>10, <2>1
  <2> QED
    BY <1>9, <2>2 DEF L
<1>11. CASE ~(f[N] <= 0)
  <2>1. ASSUME NEW i \in Evictable(c) PROVE f[Turn(c, i) - 1] > 0
    <3>1. Turn(c, i) \in 1..N
      BY TurnsTaken DEF TurnsOf, N
    <3>2. Turn(c, i) - 1 \in 0..N
      BY <1>2, <3>1
    <3>3. f[N] <= f[Turn(c, i) - 1] /\ f[Turn(c, i) - 1] \in Int
      BY <1>7, <1>8, <3>2
    <3> QED
      BY <1>7, <1>11, <3>3
  <2>2. Given(c, f) = Evictable(c)
    BY <2>1 DEF Given
  <2> QED
    BY <1>9, <2>2 DEF L
<1> QED
  BY <1>10, <1>11

-----------------------------------------------------------------------------
(* What every context that is sent has.                                    *)

InTalkOrder(c) == \A i, j \in {k \in DOMAIN c : ~IsSystem(c[k])} : i < j => c[i].id < c[j].id
HasNewest(c) == \E i \in DOMAIN c : c[i].id = Len(talk)

\* A conversation from which a context is made, and a context as it is made.
Source(c) ==
    /\ Known(c) /\ InTalkOrder(c)
    /\ KeepRecent = 0 \/ HasNewest(c)
    /\ Layers(c) = Layers(Whole)

FitToSend(c, room) ==
    /\ Known(c) /\ InTalkOrder(c)
    /\ Layers(c) = Layers(Whole)
    /\ Chars(c) <= Larger(room, Chars(Layers(Whole))) + 3
    /\ KeepRecent = 0 \/ Chars(c) >= room \/ HasNewest(c)

\* Layers are system messages of the run.
LEMMA LayerKnown ==
    ASSUME TalkFits, NEW m \in Item, m.id \in 0..Len(talk), IsLayer(m)
    PROVE  IsSystem(m) /\ m.id \in 1..Len(talk)
<1>1. m.id # 0 /\ talk[m.id].layer
  BY DEF IsLayer
<1>2. Len(talk) \in Nat /\ DOMAIN talk = 1..Len(talk)
  BY LenProperties DEF TalkFits
<1>3. m.id \in 1..Len(talk)
  BY <1>1, <1>2
<1>4. talk[m.id].kind = "system"
  BY <1>1, <1>2, <1>3 DEF TalkFits
<1> QED
  BY <1>3, <1>4 DEF IsSystem

\* What is in the layers of c is a layer of c.
LEMMA InLayers ==
    ASSUME NEW c \in Seq(Item)
    PROVE  /\ \A n \in DOMAIN Layers(c) :
                IsLayer(Layers(c)[n]) /\ \E i \in DOMAIN c : Layers(c)[n] = c[i]
           /\ \A i \in DOMAIN c : IsLayer(c[i]) => \E n \in DOMAIN Layers(c) : Layers(c)[n] = c[i]
           /\ Layers(c) \in Seq(Item)
<1> DEFINE S == {i \in DOMAIN c : IsLayer(c[i])}
<1>1. S \in SUBSET (DOMAIN c) /\ Layers(c) = Picked(c, S)
  BY DEF Layers
<1>2. \A i \in S : IsLayer(c[i]) /\ i \in DOMAIN c
  OBVIOUS
<1>3. \A i \in DOMAIN c : IsLayer(c[i]) => i \in S
  OBVIOUS
<1> HIDE DEF S
<1>4. /\ Picked(c, S) \in Seq(Item) /\ DOMAIN Picked(c, S) = 1..Cardinality(S)
      /\ \A n \in 1..Cardinality(S) : Nth(S, n) \in S /\ Picked(c, S)[n] = c[Nth(S, n)]
  BY <1>1, PickedKnown
<1>5. \A i \in S : \E n \in DOMAIN Picked(c, S) : Picked(c, S)[n] = c[i]
  BY <1>1, PickedAll
<1> QED
  BY <1>1, <1>2, <1>3, <1>4, <1>5

\* The layers of two parts of which the second has none.
LEMMA LayersFirst ==
    ASSUME NEW c \in Seq(Item), NEW d \in Seq(Item), \A i \in DOMAIN d : ~IsLayer(d[i])
    PROVE  Layers(c \o d) = Layers(c)
<1> DEFINE S == {i \in DOMAIN c : IsLayer(c[i])}
           R == {i \in DOMAIN (c \o d) : IsLayer((c \o d)[i])}
<1>1. /\ Len(c) \in Nat /\ Len(d) \in Nat /\ DOMAIN c = 1..Len(c) /\ DOMAIN d = 1..Len(d)
      /\ c \o d \in Seq(Item) /\ DOMAIN (c \o d) = 1..(Len(c) + Len(d))
      /\ \A i \in 1..Len(c) + Len(d) : (c \o d)[i] = IF i <= Len(c) THEN c[i] ELSE d[i - Len(c)]
  BY LenProperties, ConcatProperties
<1>2. R = S
  <2>1. ASSUME NEW i \in R PROVE i \in S
    <3>1. i \in 1..Len(c) + Len(d) /\ IsLayer((c \o d)[i])
      BY <1>1
    <3>2. CASE i <= Len(c)
      BY <1>1, <3>1, <3>2
    <3>3. CASE ~(i <= Len(c))
      <4>1. i - Len(c) \in DOMAIN d /\ (c \o d)[i] = d[i - Len(c)]
        BY <1>1, <3>1, <3>3
      <4> QED
        BY <3>1, <4>1
    <3> QED
      BY <3>2, <3>3
  <2>2. ASSUME NEW i \in S PROVE i \in R
    <3>1. i \in 1..Len(c) /\ IsLayer(c[i])
      BY <1>1
    <3>2. i \in 1..Len(c) + Len(d) /\ i <= Len(c)
      BY <1>1, <3>1
    <3> QED
      BY <1>1, <3>1, <3>2
  <2> QED
    BY <2>1, <2>2
<1>3. S \in SUBSET (DOMAIN c) /\ Layers(c) = Picked(c, S) /\ Layers(c \o d) = Picked(c \o d, R)
  BY DEF Layers
<1> HIDE DEF S, R
<1>4. Picked(c \o d, S) = Picked(c, S)
  BY <1>3, PickedFirst
<1> QED
  BY <1>2, <1>3, <1>4

LEMMA LayersTwice ==
    ASSUME NEW c \in Seq(Item), \A i \in DOMAIN c : IsLayer(c[i])
    PROVE  Layers(c) = c
<1>1. {i \in DOMAIN c : IsLayer(c[i])} = DOMAIN c
  OBVIOUS
<1> QED
  BY <1>1, PickedWhole DEF Layers

\* System messages first, and then others: this is how contexts are put together.
LEMMA TwoParts ==
    ASSUME NEW a, Known(a), \A n \in DOMAIN a : IsSystem(a[n]),
           NEW p, Known(p), InTalkOrder(p)
    PROVE  /\ Known(a \o p) /\ InTalkOrder(a \o p)
           /\ HasNewest(a) \/ HasNewest(p) => HasNewest(a \o p)
           /\ (\A i \in DOMAIN a : ~IsLayer(a[i])) /\ (\A i \in DOMAIN p : ~IsLayer(p[i]))
                => \A i \in DOMAIN (a \o p) : ~IsLayer((a \o p)[i])
<1>1. /\ Len(a) \in Nat /\ Len(p) \in Nat /\ DOMAIN a = 1..Len(a) /\ DOMAIN p = 1..Len(p)
      /\ a \o p \in Seq(Item) /\ DOMAIN (a \o p) = 1..(Len(a) + Len(p))
      /\ \A i \in 1..Len(a) + Len(p) : (a \o p)[i] = IF i <= Len(a) THEN a[i] ELSE p[i - Len(a)]
  BY LenProperties, ConcatProperties DEF Known
<1>2. /\ \A n \in DOMAIN a : a[n].id \in 0..Len(talk) /\ IsSystem(a[n])
      /\ \A n \in DOMAIN p : p[n].id \in 0..Len(talk)
  BY DEF Known
<1>3. /\ \A i \in 1..Len(a) : i \in DOMAIN (a \o p) /\ (a \o p)[i] = a[i]
      /\ \A i \in 1..Len(p) : Len(a) + i \in DOMAIN (a \o p) /\ (a \o p)[Len(a) + i] = p[i]
      /\ \A i \in DOMAIN (a \o p) :
           \/ i \in DOMAIN a /\ (a \o p)[i] = a[i]
           \/ i - Len(a) \in DOMAIN p /\ (a \o p)[i] = p[i - Len(a)] /\ i \in Nat
  <2>1. ASSUME NEW i \in 1..Len(a) PROVE i \in DOMAIN (a \o p) /\ (a \o p)[i] = a[i]
    <3>1. i \in 1..Len(a) + Len(p) /\ i <= Len(a)
      BY <1>1
    <3> QED
      BY <1>1, <3>1
  <2>2. ASSUME NEW i \in 1..Len(p)
        PROVE  Len(a) + i \in DOMAIN (a \o p) /\ (a \o p)[Len(a) + i] = p[i]
    <3>1. Len(a) + i \in 1..Len(a) + Len(p) /\ ~(Len(a) + i <= Len(a)) /\ Len(a) + i - Len(a) = i
      BY <1>1
    <3> QED
      BY <1>1, <3>1
  <2>3. ASSUME NEW i \in DOMAIN (a \o p)
        PROVE  \/ i \in DOMAIN a /\ (a \o p)[i] = a[i]
               \/ i - Len(a) \in DOMAIN p /\ (a \o p)[i] = p[i - Len(a)] /\ i \in Nat
    <3>1. i \in 1..Len(a) + Len(p)
      BY <1>1
    <3>2. CASE i <= Len(a)
      BY <1>1, <3>1, <3>2
    <3>3. CASE ~(i <= Len(a))
      BY <1>1, <3>1, <3>3
    <3> QED
      BY <3>2, <3>3
  <2> QED
    BY <2>1, <2>2, <2>3
<1>4. Known(a \o p)
  <2> SUFFICES ASSUME NEW i \in DOMAIN (a \o p) PROVE (a \o p)[i].id \in 0..Len(talk)
    BY <1>1 DEF Known
  <2>1. CASE i \in DOMAIN a /\ (a \o p)[i] = a[i]
    BY <1>2, <2>1
  <2>2. CASE i - Len(a) \in DOMAIN p /\ (a \o p)[i] = p[i - Len(a)]
    BY <2>2 DEF Known
  <2> QED
    BY <1>3, <2>1, <2>2
<1>5. InTalkOrder(a \o p)
  <2> SUFFICES ASSUME NEW i \in DOMAIN (a \o p), NEW j \in DOMAIN (a \o p),
                      ~IsSystem((a \o p)[i]), ~IsSystem((a \o p)[j]), i < j
               PROVE  (a \o p)[i].id < (a \o p)[j].id
    BY DEF InTalkOrder
  <2>1. /\ i - Len(a) \in DOMAIN p /\ (a \o p)[i] = p[i - Len(a)] /\ i \in Nat
        /\ j - Len(a) \in DOMAIN p /\ (a \o p)[j] = p[j - Len(a)] /\ j \in Nat
    BY <1>2, <1>3
  <2>2. i - Len(a) < j - Len(a)
    BY <1>1, <2>1
  <2> QED
    BY <2>1, <2>2 DEF InTalkOrder
<1>6. ASSUME HasNewest(a) PROVE HasNewest(a \o p)
  <2>1. PICK n \in DOMAIN a : a[n].id = Len(talk)
    BY <1>6 DEF HasNewest
  <2>2. n \in DOMAIN (a \o p) /\ (a \o p)[n] = a[n]
    BY <1>1, <1>3
  <2> QED
    BY <2>1, <2>2 DEF HasNewest
<1>7. ASSUME HasNewest(p) PROVE HasNewest(a \o p)
  <2>1. PICK n \in 1..Len(p) : p[n].id = Len(talk)
    BY <1>1, <1>7 DEF HasNewest
  <2>2. Len(a) + n \in DOMAIN (a \o p) /\ (a \o p)[Len(a) + n] = p[n]
    BY <1>3
  <2> QED
    BY <2>1, <2>2 DEF HasNewest
<1>8. ASSUME \A i \in DOMAIN a : ~IsLayer(a[i]), \A i \in DOMAIN p : ~IsLayer(p[i]),
             NEW i \in DOMAIN (a \o p)
      PROVE  ~IsLayer((a \o p)[i])
  BY <1>3, <1>8
<1> QED
  BY <1>4, <1>5, <1>6, <1>7, <1>8

\* The layers of c first, and then others.
LEMMA LayersThenOthers ==
    ASSUME TalkFits, NEW c, Known(c), NEW p, Known(p), InTalkOrder(p),
           \A i \in DOMAIN p : ~IsLayer(p[i])
    PROVE  /\ Known(Layers(c) \o p) /\ InTalkOrder(Layers(c) \o p)
           /\ Layers(Layers(c) \o p) = Layers(c)
           /\ (\E i \in DOMAIN c : c[i].id = Len(talk) /\ IsLayer(c[i]))
                => HasNewest(Layers(c) \o p)
           /\ HasNewest(p) => HasNewest(Layers(c) \o p)
<1> DEFINE a == Layers(c)
<1>1. /\ a \in Seq(Item) /\ p \in Seq(Item) /\ c \in Seq(Item)
      /\ \A n \in DOMAIN a : IsLayer(a[n]) /\ \E i \in DOMAIN c : a[n] = c[i]
      /\ \A i \in DOMAIN c : IsLayer(c[i]) => \E n \in DOMAIN a : a[n] = c[i]
  BY InLayers DEF Known
<1>2. \A n \in DOMAIN a : a[n] \in Item /\ a[n].id \in 0..Len(talk) /\ IsSystem(a[n])
  <2> TAKE n \in DOMAIN a
  <2>1. PICK i \in DOMAIN c : a[n] = c[i]
    BY <1>1
  <2>2. c[i] \in Item /\ c[i].id \in 0..Len(talk)
    BY <1>1, ItemsKnown DEF Known
  <2>3. IsLayer(c[i])
    BY <1>1, <2>1
  <2> QED
    BY <2>1, <2>2, <2>3, LayerKnown
<1> HIDE DEF a
<1>3. Layers(a) = a
  BY <1>1, LayersTwice
<1>4. Layers(a \o p) = Layers(a)
  BY <1>1, LayersFirst
<1>5. Known(a)
  BY <1>1, <1>2 DEF Known
<1>6. /\ Known(a \o p) /\ InTalkOrder(a \o p)
      /\ HasNewest(a) \/ HasNewest(p) => HasNewest(a \o p)
  BY <1>2, <1>5, TwoParts
<1>7. ASSUME NEW i \in DOMAIN c, c[i].id = Len(talk), IsLayer(c[i]) PROVE HasNewest(a)
  <2>1. PICK n \in DOMAIN a : a[n] = c[i]
    BY <1>1, <1>7
  <2> QED
    BY <1>7, <2>1 DEF HasNewest
<1> QED
  BY <1>3, <1>4, <1>6, <1>7 DEF a

\* Items that are picked from such as have others of the same messages keep their order.
LEMMA PickedInOrder ==
    ASSUME NEW c \in Seq(Item), NEW d \in Seq(Item), NEW S \in SUBSET (DOMAIN c),
           Known(c), InTalkOrder(c), DOMAIN d = DOMAIN c, \A i \in DOMAIN c : d[i].id = c[i].id
    PROVE  Known(Picked(d, S)) /\ InTalkOrder(Picked(d, S))
<1>1. /\ S \in SUBSET Nat /\ IsFiniteSet(S)
      /\ Picked(d, S) \in Seq(Item) /\ DOMAIN Picked(d, S) = 1..Cardinality(S)
      /\ \A n \in 1..Cardinality(S) : Nth(S, n) \in S /\ Picked(d, S)[n] = d[Nth(S, n)]
  BY PickedKnown
<1>2. \A n \in 1..Cardinality(S) :
        Nth(S, n) \in DOMAIN c /\ Picked(d, S)[n].id = c[Nth(S, n)].id
  BY <1>1
<1>3. Known(Picked(d, S))
  BY <1>1, <1>2 DEF Known
<1>4. InTalkOrder(Picked(d, S))
  <2> SUFFICES ASSUME NEW m \in 1..Cardinality(S), NEW n \in 1..Cardinality(S), m < n,
                      ~IsSystem(Picked(d, S)[m]), ~IsSystem(Picked(d, S)[n])
               PROVE  Picked(d, S)[m].id < Picked(d, S)[n].id
    BY <1>1 DEF InTalkOrder
  <2>1. Nth(S, m) < Nth(S, n)
    BY <1>1, NthFound
  <2>2. ~IsSystem(c[Nth(S, m)]) /\ ~IsSystem(c[Nth(S, n)])
    BY <1>2 DEF IsSystem
  <2>3. c[Nth(S, m)].id < c[Nth(S, n)].id
    BY <1>2, <2>1, <2>2 DEF InTalkOrder
  <2> QED
    BY <1>2, <2>3
<1> QED
  BY <1>3, <1>4

-----------------------------------------------------------------------------
(* The steps of the compressor.                                            *)

\* What is left at last is fit to be sent.
LEMMA ForceFitFits ==
    ASSUME TalkFits, NEW c, Source(c), NEW room \in Int
    PROVE  FitToSend(ForceFit(c, room), room)
<1>1. Known(c) /\ InTalkOrder(c) /\ c \in Seq(Item)
  BY DEF Source, Known
<1>2. PICK f : LeavesRoom(f, c, room)
               /\ ForceFit(c, room) = Layers(c) \o Picked(Fitted(c, f), Given(c, f))
  BY <1>1, ForceFitIs
<1> DEFINE d == Fitted(c, f)
           S == Given(c, f)
           p == Picked(d, S)
<1>3. /\ S \in SUBSET (DOMAIN c) /\ d \in Seq(Item) /\ DOMAIN d = DOMAIN c
      /\ \A i \in DOMAIN c : d[i].id = c[i].id
  <2>1. DOMAIN d = DOMAIN c
    BY DEF Fitted
  <2> QED
    BY <1>1, <1>2, <2>1, FittedKnown
<1>4. \A i \in S : ~IsLayer(c[i])
  BY DEF Given, Evictable
<1>5. /\ Chars(Layers(c) \o p) <= Larger(room, Chars(Layers(c))) + 3
      /\ Chars(Layers(c) \o p) >= room \/ S = Evictable(c)
  BY <1>1, <1>2, ForceFitLength
<1> HIDE DEF d, S
<1>6. Known(p) /\ InTalkOrder(p)
  BY <1>1, <1>3, PickedInOrder
<1>7. /\ DOMAIN p = 1..Cardinality(S)
      /\ \A n \in 1..Cardinality(S) : Nth(S, n) \in S /\ p[n] = d[Nth(S, n)]
  BY <1>3, PickedKnown
<1>8. \A n \in DOMAIN p : ~IsLayer(p[n])
  <2> TAKE n \in DOMAIN p
  <2>1. Nth(S, n) \in S /\ Nth(S, n) \in DOMAIN c /\ p[n].id = c[Nth(S, n)].id
    BY <1>3, <1>7
  <2> QED
    BY <1>4, <2>1 DEF IsLayer
<1>9. S = Evictable(c) => \A i \in DOMAIN c : IsLayer(c[i]) \/ i \in S
  BY DEF Evictable
<1>10. \A i \in S : \E n \in DOMAIN p : p[n] = d[i]
  BY <1>3, PickedAll
<1> HIDE DEF p
<1>11. /\ Known(Layers(c) \o p) /\ InTalkOrder(Layers(c) \o p)
       /\ Layers(Layers(c) \o p) = Layers(c)
       /\ (\E i \in DOMAIN c : c[i].id = Len(talk) /\ IsLayer(c[i])) => HasNewest(Layers(c) \o p)
       /\ HasNewest(p) => HasNewest(Layers(c) \o p)
  BY <1>1, <1>6, <1>8, LayersThenOthers
<1>12. S = Evictable(c) /\ KeepRecent # 0 => HasNewest(Layers(c) \o p)
  <2> HAVE S = Evictable(c) /\ KeepRecent # 0
  <2>1. PICK i \in DOMAIN c : c[i].id = Len(talk)
    BY DEF Source, HasNewest
  <2>2. CASE IsLayer(c[i])
    BY <1>11, <2>1, <2>2
  <2>3. CASE i \in S
    <3>1. PICK n \in DOMAIN p : p[n] = d[i]
      BY <1>10, <2>3
    <3>2. p[n].id = Len(talk)
      BY <1>3, <2>1, <3>1
    <3>3. HasNewest(p)
      BY <3>2 DEF HasNewest
    <3> QED
      BY <1>11, <3>3
  <2> QED
    BY <1>9, <2>2, <2>3
<1>13. Layers(c) = Layers(Whole)
  BY DEF Source
<1> QED
  BY <1>2, <1>5, <1>11, <1>12, <1>13 DEF FitToSend, p, d, S

\* What fits as it is needs nothing done to it.
LEMMA SourceFits ==
    ASSUME NEW c, Source(c), NEW room \in Nat, Chars(c) <= room
    PROVE  FitToSend(c, room)
<1>1. Chars(c) \in Nat
  BY CharsNat DEF Source, Known
<1>2. c \in Seq(Item) /\ Layers(c) = Layers(Whole)
  BY DEF Source, Known
<1>3. Chars(Layers(Whole)) \in Nat
  BY <1>2, LayersKnown
<1>4. Chars(c) <= Larger(room, Chars(Layers(Whole))) + 3
  BY <1>1, <1>3 DEF Larger
<1> QED
  BY <1>4 DEF Source, FitToSend

LEMMA MessageKnown ==
    ASSUME TalkFits, NEW i \in DOMAIN talk
    PROVE  /\ talk[i] \in TalkMessage /\ talk[i].size \in Nat /\ talk[i].think \in Nat
           /\ i \in 1..Len(talk) /\ DOMAIN talk = 1..Len(talk) /\ Len(talk) \in Nat
           /\ talk[i].layer => talk[i].kind = "system"
<1>1. DOMAIN talk = 1..Len(talk) /\ Len(talk) \in Nat
  BY LenProperties DEF TalkFits
<1>2. talk[i] \in TalkMessage
  BY <1>1, ElementOfSeq DEF TalkFits
<1>3. talk[i].size \in Nat /\ talk[i].think \in Nat
  BY <1>2 DEF TalkMessage
<1> QED
  BY <1>1, <1>2, <1>3 DEF TalkFits

\* Items, one for each message, of which only those of tools differ from it.
LEMMA AsTalk ==
    ASSUME TalkFits, talk # <<>>, NEW c, DOMAIN c = DOMAIN talk,
           \A i \in DOMAIN talk : c[i] \in Item /\ c[i].id = i,
           c = [i \in DOMAIN talk |-> c[i]]
    PROVE  Known(c) /\ InTalkOrder(c) /\ HasNewest(c) /\ DOMAIN c = 1..Len(talk)
<1>1. Len(talk) \in Nat /\ DOMAIN talk = 1..Len(talk) /\ Len(talk) # 0
  BY LenProperties, EmptySeq DEF TalkFits
<1>2. c \in [1..Len(talk) -> Item]
  BY <1>1
<1>3. c \in Seq(Item)
  BY <1>1, <1>2, FunctionIsSeq
<1>4. Known(c)
  BY <1>1, <1>3 DEF Known
<1>5. InTalkOrder(c)
  BY <1>1 DEF InTalkOrder
<1>6. HasNewest(c)
  <2>1. Len(talk) \in DOMAIN c /\ c[Len(talk)].id = Len(talk)
    BY <1>1
  <2> QED
    BY <2>1 DEF HasNewest
<1> QED
  BY <1>1, <1>4, <1>5, <1>6

LEMMA WholeIsSource ==
    ASSUME TalkFits, talk # <<>>
    PROVE  Source(Whole) /\ \A i \in DOMAIN talk : Whole[i].id = i
<1>1. DOMAIN Whole = DOMAIN talk /\ Whole = [i \in DOMAIN talk |-> Whole[i]]
  BY DEF Whole
<1>2. \A i \in DOMAIN talk : Whole[i] \in Item /\ Whole[i].id = i
  <2> TAKE i \in DOMAIN talk
  <2>1. i \in Nat /\ talk[i].size \in Nat /\ talk[i].think \in Nat
    BY MessageKnown
  <2> QED
    BY <2>1 DEF Whole, Item
<1>3. Known(Whole) /\ InTalkOrder(Whole) /\ HasNewest(Whole)
  BY <1>1, <1>2, AsTalk
<1> QED
  BY <1>2, <1>3 DEF Source

\* Layers are not trimmed.
LEMMA TrimmedIsSource ==
    ASSUME TalkFits, talk # <<>>, NEW critical
    PROVE  /\ Source(Trimmed(critical)) /\ DOMAIN Trimmed(critical) = DOMAIN talk
           /\ \A i \in DOMAIN talk : Trimmed(critical)[i].id = i
<1> DEFINE t == Trimmed(critical)
<1>1. DOMAIN t = DOMAIN talk /\ t = [i \in DOMAIN talk |-> t[i]]
  BY DEF Trimmed
<1>2. Source(Whole) /\ Whole \in Seq(Item) /\ DOMAIN Whole = DOMAIN talk
  BY WholeIsSource DEF Source, Known, Whole
<1>3. ASSUME NEW i \in DOMAIN talk
      PROVE  /\ t[i] \in Item /\ t[i].id = i
             /\ talk[i].kind # "tool" => t[i] = Whole[i]
  <2>1. Whole[i] \in Item /\ Whole[i].id = i
    BY <1>2, WholeIsSource, ElementOfSeq, LenProperties
  <2>2. MaxToolChars \in Nat /\ TrimNote \in Nat
    BY ContextAssumption
  <2> DEFINE most == IF i \in critical THEN 3 * MaxToolChars ELSE MaxToolChars
  <2>3. most + TrimNote \in Nat
    BY <2>2
  <2>4. t[i] = IF talk[i].kind = "tool" /\ talk[i].size > most
               THEN [Whole[i] EXCEPT !.size = most + TrimNote] ELSE Whole[i]
    BY DEF Trimmed
  <2> HIDE DEF t, most
  <2>5. CASE talk[i].kind = "tool" /\ talk[i].size > most
    <3>1. t[i] = [Whole[i] EXCEPT !.size = most + TrimNote]
      BY <2>4, <2>5
    <3> QED
      BY <2>1, <2>3, <2>5, <3>1 DEF Item
  <2>6. CASE ~(talk[i].kind = "tool" /\ talk[i].size > most)
    BY <2>1, <2>4, <2>6
  <2> QED
    BY <2>5, <2>6
<1> HIDE DEF t
<1>4. Known(t) /\ InTalkOrder(t) /\ HasNewest(t)
  BY <1>1, <1>3, AsTalk
<1>5. Layers(t) = Layers(Whole)
  <2> DEFINE S == {i \in DOMAIN Whole : IsLayer(Whole[i])}
  <2>1. \A i \in DOMAIN talk : IsLayer(t[i]) <=> IsLayer(Whole[i])
    BY <1>3, WholeIsSource DEF IsLayer
  <2>2. {i \in DOMAIN t : IsLayer(t[i])} = S
    BY <1>1, <1>2, <2>1
  <2>3. \A i \in S : t[i] = Whole[i]
    <3> TAKE i \in S
    <3>1. i \in DOMAIN talk /\ talk[i].layer
      BY <1>2, WholeIsSource DEF IsLayer
    <3>2. talk[i].kind # "tool"
      BY <3>1, MessageKnown
    <3> QED
      BY <1>3, <3>1, <3>2
  <2>4. S \in SUBSET (DOMAIN Whole) /\ Layers(Whole) = Picked(Whole, S)
    BY DEF Layers
  <2>5. Layers(t) = Picked(t, S)
    BY <2>2 DEF Layers
  <2> HIDE DEF S
  <2>6. Picked(t, S) = Picked(Whole, S)
    BY <1>2, <2>3, <2>4, PickedSame
  <2> QED
    BY <2>4, <2>5, <2>6
<1> QED
  BY <1>1, <1>3, <1>4, <1>5 DEF Source, t

\* The recent messages that are kept, the newest among them.
LEMMA KeptKnown ==
    ASSUME TalkFits, talk # <<>>, NEW t \in Seq(Item), Known(t), InTalkOrder(t),
           DOMAIN t = DOMAIN talk, \A i \in DOMAIN talk : t[i].id = i, NEW room,
           NEW recent, recent = Latest({i \in DOMAIN talk : ~talk[i].layer}, KeepRecent),
           NEW D, D = Dropped(t, recent, room)
    PROVE  /\ Known(Picked(t, D)) /\ InTalkOrder(Picked(t, D))
           /\ \A n \in DOMAIN Picked(t, D) : ~IsLayer(Picked(t, D)[n])
           /\ ~talk[Len(talk)].layer => KeepRecent = 0 \/ HasNewest(Picked(t, D))
<1> DEFINE own == {i \in DOMAIN talk : ~talk[i].layer}
           new == Len(talk)
<1>1. new \in Nat /\ new # 0 /\ DOMAIN talk = 1..new
  BY LenProperties, EmptySeq DEF TalkFits
<1>2. D \in SUBSET recent /\ recent \in SUBSET own /\ own \in SUBSET 1..new
  BY <1>1 DEF Dropped, Latest
<1>3. new \in own /\ KeepRecent # 0 => new \in D
  <2> HAVE new \in own /\ KeepRecent # 0
  <2> DEFINE late == {j \in own : j >= new}
  <2>1. late = {new}
    <3>1. \A j \in own : j >= new => j = new
      BY <1>1, <1>2
    <3> QED
      BY <1>1, <3>1
  <2>2. Cardinality({new}) = 1
    BY FS_Singleton
  <2>3. KeepRecent \in Nat /\ KeepRecent > 0
    BY ContextAssumption
  <2>4. new \in recent
    <3>1. Cardinality(late) <= KeepRecent
      <4> HIDE DEF late, new
      <4> QED
        BY <2>1, <2>2, <2>3
    <3>2. recent = {i \in own : Cardinality({j \in own : j >= i}) <= KeepRecent}
      BY DEF Latest
    <3> QED
      BY <3>1, <3>2
  <2>5. {j \in recent : j >= new} = {new}
    <3>1. \A j \in recent : j >= new => j = new
      BY <1>1, <1>2
    <3>2. new \in recent /\ new >= new
      BY <1>1, <2>4
    <3> HIDE DEF new
    <3> QED
      BY <3>1, <3>2
  <2> QED
    BY <2>4, <2>5 DEF Dropped
<1>4. \A i \in own : ~talk[i].layer
  OBVIOUS
<1>5. ~talk[new].layer => new \in own
  BY <1>1
<1> HIDE DEF own, new
<1>6. D \in SUBSET (DOMAIN t)
  BY <1>1, <1>2
<1>7. Known(Picked(t, D)) /\ InTalkOrder(Picked(t, D))
  BY <1>6, PickedInOrder
<1>8. /\ DOMAIN Picked(t, D) = 1..Cardinality(D)
      /\ \A n \in 1..Cardinality(D) : Nth(D, n) \in D /\ Picked(t, D)[n] = t[Nth(D, n)]
  BY <1>6, PickedKnown
<1>9. \A i \in D : \E n \in DOMAIN Picked(t, D) : Picked(t, D)[n] = t[i]
  BY <1>6, PickedAll
<1>10. new \in D => HasNewest(Picked(t, D))
  <2> HAVE new \in D
  <2>1. PICK n \in DOMAIN Picked(t, D) : Picked(t, D)[n] = t[new]
    BY <1>9
  <2>2. t[new].id = new
    BY <1>6
  <2> QED
    BY <2>1, <2>2 DEF HasNewest, new
<1>11. \A n \in DOMAIN Picked(t, D) : ~IsLayer(Picked(t, D)[n])
  <2> TAKE n \in DOMAIN Picked(t, D)
  <2>1. Nth(D, n) \in own /\ Nth(D, n) \in DOMAIN talk /\ Picked(t, D)[n].id = Nth(D, n)
    BY <1>1, <1>2, <1>8
  <2> QED
    BY <1>4, <2>1 DEF IsLayer
<1> QED
  BY <1>3, <1>5, <1>7, <1>10, <1>11 DEF new

\* A summary before the messages changes nothing of this.
LEMMA AfterSummary ==
    ASSUME TalkFits, NEW c, Known(c), InTalkOrder(c), \A i \in DOMAIN c : ~IsLayer(c[i]),
           NEW size \in Nat, NEW p, p = <<Summary(size)>> \o c
    PROVE  /\ Known(p) /\ InTalkOrder(p)
           /\ \A i \in DOMAIN p : ~IsLayer(p[i])
           /\ HasNewest(c) => HasNewest(p)
<1> DEFINE s == <<Summary(size)>>
<1>1. s \in Seq(Item) /\ Len(s) = 1 /\ s[1] = Summary(size) /\ Summary(size).id = 0
  BY DEF Summary, Item
<1>2. DOMAIN s = {1} /\ 0 \in 0..Len(talk)
  BY LenProperties DEF TalkFits
<1>3. p = s \o c
  OBVIOUS
<1> HIDE DEF s
<1>4. Known(s)
  BY <1>1, <1>2 DEF Known
<1>5. \A n \in DOMAIN s : IsSystem(s[n]) /\ ~IsLayer(s[n])
  BY <1>1, <1>2 DEF IsSystem, IsLayer
<1> QED
  BY <1>3, <1>4, <1>5, TwoParts

\* The layers, a summary, and the recent messages that are kept.
LEMMA SummedUp ==
    ASSUME TalkFits, talk # <<>>, NEW critical, NEW size \in Nat, NEW room,
           NEW recent, recent = Latest({i \in DOMAIN talk : ~talk[i].layer}, KeepRecent),
           NEW t, t = Trimmed(critical),
           NEW kept, kept = Picked(t, Dropped(t, recent, room))
    PROVE  Source(Layers(t) \o <<Summary(size)>> \o kept)
<1> DEFINE p == <<Summary(size)>> \o kept
           new == Len(talk)
<1>1. /\ Known(t) /\ InTalkOrder(t) /\ t \in Seq(Item) /\ Layers(t) = Layers(Whole)
      /\ DOMAIN t = DOMAIN talk /\ \A i \in DOMAIN talk : t[i].id = i
  BY TrimmedIsSource DEF Source, Known
<1>2. /\ Known(kept) /\ InTalkOrder(kept) /\ \A n \in DOMAIN kept : ~IsLayer(kept[n])
      /\ ~talk[new].layer => KeepRecent = 0 \/ HasNewest(kept)
  BY <1>1, KeptKnown
<1>3. /\ Known(p) /\ InTalkOrder(p) /\ \A i \in DOMAIN p : ~IsLayer(p[i])
      /\ HasNewest(kept) => HasNewest(p)
  BY <1>2, AfterSummary
<1>4. Layers(t) \o p = Layers(t) \o <<Summary(size)>> \o kept
  <2>1. Layers(t) \in Seq(Item)
    BY <1>1, LayersKnown
  <2>2. <<Summary(size)>> \in Seq(Item)
    BY DEF Summary, Item
  <2>3. kept \in Seq(Item)
    BY <1>2 DEF Known
  <2> QED
    BY <2>1, <2>2, <2>3, ConcatAssociative
<1> HIDE DEF p
<1>5. /\ Known(Layers(t) \o p) /\ InTalkOrder(Layers(t) \o p)
      /\ Layers(Layers(t) \o p) = Layers(t)
      /\ (\E i \in DOMAIN t : t[i].id = new /\ IsLayer(t[i])) => HasNewest(Layers(t) \o p)
      /\ HasNewest(p) => HasNewest(Layers(t) \o p)
  BY <1>1, <1>3, LayersThenOthers
<1>6. KeepRecent = 0 \/ HasNewest(Layers(t) \o p)
  <2>1. new \in DOMAIN talk /\ new # 0
    BY LenProperties, EmptySeq DEF TalkFits
  <2>2. new \in DOMAIN t /\ t[new].id = new
    BY <1>1, <2>1
  <2>3. CASE ~talk[new].layer
    BY <1>2, <1>3, <1>5, <2>3
  <2>4. CASE talk[new].layer
    <3>1. IsLayer(t[new])
      BY <2>1, <2>2, <2>4 DEF IsLayer
    <3> QED
      BY <1>5, <2>2, <3>1
  <2> QED
    BY <2>3, <2>4
<1>7. Source(Layers(t) \o p)
  BY <1>1, <1>5, <1>6 DEF Source
<1> QED
  BY <1>4, <1>7

LEMMA CompressedFits ==
    ASSUME TalkFits, talk # <<>>, NEW room \in Nat, NEW critical, NEW summary \in SummarySizes
    PROVE  FitToSend(Compressed(room, critical, summary), room)
<1> DEFINE t      == Trimmed(critical)
           layers == Layers(t)
           recent == Latest({i \in DOMAIN talk : ~talk[i].layer}, KeepRecent)
           kept   == Picked(t, Dropped(t, recent, room - Chars(layers) - summary))
           all    == layers \o <<Summary(summary)>> \o kept
<1>1. summary \in Nat
  BY ContextAssumption
<1>2. Source(Whole) /\ Source(t)
  BY WholeIsSource, TrimmedIsSource
<1>3. Source(all)
  BY <1>1, SummedUp
<1>4. Compressed(room, critical, summary) =
        IF Chars(Whole) <= room THEN Whole
        ELSE IF Chars(t) <= room THEN t
        ELSE IF Chars(all) <= room THEN all
        ELSE ForceFit(all, room)
  BY DEF Compressed
<1> HIDE DEF t, all
<1>5. Chars(Whole) <= room => FitToSend(Whole, room)
  BY <1>2, SourceFits
<1>6. Chars(t) <= room => FitToSend(t, room)
  BY <1>2, SourceFits
<1>7. Chars(all) <= room => FitToSend(all, room)
  BY <1>3, SourceFits
<1>8. FitToSend(ForceFit(all, room), room)
  BY <1>3, ForceFitFits
<1> QED
  BY <1>4, <1>5, <1>6, <1>7, <1>8

LEMMA TokensNat ==
    ASSUME TalkFits, talk # <<>>
    PROVE  Tokens(Whole) \in Nat
<1> DEFINE n == Len(Whole)
           cost(m) == (IF talk[m.id].kind = "calls" THEN 1 ELSE 0)
                      + (IF talk[m.id].dense THEN m.size + m.think ELSE (m.size + m.think) \div 3)
           f == CHOOSE f : f = [k \in 0..n |-> IF k = 0 THEN SchemaTokens
                                               ELSE f[k - 1] + cost(Whole[k])]
           g == [k \in 1..n |-> [x \in Nat |-> x + cost(Whole[k])]]
<1>1. n \in Nat /\ \A k \in 1..n : Whole[k] \in Item
  BY WholeIsSource, ItemsKnown DEF Source, Known
<1>2. SchemaTokens \in Nat
  BY ContextAssumption
<1>3. \A k \in 1..n : cost(Whole[k]) \in Nat
  <2> TAKE k \in 1..n
  <2>1. Whole[k].size + Whole[k].think \in Nat
    BY <1>1, ItemKnown
  <2>2. \A x \in Nat : x \div 3 \in Nat
    OBVIOUS
  <2> QED
    BY <2>1, <2>2
<1>4. Tokens(Whole) = f[n]
  BY DEF Tokens
<1> HIDE DEF n, cost
<1>5. g \in [1..n -> [Nat -> Nat]]
  BY <1>3
<1>6. \E h \in [0..n -> Nat] : Iterates(h, SchemaTokens, n, g)
  <2> HIDE DEF g
  <2> QED
    BY <1>1, <1>2, <1>5, Iterating
<1>7. PICK h \in [0..n -> Nat] : h[0] = SchemaTokens /\ \A k \in 1..n : h[k] = g[k][h[k - 1]]
  BY <1>6 DEF Iterates
<1>8. \A k \in 1..n : h[k] = h[k - 1] + cost(Whole[k])
  <2> TAKE k \in 1..n
  <2>1. h[k - 1] \in Nat /\ h[k] = g[k][h[k - 1]]
    BY <1>1, <1>7, SMTT(30)
  <2> QED
    BY <2>1
<1>9. h = [k \in 0..n |-> IF k = 0 THEN SchemaTokens ELSE h[k - 1] + cost(Whole[k])]
  BY <1>1, <1>7, <1>8
<1>10. f = [k \in 0..n |-> IF k = 0 THEN SchemaTokens ELSE f[k - 1] + cost(Whole[k])]
  BY <1>9, Zenon
<1> HIDE DEF f
<1> DEFINE T == {k \in 0..n : f[k] \in Nat}
<1>11. 0 \in T
  BY <1>1, <1>2, <1>10
<1>12. ASSUME NEW k \in 1..n, k - 1 \in T PROVE k \in T
  <2>1. k \in 0..n /\ k # 0
    BY <1>1
  <2>2. f[k] = f[k - 1] + cost(Whole[k])
    BY <1>10, <2>1
  <2> QED
    BY <1>3, <1>12, <2>1, <2>2
<1>13. 0..n \subseteq T
  <2> HIDE DEF T
  <2> QED
    BY <1>1, <1>11, <1>12, Induction
<1>14. f[n] \in Nat
  BY <1>1, <1>13
<1> QED
  BY <1>4, <1>14

LEMMA RoomNat ==
    ASSUME TalkFits, talk # <<>>, NEW tokens \in Nat, ~(Tokens(Whole) <= tokens)
    PROVE  Room(tokens) \in Nat
<1>1. Tokens(Whole) \in Nat /\ Tokens(Whole) > 0
  BY TokensNat
<1>2. Chars(Whole) \in Nat
  BY WholeIsSource, CharsNat DEF Source, Known
<1>3. SchemaTokens \in Nat /\ LeastChars \in Nat
  BY ContextAssumption
<1>4. Larger(0, tokens - SchemaTokens) \in Nat
  BY <1>3 DEF Larger
<1>5. \A a, b \in Nat : a * b \in Nat
  OBVIOUS
<1>6. Larger(0, tokens - SchemaTokens) * Chars(Whole) \in Nat
  BY <1>2, <1>4, <1>5
<1>7. \A a, b \in Nat : b > 0 => a \div b \in Nat
  OBVIOUS
<1>8. (Larger(0, tokens - SchemaTokens) * Chars(Whole)) \div Tokens(Whole) \in Nat
  BY <1>1, <1>6, <1>7
<1> QED
  BY <1>3, <1>8 DEF Room, Larger

LEMMA BuildFits ==
    ASSUME TalkFits, talk # <<>>, NEW tokens \in Nat, Build(tokens)
    PROVE  limit' \in Nat /\ FitToSend(context', limit')
<1>1. CASE Tokens(Whole) <= tokens
  <2>1. context' = Whole /\ limit' = Chars(Whole)
    BY <1>1 DEF Build
  <2>2. Source(Whole)
    BY WholeIsSource
  <2>3. Chars(Whole) \in Nat /\ Chars(Whole) <= Chars(Whole)
    BY <2>2, CharsNat DEF Source, Known
  <2>4. FitToSend(Whole, Chars(Whole))
    BY <2>2, <2>3, SourceFits
  <2> QED
    BY <2>1, <2>3, <2>4
<1>2. CASE ~(Tokens(Whole) <= tokens)
  <2>1. PICK critical \in SUBSET {i \in DOMAIN talk : talk[i].kind = "tool"},
             summary \in SummarySizes :
          context' = Compressed(Room(tokens), critical, summary) /\ limit' = Room(tokens)
    BY <1>2 DEF Build
  <2>2. Room(tokens) \in Nat
    BY <1>2, RoomNat
  <2>3. FitToSend(Compressed(Room(tokens), critical, summary), Room(tokens))
    BY <2>2, CompressedFits
  <2> QED
    BY <2>1, <2>2, <2>3
<1> QED
  BY <1>1, <1>2

\* The cut leaves the layers, and adds nothing.
LEMMA TruncatedFits ==
    ASSUME TalkFits, Known(context), InTalkOrder(context)
    PROVE  /\ Known(Truncated) /\ InTalkOrder(Truncated)
           /\ Layers(Truncated) = Layers(context)
           /\ Chars(Truncated) <= Chars(context)
<1> DEFINE system == {i \in DOMAIN context : IsSystem(context[i])}
           others == DOMAIN context \ system
           late == Latest(others, Larger(LeastKept, Cardinality(others) \div 2))
           a == Picked(context, system)
           b == Picked(context, late)
           layers == {i \in DOMAIN context : IsLayer(context[i])}
<1>1. /\ context \in Seq(Item)
      /\ \A i \in DOMAIN context : context[i] \in Item /\ context[i].id \in 0..Len(talk)
  BY ItemsKnown DEF Known
<1>2. Truncated = a \o b
  BY DEF Truncated
<1>3. late \in SUBSET others /\ others \in SUBSET (DOMAIN context)
  BY DEF Latest
<1>4. /\ system \in SUBSET (DOMAIN context) /\ others \cap system = {}
      /\ \A i \in system : IsSystem(context[i])
      /\ \A i \in others : ~IsSystem(context[i])
  OBVIOUS
<1>5. layers \in SUBSET system
  <2> SUFFICES ASSUME NEW i \in DOMAIN context, IsLayer(context[i])
               PROVE  IsSystem(context[i])
    OBVIOUS
  <2> QED
    BY <1>1, LayerKnown
<1>6. /\ \A i \in layers : IsLayer(context[i])
      /\ \A i \in DOMAIN context : IsLayer(context[i]) => i \in layers
  OBVIOUS
<1>7. Layers(context) = Picked(context, layers)
  BY DEF Layers
<1> HIDE DEF system, others, late, layers
<1>8. /\ a \in Seq(Item) /\ DOMAIN a = 1..Cardinality(system)
      /\ \A n \in 1..Cardinality(system) :
           Nth(system, n) \in system /\ a[n] = context[Nth(system, n)]
  BY <1>1, <1>4, PickedKnown
<1>9. late \in SUBSET (DOMAIN context)
  BY <1>3
<1>10. /\ b \in Seq(Item) /\ DOMAIN b = 1..Cardinality(late)
       /\ \A n \in 1..Cardinality(late) : Nth(late, n) \in late /\ b[n] = context[Nth(late, n)]
  BY <1>1, <1>9, PickedKnown
<1>11. Known(a) /\ Known(b) /\ InTalkOrder(b)
  BY <1>1, <1>4, <1>9, PickedInOrder
<1>12. \A n \in DOMAIN a : IsSystem(a[n])
  BY <1>4, <1>8
<1>13. \A n \in DOMAIN b : ~IsSystem(b[n]) /\ ~IsLayer(b[n])
  <2> TAKE n \in DOMAIN b
  <2>1. /\ Nth(late, n) \in others /\ Nth(late, n) \in DOMAIN context
        /\ b[n] = context[Nth(late, n)]
    BY <1>3, <1>10
  <2>2. ~IsSystem(b[n])
    BY <1>4, <2>1
  <2>3. IsLayer(b[n]) => IsSystem(b[n])
    BY <1>1, <2>1, LayerKnown
  <2> QED
    BY <2>2, <2>3
<1>14. Layers(a) = Layers(context)
  <2>1. Picked(a, {n \in DOMAIN a : Nth(system, n) \in layers}) = Picked(context, layers)
    BY <1>1, <1>4, <1>5, PickedAgain
  <2>2. \A n \in DOMAIN a : IsLayer(a[n]) <=> Nth(system, n) \in layers
    BY <1>4, <1>6, <1>8
  <2> HIDE DEF a
  <2>3. {n \in DOMAIN a : IsLayer(a[n])} = {n \in DOMAIN a : Nth(system, n) \in layers}
    BY <2>2
  <2> QED
    BY <1>7, <2>1, <2>3 DEF Layers
<1>15. Chars(a) + Chars(b) <= Chars(context)
  <2>1. system \cap late = {}
    BY <1>3, <1>4
  <2> QED
    BY <1>1, <1>4, <1>9, <2>1, CharsSplit
<1> HIDE DEF a, b
<1>16. Layers(a \o b) = Layers(a)
  BY <1>8, <1>10, <1>13, LayersFirst
<1>17. Chars(a \o b) = Chars(a) + Chars(b)
  BY <1>8, <1>10, CharsConcat
<1>18. Known(a \o b) /\ InTalkOrder(a \o b)
  BY <1>11, <1>12, TwoParts
<1> QED
  BY <1>2, <1>14, <1>15, <1>16, <1>17, <1>18

-----------------------------------------------------------------------------
(* The context of every call.                                              *)

\* What a context must have, while the run waits for the answer to it.
ContextInvariant ==
    /\ TalkFits /\ talk # <<>>
    /\ limit \in Nat /\ context \in Seq(Item)
    /\ attempt \in {"ready", "asked", "recompressed", "truncated", "over"}
    /\ Waiting => /\ Known(context) /\ InTalkOrder(context)
                  /\ Layers(context) = Layers(Whole)
                  /\ Chars(context) <= Larger(limit, Chars(Layers(Whole))) + 3
                  /\ attempt # "truncated" =>
                       KeepRecent = 0 \/ Chars(context) >= limit \/ HasNewest(context)

LEMMA ContextStarts == ContextInit => ContextInvariant
<1> SUFFICES ASSUME ContextInit PROVE ContextInvariant
  OBVIOUS
<1>1. talk \in Openings /\ attempt = "ready" /\ limit = 0 /\ context = <<>>
  BY DEF ContextInit
<1>2. TalkFits /\ talk # <<>>
  <2>1. talk \in Openings \cup Exchanges /\ Openings \cup Exchanges \subseteq Seq(TalkMessage)
    BY <1>1, ContextAssumption
  <2>2. \A i \in DOMAIN talk : talk[i].layer => talk[i].kind = "system"
    BY <2>1, ContextAssumption
  <2> QED
    BY <2>1, <2>2, ContextAssumption DEF TalkFits
<1>3. context \in Seq(Item)
  BY <1>1
<1> QED
  BY <1>1, <1>2, <1>3 DEF ContextInvariant, Waiting

\* Where the messages of the run stay, what fits goes on to fit.
LEMMA FitsThen ==
    ASSUME UNCHANGED talk, FitToSend(context', limit')
    PROVE  /\ Known(context)' /\ InTalkOrder(context)'
           /\ (Layers(context) = Layers(Whole))'
           /\ (Chars(context) <= Larger(limit, Chars(Layers(Whole))) + 3)'
           /\ (KeepRecent = 0 \/ Chars(context) >= limit \/ HasNewest(context))'
BY DEF FitToSend, Known, InTalkOrder, HasNewest, Layers, Whole, IsLayer, IsSystem

LEMMA BuiltContext ==
    ASSUME ContextInvariant, NEW tokens \in Nat, Build(tokens), UNCHANGED talk,
           attempt' \in {"asked", "recompressed"}
    PROVE  ContextInvariant'
<1>1. TalkFits /\ talk # <<>>
  BY DEF ContextInvariant
<1>2. limit' \in Nat /\ FitToSend(context', limit')
  BY <1>1, BuildFits
<1>3. context' \in Seq(Item)
  BY <1>2 DEF FitToSend, Known
<1>4. TalkFits' /\ (talk # <<>>)'
  BY <1>1 DEF TalkFits
<1> QED
  BY <1>2, <1>3, <1>4, FitsThen DEF ContextInvariant

LEMMA ContextKeeps == ContextInvariant /\ [ContextNext]_contextVars => ContextInvariant'
<1> SUFFICES ASSUME ContextInvariant, [ContextNext]_contextVars PROVE ContextInvariant'
  OBVIOUS
<1>1. TurnTokens \in Nat /\ TightTokens \in Nat
  BY ContextAssumption
<1>2. CASE AskModel
  BY <1>1, <1>2, BuiltContext DEF AskModel
<1>3. CASE ModelCalls
  <2>1. PICK x \in Exchanges : talk' = talk \o x
    BY <1>3 DEF ModelCalls
  <2>2. attempt' = "ready" /\ context' = context /\ limit' = limit
    BY <1>3 DEF ModelCalls
  <2>3. TalkFits /\ talk # <<>> /\ limit \in Nat /\ context \in Seq(Item)
    BY DEF ContextInvariant
  <2>4. /\ x \in Seq(TalkMessage)
        /\ \A i \in DOMAIN x : x[i].layer => x[i].kind = "system"
    BY ContextAssumption
  <2>5. /\ Len(talk) \in Nat /\ Len(x) \in Nat /\ DOMAIN talk = 1..Len(talk)
        /\ DOMAIN x = 1..Len(x) /\ talk \o x \in Seq(TalkMessage)
        /\ DOMAIN (talk \o x) = 1..(Len(talk) + Len(x))
        /\ \A i \in 1..Len(talk) + Len(x) :
             (talk \o x)[i] = IF i <= Len(talk) THEN talk[i] ELSE x[i - Len(talk)]
    BY <2>3, <2>4, LenProperties, ConcatProperties DEF TalkFits
  <2>6. \A i \in DOMAIN (talk \o x) : (talk \o x)[i].layer => (talk \o x)[i].kind = "system"
    <3> TAKE i \in DOMAIN (talk \o x)
    <3>1. CASE i <= Len(talk)
      BY <2>3, <2>5, <3>1 DEF TalkFits
    <3>2. CASE ~(i <= Len(talk))
      <4>1. i - Len(talk) \in DOMAIN x /\ (talk \o x)[i] = x[i - Len(talk)]
        BY <2>5, <3>2
      <4> QED
        BY <2>4, <4>1
    <3> QED
      BY <3>1, <3>2
  <2>7. talk \o x # <<>>
    <3>1. Len(talk) # 0
      BY <2>3, EmptySeq DEF TalkFits
    <3>2. Len(talk \o x) # 0
      BY <2>3, <2>4, <2>5, <3>1, ConcatProperties DEF TalkFits
    <3> QED
      BY <3>2
  <2>8. TalkFits'
    BY <2>1, <2>5, <2>6 DEF TalkFits
  <2> QED
    BY <2>1, <2>2, <2>3, <2>7, <2>8 DEF ContextInvariant, Waiting
<1>4. CASE RunOver
  BY <1>4 DEF RunOver, ContextInvariant, Waiting, TalkFits
<1>5. CASE TurnFails
  BY <1>5 DEF TurnFails, ContextInvariant, Waiting, TalkFits
<1>6. CASE Recompress
  BY <1>1, <1>6, BuiltContext DEF Recompress
<1>7. CASE ForceTruncate
  <2>1. /\ attempt = "recompressed" /\ context' = Truncated /\ attempt' = "truncated"
        /\ UNCHANGED <<talk, limit>>
    BY <1>7 DEF ForceTruncate
  <2>2. /\ TalkFits /\ talk # <<>> /\ limit \in Nat
        /\ Known(context) /\ InTalkOrder(context)
        /\ Layers(context) = Layers(Whole)
        /\ Chars(context) <= Larger(limit, Chars(Layers(Whole))) + 3
    BY <2>1 DEF ContextInvariant, Waiting
  <2>3. /\ Known(Truncated) /\ InTalkOrder(Truncated)
        /\ Layers(Truncated) = Layers(Whole)
        /\ Chars(Truncated) <= Chars(context)
    BY <2>2, TruncatedFits
  <2>4. Truncated \in Seq(Item) /\ context \in Seq(Item) /\ Layers(Truncated) \in Seq(Item)
    BY <2>2, <2>3, LayersKnown DEF Known
  <2>5. Chars(Truncated) <= Larger(limit, Chars(Layers(Whole))) + 3
    <3>1. /\ Chars(Truncated) \in Nat /\ Chars(context) \in Nat
          /\ Chars(Layers(Whole)) \in Nat
      BY <2>3, <2>4, CharsNat
    <3> QED
      BY <2>2, <2>3, <3>1 DEF Larger
  <2>6. /\ Known(context)' /\ InTalkOrder(context)' /\ (Layers(context) = Layers(Whole))'
        /\ (Chars(context) <= Larger(limit, Chars(Layers(Whole))) + 3)'
    <3> DEFINE r == Truncated
    <3>1. context' = r /\ talk' = talk /\ limit' = limit
      BY <2>1
    <3>2. /\ Known(r) /\ InTalkOrder(r) /\ Layers(r) = Layers(Whole)
          /\ Chars(r) <= Larger(limit, Chars(Layers(Whole))) + 3
      BY <2>3, <2>5
    <3> HIDE DEF r
    <3> QED
      BY <3>1, <3>2 DEF Known, InTalkOrder, Layers, Whole, IsLayer, IsSystem
  <2>7. TalkFits' /\ (talk # <<>>)' /\ limit' \in Nat /\ context' \in Seq(Item)
    BY <2>1, <2>2, <2>4 DEF TalkFits
  <2> QED
    BY <2>1, <2>6, <2>7 DEF ContextInvariant
<1>8. CASE UNCHANGED contextVars
  <2>1. talk' = talk /\ context' = context /\ limit' = limit /\ attempt' = attempt
    BY <1>8 DEF contextVars
  <2> QED
    BY <2>1 DEF ContextInvariant, Waiting, TalkFits, Known, InTalkOrder, HasNewest, Layers,
                Whole, IsLayer, IsSystem
<1> QED
  BY <1>2, <1>3, <1>4, <1>5, <1>6, <1>7, <1>8 DEF ContextNext

LEMMA ContextStays == ContextSpec => []ContextInvariant
BY ContextStarts, ContextKeeps, PTL DEF ContextSpec

\* Every context is made of messages of the run and of summaries, whatever is cut.
THEOREM ContextTyped == ContextSpec => []ContextTypeOK
<1>1. ContextInvariant => ContextTypeOK
  BY DEF ContextInvariant, ContextTypeOK, TalkFits
<1> QED
  BY <1>1, ContextStays, PTL

\* Whatever the messages are, how many of them are kept and how small the budget is:
\* the protected layers are there, the rest is in order, no longer than it may be, and the
\* newest message is missing only where no room was left (compress, _force_fit_with_protection
\* and _truncate_for_context, each on what the one before it made).
THEOREM ContextKept == ContextSpec => []ContextHolds
<1>1. ContextInvariant => ContextHolds
  BY DEF ContextInvariant, ContextHolds, InTalkOrder, HasNewest
<1> QED
  BY <1>1, ContextStays, PTL

=============================================================================
