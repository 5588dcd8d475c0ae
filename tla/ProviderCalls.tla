---------------------------- MODULE ProviderCalls ----------------------------
(***************************************************************************)
(* Calls of one model provider by several runs at once                     *)
(* (providers/openai_compat.py, providers/response_cache.py,               *)
(* providers/parsers/openai_native.py, runtime/loop.py _call_provider): a  *)
(* plain call is answered from the cache or posted with retries; a         *)
(* streamed one gets the answer in pieces, those of its tool calls mixed,  *)
(* and is never retried.                                                   *)
(*   An answer is a sequence of pieces, each of the text or of one of the  *)
(* tool calls: of a call first its name, then its arguments.  In a stream  *)
(* each piece comes in a line of its own, with the index of its call or    *)
(* without.  Pieces are put together in the order in which they come, so   *)
(* that a text, or a call, is the set of the places of its pieces.         *)
(***************************************************************************)
EXTENDS Integers, Sequences, FiniteSets

CONSTANTS Callers,       \* calls of the provider
          Prompts,       \* messages with tools
          RepliesTo,     \* what the server can answer
          MaxRetries,    \* max_retries
          CacheSize,     \* max_size of the response cache; 0 when there is none
          CacheTTL,      \* ttl_seconds
          MaxSkipped,    \* bound on the lines of a stream that are passed over
          MaxMoment      \* bound on the clock

\* Calls are named by their place among the calls of the reply, the text by 0; the index
\* is what the line says, from 0 on, if anything.
Piece == [of : Nat] \cup [of : Nat, index : Nat]

CallsOf(reply) == {reply[i].of : i \in DOMAIN reply} \ {0}

ASSUME ProviderAssumption ==
    /\ \A p \in Prompts : \A reply \in RepliesTo[p] :
         reply \in Seq(Piece) /\ \E n \in 0..Len(reply) : CallsOf(reply) = 1..n
    /\ {MaxRetries, CacheSize, CacheTTL, MaxSkipped, MaxMoment} \subseteq Nat

VARIABLES call,     \* the calls
          cached,   \* the response cache, the last used entry at the end
          moment    \* the time

providerVars == <<call, cached, moment>>

\* reply: what the server answers; got: how many of its pieces have come; skipped: those
\* in lines that were passed over; text, tools: the others as they were put together;
\* cut: the stream ended before the reply did.
NoCall == [phase |-> "idle", prompt |-> "nil", tries |-> 0, streamed |-> FALSE, reply |-> <<>>,
           got |-> 0, skipped |-> {}, text |-> {}, tools |-> <<>>, cut |-> FALSE]

Replies == UNION {RepliesTo[p] : p \in Prompts}

CallPhases == {"idle", "posting", "backoff", "streaming", "answered", "raised"}
CacheEntry == [prompt : Prompts, reply : Replies, at : Nat]

ProviderTypeOK ==
    /\ DOMAIN call = Callers
    /\ \A c \in Callers :
         /\ call[c].phase \in CallPhases
         /\ call[c].prompt \in Prompts \cup {"nil"}
         /\ call[c].tries \in 0..(MaxRetries + 1)
         /\ call[c].reply \in Replies \cup {<<>>}
         /\ call[c].got \in 0..Len(call[c].reply)
         /\ call[c].skipped \in SUBSET Nat
         /\ call[c].text \in SUBSET Nat /\ call[c].tools \in Seq(SUBSET Nat)
         /\ call[c].streamed \in BOOLEAN /\ call[c].cut \in BOOLEAN
    /\ cached \in Seq(CacheEntry) /\ Len(cached) <= CacheSize
    /\ moment \in 0..MaxMoment

ProviderInit ==
    /\ call = [c \in Callers |-> NoCall]
    /\ cached = <<>>
    /\ moment = 0

-----------------------------------------------------------------------------
\* Putting an answer together.

\* Those of the pieces in S that belong to a call, or to the text.
Of(reply, k, S) == {i \in S : reply[i].of = k}
PiecesOf(reply, k) == Of(reply, k, DOMAIN reply)

\* The first piece of a call is its name.
IsName(reply, i) == \A j \in 1..(i - 1) : reply[j].of # reply[i].of
ArgumentsIn(reply, S) == {i \in S : ~IsName(reply, i)}
ArgumentsOf(reply, k) == ArgumentsIn(reply, PiecesOf(reply, k))

\* Arguments none of which have come count as none; a beginning is no JSON.  What became
\* of several calls, or has a gap, may happen to be some.
InFull(reply, S) ==
    \/ ArgumentsIn(reply, S) = {}
    \/ \E k \in CallsOf(reply) : ArgumentsIn(reply, S) = ArgumentsOf(reply, k)
Begun(reply, S) ==
    \E k \in CallsOf(reply), m \in DOMAIN reply :
        /\ ArgumentsIn(reply, S) = ArgumentsOf(reply, k) \cap (1..m)
        /\ ArgumentsIn(reply, S) \notin {{}, ArgumentsOf(reply, k)}

\* The place in the list of calls that a delta is for: the first one without an index.
Place(piece) == IF "index" \in DOMAIN piece THEN piece.index + 1 ELSE 1

\* Calls for which nothing has come are empty ones.
Padded(tools, n) ==
    [k \in 1..(IF n > Len(tools) THEN n ELSE Len(tools)) |->
        IF k \in DOMAIN tools THEN tools[k] ELSE {}]

\* A mutant: the piece goes to the last call, and a name begins a new one.
TakeDeltaInTurn(x, reply) ==
    LET i == x.got + 1
        n == Len(x.tools)
    IN  IF reply[i].of = 0 THEN [x EXCEPT !.got = i, !.text = @ \cup {i}]
        ELSE IF IsName(reply, i) \/ n = 0 THEN [x EXCEPT !.got = i, !.tools = Append(@, {i})]
        ELSE [x EXCEPT !.got = i, !.tools[n] = @ \cup {i}]

\* One delta of complete_stream.
TakeDelta(x, reply) ==
    LET i == x.got + 1
        at == Place(reply[i])
        calls == Padded(x.tools, at)
    IN  IF reply[i].of = 0 THEN [x EXCEPT !.got = i, !.text = @ \cup {i}]
        ELSE [x EXCEPT !.got = i, !.tools = [calls EXCEPT ![at] = calls[at] \cup {i}]]

\* _parse_response: the server has put the calls together itself.
Received(x, reply) ==
    [x EXCEPT !.phase = "answered", !.reply = reply, !.got = Len(reply),
              !.text = PiecesOf(reply, 0),
              !.tools = [k \in CallsOf(reply) |-> PiecesOf(reply, k)]]

-----------------------------------------------------------------------------
\* ResponseCache.get and put: the key is made of the messages and the tools only.

Found(p) == {i \in DOMAIN cached : cached[i].prompt = p}
Unexpired(e) == moment - e.at <= CacheTTL

Removed(i) == SubSeq(cached, 1, i - 1) \o SubSeq(cached, i + 1, Len(cached))

\* A prompt has one entry at most.
Without(p) == IF Found(p) = {} THEN cached ELSE Removed(CHOOSE i \in Found(p) : TRUE)

Put(p, reply) ==
    LET all == Append(Without(p), [prompt |-> p, reply |-> reply, at |-> moment])
        n == Len(all)
    IN  IF CacheSize = 0 THEN cached
        ELSE SubSeq(all, (IF n > CacheSize THEN n - CacheSize ELSE 0) + 1, n)

\* complete
Complete(c, p) ==
    /\ call[c].phase = "idle"
    /\ \/ \E i \in Found(p) :
            /\ Unexpired(cached[i])
            /\ call' = [call EXCEPT ![c] = [Received(NoCall, cached[i].reply) EXCEPT !.prompt = p]]
            /\ cached' = Append(Removed(i), cached[i])
       \/ /\ \A i \in Found(p) : ~Unexpired(cached[i])
          /\ call' = [call EXCEPT ![c] = [NoCall EXCEPT !.phase = "posting", !.prompt = p,
                                                        !.tries = 1]]
          /\ cached' = Without(p)
    /\ UNCHANGED moment

\* _post_with_retries
PostAnswered(c) ==
    /\ call[c].phase = "posting"
    /\ \E reply \in RepliesTo[call[c].prompt] :
         /\ call' = [call EXCEPT ![c] = Received(@, reply)]
         /\ cached' = Put(call[c].prompt, reply)
    /\ UNCHANGED moment

\* Timeouts, transport errors, 429 and 5xx are tried again.
PostFails(c) ==
    /\ call[c].phase = "posting"
    /\ \E retryable \in BOOLEAN :
         call' = [call EXCEPT ![c].phase =
                    IF retryable /\ call[c].tries <= MaxRetries THEN "backoff" ELSE "raised"]
    /\ UNCHANGED <<cached, moment>>

PostAgain(c) ==
    /\ call[c].phase = "backoff"
    /\ call' = [call EXCEPT ![c].phase = "posting", ![c].tries = @ + 1]
    /\ UNCHANGED <<cached, moment>>

-----------------------------------------------------------------------------
\* complete_stream and _call_provider, without the cache.
OpenStream(c, p) ==
    /\ call[c].phase = "idle"
    /\ \E reply \in RepliesTo[p] :
         call' = [call EXCEPT ![c] = [NoCall EXCEPT !.phase = "streaming", !.prompt = p,
                                                    !.streamed = TRUE, !.reply = reply]]
    /\ UNCHANGED <<cached, moment>>

Delta(c) ==
    /\ call[c].phase = "streaming"
    /\ call[c].got < Len(call[c].reply)
    /\ call' = [call EXCEPT ![c] = TakeDelta(@, call[c].reply)]
    /\ UNCHANGED <<cached, moment>>

\* A line without "data: ", or one whose data are no JSON: what it says is lost.
SkipLine(c) ==
    /\ call[c].phase = "streaming"
    /\ call[c].got < Len(call[c].reply)
    /\ Cardinality(call[c].skipped) < MaxSkipped
    /\ call' = [call EXCEPT ![c].got = @ + 1, ![c].skipped = @ \cup {call[c].got + 1}]
    /\ UNCHANGED <<cached, moment>>

\* The stream is over: with [DONE], or because the server has closed it, which is taken for
\* the end of the answer.  OpenAINativeParser.parse then needs JSON in every call.
StreamOver(c) ==
    /\ call[c].phase = "streaming"
    /\ LET x == call[c] IN
       \E ok \in BOOLEAN :
         /\ (\A k \in DOMAIN x.tools : InFull(x.reply, x.tools[k])) => ok
         /\ (\E k \in DOMAIN x.tools : Begun(x.reply, x.tools[k])) => ~ok
         /\ call' = [call EXCEPT ![c].phase = IF ok THEN "answered" ELSE "raised",
                                 ![c].cut = x.got < Len(x.reply)]
    /\ UNCHANGED <<cached, moment>>

\* The connection fails, or per_turn_timeout cancels the call.
CallFailed(c) ==
    /\ call[c].phase \in {"posting", "backoff", "streaming"}
    /\ call' = [call EXCEPT ![c].phase = "raised"]
    /\ UNCHANGED <<cached, moment>>

MomentPasses ==
    /\ moment < MaxMoment
    /\ moment' = moment + 1
    /\ UNCHANGED <<call, cached>>

ProviderNext ==
    \/ \E c \in Callers :
         \/ \E p \in Prompts : Complete(c, p) \/ OpenStream(c, p)
         \/ PostAnswered(c) \/ PostFails(c) \/ PostAgain(c)
         \/ Delta(c) \/ SkipLine(c) \/ StreamOver(c) \/ CallFailed(c)
    \/ MomentPasses

ProviderSpec == ProviderInit /\ [][ProviderNext]_providerVars

-----------------------------------------------------------------------------
\* The lines of a stream tell the calls apart.
Indexed(reply) ==
    \A i, j \in DOMAIN reply :
        0 \notin {reply[i].of, reply[j].of} =>
            ((Place(reply[i]) = Place(reply[j])) <=> (reply[i].of = reply[j].of))

\* What a run acts on is what the server sent for its own messages: the text that came,
\* and each piece of a call in one call.  Where the lines tell the calls apart and none was
\* passed over, each call has its own arguments in full, whatever pieces came between;
\* only one whose stream was cut right after its name has none; and of a reply that was
\* not cut nothing is missing.
AnswersAsSent ==
    \A c \in Callers : call[c].phase = "answered" =>
        LET x == call[c]
            came == (1..x.got) \ x.skipped
        IN  /\ x.reply \in RepliesTo[x.prompt]
            /\ x.text = Of(x.reply, 0, came)
            /\ \A i \in came : x.reply[i].of # 0 =>
                 \E k \in DOMAIN x.tools : \A j \in DOMAIN x.tools : i \in x.tools[j] <=> j = k
            /\ ~x.cut => x.got = Len(x.reply)
            /\ ~x.streamed \/ (Indexed(x.reply) /\ x.skipped = {}) =>
                 /\ \A j \in DOMAIN x.tools :
                      \/ x.tools[j] = {}
                      \/ \E k \in CallsOf(x.reply) :
                           \/ x.tools[j] = PiecesOf(x.reply, k)
                           \/ /\ x.cut /\ x.tools[j] = Of(x.reply, k, came)
                              /\ ArgumentsIn(x.reply, x.tools[j]) = {}
                 /\ ~x.cut => \A k \in CallsOf(x.reply) :
                      \E j \in DOMAIN x.tools : x.tools[j] = PiecesOf(x.reply, k)

=============================================================================
