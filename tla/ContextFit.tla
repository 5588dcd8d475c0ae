----------------------------- MODULE ContextFit -----------------------------
(***************************************************************************)
(* What the provider gets to see of a conversation (context/compressor.py, *)
(* context/engine.py, context/tokenizer.py, runtime/loop.py run): before   *)
(* every call the messages of the run are fitted into the token budget;    *)
(* when the provider still finds them too long, they are fitted into a     *)
(* tighter one, and at last the older half is cut off. The messages of the *)
(* run stay as they are, and the next turn starts from them.               *)
(*   A length is a number of characters. Of a text only its length counts, *)
(* and whether it is dense: of few characters for a token.                 *)
(***************************************************************************)
EXTENDS Integers, Sequences, FiniteSets

CONSTANTS Openings,       \* the conversations a run starts with
          Exchanges,      \* an answer with calls, and the tools' replies
          MaxTalk,        \* bound on the messages of a run
          TurnTokens,     \* max_total_tokens
          TightTokens,    \* the same with a threshold of 0.7 of it
          SchemaTokens,   \* tokens of the tool schemas
          LeastChars,     \* at least this many characters are allowed
          MaxToolChars,   \* per_tool_chars
          TrimNote,       \* the line that tells what was trimmed
          SummarySizes,   \* possible lengths of a summary with its frame
          KeepRecent,     \* keep_recent
          LeastKept,      \* the cut keeps as many messages
          ThinkRoom       \* reasoning is cut only where there is more room

\* layer: its content names a protected prompt layer; err: it has the text "error".
TalkMessage == [kind : {"system", "user", "calls", "text", "tool"}, size : Nat, think : Nat,
            layer : BOOLEAN, err : BOOLEAN, dense : BOOLEAN]

ASSUME ContextAssumption ==
    /\ Openings \cup Exchanges \subseteq Seq(TalkMessage)
    /\ \A s \in Openings \cup Exchanges : s # <<>>
    /\ \A s \in Openings \cup Exchanges : \A i \in DOMAIN s : s[i].layer => s[i].kind = "system"
    /\ {MaxTalk, TurnTokens, TightTokens, SchemaTokens, LeastChars, MaxToolChars, TrimNote,
        KeepRecent, LeastKept, ThinkRoom} \subseteq Nat
    /\ SummarySizes \subseteq Nat

VARIABLES talk,      \* the messages of the run
          context,   \* those that the provider was last given, as items
          limit,     \* the characters these were fitted into
          attempt    \* how far the turn's calls have got

contextVars == <<talk, context, limit, attempt>>

\* What is left of message id; 0 is a summary.
Item == [id : Nat, size : Nat, think : Nat]

ContextTypeOK ==
    /\ talk \in Seq(TalkMessage)
    /\ context \in Seq(Item)
    /\ limit \in Nat
    /\ attempt \in {"ready", "asked", "recompressed", "truncated", "over"}

ContextInit ==
    /\ talk \in Openings
    /\ context = <<>> /\ limit = 0
    /\ attempt = "ready"

-----------------------------------------------------------------------------
Larger(a, b) == IF a > b THEN a ELSE b

\* The items at the places of S, in their order: at place n is the one up to which there are n.
Nth(S, n) == CHOOSE i \in S : Cardinality({j \in S : j <= i}) = n
Picked(items, S) == [n \in 1..Cardinality(S) |-> items[Nth(S, n)]]

\* The last n places of S.
Latest(S, n) == {i \in S : Cardinality({j \in S : j >= i}) <= n}

Chars(items) ==
    LET sum[n \in 0..Len(items)] ==
          IF n = 0 THEN 0 ELSE sum[n - 1] + items[n].size + items[n].think
    IN  sum[Len(items)]

\* CompositeTokenEstimator.estimate_total: dense text has a token for each character,
\* other text for every three; tool calls cost tokens and no characters.
Tokens(items) ==
    LET cost(m) == (IF talk[m.id].kind = "calls" THEN 1 ELSE 0)
                   + (IF talk[m.id].dense THEN m.size + m.think ELSE (m.size + m.think) \div 3)
        sum[n \in 0..Len(items)] == IF n = 0 THEN SchemaTokens ELSE sum[n - 1] + cost(items[n])
    IN  sum[Len(items)]

Whole == [i \in DOMAIN talk |-> [id |-> i, size |-> talk[i].size, think |-> talk[i].think]]

IsLayer(m) == m.id # 0 /\ talk[m.id].layer
IsSystem(m) == m.id = 0 \/ talk[m.id].kind = "system"
Layers(items) == Picked(items, {i \in DOMAIN items : IsLayer(items[i])})

\* _trim_large_tool_results; critical results may be three times as long. What is critical
\* is remembered by the address of a message: that of a message that is gone counts for
\* the next one there, so any result may pass for critical, and any not.
Trimmed(critical) ==
    [i \in DOMAIN talk |->
        LET most == IF i \in critical THEN 3 * MaxToolChars ELSE MaxToolChars IN
        IF talk[i].kind = "tool" /\ talk[i].size > most
        THEN [Whole[i] EXCEPT !.size = most + TrimNote] ELSE Whole[i]]

\* A mutant: the newest one goes first.
DroppedNewest(items, recent, room) ==
    {i \in recent : LET older == {j \in recent : j <= i}
                    IN  older = {i} \/ Chars(Picked(items, older)) <= room}

\* The older of the recent messages are dropped, but for the last one, until they fit.
Dropped(items, recent, room) ==
    {i \in recent : LET newer == {j \in recent : j >= i}
                    IN  newer = {i} \/ Chars(Picked(items, newer)) <= room}

\* _score_message, at this place of so many messages.
Rank(m, place, total) ==
    IF m.id = 0 THEN 100 ELSE
    CASE talk[m.id].kind = "system" -> 100
      [] talk[m.id].kind = "user"   -> 80
      [] talk[m.id].kind = "calls"  -> 70
      [] talk[m.id].kind = "text"   -> IF m.think > 0 THEN 65 ELSE 50
      [] talk[m.id].kind = "tool"   -> IF talk[m.id].err THEN 90
                                       ELSE IF place > total - 4 THEN 75 ELSE 40

\* A message is shortened to what is left of the room: its content to seven tenths, with
\* a mark of four characters, then its reasoning.
Shortened(m, left) ==
    LET size == IF 10 * m.size > 7 * left THEN Larger(0, (7 * left) \div 10 - 4) + 4 ELSE m.size
        rest == left - size
        think == IF m.think <= rest THEN m.think ELSE IF rest > ThinkRoom THEN rest ELSE 0
    IN  IF m.size + m.think > left THEN [m EXCEPT !.size = size, !.think = think] ELSE m

\* Messages that may be cut, and the order in which they get their room: by rank.
Evictable(items) == {i \in DOMAIN items : ~IsLayer(items[i])}

GoesBefore(items, i, j) ==
    LET a == Rank(items[i], i, Len(items))
        b == Rank(items[j], j, Len(items))
    IN  a > b \/ (a = b /\ i < j)

Turn(items, i) == Cardinality({j \in Evictable(items) : j = i \/ GoesBefore(items, j, i)})

\* What room is left when so many have had their turn.
Left(items, room) ==
    LET left[n \in 0..Cardinality(Evictable(items))] ==
          IF n = 0 THEN Larger(0, room - Chars(Layers(items)))
          ELSE LET next == CHOOSE i \in Evictable(items) : Turn(items, i) = n
                   m == Shortened(items[next], left[n - 1])
               IN  IF left[n - 1] <= 0 THEN left[n - 1] ELSE left[n - 1] - m.size - m.think
    IN  left

\* _force_fit_with_protection: the layers stay, the others take what room is left.
ForceFit(items, room) ==
    LET left == Left(items, room)
        before(i) == left[Turn(items, i) - 1]
        fitted == [i \in DOMAIN items |->
                     IF i \in Evictable(items) THEN Shortened(items[i], before(i)) ELSE items[i]]
    IN  Layers(items) \o Picked(fitted, {i \in Evictable(items) : before(i) > 0})

\* _summarize: of the text it makes of the older messages only the length is of interest.
Summary(size) == [id |-> 0, size |-> size, think |-> 0]

\* SimpleContextCompressor.compress
Compressed(room, critical, summary) ==
    LET trim   == Trimmed(critical)
        layers == Layers(trim)
        recent == Latest({i \in DOMAIN talk : ~talk[i].layer}, KeepRecent)
        kept   == Picked(trim, Dropped(trim, recent, room - Chars(layers) - summary))
        all    == layers \o <<Summary(summary)>> \o kept
    IN  IF Chars(Whole) <= room THEN Whole
        ELSE IF Chars(trim) <= room THEN trim
        ELSE IF Chars(all) <= room THEN all
        ELSE ForceFit(all, room)

\* The characters that the tokens of the budget are worth.
Room(tokens) ==
    Larger(LeastChars, (Larger(0, tokens - SchemaTokens) * Chars(Whole)) \div Tokens(Whole))

\* ContextEngine.build
Build(tokens) ==
    IF Tokens(Whole) <= tokens
    THEN context' = Whole /\ limit' = Chars(Whole)
    ELSE /\ limit' = Room(tokens)
         /\ \E critical \in SUBSET {i \in DOMAIN talk : talk[i].kind = "tool"},
               summary \in SummarySizes :
              context' = Compressed(Room(tokens), critical, summary)

-----------------------------------------------------------------------------
\* The call at the head of a turn.
AskModel ==
    /\ attempt = "ready"
    /\ Build(TurnTokens)
    /\ attempt' = "asked"
    /\ UNCHANGED talk

Waiting == attempt \in {"asked", "recompressed", "truncated"}

\* The answer calls tools, and their replies are appended; or the run ends.
ModelCalls ==
    /\ Waiting
    /\ \E x \in Exchanges : Len(talk) + Len(x) <= MaxTalk /\ talk' = talk \o x
    /\ attempt' = "ready"
    /\ UNCHANGED <<context, limit>>

RunOver ==
    /\ Waiting
    /\ attempt' = "over"
    /\ UNCHANGED <<talk, context, limit>>

\* The turn is given up, and the next one begins.
TurnFails ==
    /\ Waiting
    /\ attempt' = "ready"
    /\ UNCHANGED <<talk, context, limit>>

\* The provider says that the context is too long; one with fewer messages is tried.
Recompress ==
    /\ attempt = "asked"
    /\ Build(TightTokens)
    /\ Len(context') < Len(context)
    /\ attempt' = "recompressed"
    /\ UNCHANGED talk

\* _truncate_for_context
Truncated ==
    LET system == {i \in DOMAIN context : IsSystem(context[i])}
        others == DOMAIN context \ system
    IN  Picked(context, system)
          \o Picked(context, Latest(others, Larger(LeastKept, Cardinality(others) \div 2)))

ForceTruncate ==
    /\ attempt = "recompressed"
    /\ context' = Truncated
    /\ Len(context') < Len(context)
    /\ attempt' = "truncated"
    /\ UNCHANGED <<talk, limit>>

ContextNext == AskModel \/ ModelCalls \/ RunOver \/ TurnFails \/ Recompress \/ ForceTruncate

ContextSpec == ContextInit /\ [][ContextNext]_contextVars

-----------------------------------------------------------------------------
\* Whatever has to go, the model gets every protected layer of its instructions as it is,
\* with other messages in their order; the whole is no longer than the room it was fitted
\* into (but for three characters of the mark that something was cut), unless the layers
\* alone are; and the newest message is missing only where no room was left for it, or
\* where recent messages are not kept at all.
ContextHolds ==
    Waiting =>
        /\ Layers(context) = Layers(Whole)
        /\ \A i, j \in {k \in DOMAIN context : ~IsSystem(context[k])} :
             i < j => context[i].id < context[j].id
        /\ Chars(context) <= Larger(limit, Chars(Layers(Whole))) + 3
        /\ \/ attempt = "truncated"
           \/ KeepRecent = 0
           \/ Chars(context) >= limit
           \/ \E i \in DOMAIN context : context[i].id = Len(talk)

=============================================================================
