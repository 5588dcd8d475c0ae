----------------------------- MODULE RateLimit -----------------------------
(***************************************************************************)
(* The two rate limits of the web application (app/web.py): requests per   *)
(* client address and chat turns per session, each a table from keys to    *)
(* the times of the requests of the last window.  Tables have a bounded    *)
(* number of entries and are cleaned by every check and by a background    *)
(* task.                                                                   *)
(***************************************************************************)
EXTENDS Naturals, FiniteSets

CONSTANTS Stores,     \* _RATE_LIMIT_STORE, _RATE_LIMIT_SESSION_STORE
          Keys,       \* client addresses, session ids
          Limit,      \* RATE_LIMIT_MAX, RATE_LIMIT_SESSION_MAX
          Window,     \* RATE_LIMIT_WINDOW, RATE_LIMIT_SESSION_WINDOW
          MaxEntries, \* MAX_RATE_LIMIT_ENTRIES
          MaxHits,    \* bound on the requests checked
          MaxTime     \* bound on time

ASSUME RateLimitAssumption ==
    /\ Limit \in [Stores -> Nat]
    /\ Window \in Nat \ {0}
    /\ MaxEntries \in Nat
    /\ MaxHits \in Nat
    /\ MaxTime \in Nat

VARIABLES hits,    \* the requests whose times are in a table, by key
          made,    \* requests checked so far, which also names them
          at,      \* when a request was checked
          served,  \* the requests let through, by key (history)
          evicted, \* keys whose times were dropped because the table was full (history)
          now

rateVars == <<hits, made, at, served, evicted, now>>

Hits == 1..MaxHits

RateLimitTypeOK ==
    /\ hits \in [Stores -> [Keys -> SUBSET Hits]]
    /\ made \in 0..MaxHits
    /\ at \in [Hits -> 0..MaxTime]
    /\ served \in [Stores -> [Keys -> SUBSET Hits]]
    /\ evicted \in [Stores -> SUBSET Keys]
    /\ now \in 0..MaxTime

NoHits == [s \in Stores |-> [k \in Keys |-> {}]]

RateLimitInit ==
    /\ hits = NoHits
    /\ made = 0
    /\ at = [i \in Hits |-> 0]
    /\ served = NoHits
    /\ evicted = [s \in Stores |-> {}]
    /\ now = 0

-----------------------------------------------------------------------------
\* A mutant: the window is one too short.
RecentShort(i) == now - at[i] < Window - 1

Recent(i) == now - at[i] < Window

Kept(s) == [k \in Keys |-> {i \in hits[s][k] : Recent(i)}]

Entries(s) == {k \in Keys : Kept(s)[k] # {}}

\* min of the entries' times: sorted by it, the first ones are dropped.
OlderThan(s, j, k) ==
    \E x \in Kept(s)[j] : \A y \in Kept(s)[k] : at[x] <= at[y]

\* The entries that do not fit.
Surplus(s, E) ==
    /\ E \subseteq Entries(s)
    /\ Cardinality(E) = IF Cardinality(Entries(s)) > MaxEntries
                        THEN Cardinality(Entries(s)) - MaxEntries ELSE 0
    /\ \A j \in E, k \in Entries(s) \ E : OlderThan(s, j, k)

\* The table after _prune_rate_limit_store.
Pruned(s, E) == [k \in Keys |-> IF k \in E THEN {} ELSE Kept(s)[k]]

\* _check_rate_limit: a request that is turned away counts like the others.
Check(s, k) ==
    /\ made < MaxHits
    /\ made' = made + 1
    /\ at' = [at EXCEPT ![made + 1] = now]
    /\ \E E \in SUBSET Keys :
        LET times == Pruned(s, E)[k] \cup {made + 1} IN
        /\ Surplus(s, E)
        /\ hits' = [hits EXCEPT ![s] = [Pruned(s, E) EXCEPT ![k] = times]]
        /\ evicted' = [evicted EXCEPT ![s] = @ \cup E]
        /\ served' = IF Cardinality(times) > Limit[s] THEN served
                     ELSE [served EXCEPT ![s][k] = @ \cup {made + 1}]
    /\ UNCHANGED now

\* _periodic_cleanup, which prunes one table after the other.
Cleanup(s) ==
    /\ \E E \in SUBSET Keys :
        /\ Surplus(s, E)
        /\ hits' = [hits EXCEPT ![s] = Pruned(s, E)]
        /\ evicted' = [evicted EXCEPT ![s] = @ \cup E]
    /\ UNCHANGED <<made, at, served, now>>

TimePasses ==
    /\ now < MaxTime
    /\ now' = now + 1
    /\ UNCHANGED <<hits, made, at, served, evicted>>

RateLimitNext ==
    \/ \E s \in Stores, k \in Keys : Check(s, k)
    \/ \E s \in Stores : Cleanup(s)
    \/ TimePasses

RateLimitSpec == RateLimitInit /\ [][RateLimitNext]_rateVars

-----------------------------------------------------------------------------
ServedIn(s, k, from) == {i \in served[s][k] : at[i] >= from /\ at[i] < from + Window}

\* No window of time, wherever it starts, has more than the limit of requests of
\* one key let through, whatever the checks and cleanups of other keys do; but for
\* a key whose times were dropped because the table was full.
ServedWithinLimit ==
    \A s \in Stores, k \in Keys, from \in 0..MaxTime :
        k \notin evicted[s] => Cardinality(ServedIn(s, k, from)) <= Limit[s]

=============================================================================
