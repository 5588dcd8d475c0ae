------------------------------ MODULE Routing ------------------------------
(***************************************************************************)
(* The model router and the health monitor it reads (routing/): a request  *)
(* picks a provider by the health table as it was when the request came,   *)
(* then fails over to the others.  Requests, sweeps of the monitor and the *)
(* checks of the failover run as tasks of one event loop and interleave at *)
(* every await, while providers go down and come back.                     *)
(***************************************************************************)
EXTENDS Naturals, FiniteSets

CONSTANTS Providers,
          Priority,         \* of a ProviderEntry, higher is preferred
          Score,            \* what CapabilityMatchStrategy._score makes of it
          Position,         \* its place in the list of entries
          Requests,         \* calls of complete
          Sweeps,           \* tasks that run check_all
          FailureThreshold, \* failure_threshold
          MaxSwings         \* bound on providers going down or coming back

ASSUME RoutingAssumption ==
    /\ Priority \in [Providers -> Nat]
    /\ Score \in [Providers -> Nat]
    /\ Position \in [Providers -> Nat]
    /\ FailureThreshold \in Nat \ {0}
    /\ MaxSwings \in Nat

VARIABLES setup,   \* how the router was built
          up,      \* the providers that answer in time
          swings,
          health,  \* the monitor's record of a provider
          phase,   \* where a call of complete is
          asked,   \* the provider it is at
          untried, \* the providers it has still to try
          seen,    \* was the asked provider up, or down, during the attempt?
          steady,  \* providers that were up ever since the request came (history)
          pending  \* the providers a sweep has still to check

routingVars == <<setup, up, swings, health, phase, asked, untried, seen, steady, pending>>

NoProvider == "no provider"

Phases == {"idle", "asking", "checking", "answered", "failed", "cancelled"}

\* consecutive_failures is only compared with the threshold: it saturates there.
Record == [healthy : BOOLEAN, failures : 0..FailureThreshold]

RoutingTypeOK ==
    /\ setup \in [strategy : {"primary", "capability"},
                  failover : BOOLEAN, monitored : BOOLEAN]
    /\ up \subseteq Providers
    /\ swings \in 0..MaxSwings
    /\ health \in [Providers -> Record]
    /\ phase \in [Requests -> Phases]
    /\ asked \in [Requests -> Providers \cup {NoProvider}]
    /\ untried \in [Requests -> SUBSET Providers]
    /\ seen \in [Requests -> SUBSET BOOLEAN]
    /\ steady \in [Requests -> SUBSET Providers]
    /\ pending \in [Sweeps -> SUBSET Providers]

\* _build_provider_for_manifest makes the monitor exactly when it enables the failover;
\* the class itself takes any combination.
RoutingInit ==
    /\ setup \in [strategy : {"primary", "capability"},
                  failover : BOOLEAN, monitored : BOOLEAN]
    /\ up = Providers
    /\ swings = 0
    /\ health = [p \in Providers |-> [healthy |-> TRUE, failures |-> 0]]
    /\ phase = [r \in Requests |-> "idle"]
    /\ asked = [r \in Requests |-> NoProvider]
    /\ untried = [r \in Requests |-> {}]
    /\ seen = [r \in Requests |-> {}]
    /\ steady = [r \in Requests |-> {}]
    /\ pending = [s \in Sweeps |-> {}]

-----------------------------------------------------------------------------
\* sorted(..., reverse=True) is stable: among equals the earlier entry is first.
Outranks(f, p, q) ==
    \/ f[p] > f[q]
    \/ f[p] = f[q] /\ Position[p] < Position[q]

IsBest(f, S, p) == p \in S /\ \A q \in S \ {p} : Outranks(f, p, q)

\* Without a monitor the table is empty, and who is not in it counts as healthy.
Healthy == {p \in Providers : setup.monitored => health[p].healthy}

Selected(p) ==
    IF Healthy = {} THEN IsBest(Priority, Providers, p)
    ELSE IF setup.strategy = "primary" THEN IsBest(Priority, Healthy, p)
    ELSE IsBest(Score, Healthy, p)

\* _build_try_order: after the selected one all the others, healthy or not.
FallbackOrder(r, p) == IsBest(Priority, untried[r], p)

\* The record after a health check that passed, or failed or timed out.
Checked(record, ok) ==
    IF ok THEN [healthy |-> TRUE, failures |-> 0]
    ELSE LET n == IF record.failures < FailureThreshold
                  THEN record.failures + 1 ELSE FailureThreshold
         IN  [healthy |-> record.healthy /\ n < FailureThreshold, failures |-> n]

\* r asks p next.
Ask(r, p) ==
    /\ asked' = [asked EXCEPT ![r] = p]
    /\ seen' = [seen EXCEPT ![r] = {p \in up}]
    /\ phase' = [phase EXCEPT ![r] = "asking"]

\* A mutant: providers that the health table calls unhealthy are not tried.
TryNextHealthy(r) ==
    \/ /\ untried[r] \cap Healthy = {}
       /\ phase' = [phase EXCEPT ![r] = "failed"]
       /\ UNCHANGED <<asked, untried, seen>>
    \/ \E p \in untried[r] \cap Healthy :
        /\ Ask(r, p)
        /\ untried' = [untried EXCEPT ![r] = @ \ {p}]

\* The attempt of r is over and the error was not raised at once.
TryNext(r) ==
    \/ /\ untried[r] = {}
       /\ phase' = [phase EXCEPT ![r] = "failed"]
       /\ UNCHANGED <<asked, untried, seen>>
    \/ \E p \in untried[r] :
        /\ FallbackOrder(r, p)
        /\ Ask(r, p)
        /\ untried' = [untried EXCEPT ![r] = @ \ {p}]

-----------------------------------------------------------------------------
RequestComes(r) ==
    /\ phase[r] = "idle"
    /\ \E p \in Providers :
        /\ Selected(p)
        /\ Ask(r, p)
        /\ untried' = [untried EXCEPT ![r] = Providers \ {p}]
    /\ steady' = [steady EXCEPT ![r] = up]
    /\ UNCHANGED <<setup, up, swings, health, pending>>

\* An answer comes if the provider was up at some time of the attempt ...
Answers(r) ==
    /\ phase[r] = "asking"
    /\ TRUE \in seen[r]
    /\ phase' = [phase EXCEPT ![r] = "answered"]
    /\ UNCHANGED <<setup, up, swings, health, asked, untried, seen, steady, pending>>

\* ... an error or a timeout if it was down at some time.
AttemptFails(r) ==
    /\ phase[r] = "asking"
    /\ FALSE \in seen[r]
    /\ \/ /\ ~setup.failover
          /\ phase' = [phase EXCEPT ![r] = "failed"]
          /\ UNCHANGED <<asked, untried, seen>>
       \/ /\ setup.failover /\ setup.monitored
          /\ phase' = [phase EXCEPT ![r] = "checking"]
          /\ UNCHANGED <<asked, untried, seen>>
       \/ /\ setup.failover /\ ~setup.monitored
          /\ TryNext(r)
    /\ UNCHANGED <<setup, up, swings, health, steady, pending>>

\* check_once of the failover ends; what it finds need not be what requests find.
FailoverCheckEnds(r, ok) ==
    /\ phase[r] = "checking"
    /\ health' = [health EXCEPT ![asked[r]] = Checked(@, ok)]
    /\ TryNext(r)
    /\ UNCHANGED <<setup, up, swings, steady, pending>>

\* The caller's per_turn_timeout, or a shutdown, cancels the call.
Cancelled(r) ==
    /\ phase[r] \in {"asking", "checking"}
    /\ phase' = [phase EXCEPT ![r] = "cancelled"]
    /\ UNCHANGED <<setup, up, swings, health, asked, untried, seen, steady, pending>>

\* check_all, from health_check or from the monitor's own loop.
SweepBegins(s) ==
    /\ setup.monitored
    /\ pending[s] = {}
    /\ pending' = [pending EXCEPT ![s] = Providers]
    /\ UNCHANGED <<setup, up, swings, health, phase, asked, untried, seen, steady>>

SweepChecks(s, p, ok) ==
    /\ p \in pending[s]
    /\ \A q \in pending[s] \ {p} : Position[p] < Position[q]
    /\ health' = [health EXCEPT ![p] = Checked(@, ok)]
    /\ pending' = [pending EXCEPT ![s] = @ \ {p}]
    /\ UNCHANGED <<setup, up, swings, phase, asked, untried, seen, steady>>

\* stop cancels the loop in the middle of a sweep.
SweepStops(s) ==
    /\ pending[s] # {}
    /\ pending' = [pending EXCEPT ![s] = {}]
    /\ UNCHANGED <<setup, up, swings, health, phase, asked, untried, seen, steady>>

\* What the providers do.
Swing(p) ==
    /\ swings < MaxSwings
    /\ swings' = swings + 1
    /\ up' = IF p \in up THEN up \ {p} ELSE up \cup {p}
    /\ seen' = [r \in Requests |->
                    IF phase[r] = "asking" /\ asked[r] = p
                    THEN seen[r] \cup {p \in up'} ELSE seen[r]]
    /\ steady' = [r \in Requests |-> steady[r] \ {p}]
    /\ UNCHANGED <<setup, health, phase, asked, untried, pending>>

RequestStep(r) ==
    \/ RequestComes(r)
    \/ Answers(r)
    \/ AttemptFails(r)
    \/ \E ok \in BOOLEAN : FailoverCheckEnds(r, ok)
    \/ Cancelled(r)

SweepStep(s) ==
    \/ SweepBegins(s)
    \/ \E p \in Providers, ok \in BOOLEAN : SweepChecks(s, p, ok)
    \/ SweepStops(s)

RoutingNext ==
    \/ \E r \in Requests : RequestStep(r)
    \/ \E s \in Sweeps : SweepStep(s)
    \/ \E p \in Providers : Swing(p)

RoutingSpec == RoutingInit /\ [][RoutingNext]_routingVars

-----------------------------------------------------------------------------
\* With failover, a request is refused only if no provider was up during the whole
\* of it: whatever the health table says, however stale it is and whoever changes
\* it meanwhile, and wherever in the order the provider stands.
UpProviderAnswers ==
    \A r \in Requests :
        setup.failover /\ phase[r] = "failed" => steady[r] = {}

=============================================================================
