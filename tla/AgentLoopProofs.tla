--------------------------- MODULE AgentLoopProofs ---------------------------
(***************************************************************************)
(* TLAPS proofs about AgentLoop: the safety invariants of the tool-call    *)
(* pipeline for every set of calls and tools, every profile and every      *)
(* bound.  The steps of Next fall into four kinds (StepCases); the         *)
(* inductive invariants below are preserved by each.                       *)
(***************************************************************************)
EXTENDS AgentLoop, SequenceTheorems, TLAPS

(* Steps that touch no call, plan, budget or history; they neither leave   *)
(* calls in flight behind nor begin the dispatch of a plan.                *)
Asks == {"turn", "model", "repair"}
Quiet ==
    /\ UNCHANGED <<profile, planVars, callVars, breakerVars, retryVars, budgetVars, historyVars>>
    /\ phase' = "dispatch" => phase = "dispatch"
    /\ phase = "raised" => phase' = "raised"
    /\ phase = "dispatch" /\ phase' # "dispatch" => todo = {} /\ inflight = {}
    /\ phase' \in Asks =>
           \/ phase \in Asks \cup {"start"}
           \/ phase = "dispatch" /\ ~(Batch /\ total > profile.perSession)

(* Steps that take an answer of the model. *)
Accepts ==
    /\ phase \in {"model", "repair"}
    /\ \E calls \in Plans : AcceptAnswer(calls)
    /\ UNCHANGED <<breakerVars, retryVars, budgetVars, historyVars>>

(* Steps that settle or start one call. *)
CallStep(i) ==
    \/ OverSession(i) \/ AnswerLocally(i) \/ HandToDispatcher(i) \/ CallSucceeds(i)
    \/ \E f \in Recoverable \cup Fatal : CallFails(i, f)

TimeStep == \E t \in Tools : CooldownPasses(t) \/ WindowSlides(t)

(* Calls in flight: only while dispatching, or left behind by a run that   *)
(* raised; a call that is not a read of a batch is in flight alone, after  *)
(* all reads of its batch.                                                 *)
FlightInv ==
    /\ inflight # {} => phase \in {"dispatch", "raised"}
    /\ \A i \in inflight : (~Batch \/ ~IsRead(i)) => inflight = {i}
    /\ \A i \in inflight : (Batch /\ ~IsRead(i)) => \A j \in todo : ~IsRead(j)
    /\ phase # "dispatch" => \A i \in inflight : Batch /\ IsRead(i)

(* The history of dispatched calls stays below the counters of the code. *)
CountInv ==
    /\ handed <= total /\ handed <= profile.perSession
    /\ \A t \in Tools : handedTo[t] <= counts[t] /\ handedTo[t] <= MaxSameTool

CacheInv ==
    /\ \A c \in Calls : succeeded[c] > 0 => c \in cache
    /\ \A c \in Calls : ToolOf[c] \notin Reads => succeeded[c] <= 1
    /\ \A i \in inflight : ~IsRead(i) => plan[i] \notin cache

Bounded(c) == ~profile.batch \/ ToolOf[c] \notin Reads
RetryInv ==
    /\ \A c \in Calls, f \in Recoverable : failedWith[c][f] <= repairCount[ToolOf[c]][f]
    /\ \A c \in Calls : Bounded(c) => \A f \in Recoverable :
           /\ failedWith[c][f] <= profile.toolRetries + 1
           /\ c \notin exhausted => failedWith[c][f] <= profile.toolRetries
    /\ \A i \in inflight : Bounded(plan[i]) => plan[i] \notin exhausted

BreakerInv ==
    ~profile.batch =>
        /\ \A t \in Tools : streak[t] <= recent[t]
        /\ \A i \in inflight : streak[ToolAt(i)] < Threshold

ReplyInv ==
    /\ phase = "dispatch" =>
           \/ DOMAIN plan \subseteq todo \cup inflight \cup replied
           \/ Batch /\ total > profile.perSession
    /\ phase \in Asks \cup {"start"} => replied = DOMAIN plan

(* A handler given up was counted as a failure of its type. *)
GivenUpInv ==
    \A c \in Calls : IF TimeoutType \in Recoverable
                     THEN givenUp[c] <= failedWith[c][TimeoutType] ELSE givenUp[c] = 0

-----------------------------------------------------------------------------
LEMMA StepCases ==
    ASSUME [Next]_vars
    PROVE  Quiet \/ Accepts \/ TimeStep \/ \E i \in DOMAIN plan : CallStep(i)
<1> USE DEF Asks
<1>1. CASE UNCHANGED vars
  BY <1>1 DEF vars, Quiet, planVars, callVars, breakerVars, retryVars, budgetVars, historyVars
<1>2. CASE Start \/ TurnsExhausted \/ Finalize
  BY <1>2 DEF Quiet, Start, TurnsExhausted, Finalize,
              Return, GoTo, Raise, GuardDecides, NotFinal, runVars
<1>9. CASE BeginTurn \/ RequestShutdown
  BY <1>9 DEF Quiet, BeginTurn, RequestShutdown, Return, GoTo, runVars
<1>3. CASE ContextTooLong \/ ModelTimesOut \/ ModelFails
  BY <1>3 DEF Quiet, ContextTooLong, ModelTimesOut, ModelFails,
              NextTurn, GoTo, Raise, runVars
<1>10. CASE EndOfTurn
  BY <1>10 DEF Quiet, EndOfTurn, NextTurn, Return
<1>4. CASE ModelAnswers \/ RepairAnswers
  BY <1>4 DEF Accepts, ModelAnswers, RepairAnswers
<1>5. CASE ModelGarbles
  <2>1. CASE repairs < profile.parserRetries
    BY <1>5, <2>1 DEF Quiet, ModelGarbles, GoTo, runVars
  <2>2. CASE ~(repairs < profile.parserRetries)
    <3>1. /\ AcceptAnswer(<<>>) /\ phase \in {"model", "repair"}
          /\ UNCHANGED <<breakerVars, retryVars, budgetVars, historyVars>>
      BY <1>5, <2>2 DEF ModelGarbles
    <3>2. <<>> \in Plans
      <4>1. <<>> \in [1..0 -> Calls]
        OBVIOUS
      <4>2. 0 \in 0..MaxPlan
        BY BoundAssumption
      <4> QED BY <4>1, <4>2 DEF Plans
    <3> QED BY <3>1, <3>2 DEF Accepts
  <2> QED BY <2>1, <2>2
<1>6. CASE \E i \in DOMAIN plan : CallStep(i)
  BY <1>6
<1>7. CASE TimeStep
  BY <1>7
<1>8. CASE Terminated
  BY <1>8, <1>1 DEF Terminated
<1> QED
  BY <1>1, <1>2, <1>3, <1>4, <1>5, <1>6, <1>7, <1>8, <1>9, <1>10
     DEF Next, LoopStep, Asking, Dispatching, Environment, TimeStep, CallStep

(* The steps that settle a call, and what settling leaves behind. *)
LEMMA Settles ==
    ASSUME NEW i,
           \/ AnswerLocally(i) \/ CallSucceeds(i)
           \/ \E f \in Recoverable \cup Fatal : CallFails(i, f)
    PROVE  /\ Settle(i)
           /\ todo' = todo \ {i} /\ inflight' = inflight \ {i}
           /\ \/ replied' = replied \cup {i} /\ phase' = "dispatch"
              \/ replied' = replied /\ phase' = "raised"
           /\ UNCHANGED <<profile, turn, shutdown, status, checkpoint>>
           /\ UNCHANGED <<modelVars, planVars>>
<1>1. Settle(i)
  BY DEF AnswerLocally, CallSucceeds, CallFails, SettleFailed
<1>2. UNCHANGED <<modelVars, planVars>>
  BY DEF AnswerLocally, CallSucceeds, CallFails
<1> QED BY <1>1, <1>2 DEF Settle, GoTo, Raise, runVars

LEMMA PlanFacts ==
    ASSUME NEW calls \in Plans, profile \in Profiles
    PROVE  calls \in Seq(Calls) /\ Kept(calls) \in Seq(Calls)
<1>1. PICK n \in 0..MaxPlan : calls \in [1..n -> Calls]
  BY DEF Plans
<1>2. calls \in Seq(Calls) /\ Len(calls) = n /\ \A k \in 1..n : calls[k] \in Calls
  BY <1>1, BoundAssumption
<1>3. Len(calls) > 1 => SubSeq(calls, 1, 1) \in Seq(Calls)
  BY <1>1, <1>2, BoundAssumption
<1> QED BY <1>2, <1>3 DEF Kept

LEMMA CountTable ==
    ASSUME NEW R, NEW C, NEW m \in [R -> [C -> Nat]], NEW r \in R, NEW c \in C
    PROVE  [m EXCEPT ![r][c] = @ + 1] \in [R -> [C -> Nat]]
<1>1. m[r] \in [C -> Nat]
  OBVIOUS
<1>2. [m[r] EXCEPT ![c] = m[r][c] + 1] \in [C -> Nat]
  BY <1>1
<1>3. [m EXCEPT ![r] = [m[r] EXCEPT ![c] = m[r][c] + 1]] \in [R -> [C -> Nat]]
  BY <1>2, Zenon
<1> QED BY <1>3

LEMMA LastTwo ==
    ASSUME NEW T, NEW s \in Seq(T), NEW e \in T
    PROVE  (IF Len(s) = 2 THEN <<s[2], e>> ELSE Append(s, e)) \in Seq(T)
<1>1. CASE Len(s) = 2
  <2>1. s[2] \in T
    BY <1>1, ElementOfSeq
  <2> QED BY <1>1, <2>1
<1>2. CASE Len(s) # 2
  BY <1>2
<1> QED BY <1>1, <1>2

(* The parts of the type invariant. *)
ControlTypes ==
    /\ profile \in Profiles /\ phase \in Phases
    /\ turn \in Nat /\ stage \in 0..2 /\ repairs \in Nat
    /\ shutdown \in BOOLEAN /\ status \in Statuses /\ checkpoint \in Checkpoints
PlanTypes ==
    /\ plan \in Seq(Calls)
    /\ todo \subseteq DOMAIN plan /\ inflight \subseteq DOMAIN plan
    /\ replied \subseteq DOMAIN plan
    /\ signatures \in Seq(Seq(Calls))
BudgetTypes == total \in Nat /\ counts \in [Tools -> Nat] /\ cache \subseteq Calls
BreakerTypes == recent \in [Tools -> 0..Threshold] /\ streak \in [Tools -> Nat]
RetryTypes ==
    /\ repairCount \in [Tools -> [Recoverable -> Nat]]
    /\ exhausted \subseteq Calls
    /\ exhaustedShapes \subseteq {CallShape(c) : c \in Calls}
HandedTypes == handed \in Nat /\ handedTo \in [Tools -> Nat]
OutcomeTypes ==
    /\ succeeded \in [Calls -> Nat]
    /\ failedWith \in [Calls -> [Recoverable -> Nat]]
    /\ givenUp \in [Calls -> Nat]
TypeParts ==
    /\ ControlTypes /\ PlanTypes /\ BudgetTypes /\ BreakerTypes
    /\ RetryTypes /\ HandedTypes /\ OutcomeTypes

LEMMA TypeSplit == TypeOK <=> TypeParts
BY DEF TypeOK, TypeParts, ControlTypes, PlanTypes, BudgetTypes, BreakerTypes, RetryTypes,
       HandedTypes, OutcomeTypes

LEMMA ControlStep == ControlTypes /\ [Next]_vars => ControlTypes'
<1> SUFFICES ASSUME ControlTypes, [Next]_vars PROVE ControlTypes'
  OBVIOUS
<1> USE DEF ControlTypes, Phases, Statuses, Checkpoints, runVars, modelVars
<1>1. CASE UNCHANGED vars
  BY <1>1 DEF vars
<1>2. CASE Start \/ BeginTurn \/ TurnsExhausted
  BY <1>2 DEF Start, BeginTurn, TurnsExhausted, Return, GoTo
<1>11. CASE RequestShutdown
  <2>1. shutdown' \in BOOLEAN
    BY <1>11, Zenon DEF RequestShutdown
  <2> QED BY <1>11, <2>1 DEF RequestShutdown
<1>3. CASE Finalize
  BY <1>3 DEF Finalize, Return, GoTo, Raise, GuardDecides, NotFinal
<1>4. CASE ContextTooLong
  BY <1>4 DEF ContextTooLong, NextTurn, GoTo
<1>5. CASE ModelTimesOut \/ ModelFails \/ EndOfTurn
  BY <1>5 DEF ModelTimesOut, ModelFails, EndOfTurn, NextTurn, GoTo, Raise, Return
<1>6. ASSUME NEW calls, AcceptAnswer(calls)
      PROVE  /\ phase' \in Phases /\ turn' = turn /\ shutdown' = shutdown
             /\ profile' = profile /\ status' \in Statuses /\ checkpoint' \in Checkpoints
  BY <1>6 DEF AcceptAnswer, GoTo, Return
<1>7. CASE ModelAnswers \/ RepairAnswers
  BY <1>6, <1>7 DEF ModelAnswers, RepairAnswers
<1>8. CASE ModelGarbles
  BY <1>6, <1>8 DEF ModelGarbles, GoTo
<1>9. ASSUME NEW i \in DOMAIN plan, CallStep(i)
      PROVE  ControlTypes'
  <2>1. CASE OverSession(i)
    BY <2>1 DEF OverSession, GoTo, Return
  <2>2. CASE HandToDispatcher(i)
    BY <2>2 DEF HandToDispatcher, GoTo
  <2>3. CASE \/ AnswerLocally(i) \/ CallSucceeds(i)
             \/ \E f \in Recoverable \cup Fatal : CallFails(i, f)
    BY <2>3, Settles
  <2> QED BY <1>9, <2>1, <2>2, <2>3 DEF CallStep
<1>10. CASE TimeStep
  BY <1>10 DEF TimeStep, CooldownPasses, WindowSlides
<1> QED
  BY <1>1, <1>2, <1>3, <1>4, <1>5, <1>7, <1>8, <1>9, <1>10, <1>11
     DEF Next, LoopStep, Asking, Dispatching, Environment, TimeStep, CallStep, Terminated

(* What a call step reads and writes has the right type. *)
LEMMA CallFacts ==
    ASSUME PlanTypes, NEW i \in DOMAIN plan
    PROVE  plan[i] \in Calls /\ CallAt(i) = plan[i] /\ ToolAt(i) = ToolOf[plan[i]]
           /\ ToolAt(i) \in Tools
BY CallAssumption, ElementOfSeq DEF PlanTypes, CallAt, ToolAt

LEMMA PlanStep == TypeParts /\ [Next]_vars => PlanTypes'
<1> SUFFICES ASSUME PlanTypes, ControlTypes, [Next]_vars PROVE PlanTypes'
  BY DEF TypeParts
<1>1. CASE Quiet
  BY <1>1 DEF PlanTypes, Quiet, planVars, callVars
<1>2. CASE Accepts
  <2>1. PICK calls \in Plans : AcceptAnswer(calls)
    BY <1>2 DEF Accepts
  <2>2. Kept(calls) \in Seq(Calls)
    BY <2>1, PlanFacts DEF ControlTypes
  <2>3. plan' \in Seq(Calls) /\ todo' \subseteq DOMAIN plan'
        /\ inflight' \subseteq DOMAIN plan' /\ replied' \subseteq DOMAIN plan'
    BY <2>1, <2>2 DEF AcceptAnswer, PlanTypes, callVars
  <2>4. signatures' \in Seq(Seq(Calls))
    <3>1. signatures \in Seq(Seq(Calls))
      BY DEF PlanTypes
    <3>2. signatures' = IF Len(signatures) = 2 THEN <<signatures[2], Kept(calls)>>
                        ELSE Append(signatures, Kept(calls))
      BY <2>1 DEF AcceptAnswer, Remember
    <3>3. (IF Len(signatures) = 2 THEN <<signatures[2], Kept(calls)>>
           ELSE Append(signatures, Kept(calls))) \in Seq(Seq(Calls))
      BY <2>2, <3>1, LastTwo
    <3> QED BY <3>2, <3>3
  <2> QED BY <2>3, <2>4 DEF PlanTypes
<1>3. CASE TimeStep
  BY <1>3 DEF TimeStep, CooldownPasses, WindowSlides, PlanTypes, planVars, callVars
<1>4. ASSUME NEW i \in DOMAIN plan, CallStep(i) PROVE PlanTypes'
  <2>1. CASE OverSession(i)
    BY <2>1 DEF OverSession, PlanTypes, planVars
  <2>2. CASE HandToDispatcher(i)
    BY <2>2 DEF HandToDispatcher, PlanTypes, planVars
  <2>3. CASE \/ AnswerLocally(i) \/ CallSucceeds(i)
             \/ \E f \in Recoverable \cup Fatal : CallFails(i, f)
    <3>1. /\ todo' = todo \ {i} /\ inflight' = inflight \ {i}
          /\ replied' = replied \cup {i} \/ replied' = replied
          /\ UNCHANGED <<plan, signatures>>
      BY <2>3, Settles DEF planVars
    <3> QED BY <3>1 DEF PlanTypes
  <2> QED BY <1>4, <2>1, <2>2, <2>3 DEF CallStep
<1> QED BY StepCases, <1>1, <1>2, <1>3, <1>4

LEMMA BudgetStep == TypeParts /\ [Next]_vars => BudgetTypes'
<1> SUFFICES ASSUME PlanTypes, BudgetTypes, [Next]_vars PROVE BudgetTypes'
  BY DEF TypeParts
<1>1. CASE Quiet \/ Accepts
  BY <1>1 DEF Quiet, Accepts, BudgetTypes, budgetVars
<1>2. CASE TimeStep
  BY <1>2 DEF TimeStep, CooldownPasses, WindowSlides, BudgetTypes, budgetVars
<1>3. ASSUME NEW i \in DOMAIN plan, CallStep(i) PROVE BudgetTypes'
  <2>1. ToolAt(i) \in Tools /\ CallAt(i) \in Calls
    BY CallFacts
  <2>2. CASE OverSession(i)
    <3>1. total' = total + 1 /\ counts' = counts /\ cache' = cache
      BY <2>2, Zenon DEF OverSession
    <3> QED BY <3>1 DEF BudgetTypes
  <2>3. CASE AnswerLocally(i)
    BY <2>1, <2>3 DEF AnswerLocally, CountCall, BudgetTypes
  <2>4. CASE HandToDispatcher(i)
    BY <2>1, <2>4 DEF HandToDispatcher, CountCall, BudgetTypes
  <2>5. CASE CallSucceeds(i)
    BY <2>1, <2>5 DEF CallSucceeds, BudgetTypes
  <2>6. CASE \E f \in Recoverable \cup Fatal : CallFails(i, f)
    BY <2>6 DEF CallFails, BudgetTypes
  <2> QED BY <1>3, <2>2, <2>3, <2>4, <2>5, <2>6 DEF CallStep
<1> QED BY StepCases, <1>1, <1>2, <1>3

LEMMA BreakerTypeStep == TypeParts /\ [Next]_vars => BreakerTypes'
<1> SUFFICES ASSUME PlanTypes, BreakerTypes, [Next]_vars PROVE BreakerTypes'
  BY DEF TypeParts
<1>1. CASE Quiet \/ Accepts
  BY <1>1 DEF Quiet, Accepts, BreakerTypes, breakerVars
<1>2. ASSUME NEW t \in Tools, CooldownPasses(t) \/ WindowSlides(t) PROVE BreakerTypes'
  BY <1>2 DEF CooldownPasses, WindowSlides, BreakerTypes
<1>3. ASSUME NEW i \in DOMAIN plan, CallStep(i) PROVE BreakerTypes'
  <2>1. RecordFailure(i) => BreakerTypes'
    <3>1. \A n \in 0..Threshold : n < Threshold => n + 1 \in 0..Threshold
      BY BoundAssumption
    <3> QED BY <3>1, CallFacts DEF RecordFailure, BreakerTypes
  <2>2. CASE OverSession(i)
    BY <2>2 DEF OverSession, BreakerTypes, breakerVars
  <2>3. CASE AnswerLocally(i)
    BY <2>1, <2>3 DEF AnswerLocally, SettleFailed, BreakerTypes, breakerVars
  <2>4. CASE HandToDispatcher(i)
    BY <2>4 DEF HandToDispatcher, BreakerTypes, breakerVars
  <2>5. CASE CallSucceeds(i)
    BY <2>5 DEF CallSucceeds, BreakerTypes, breakerVars
  <2>6. CASE \E f \in Recoverable \cup Fatal : CallFails(i, f)
    BY <2>1, <2>6 DEF CallFails, SettleFailed, BreakerTypes, breakerVars
  <2> QED BY <1>3, <2>2, <2>3, <2>4, <2>5, <2>6 DEF CallStep
<1> QED BY StepCases, <1>1, <1>2, <1>3 DEF TimeStep

(* The retry table and the history of failures change only here. *)
LEMMA SpendTypes ==
    ASSUME RetryTypes, OutcomeTypes, NEW c \in Calls, NEW f \in Recoverable, SpendRetry(c, f)
    PROVE  RetryTypes' /\ failedWith' \in [Calls -> [Recoverable -> Nat]]
<1>1. ToolOf[c] \in Tools
  BY CallAssumption
<1>2. repairCount' \in [Tools -> [Recoverable -> Nat]]
  BY <1>1, CountTable DEF SpendRetry, RetryTypes
<1>3. failedWith' \in [Calls -> [Recoverable -> Nat]]
  BY CountTable DEF SpendRetry, OutcomeTypes
<1>4. exhausted' \subseteq Calls /\ exhaustedShapes' \subseteq {CallShape(d) : d \in Calls}
  BY DEF SpendRetry, RetryTypes
<1> QED BY <1>2, <1>3, <1>4 DEF RetryTypes

LEMMA RetryTypeStep == TypeParts /\ [Next]_vars => RetryTypes' /\ OutcomeTypes'
<1> SUFFICES ASSUME PlanTypes, RetryTypes, OutcomeTypes, [Next]_vars
             PROVE  RetryTypes' /\ OutcomeTypes'
  BY DEF TypeParts
<1>1. CASE Quiet \/ Accepts
  BY <1>1 DEF Quiet, Accepts, RetryTypes, OutcomeTypes, retryVars, historyVars
<1>2. CASE TimeStep
  BY <1>2 DEF TimeStep, CooldownPasses, WindowSlides, RetryTypes, OutcomeTypes,
              retryVars, historyVars
<1>3. ASSUME NEW i \in DOMAIN plan, CallStep(i) PROVE RetryTypes' /\ OutcomeTypes'
  <2>1. CASE OverSession(i) \/ AnswerLocally(i) \/ HandToDispatcher(i)
    BY <2>1 DEF OverSession, AnswerLocally, HandToDispatcher, RetryTypes, OutcomeTypes,
                retryVars, historyVars
  <2>2. CASE CallSucceeds(i)
    BY <2>2, CallFacts DEF CallSucceeds, RetryTypes, OutcomeTypes, retryVars
  <2>3. ASSUME NEW f \in Recoverable \cup Fatal, CallFails(i, f)
        PROVE  RetryTypes' /\ OutcomeTypes'
    <3>0. givenUp' \in [Calls -> Nat]
      BY <2>3 DEF CallFails, OutcomeTypes
    <3>1. CASE f \in Recoverable
      <4>1. SpendRetry(CallAt(i), f) /\ CallAt(i) \in Calls /\ succeeded' = succeeded
        BY <2>3, <3>1, CallFacts DEF CallFails
      <4>2. RetryTypes' /\ failedWith' \in [Calls -> [Recoverable -> Nat]]
        BY <3>1, <4>1, SpendTypes
      <4> QED BY <3>0, <4>1, <4>2 DEF OutcomeTypes
    <3>2. CASE f \notin Recoverable
      <4>1. RetryTypes' /\ succeeded' = succeeded /\ failedWith' = failedWith
        BY <2>3, <3>2 DEF CallFails, RetryTypes, retryVars
      <4> QED BY <3>0, <4>1 DEF OutcomeTypes
    <3> QED BY <3>1, <3>2
  <2> QED BY <1>3, <2>1, <2>2, <2>3 DEF CallStep
<1> QED BY StepCases, <1>1, <1>2, <1>3

LEMMA HandedStep == TypeParts /\ [Next]_vars => HandedTypes'
<1> SUFFICES ASSUME PlanTypes, HandedTypes, [Next]_vars PROVE HandedTypes'
  BY DEF TypeParts
<1>1. CASE Quiet \/ Accepts
  BY <1>1 DEF Quiet, Accepts, HandedTypes, historyVars
<1>2. CASE TimeStep
  BY <1>2 DEF TimeStep, CooldownPasses, WindowSlides, HandedTypes, historyVars
<1>3. ASSUME NEW i \in DOMAIN plan, CallStep(i) PROVE HandedTypes'
  <2>1. CASE OverSession(i) \/ AnswerLocally(i)
    BY <2>1 DEF OverSession, AnswerLocally, HandedTypes, historyVars
  <2>2. CASE HandToDispatcher(i)
    BY <2>2, CallFacts DEF HandToDispatcher, HandedTypes
  <2>3. CASE CallSucceeds(i) \/ \E f \in Recoverable \cup Fatal : CallFails(i, f)
    BY <2>3 DEF CallSucceeds, CallFails, HandedTypes
  <2> QED BY <1>3, <2>1, <2>2, <2>3 DEF CallStep
<1> QED BY StepCases, <1>1, <1>2, <1>3

LEMMA TypeStep == TypeOK /\ [Next]_vars => TypeOK'
<1> SUFFICES ASSUME TypeParts, [Next]_vars PROVE TypeParts'
  BY TypeSplit DEF TypeOK, TypeParts, ControlTypes, PlanTypes, BudgetTypes, BreakerTypes,
                   RetryTypes, HandedTypes, OutcomeTypes
<1> QED BY ControlStep, PlanStep, BudgetStep, BreakerTypeStep, RetryTypeStep, HandedStep
        DEF TypeParts

LEMMA TypeInit == Init => TypeOK
<1> SUFFICES ASSUME Init PROVE TypeParts
  BY TypeSplit
<1>1. ControlTypes
  <2>1. /\ profile \in Profiles /\ phase = "start" /\ turn = 0 /\ stage = 0 /\ repairs = 0
        /\ status = "none" /\ checkpoint = "none"
    BY Zenon DEF Init
  <2>2. shutdown \in BOOLEAN
    BY Zenon DEF Init
  <2> QED BY <2>1, <2>2 DEF ControlTypes, Phases, Statuses, Checkpoints
<1>2. PlanTypes
  BY DEF Init, PlanTypes
<1>3. BudgetTypes /\ BreakerTypes /\ HandedTypes
  BY BoundAssumption DEF Init, BudgetTypes, BreakerTypes, HandedTypes
<1>4. RetryTypes /\ OutcomeTypes
  BY DEF Init, RetryTypes, OutcomeTypes
<1> QED BY <1>1, <1>2, <1>3, <1>4 DEF TypeParts

-----------------------------------------------------------------------------
LEMMA PlanFixed ==
    ASSUME NEW i, CallStep(i)
    PROVE  plan' = plan /\ profile' = profile
<1>1. CASE OverSession(i) \/ HandToDispatcher(i)
  BY <1>1, Zenon DEF OverSession, HandToDispatcher, GoTo, Return, planVars, runVars
<1> QED BY <1>1, Settles DEF CallStep, planVars

LEMMA TimeFixed ==
    ASSUME TimeStep
    PROVE  UNCHANGED <<profile, phase, planVars, callVars, retryVars, budgetVars, historyVars>>
BY Zenon DEF TimeStep, CooldownPasses, WindowSlides, runVars

LEMMA ProfileFixed ==
    ASSUME [Next]_vars
    PROVE  profile' = profile
<1>1. CASE Quiet \/ TimeStep
  BY <1>1, TimeFixed DEF Quiet
<1>2. CASE Accepts
  BY <1>2 DEF Accepts, AcceptAnswer, GoTo, Return, runVars
<1> QED BY StepCases, PlanFixed, <1>1, <1>2

(* The limits of a profile are numbers. *)
LEMMA ProfileLimits ==
    ASSUME TypeParts
    PROVE  /\ profile.perSession \in Nat /\ profile.toolRetries \in Nat
           /\ profile.perTurn \in Nat
BY ProfileAssumption DEF TypeParts, ControlTypes, Profile

LEMMA FlightStep == TypeParts /\ FlightInv /\ [Next]_vars => FlightInv'
<1> SUFFICES ASSUME TypeParts, FlightInv, [Next]_vars PROVE FlightInv'
  OBVIOUS
<1> USE DEF FlightInv, Batch, IsRead, ToolAt
<1>1. CASE Quiet
  BY <1>1 DEF Quiet, planVars, callVars
<1>2. CASE Accepts
  BY <1>2 DEF Accepts, AcceptAnswer, GoTo, Return, runVars, callVars
<1>3. CASE TimeStep
  BY <1>3, TimeFixed DEF planVars, callVars
<1>4. ASSUME NEW i \in DOMAIN plan, CallStep(i) PROVE FlightInv'
  <2>1. plan' = plan /\ profile' = profile
    BY <1>4, PlanFixed
  <2>2. CASE OverSession(i)
    <3>1. inflight' = inflight /\ todo' \subseteq todo
      BY <2>2 DEF OverSession
    <3>2. ~Batch => inflight = {}
      BY <2>2 DEF OverSession, TakesUp
    <3>3. Batch => phase' = "dispatch"
      BY <2>2 DEF OverSession, GoTo
    <3> QED BY <2>1, <3>1, <3>2, <3>3
  <2>3. CASE \/ AnswerLocally(i) \/ CallSucceeds(i)
             \/ \E f \in Recoverable \cup Fatal : CallFails(i, f)
    <3>1. /\ inflight' = inflight \ {i} /\ todo' = todo \ {i}
          /\ phase' \in {"dispatch", "raised"}
      BY <2>3, Settles
    <3>2. /\ phase = "dispatch"
          /\ i \in inflight \/ (i \in todo /\ (inflight = {} \/ (Batch /\ IsRead(i))))
      BY <2>3 DEF AnswerLocally, CallSucceeds, CallFails, TakesUp
    <3>3. \A j \in inflight' : Batch /\ IsRead(j)
      <4> SUFFICES ASSUME NEW j \in inflight', ~(Batch /\ IsRead(j)) PROVE FALSE
        OBVIOUS
      <4>1. inflight = {j} /\ j # i
        BY <3>1
      <4> QED BY <3>2, <4>1
    <3> QED BY <2>1, <3>1, <3>3
  <2>4. CASE HandToDispatcher(i)
    <3>1. /\ inflight' = inflight \cup {i} /\ todo' = todo \ {i} /\ phase' = "dispatch"
          /\ i \in todo
          /\ \A j \in todo \ {i} : Before(i, j)
          /\ inflight = {} \/ (Batch /\ IsRead(i))
      BY <2>4 DEF HandToDispatcher, GoTo, TakesUp
    <3>2. Batch /\ ~IsRead(i) => \A j \in todo' : ~IsRead(j)
      BY <3>1 DEF Before
    <3>3. CASE inflight = {}
      BY <2>1, <3>1, <3>2, <3>3
    <3>4. CASE Batch /\ IsRead(i)
      <4>1. \A k \in inflight : IsRead(k)
        BY <3>1, <3>4
      <4> QED BY <2>1, <3>1, <3>4, <4>1
    <3> QED BY <3>1, <3>3, <3>4
  <2> QED BY <1>4, <2>2, <2>3, <2>4 DEF CallStep
<1> QED BY StepCases, <1>1, <1>2, <1>3, <1>4

LEMMA CountStep == TypeParts /\ CountInv /\ [Next]_vars => CountInv'
<1> SUFFICES ASSUME TypeParts, CountInv, [Next]_vars PROVE CountInv'
  OBVIOUS
<1>0. /\ total \in Nat /\ handed \in Nat /\ profile.perSession \in Nat
      /\ counts \in [Tools -> Nat] /\ handedTo \in [Tools -> Nat]
  BY ProfileLimits DEF TypeParts, BudgetTypes, HandedTypes
<1>1. CASE Quiet
  BY <1>1 DEF Quiet, budgetVars, historyVars, CountInv
<1>2. CASE Accepts
  BY <1>2 DEF Accepts, AcceptAnswer, GoTo, Return, runVars, budgetVars, historyVars, CountInv
<1>3. CASE TimeStep
  BY <1>3, TimeFixed DEF budgetVars, historyVars, CountInv
<1>4. ASSUME NEW i \in DOMAIN plan, CallStep(i) PROVE CountInv'
  <2>1. plan' = plan /\ profile' = profile /\ ToolAt(i) \in Tools
    BY <1>4, PlanFixed, CallFacts DEF TypeParts
  <2>2. CASE OverSession(i)
    <3>1. total' = total + 1 /\ counts' = counts /\ handed' = handed /\ handedTo' = handedTo
      BY <2>2, Zenon DEF OverSession, historyVars
    <3> QED BY <1>0, <2>1, <3>1 DEF CountInv
  <2>3. CASE AnswerLocally(i)
    <3>1. /\ total' = total + 1 /\ handed' = handed /\ handedTo' = handedTo
          /\ counts' = counts \/ CountCall(i)
      BY <2>3 DEF AnswerLocally, historyVars
    <3> QED BY <1>0, <2>1, <3>1 DEF CountInv, CountCall
  <2>4. CASE HandToDispatcher(i)
    <3>1. /\ total' = total + 1 /\ handed' = handed + 1 /\ total < profile.perSession
          /\ handedTo' = [handedTo EXCEPT ![ToolAt(i)] = @ + 1]
          /\ CountCall(i) /\ ~RateLimited(i)
      BY <2>4 DEF HandToDispatcher
    <3>2. counts[ToolAt(i)] < MaxSameTool
      BY <1>0, <2>1, <3>1, BoundAssumption DEF RateLimited
    <3> QED BY <1>0, <2>1, <3>1, <3>2, BoundAssumption DEF CountInv, CountCall
  <2>5. CASE CallSucceeds(i) \/ \E f \in Recoverable \cup Fatal : CallFails(i, f)
    BY <2>1, <2>5 DEF CallSucceeds, CallFails, CountInv
  <2> QED BY <1>4, <2>2, <2>3, <2>4, <2>5 DEF CallStep
<1> QED BY StepCases, <1>1, <1>2, <1>3, <1>4

LEMMA CacheStep == TypeParts /\ FlightInv /\ CacheInv /\ [Next]_vars => CacheInv'
<1> SUFFICES ASSUME TypeParts, FlightInv, CacheInv, [Next]_vars PROVE CacheInv'
  OBVIOUS
<1>0. succeeded \in [Calls -> Nat] /\ cache \subseteq Calls
  BY DEF TypeParts, OutcomeTypes, BudgetTypes
<1> USE DEF CacheInv, IsRead, ToolAt
<1>1. CASE Quiet
  BY <1>1 DEF Quiet, planVars, callVars, budgetVars, historyVars
<1>2. CASE Accepts
  <2>1. UNCHANGED <<cache, succeeded>>
    BY <1>2 DEF Accepts, budgetVars, historyVars
  <2>2. inflight = {}
    BY <1>2 DEF Accepts, FlightInv
  <2>3. inflight' = {}
    BY <1>2, <2>2 DEF Accepts, AcceptAnswer, callVars
  <2> QED BY <2>1, <2>3
<1>3. CASE TimeStep
  BY <1>3, TimeFixed DEF planVars, callVars, budgetVars, historyVars
<1>4. ASSUME NEW i \in DOMAIN plan, CallStep(i) PROVE CacheInv'
  <2>1. plan' = plan /\ profile' = profile /\ plan[i] \in Calls /\ CallAt(i) = plan[i]
    BY <1>4, PlanFixed, CallFacts DEF TypeParts
  <2>2. CASE OverSession(i)
    <3>1. cache' = cache /\ succeeded' = succeeded /\ inflight' = inflight
      BY <2>2, Zenon DEF OverSession, historyVars
    <3> QED BY <2>1, <3>1
  <2>3. CASE AnswerLocally(i)
    BY <2>1, <2>3, Settles DEF AnswerLocally, historyVars
  <2>4. CASE HandToDispatcher(i)
    BY <2>1, <2>4 DEF HandToDispatcher
  <2>5. CASE CallSucceeds(i)
    <3>1. /\ cache' = cache \cup {plan[i]} /\ inflight' = inflight \ {i} /\ i \in inflight
          /\ succeeded' = [succeeded EXCEPT ![plan[i]] = @ + 1]
      BY <2>1, <2>5, Settles DEF CallSucceeds
    <3>2. \A c \in Calls : succeeded'[c] > 0 => c \in cache'
      BY <1>0, <3>1
    <3>3. ToolOf[plan[i]] \notin Reads => succeeded[plan[i]] = 0
      BY <1>0, <2>1, <3>1
    <3>4. \A c \in Calls : ToolOf[c] \notin Reads => succeeded'[c] <= 1
      BY <1>0, <3>1, <3>3
    <3>5. \A j \in inflight' : IsRead(j)
      BY <3>1 DEF FlightInv
    <3> QED BY <2>1, <3>2, <3>4, <3>5
  <2>6. CASE \E f \in Recoverable \cup Fatal : CallFails(i, f)
    BY <2>1, <2>6, Settles DEF CallFails
  <2> QED BY <1>4, <2>2, <2>3, <2>4, <2>5, <2>6 DEF CallStep
<1> QED BY StepCases, <1>1, <1>2, <1>3, <1>4

LEMMA RetryStep == TypeParts /\ FlightInv /\ RetryInv /\ [Next]_vars => RetryInv'
<1> SUFFICES ASSUME TypeParts, FlightInv, RetryInv, [Next]_vars PROVE RetryInv'
  OBVIOUS
<1>0. /\ failedWith \in [Calls -> [Recoverable -> Nat]]
      /\ repairCount \in [Tools -> [Recoverable -> Nat]]
      /\ profile.toolRetries \in Nat
  BY ProfileLimits DEF TypeParts, OutcomeTypes, RetryTypes
<1>1. CASE Quiet
  BY <1>1 DEF Quiet, RetryInv, Bounded, planVars, callVars, retryVars, historyVars
<1>2. CASE Accepts
  <2>1. UNCHANGED <<retryVars, failedWith, profile>>
    BY <1>2 DEF Accepts, AcceptAnswer, GoTo, Return, runVars, historyVars
  <2>2. inflight' = {}
    BY <1>2 DEF Accepts, AcceptAnswer, callVars, FlightInv
  <2> QED BY <2>1, <2>2 DEF RetryInv, Bounded, retryVars
<1>3. CASE TimeStep
  BY <1>3, TimeFixed DEF RetryInv, Bounded, planVars, callVars, retryVars, historyVars
<1>4. ASSUME NEW i \in DOMAIN plan, CallStep(i) PROVE RetryInv'
  <2>1. /\ plan' = plan /\ profile' = profile /\ plan[i] \in Calls /\ CallAt(i) = plan[i]
        /\ ToolOf[plan[i]] \in Tools
    BY <1>4, PlanFixed, CallFacts, CallAssumption DEF TypeParts
  <2>2. CASE OverSession(i) \/ AnswerLocally(i)
    <3>1. UNCHANGED <<repairCount, exhausted, failedWith>> /\ inflight' \subseteq inflight
      BY <2>2, Settles DEF OverSession, AnswerLocally, retryVars, historyVars
    <3> QED BY <2>1, <3>1 DEF RetryInv, Bounded
  <2>3. CASE HandToDispatcher(i)
    <3>1. /\ UNCHANGED <<repairCount, exhausted, failedWith>>
          /\ inflight' = inflight \cup {i} /\ plan[i] \notin exhausted
      BY <2>1, <2>3 DEF HandToDispatcher, RetryExhausted, retryVars
    <3> QED BY <2>1, <3>1 DEF RetryInv, Bounded
  <2>4. CASE CallSucceeds(i)
    <3>1. UNCHANGED <<repairCount, exhausted, failedWith>> /\ inflight' \subseteq inflight
      BY <2>4, Settles DEF CallSucceeds, retryVars
    <3> QED BY <2>1, <3>1 DEF RetryInv, Bounded
  <2>5. ASSUME NEW f \in Recoverable \cup Fatal, CallFails(i, f) PROVE RetryInv'
    <3>1. i \in inflight /\ inflight' = inflight \ {i}
      BY <2>5, Settles DEF CallFails
    <3>2. CASE f \notin Recoverable
      <4>1. UNCHANGED <<repairCount, exhausted, failedWith>>
        BY <2>5, <3>2 DEF CallFails, retryVars
      <4> QED BY <2>1, <3>1, <4>1 DEF RetryInv, Bounded
    <3>3. CASE f \in Recoverable
      <4> DEFINE c == plan[i]
                 n == repairCount[ToolOf[c]][f] + 1
      <4>1. SpendRetry(c, f)
        BY <2>1, <2>5, <3>3 DEF CallFails
      <4>2. \A t \in Tools, g \in Recoverable :
                repairCount'[t][g] = IF t = ToolOf[c] /\ g = f THEN n ELSE repairCount[t][g]
        BY <1>0, <2>1, <3>3, <4>1 DEF SpendRetry
      <4>3. \A d \in Calls, g \in Recoverable :
                failedWith'[d][g] = IF d = c /\ g = f THEN failedWith[d][g] + 1
                                    ELSE failedWith[d][g]
        BY <1>0, <2>1, <3>3, <4>1 DEF SpendRetry
      <4>4. exhausted' = IF n > profile.toolRetries THEN exhausted \cup {c} ELSE exhausted
        BY <4>1 DEF SpendRetry
      <4>5. n \in Nat /\ n >= 1 /\ failedWith[c][f] \in Nat /\ failedWith[c][f] + 1 <= n
        BY <1>0, <2>1, <3>3 DEF RetryInv
      <4>6. \A d \in Calls, g \in Recoverable : failedWith'[d][g] <= repairCount'[ToolOf[d]][g]
        <5> SUFFICES ASSUME NEW d \in Calls, NEW g \in Recoverable
                     PROVE  failedWith'[d][g] <= repairCount'[ToolOf[d]][g]
          OBVIOUS
        <5>1. /\ ToolOf[d] \in Tools /\ failedWith[d][g] \in Nat
              /\ repairCount[ToolOf[d]][g] \in Nat
              /\ failedWith[d][g] <= repairCount[ToolOf[d]][g]
          BY <1>0, CallAssumption DEF RetryInv
        <5> HIDE DEF c, n
        <5>2. CASE d = c /\ g = f
          BY <4>2, <4>3, <4>5, <5>1, <5>2
        <5>3. CASE ~(d = c /\ g = f)
          <6>1. failedWith'[d][g] = failedWith[d][g]
            BY <4>3, <5>3
          <6>2. repairCount'[ToolOf[d]][g] >= repairCount[ToolOf[d]][g]
            BY <4>2, <5>1 DEF n
          <6>3. repairCount'[ToolOf[d]][g] \in Nat
            BY <4>2, <4>5, <5>1
          <6> QED BY <5>1, <6>1, <6>2, <6>3
        <5> QED BY <5>2, <5>3
      <4>7. ASSUME NEW d \in Calls, Bounded(d)', NEW g \in Recoverable
            PROVE  /\ failedWith'[d][g] <= profile.toolRetries + 1
                   /\ d \notin exhausted' => failedWith'[d][g] <= profile.toolRetries
        <5>1. Bounded(d)
          BY <2>1, <4>7 DEF Bounded
        <5>2. /\ failedWith[d][g] \in Nat /\ failedWith[d][g] <= profile.toolRetries + 1
              /\ d \notin exhausted => failedWith[d][g] <= profile.toolRetries
          BY <1>0, <5>1 DEF RetryInv
        <5> HIDE DEF c, n
        <5>3. CASE d = c /\ g = f
          <6>1. c \notin exhausted
            BY <2>1, <3>1, <5>1, <5>3 DEF RetryInv, c
          <6>2. failedWith'[d][g] = failedWith[d][g] + 1
            BY <4>3, <5>3
          <6>3. d \notin exhausted' => n <= profile.toolRetries
            BY <1>0, <4>4, <4>5, <5>3
          <6> QED BY <1>0, <4>5, <5>2, <5>3, <6>1, <6>2, <6>3
        <5>4. CASE ~(d = c /\ g = f)
          <6>1. failedWith'[d][g] = failedWith[d][g] /\ exhausted \subseteq exhausted'
            BY <4>3, <4>4, <5>4
          <6> QED BY <5>2, <6>1
        <5> QED BY <5>3, <5>4
      <4>8. \A j \in inflight' : ~Bounded(plan[j])
        <5> SUFFICES ASSUME NEW j \in inflight', Bounded(plan[j]) PROVE FALSE
          OBVIOUS
        <5>1. ~Batch \/ ~IsRead(j)
          BY DEF Bounded, Batch, IsRead, ToolAt
        <5> QED BY <3>1, <5>1 DEF FlightInv
      <4>9. \A j \in inflight' : ~Bounded(plan[j])'
        BY <2>1, <4>8 DEF Bounded
      <4> HIDE DEF c, n
      <4> QED BY <2>1, <4>6, <4>7, <4>9 DEF RetryInv
    <3> QED BY <3>2, <3>3
  <2> QED BY <1>4, <2>2, <2>3, <2>4, <2>5 DEF CallStep
<1> QED BY StepCases, <1>1, <1>2, <1>3, <1>4

LEMMA GivenUpStep == TypeParts /\ GivenUpInv /\ [Next]_vars => GivenUpInv'
<1> SUFFICES ASSUME TypeParts, GivenUpInv, [Next]_vars PROVE GivenUpInv'
  OBVIOUS
<1>0. givenUp \in [Calls -> Nat] /\ failedWith \in [Calls -> [Recoverable -> Nat]]
  BY DEF TypeParts, OutcomeTypes
<1>1. CASE Quiet \/ Accepts
  BY <1>1 DEF Quiet, Accepts, historyVars, GivenUpInv
<1>2. CASE TimeStep
  BY <1>2, TimeFixed DEF historyVars, GivenUpInv
<1>3. ASSUME NEW i \in DOMAIN plan, CallStep(i) PROVE GivenUpInv'
  <2>1. CallAt(i) \in Calls
    BY CallFacts DEF TypeParts
  <2>2. CASE OverSession(i) \/ AnswerLocally(i) \/ HandToDispatcher(i) \/ CallSucceeds(i)
    <3>1. givenUp' = givenUp /\ failedWith' = failedWith
      BY <2>2 DEF OverSession, AnswerLocally, HandToDispatcher, CallSucceeds, historyVars
    <3> QED BY <3>1 DEF GivenUpInv
  <2>3. ASSUME NEW f \in Recoverable \cup Fatal, CallFails(i, f) PROVE GivenUpInv'
    <3>1. \/ givenUp' = givenUp
          \/ f = TimeoutType /\ givenUp' = [givenUp EXCEPT ![CallAt(i)] = @ + 1]
      BY <2>3 DEF CallFails
    <3>2. CASE f \in Recoverable
      <4>1. failedWith' = [failedWith EXCEPT ![CallAt(i)][f] = @ + 1]
        BY <2>3, <3>2 DEF CallFails, SpendRetry
      <4>2. ASSUME NEW c \in Calls, TimeoutType \in Recoverable
            PROVE  givenUp'[c] <= failedWith'[c][TimeoutType]
        <5>1. /\ givenUp[c] \in Nat /\ failedWith[c][TimeoutType] \in Nat
              /\ givenUp[c] <= failedWith[c][TimeoutType]
          BY <1>0, <4>2 DEF GivenUpInv
        <5>2. CASE c = CallAt(i) /\ f = TimeoutType
          <6>1. failedWith'[c][TimeoutType] = failedWith[c][TimeoutType] + 1
            BY <1>0, <2>1, <4>1, <4>2, <5>2
          <6>2. givenUp'[c] = givenUp[c] \/ givenUp'[c] = givenUp[c] + 1
            BY <1>0, <2>1, <3>1, <5>2
          <6> QED BY <5>1, <6>1, <6>2
        <5>3. CASE ~(c = CallAt(i) /\ f = TimeoutType)
          <6>1. failedWith'[c][TimeoutType] = failedWith[c][TimeoutType]
            BY <1>0, <2>1, <3>2, <4>1, <4>2, <5>3
          <6>2. givenUp'[c] = givenUp[c]
            BY <1>0, <2>1, <3>1, <5>3
          <6> QED BY <5>1, <6>1, <6>2
        <5> QED BY <5>2, <5>3
      <4>3. TimeoutType \notin Recoverable => givenUp' = givenUp
        BY <3>1, <3>2
      <4> QED BY <4>2, <4>3 DEF GivenUpInv
    <3>3. CASE f \in Fatal
      <4>1. givenUp' = givenUp /\ failedWith' = failedWith
        BY <2>3, <3>1, <3>3, FailureAssumption DEF CallFails
      <4> QED BY <4>1 DEF GivenUpInv
    <3> QED BY <3>2, <3>3
  <2> QED BY <1>3, <2>2, <2>3 DEF CallStep
<1> QED BY StepCases, <1>1, <1>2, <1>3

LEMMA BreakerStep == TypeParts /\ FlightInv /\ BreakerInv /\ [Next]_vars => BreakerInv'
<1> SUFFICES ASSUME TypeParts, FlightInv, BreakerInv, [Next]_vars, ~profile.batch
             PROVE  BreakerInv'
  BY ProfileFixed DEF BreakerInv
<1>0. recent \in [Tools -> 0..Threshold] /\ streak \in [Tools -> Nat] /\ Threshold \in Nat
  BY BoundAssumption DEF TypeParts, BreakerTypes
<1>1. CASE Quiet
  BY <1>1 DEF Quiet, planVars, callVars, breakerVars, BreakerInv, ToolAt
<1>2. CASE Accepts
  <2>1. UNCHANGED breakerVars /\ inflight' = {}
    BY <1>2 DEF Accepts, AcceptAnswer, callVars, FlightInv
  <2> QED BY <2>1 DEF BreakerInv, breakerVars
<1>3. ASSUME NEW t \in Tools, CooldownPasses(t) \/ WindowSlides(t) PROVE BreakerInv'
  <2>1. plan' = plan /\ inflight' = inflight
    BY <1>3 DEF CooldownPasses, WindowSlides, planVars, callVars
  <2>2. \A i \in inflight : ToolAt(i) \in Tools
    BY CallFacts DEF TypeParts, PlanTypes
  <2>3. CASE CooldownPasses(t)
    BY <1>0, <2>1, <2>2, <2>3, BoundAssumption DEF CooldownPasses, BreakerInv, ToolAt
  <2>4. CASE WindowSlides(t)
    <3>1. PICK n \in 0..Threshold : /\ recent' = [recent EXCEPT ![t] = n] /\ streak' = streak
                                    /\ n >= IF streak[t] > Threshold THEN 1 ELSE streak[t]
      BY <2>4 DEF WindowSlides
    <3>2. streak[t] <= recent[t] /\ recent[t] <= Threshold
      BY <1>0 DEF BreakerInv
    <3>3. streak[t] <= n
      BY <1>0, <3>1, <3>2
    <3> QED BY <1>0, <2>1, <3>1, <3>3 DEF BreakerInv, ToolAt
  <2> QED BY <1>3, <2>3, <2>4
<1>4. ASSUME NEW i \in DOMAIN plan, CallStep(i) PROVE BreakerInv'
  <2>1. plan' = plan /\ ToolAt(i) \in Tools
    BY <1>4, PlanFixed, CallFacts DEF TypeParts
  <2>2. streak[ToolAt(i)] \in Nat /\ recent[ToolAt(i)] \in 0..Threshold
        /\ streak[ToolAt(i)] <= recent[ToolAt(i)]
    BY <1>0, <2>1 DEF BreakerInv
  <2>3. ~BreakerOpen(i) => streak[ToolAt(i)] < Threshold
    BY <1>0, <2>2, BoundAssumption DEF BreakerOpen
  <2>4. ASSUME RecordFailure(i), streak[ToolAt(i)] < Threshold
        PROVE  \A t \in Tools : streak'[t] <= recent'[t]
    <3>1. \A t \in Tools : streak[t] <= recent[t]
      BY DEF BreakerInv
    <3>2. /\ recent' = [recent EXCEPT ![ToolAt(i)] = IF @ < Threshold THEN @ + 1 ELSE @]
          /\ streak' = [streak EXCEPT ![ToolAt(i)] = @ + 1]
      BY <2>4 DEF RecordFailure
    <3>3. streak[ToolAt(i)] + 1 <= IF recent[ToolAt(i)] < Threshold
                                   THEN recent[ToolAt(i)] + 1 ELSE recent[ToolAt(i)]
      BY <1>0, <2>2, <2>4
    <3> QED BY <1>0, <2>1, <3>1, <3>2, <3>3
  <2>5. CASE OverSession(i)
    BY <2>1, <2>5 DEF OverSession, breakerVars, BreakerInv, ToolAt
  <2>6. CASE AnswerLocally(i)
    <3>1. inflight' = {}
      BY <2>6, Settles DEF AnswerLocally, TakesUp, Batch
    <3>2. UNCHANGED breakerVars \/ (RecordFailure(i) /\ ~BreakerOpen(i))
      BY <2>6 DEF AnswerLocally, SettleFailed
    <3> QED BY <2>3, <2>4, <3>1, <3>2 DEF BreakerInv, breakerVars
  <2>7. CASE HandToDispatcher(i)
    BY <2>1, <2>3, <2>7 DEF HandToDispatcher, breakerVars, BreakerInv, ToolAt
  <2>8. CASE CallSucceeds(i)
    BY <2>1, <2>8, Settles DEF CallSucceeds, breakerVars, BreakerInv, ToolAt
  <2>9. CASE \E f \in Recoverable \cup Fatal : CallFails(i, f)
    <3>1. /\ i \in inflight /\ inflight' = inflight \ {i}
          /\ RecordFailure(i) \/ UNCHANGED breakerVars
      BY <2>9, Settles DEF CallFails, SettleFailed
    <3>2. streak[ToolAt(i)] < Threshold
      BY <3>1 DEF BreakerInv
    <3>3. inflight' = {}
      BY <3>1 DEF FlightInv, Batch
    <3> QED BY <2>4, <3>1, <3>2, <3>3 DEF BreakerInv, breakerVars
  <2> QED BY <1>4, <2>5, <2>6, <2>7, <2>8, <2>9 DEF CallStep
<1> QED BY StepCases, <1>1, <1>2, <1>3, <1>4 DEF TimeStep

LEMMA StartOnce ==
    ASSUME [Next]_vars
    PROVE  phase' # "start" \/ phase' = phase
<1>1. CASE Start \/ BeginTurn \/ TurnsExhausted \/ Finalize \/ RequestShutdown
  BY <1>1 DEF Start, BeginTurn, TurnsExhausted, Finalize, RequestShutdown,
              Return, GoTo, Raise, GuardDecides, NotFinal
<1>2. CASE ContextTooLong \/ ModelTimesOut \/ ModelFails \/ EndOfTurn
  BY <1>2 DEF ContextTooLong, ModelTimesOut, ModelFails, EndOfTurn, NextTurn, GoTo, Raise,
              Return
<1>3. CASE ModelAnswers \/ ModelGarbles \/ RepairAnswers
  BY <1>3 DEF ModelAnswers, ModelGarbles, RepairAnswers, AcceptAnswer, GoTo, Return
<1>4. CASE \E i \in DOMAIN plan : CallStep(i)
  BY <1>4, Settles DEF CallStep, OverSession, HandToDispatcher, GoTo, Return
<1>5. CASE TimeStep \/ Terminated \/ UNCHANGED vars
  BY <1>5, TimeFixed DEF Terminated, vars
<1> QED BY <1>1, <1>2, <1>3, <1>4, <1>5
        DEF Next, LoopStep, Asking, Dispatching, Environment, TimeStep, CallStep

LEMMA ReplyStep == TypeParts /\ FlightInv /\ ReplyInv /\ [Next]_vars => ReplyInv'
<1> SUFFICES ASSUME TypeParts, FlightInv, ReplyInv, [Next]_vars PROVE ReplyInv'
  OBVIOUS
<1>0. total \in Nat /\ profile.perSession \in Nat
      /\ todo \subseteq DOMAIN plan /\ inflight \subseteq DOMAIN plan
      /\ replied \subseteq DOMAIN plan
  BY ProfileLimits DEF TypeParts, BudgetTypes, PlanTypes
<1> USE DEF ReplyInv, Batch, Asks
<1>1. CASE Quiet
  <2>1. UNCHANGED <<profile, plan, todo, inflight, replied, total>>
    BY <1>1 DEF Quiet, planVars, callVars, budgetVars
  <2>2. phase = "dispatch" /\ phase' # "dispatch" /\ ~(Batch /\ total > profile.perSession)
        => replied = DOMAIN plan
    BY <1>0, <1>1 DEF Quiet
  <2>3. phase' = "start" => replied = DOMAIN plan
    <3>1. phase' # "start" \/ phase' = phase
      BY StartOnce
    <3> QED BY <3>1
  <2> QED BY <1>1, <2>1, <2>2, <2>3 DEF Quiet
<1>2. CASE Accepts
  <2>1. PICK calls : AcceptAnswer(calls)
    BY <1>2 DEF Accepts
  <2>2. phase' \notin Asks \cup {"start"}
        /\ (phase' = "dispatch" => todo' = DOMAIN plan')
    BY <2>1 DEF AcceptAnswer, GoTo, Return
  <2> QED BY <2>2
<1>3. CASE TimeStep
  BY <1>3, TimeFixed DEF planVars, callVars, budgetVars
<1>4. ASSUME NEW i \in DOMAIN plan, CallStep(i) PROVE ReplyInv'
  <2>1. plan' = plan /\ profile' = profile
    BY <1>4, PlanFixed
  <2>2. phase = "dispatch"
    BY <1>4 DEF CallStep, OverSession, AnswerLocally, HandToDispatcher, CallSucceeds,
                CallFails, TakesUp
  <2>3. CASE OverSession(i)
    <3>1. total' = total + 1 /\ total >= profile.perSession
      BY <2>3, Zenon DEF OverSession
    <3>2. CASE Batch
      <4>1. total' > profile.perSession
        BY <1>0, <3>1
      <4>2. phase' = "dispatch"
        BY <2>3, <3>2 DEF OverSession, GoTo
      <4> QED BY <2>1, <3>2, <4>1, <4>2
    <3>3. CASE ~Batch
      BY <2>3, <3>3 DEF OverSession, Return
    <3> QED BY <3>2, <3>3
  <2>4. /\ AnswerLocally(i) \/ HandToDispatcher(i) => total' = total + 1
        /\ CallSucceeds(i) \/ (\E f \in Recoverable \cup Fatal : CallFails(i, f))
           => total' = total
    BY DEF AnswerLocally, HandToDispatcher, CallSucceeds, CallFails
  <2>6. CASE phase' = "raised"
    BY <2>6
  <2>5. CASE ~OverSession(i) /\ phase' # "raised"
    <3>1. /\ phase' = "dispatch" /\ total' >= total
          /\ todo \cup inflight \cup replied \subseteq todo' \cup inflight' \cup replied'
      <4>1. CASE HandToDispatcher(i)
        BY <1>0, <2>4, <4>1 DEF HandToDispatcher, GoTo
      <4>2. CASE \/ AnswerLocally(i) \/ CallSucceeds(i)
                 \/ \E f \in Recoverable \cup Fatal : CallFails(i, f)
        <5>1. /\ todo' = todo \ {i} /\ inflight' = inflight \ {i}
              /\ replied' = replied \cup {i} /\ phase' = "dispatch"
          BY <2>5, <4>2, Settles
        <5>2. total' >= total
          BY <1>0, <2>4, <4>2
        <5> QED BY <5>1, <5>2
      <4> QED BY <1>4, <2>5, <4>1, <4>2 DEF CallStep
    <3>2. total' \in Nat
      BY <1>0, <1>4, <2>4, <2>5 DEF CallStep
    <3> QED BY <1>0, <2>1, <2>2, <3>1, <3>2
  <2> QED BY <2>3, <2>5, <2>6
<1> QED BY StepCases, <1>1, <1>2, <1>3, <1>4

-----------------------------------------------------------------------------
SafetyInv ==
    /\ TypeParts /\ FlightInv /\ CountInv /\ CacheInv
    /\ RetryInv /\ GivenUpInv /\ BreakerInv /\ ReplyInv

LEMMA SafetyInit == Init => SafetyInv
<1> SUFFICES ASSUME Init PROVE SafetyInv
  OBVIOUS
<1>1. TypeParts
  BY TypeInit, TypeSplit
<1>2. /\ phase = "start" /\ plan = <<>> /\ inflight = {} /\ replied = {}
      /\ handed = 0 /\ total = 0 /\ cache = {} /\ status = "none"
  BY Zenon DEF Init
<1>3. /\ handedTo = [t \in Tools |-> 0] /\ counts = [t \in Tools |-> 0]
      /\ streak = [t \in Tools |-> 0] /\ recent = [t \in Tools |-> 0]
      /\ succeeded = [c \in Calls |-> 0]
      /\ failedWith = [c \in Calls |-> [f \in Recoverable |-> 0]]
      /\ repairCount = [t \in Tools |-> [f \in Recoverable |-> 0]]
  BY Zenon DEF Init
<1>4. profile.perSession \in Nat /\ profile.toolRetries \in Nat
  BY <1>1, ProfileLimits
<1>5. FlightInv /\ ReplyInv
  BY <1>2 DEF FlightInv, ReplyInv, Asks
<1>6. CountInv
  BY <1>2, <1>3, <1>4, BoundAssumption DEF CountInv
<1>7. CacheInv
  BY <1>2, <1>3 DEF CacheInv
<1>8. RetryInv
  BY <1>2, <1>3, <1>4, CallAssumption DEF RetryInv
<1>9. BreakerInv
  BY <1>2, <1>3 DEF BreakerInv
<1>10. GivenUpInv
  <2>1. givenUp = [c \in Calls |-> 0]
    BY Zenon DEF Init
  <2> QED BY <1>3, <2>1 DEF GivenUpInv
<1> QED BY <1>1, <1>5, <1>6, <1>7, <1>8, <1>9, <1>10 DEF SafetyInv

LEMMA SafetyStep == SafetyInv /\ [Next]_vars => SafetyInv'
<1>1. TypeParts /\ [Next]_vars => TypeParts'
  BY ControlStep, PlanStep, BudgetStep, BreakerTypeStep, RetryTypeStep, HandedStep
     DEF TypeParts
<1> QED BY <1>1, FlightStep, CountStep, CacheStep, RetryStep, GivenUpStep, BreakerStep,
           ReplyStep DEF SafetyInv

LEMMA Safety == Spec => []SafetyInv
BY SafetyInit, SafetyStep, PTL DEF Spec

(* Type correctness of the loop's bookkeeping. *)
THEOREM TypeCorrect == Spec => []TypeOK
BY TypeInit, TypeStep, PTL DEF Spec

(* However calls of batches interleave, the dispatcher gets at most        *)
(* max_session_tool_calls calls and MAX_SAME_TOOL_PER_SESSION per tool.    *)
THEOREM BudgetKept == Spec => []SessionBudget
<1>1. SafetyInv => SessionBudget
  BY DEF SafetyInv, CountInv, SessionBudget
<1> QED BY <1>1, Safety, PTL

(* The result cache keeps a mutating call from being run twice.            *)
THEOREM WritesRunOnce == Spec => []AtMostOnceWrite
<1>1. SafetyInv => AtMostOnceWrite
  BY DEF SafetyInv, CacheInv, AtMostOnceWrite
<1> QED BY <1>1, Safety, PTL

(* A call fails at most max_tool_repair_retries + 1 times in one way.      *)
THEOREM RetriesEnd == Spec => []RetriesBounded
<1>1. SafetyInv => RetriesBounded
  BY DEF SafetyInv, RetryInv, Bounded, RetriesBounded
<1> QED BY <1>1, Safety, PTL

(* Dispatched one at a time, the calls of a tool never fail more than      *)
(* Threshold times without a cooldown between two of the failures.         *)
THEOREM StreaksEnd == Spec => []BreakerStopsStreaks
<1>1. SafetyInv => BreakerStopsStreaks
  <2> SUFFICES ASSUME SafetyInv, ~profile.batch, NEW t \in Tools PROVE streak[t] <= Threshold
    BY DEF BreakerStopsStreaks
  <2>1. streak[t] <= recent[t]
    BY DEF SafetyInv, BreakerInv
  <2>2. streak[t] \in Nat /\ recent[t] \in 0..Threshold
    BY DEF SafetyInv, TypeParts, BreakerTypes
  <2> QED BY <2>1, <2>2, BoundAssumption
<1> QED BY <1>1, Safety, PTL

(* The provider is asked only about answered tool calls.                   *)
THEOREM AllCallsAnswered == Spec => []CallsAnswered
<1>1. SafetyInv => CallsAnswered
  BY DEF SafetyInv, ReplyInv, Asks, CallsAnswered
<1> QED BY <1>1, Safety, PTL

(* Behind a run that has been left there go on at most concurrent reads,   *)
(* and the handlers of a mutating call that its retry budget let time out. *)
THEOREM LittleLeftRunning == Spec => []LeftRunning
<1>1. SafetyInv => LeftRunning
  <2> SUFFICES ASSUME SafetyInv, Ended PROVE LeftRunning
    BY DEF LeftRunning
  <2>1. \A i \in inflight : Batch /\ IsRead(i)
    BY DEF SafetyInv, FlightInv, Ended
  <2>2. ASSUME NEW c \in Calls, ToolOf[c] \notin Reads
        PROVE  givenUp[c] <= profile.toolRetries + 1
    <3>1. profile.toolRetries \in Nat /\ givenUp[c] \in Nat
      BY ProfileLimits DEF SafetyInv, TypeParts, OutcomeTypes
    <3>2. CASE TimeoutType \in Recoverable
      <4>1. failedWith[c][TimeoutType] \in Nat
        BY <3>2 DEF SafetyInv, TypeParts, OutcomeTypes
      <4>2. givenUp[c] <= failedWith[c][TimeoutType]
        BY <3>2 DEF SafetyInv, GivenUpInv
      <4>3. failedWith[c][TimeoutType] <= profile.toolRetries + 1
        BY <2>2, <3>2 DEF SafetyInv, RetryInv, Bounded
      <4> QED BY <3>1, <4>1, <4>2, <4>3
    <3>3. CASE TimeoutType \notin Recoverable
      <4>1. givenUp[c] = 0
        BY <3>3 DEF SafetyInv, GivenUpInv
      <4> QED BY <3>1, <4>1
    <3> QED BY <3>2, <3>3
  <2> QED BY <2>1, <2>2 DEF LeftRunning
<1> QED BY <1>1, Safety, PTL
=============================================================================
