------------------------- MODULE ToolDispatchProofs -------------------------
(***************************************************************************)
(* Proofs about ToolDispatch, for any calls, limits, number of workers and *)
(* number of dispatches.                                                   *)
(*                                                                         *)
(* PoolInv places each job: in the queue, at a worker, ended, or never     *)
(* submitted.  GuardInv says that a guarded dispatch is alone and that its *)
(* call was below every limit.  CountInv relates the counters to sizes of  *)
(* sets of jobs: the jobs of a call that have begun, and those settled by  *)
(* an answer that came from the pool; with guardrails a job that has begun *)
(* is settled or is the one being dispatched.  FailInv does so for failed  *)
(* jobs.  A counter of a call may be larger than its set, by the calls     *)
(* that became this one when they were coerced.                            *)
(***************************************************************************)
EXTENDS ToolDispatch, FiniteSetTheorems, TLAPS

Queued(d) == \E i \in DOMAIN queue : queue[i] = d
Begun(d) == d \in executing \/ outcome[d] # "none"

PoolOf(d) ==
    /\ stage[d] = "idle" <=> d > Len(made)
    /\ stage[d] \in {"idle", "asking"} => ~Queued(d) /\ ~Begun(d)
    /\ stage[d] # "returned" <=> result[d] = "none"
    /\ result[d] = "blocked" => ~Queued(d) /\ ~Begun(d)
    /\ (Queued(d) \/ d \in executing) /\ stage[d] = "returned" => result[d] = "timeout"
    /\ result[d] = "timeout" => gaveUp[made[d]] > 0
    /\ Queued(d) => ~Begun(d)
    /\ d \in executing => outcome[d] = "none"

PoolInv ==
    /\ \A d \in Jobs : PoolOf(d)
    /\ \A i, j \in DOMAIN queue : queue[i] = queue[j] => i = j

BelowLimits(c) ==
    /\ exactFailures[c] < MaxExact /\ toolFailures[ToolOf[c]] < MaxSame
    /\ c \in Mutating => repeats[c] < MaxRepeats

GuardInv ==
    guarded =>
        /\ \A d, e \in Outstanding : d = e
        /\ \A d \in Outstanding : BelowLimits(made[d])

JobsBegun(c) == {d \in 1..Len(made) : made[d] = c /\ Begun(d)}
JobsSettled(c) ==
    {d \in 1..Len(made) : made[d] = c /\ stage[d] = "returned" /\ result[d] # "blocked"}

CountOf(c) ==
    /\ started[c] = Cardinality(JobsBegun(c))
    /\ guarded /\ c \in Mutating /\ Stable(c) =>
          /\ Cardinality(JobsSettled(c)) <= repeats[c] + gaveUp[c]
          /\ Cardinality(JobsSettled(c)) <= MaxRepeats + gaveUp[c]

CountInv == \A c \in Calls : CountOf(c)

FailuresOf(t) == Failures(CallsOf(t))

FailInv ==
    guarded =>
        /\ \A t \in Tools : Cardinality(FailuresOf(t)) = toolFailures[t]
        /\ \A c \in Calls : Stable(c) => /\ Cardinality(Failures({c})) <= exactFailures[c]
                                         /\ Cardinality(Failures({c})) <= MaxExact

PlaceInv == TypeOK /\ PoolInv /\ GuardInv
IInv == PlaceInv /\ CountInv /\ FailInv
-----------------------------------------------------------------------------
(* A job that exists is one of a call. *)
LEMMA MadeJobs ==
    ASSUME TypeOK
    PROVE  /\ Len(made) \in Nat /\ 1..Len(made) \subseteq Jobs
           /\ \A d \in Jobs : d <= Len(made) => made[d] \in Calls /\ ToolOf[made[d]] \in Tools
<1>1. Len(made) \in Nat /\ Len(made) <= MaxJobs /\ MaxJobs \in Nat
  BY LimitAssumption DEF TypeOK
<1>2. 1..Len(made) \subseteq Jobs
  BY <1>1 DEF Jobs
<1>3. ASSUME NEW d \in Jobs, d <= Len(made) PROVE made[d] \in Calls /\ ToolOf[made[d]] \in Tools
  <2>1. d \in 1..Len(made)
    BY <1>1, <1>3 DEF Jobs
  <2>2. made[d] \in Calls
    BY <2>1 DEF TypeOK
  <2> QED  BY <2>2, CallAssumption
<1> QED  BY <1>1, <1>2, <1>3

LEMMA InitPlaces == Init => PlaceInv
<1> SUFFICES ASSUME Init PROVE PlaceInv
  OBVIOUS
<1> USE LimitAssumption, CallAssumption DEF Init
<1>1. TypeOK
  BY DEF TypeOK, Stages, Results, Outcomes
<1>2. PoolInv
  BY DEF PoolInv, PoolOf, Queued, Begun, Jobs
<1>3. GuardInv
  BY DEF GuardInv, Outstanding
<1> QED  BY <1>1, <1>2, <1>3 DEF PlaceInv

LEMMA InitCounts == Init => CountInv
<1> SUFFICES ASSUME Init, NEW c \in Calls PROVE CountOf(c)
  BY DEF CountInv
<1>1. Len(made) = 0
  BY DEF Init
<1>2. JobsBegun(c) = {} /\ JobsSettled(c) = {}
  BY <1>1 DEF JobsBegun, JobsSettled
<1>3. started[c] = 0 /\ repeats[c] = 0 /\ gaveUp[c] = 0
  BY DEF Init
<1> QED  BY <1>2, <1>3, FS_EmptySet, LimitAssumption DEF CountOf

(* A new job is the next number, and no job was outstanding if guarded.    *)
LEMMA CallIsNext ==
    ASSUME PlaceInv, NEW d \in Jobs, NEW c \in Calls, CallerMay(d, c)
    PROVE  /\ d = Len(made) + 1 /\ Len(made') = d /\ made'[d] = c /\ made' \in Seq(Calls)
           /\ \A e \in Jobs : e <= Len(made) => made'[e] = made[e]
           /\ stage[d] = "idle" /\ ~Queued(d) /\ ~Begun(d)
           /\ guarded => Outstanding = {}
<1>1. d = Len(made) + 1 /\ made' = Append(made, c) /\ Len(made) \in Nat /\ made \in Seq(Calls)
  BY MadeJobs DEF CallerMay, PlaceInv, TypeOK
<1>2. Len(made') = d /\ made'[d] = c /\ made' \in Seq(Calls)
  BY <1>1
<1>3. \A e \in Jobs : e <= Len(made) => made'[e] = made[e]
  BY <1>1 DEF Jobs
<1>4. PoolOf(d)
  BY DEF PlaceInv, PoolInv
<1>5. stage[d] = "idle" /\ ~Queued(d) /\ ~Begun(d)
  BY <1>1, <1>4 DEF PoolOf
<1>6. guarded => Outstanding = {}
  BY DEF CallerMay
<1> QED  BY <1>1, <1>2, <1>3, <1>5, <1>6

-----------------------------------------------------------------------------
LEMMA RefusePlaces ==
    ASSUME PlaceInv, NEW d \in Jobs, NEW c \in Calls, Refuse(d, c) PROVE PlaceInv'
<1>1. CallerMay(d, c) /\ Return(d, "blocked")
      /\ UNCHANGED <<guarded, queue, executing, outcome, started, exactFailures, toolFailures,
                     repeats, gaveUp>>
  BY DEF Refuse, poolVars, guardVars
<1>2. /\ d = Len(made) + 1 /\ Len(made') = d /\ made'[d] = c /\ made' \in Seq(Calls)
      /\ \A e \in Jobs : e <= Len(made) => made'[e] = made[e]
      /\ stage[d] = "idle" /\ ~Queued(d) /\ ~Begun(d)
  BY <1>1, CallIsNext
<1>3. Len(made) \in Nat /\ d \in Nat /\ d <= MaxJobs /\ Jobs \subseteq Nat
  BY MadeJobs, LimitAssumption DEF PlaceInv, Jobs
<1> USE DEF PlaceInv, Return
<1>4. TypeOK'
  BY <1>1, <1>2, <1>3 DEF TypeOK, Stages, Results
<1>5. ASSUME NEW e \in Jobs PROVE PoolOf(e)'
  <2>1. PoolOf(e)
    BY DEF PoolInv
  <2>2. Queued(e)' <=> Queued(e)
    BY <1>1 DEF Queued
  <2>3. Begun(e)' <=> Begun(e)
    BY <1>1 DEF Begun
  <2>4. CASE e = d
    <3>1. stage'[d] = "returned" /\ result'[d] = "blocked" /\ d \in Nat /\ Len(made') = d
      BY <1>1, <1>2, <1>3 DEF TypeOK
    <3>2. ~Queued(d)' /\ ~Begun(d)' /\ d \notin executing'
      BY <1>1, <1>2, <2>2, <2>3, <2>4 DEF Begun
    <3> QED  BY <2>4, <3>1, <3>2 DEF PoolOf
  <2>5. CASE e # d
    <3>1. stage'[e] = stage[e] /\ result'[e] = result[e]
      BY <1>1, <2>5 DEF TypeOK
    <3>2. e \in Nat /\ d = Len(made) + 1 /\ Len(made') = d
      BY <1>2, <1>3
    <3>3. stage'[e] = "idle" <=> e > Len(made')
      <4>1. stage[e] = "idle" <=> e > Len(made)
        BY <2>1 DEF PoolOf
      <4> QED  BY <1>3, <2>5, <3>1, <3>2, <4>1
    <3>4. result[e] = "timeout" => made'[e] = made[e]
      <4>1. result[e] = "timeout" => e <= Len(made)
        BY <1>3, <2>1, <3>2 DEF PoolOf
      <4>2. e <= Len(made) => made'[e] = made[e]
        BY <1>2
      <4> QED  BY <4>1, <4>2
    <3> QED  BY <1>1, <2>1, <2>2, <2>3, <3>1, <3>3, <3>4 DEF PoolOf
  <2> QED  BY <2>4, <2>5
<1>6. GuardInv'
  <2>1. Outstanding' \subseteq Outstanding
    BY <1>1 DEF Outstanding, TypeOK
  <2>2. \A e \in Outstanding : made'[e] = made[e]
    BY <1>2, <1>3 DEF Outstanding, PoolInv, PoolOf
  <2> QED  BY <1>1, <2>1, <2>2 DEF GuardInv, BelowLimits
<1>7. \A i, j \in DOMAIN queue' : queue'[i] = queue'[j] => i = j
  BY <1>1 DEF PoolInv
<1> QED  BY <1>4, <1>5, <1>6, <1>7 DEF PoolInv

LEMMA AdmitPlaces ==
    ASSUME PlaceInv, NEW d \in Jobs, NEW c \in Calls, Admit(d, c) PROVE PlaceInv'
<1>1. CallerMay(d, c) /\ ~Blocks(c) /\ stage' = [stage EXCEPT ![d] = "asking"]
      /\ UNCHANGED <<guarded, result, queue, executing, outcome, started, exactFailures,
                     toolFailures, repeats, gaveUp>>
  BY DEF Admit, poolVars, guardVars
<1>2. /\ d = Len(made) + 1 /\ Len(made') = d /\ made'[d] = c /\ made' \in Seq(Calls)
      /\ \A e \in Jobs : e <= Len(made) => made'[e] = made[e]
      /\ stage[d] = "idle" /\ ~Queued(d) /\ ~Begun(d)
      /\ guarded => Outstanding = {}
  BY <1>1, CallIsNext
<1>3. Len(made) \in Nat /\ d \in Nat /\ d <= MaxJobs /\ Jobs \subseteq Nat
  BY MadeJobs, LimitAssumption DEF PlaceInv, Jobs
<1> USE DEF PlaceInv
<1>4. TypeOK'
  BY <1>1, <1>2, <1>3 DEF TypeOK, Stages
<1>5. ASSUME NEW e \in Jobs PROVE PoolOf(e)'
  <2>1. PoolOf(e)
    BY DEF PoolInv
  <2>2. Queued(e)' <=> Queued(e)
    BY <1>1 DEF Queued
  <2>3. Begun(e)' <=> Begun(e)
    BY <1>1 DEF Begun
  <2>4. CASE e = d
    BY <1>1, <1>2, <1>3, <2>1, <2>2, <2>3, <2>4 DEF TypeOK, PoolOf
  <2>5. CASE e # d
    <3>1. stage'[e] = stage[e] /\ result'[e] = result[e]
      BY <1>1, <2>5 DEF TypeOK
    <3>2. e \in Nat /\ d = Len(made) + 1 /\ Len(made') = d
      BY <1>2, <1>3
    <3>3. stage'[e] = "idle" <=> e > Len(made')
      <4>1. stage[e] = "idle" <=> e > Len(made)
        BY <2>1 DEF PoolOf
      <4> QED  BY <1>3, <2>5, <3>1, <3>2, <4>1
    <3>4. result[e] = "timeout" => made'[e] = made[e]
      <4>1. result[e] = "timeout" => e <= Len(made)
        BY <1>3, <2>1, <3>2 DEF PoolOf
      <4>2. e <= Len(made) => made'[e] = made[e]
        BY <1>2
      <4> QED  BY <4>1, <4>2
    <3> QED  BY <1>1, <2>1, <2>2, <2>3, <3>1, <3>3, <3>4 DEF PoolOf
  <2> QED  BY <2>4, <2>5
<1>6. ASSUME guarded PROVE GuardInv'
  <2>1. Outstanding' = {d}
    BY <1>1, <1>2, <1>6 DEF Outstanding, TypeOK
  <2>2. ToolOf[c] \in Tools
    BY CallAssumption
  <2>3. BelowLimits(c)
    BY <1>1, <1>6, <2>2, LimitAssumption DEF Blocks, BelowLimits, TypeOK
  <2> QED  BY <1>1, <1>2, <1>6, <2>1, <2>3 DEF GuardInv, BelowLimits
<1>7. \A i, j \in DOMAIN queue' : queue'[i] = queue'[j] => i = j
  BY <1>1 DEF PoolInv
<1>8. ~guarded => GuardInv'
  BY <1>1 DEF GuardInv
<1> QED  BY <1>4, <1>5, <1>6, <1>7, <1>8 DEF PoolInv

LEMMA HookPlaces ==
    ASSUME PlaceInv, NEW d \in Jobs, HookBlocks(d) \/ Submit(d) PROVE PlaceInv'
<1> USE LimitAssumption, MadeJobs DEF PlaceInv, guardVars, poolVars
<1>1. CASE HookBlocks(d)
  <2>1. TypeOK'
    BY <1>1 DEF HookBlocks, Return, TypeOK, Stages, Results
  <2>2. PoolInv'
    BY <1>1 DEF HookBlocks, Return, TypeOK, PoolInv, PoolOf, Queued, Begun
  <2>3. GuardInv'
    BY <1>1 DEF HookBlocks, Return, TypeOK, GuardInv, Outstanding, BelowLimits
  <2> QED  BY <2>1, <2>2, <2>3
<1>2. CASE Submit(d)
  <2>0. queue \in Seq(Jobs) /\ queue' = Append(queue, d) /\ ~Queued(d) /\ ~Begun(d)
        /\ stage[d] = "asking"
    BY <1>2 DEF Submit, TypeOK, PoolInv, PoolOf
  <2>1. TypeOK'
    BY <1>2, <2>0 DEF Submit, TypeOK, Stages
  <2>2. \A e \in Jobs : Queued(e)' <=> Queued(e) \/ e = d
    BY <2>0 DEF Queued
  <2>3. \A i, j \in DOMAIN queue' : queue'[i] = queue'[j] => i = j
    BY <2>0 DEF PoolInv, Queued
  <2>4. ASSUME NEW e \in Jobs PROVE PoolOf(e)'
    BY <1>2, <2>0, <2>2 DEF Submit, TypeOK, PoolInv, PoolOf, Begun
  <2>5. GuardInv'
    BY <1>2 DEF Submit, TypeOK, GuardInv, Outstanding, BelowLimits
  <2> QED  BY <2>1, <2>3, <2>4, <2>5 DEF PoolInv
<1> QED  BY <1>1, <1>2

(* The head of the queue is a job that exists and has not begun. *)
LEMMA HeadOfQueue ==
    ASSUME PlaceInv, queue # <<>>
    PROVE  /\ Head(queue) \in Jobs /\ Head(queue) \in 1..Len(made)
           /\ Queued(Head(queue)) /\ ~Begun(Head(queue))
           /\ \A e \in Jobs : (\E i \in DOMAIN Tail(queue) : Tail(queue)[i] = e)
                                 <=> Queued(e) /\ e # Head(queue)
<1>1. queue \in Seq(Jobs) /\ Len(queue) > 0 /\ Head(queue) = queue[1] /\ Head(queue) \in Jobs
  BY DEF PlaceInv, TypeOK
<1>2. Queued(Head(queue))
  BY <1>1 DEF Queued
<1>3. PoolOf(Head(queue))
  BY <1>1 DEF PlaceInv, PoolInv
<1>4. ~Begun(Head(queue)) /\ Head(queue) \in 1..Len(made)
  BY <1>1, <1>2, <1>3, MadeJobs DEF PoolOf, Jobs, PlaceInv
<1>5. \A e \in Jobs : (\E i \in DOMAIN Tail(queue) : Tail(queue)[i] = e)
                         <=> Queued(e) /\ e # Head(queue)
  <2>1. \A i, j \in DOMAIN queue : queue[i] = queue[j] => i = j
    BY DEF PlaceInv, PoolInv
  <2>2. DOMAIN Tail(queue) = 1..(Len(queue) - 1)
        /\ \A i \in DOMAIN Tail(queue) : Tail(queue)[i] = queue[i + 1]
    BY <1>1
  <2>3. ASSUME NEW e \in Jobs, NEW i \in DOMAIN Tail(queue), Tail(queue)[i] = e
        PROVE  Queued(e) /\ e # Head(queue)
    <3>1. i + 1 \in DOMAIN queue /\ queue[i + 1] = e /\ 1 \in DOMAIN queue /\ i + 1 # 1
      BY <1>1, <2>2, <2>3
    <3> QED  BY <1>1, <2>1, <3>1 DEF Queued
  <2>4. ASSUME NEW e \in Jobs, Queued(e), e # Head(queue)
        PROVE  \E i \in DOMAIN Tail(queue) : Tail(queue)[i] = e
    <3>1. PICK j \in DOMAIN queue : queue[j] = e
      BY <2>4 DEF Queued
    <3>2. j - 1 \in DOMAIN Tail(queue) /\ Tail(queue)[j - 1] = e
      BY <1>1, <2>2, <2>4, <3>1
    <3> QED  BY <3>2
  <2> QED  BY <2>3, <2>4
<1> QED  BY <1>1, <1>2, <1>4, <1>5

LEMMA PoolPlaces ==
    ASSUME PlaceInv, WorkerTakes \/ \E d \in Jobs : HandlerEnds(d) PROVE PlaceInv'
<1> USE LimitAssumption, MadeJobs DEF PlaceInv, guardVars
<1>1. CASE WorkerTakes
  <2> DEFINE h == Head(queue)
  <2>0. queue # <<>> /\ queue' = Tail(queue) /\ executing' = executing \cup {h}
        /\ started' = [started EXCEPT ![made[h]] = @ + 1]
        /\ UNCHANGED <<guarded, made, stage, result, outcome, exactFailures, toolFailures,
                       repeats, gaveUp>>
    BY <1>1 DEF WorkerTakes
  <2>1. h \in Jobs /\ h \in 1..Len(made) /\ Queued(h) /\ ~Begun(h)
        /\ \A e \in Jobs : Queued(e)' <=> Queued(e) /\ e # h
    BY <2>0, HeadOfQueue DEF Queued
  <2> HIDE DEF h
  <2>2. TypeOK'
    <3>1. Tail(queue) \in Seq(Jobs) /\ made[h] \in Calls
      BY <2>0, <2>1 DEF TypeOK, Jobs
    <3>2. queue' \in Seq(Jobs) /\ executing' \subseteq Jobs
      BY <2>0, <2>1, <3>1 DEF TypeOK
    <3>3. started' \in [Calls -> Nat]
      <4> DEFINE k == made[h]
      <4>1. k \in Calls /\ started \in [Calls -> Nat] /\ started' = [started EXCEPT ![k] = started[k] + 1]
        BY <2>0, <3>1 DEF TypeOK
      <4> HIDE DEF k
      <4> QED  BY <4>1
    <3> QED  BY <2>0, <3>2, <3>3 DEF TypeOK
  <2>3. ASSUME NEW e \in Jobs PROVE PoolOf(e)'
    BY <2>0, <2>1 DEF TypeOK, PoolInv, PoolOf, Begun
  <2>4. \A i, j \in DOMAIN queue' : queue'[i] = queue'[j] => i = j
    <3>1. queue \in Seq(Jobs) /\ queue # <<>>
      BY <2>0 DEF TypeOK
    <3>2. \A i \in DOMAIN queue' : i + 1 \in DOMAIN queue /\ queue'[i] = queue[i + 1] /\ i \in Nat
      <4>1. Tail(queue) \in Seq(Jobs) /\ Len(Tail(queue)) = Len(queue) - 1 /\ Len(queue) \in Nat
        BY <3>1
      <4>2. ASSUME NEW i \in 1..(Len(queue) - 1) PROVE Tail(queue)[i] = queue[i + 1]
        BY <3>1
      <4> QED  BY <2>0, <3>1, <4>1, <4>2
    <3>3. \A i, j \in DOMAIN queue : queue[i] = queue[j] => i = j
      BY DEF PoolInv
    <3>4. ASSUME NEW i \in DOMAIN queue', NEW j \in DOMAIN queue', queue'[i] = queue'[j]
          PROVE  i = j
      <4>1. i + 1 = j + 1
        BY <3>2, <3>3, <3>4
      <4> QED  BY <3>2, <4>1
    <3> QED  BY <3>4
  <2>5. GuardInv'
    BY <2>0 DEF GuardInv, Outstanding, BelowLimits
  <2> QED  BY <2>2, <2>3, <2>4, <2>5 DEF PoolInv
<1>2. ASSUME NEW d \in Jobs, HandlerEnds(d) PROVE PlaceInv'
  <2>1. PICK o \in Outcomes \ {"none"} : outcome' = [outcome EXCEPT ![d] = o]
    BY <1>2 DEF HandlerEnds
  <2>2. TypeOK'
    BY <1>2, <2>1 DEF HandlerEnds, TypeOK
  <2>3. PoolInv'
    BY <1>2, <2>1 DEF HandlerEnds, TypeOK, PoolInv, PoolOf, Queued, Begun
  <2>4. GuardInv'
    BY <1>2 DEF HandlerEnds, GuardInv, Outstanding, BelowLimits
  <2> QED  BY <2>2, <2>3, <2>4
<1> QED  BY <1>1, <1>2

(* The end of a wait adds one, if anything, to each counter of its call.   *)
LEMMA WaitEnds ==
    ASSUME PlaceInv, NEW d \in Jobs, ResultArrives(d) \/ TimesOut(d)
    PROVE  \E r \in {"ok", "command_failed", "runtime_error", "timeout"} :
              /\ stage[d] = "waiting" /\ d \in 1..Len(made) /\ made[d] \in Calls
              /\ Return(d, r)
              /\ r # "timeout" => outcome[d] # "none" /\ UNCHANGED gaveUp /\ AfterCall(d, r # "ok")
              /\ r = "timeout" =>
                    /\ gaveUp' = [gaveUp EXCEPT ![made[d]] = @ + 1]
                    /\ UNCHANGED <<exactFailures, toolFailures, repeats>>
              /\ UNCHANGED <<guarded, made, queue, executing, outcome, started>>
<1>1. stage[d] = "waiting" /\ UNCHANGED <<guarded, made, queue, executing, outcome, started>>
  BY DEF ResultArrives, TimesOut, poolVars
<1>2. d \in 1..Len(made) /\ made[d] \in Calls
  <2>1. PoolOf(d)
    BY DEF PlaceInv, PoolInv
  <2>2. ~(d > Len(made)) /\ Len(made) \in Nat /\ d \in Nat /\ d >= 1
    BY <1>1, <2>1, MadeJobs, LimitAssumption DEF PoolOf, PlaceInv, Jobs
  <2> QED  BY <2>2, MadeJobs DEF PlaceInv
<1>3. CASE TimesOut(d) \/ (outcome[d] = "timeout_error" /\ GiveUp(d))
  BY <1>1, <1>2, <1>3 DEF TimesOut, GiveUp, guardVars
<1>4. CASE outcome[d] = "ok" /\ Return(d, "ok") /\ AfterCall(d, FALSE) /\ UNCHANGED gaveUp
  BY <1>1, <1>2, <1>4
<1>5. CASE outcome[d] = "exit_code" /\ Return(d, "command_failed") /\ AfterCall(d, TRUE)
           /\ UNCHANGED gaveUp
  BY <1>1, <1>2, <1>5
<1>6. CASE outcome[d] = "exception" /\ Return(d, "runtime_error") /\ AfterCall(d, TRUE)
           /\ UNCHANGED gaveUp
  BY <1>1, <1>2, <1>6
<1> QED  BY <1>3, <1>4, <1>5, <1>6 DEF ResultArrives

(* after_call under guardrails leaves every counter of a call that was     *)
(* below its limits within them.                                           *)
LEMMA AfterCallWithinLimits ==
    ASSUME TypeOK, guarded, NEW d \in Jobs, NEW failed \in BOOLEAN, AfterCall(d, failed),
           made[d] \in Calls, BelowLimits(made[d])
    PROVE  /\ exactFailures' \in [Calls -> Nat]
           /\ toolFailures' \in [Tools -> 0..MaxSame]
           /\ repeats' \in [Calls -> Nat]
           /\ \A c \in Calls : repeats'[c] >= repeats[c] /\ exactFailures'[c] >= exactFailures[c]
           /\ Stable(made[d]) /\ made[d] \in Mutating => repeats'[made[d]] = repeats[made[d]] + 1
           /\ Stable(made[d]) /\ failed => exactFailures'[made[d]] = exactFailures[made[d]] + 1
           /\ failed => toolFailures' = [toolFailures EXCEPT ![ToolOf[made[d]]] = @ + 1]
           /\ ~failed => UNCHANGED toolFailures
<1> DEFINE k == Coerced[made[d]]
           t == ToolOf[made[d]]
<1>1. k \in Calls /\ t \in Tools /\ t = ToolOf[k] /\ (Stable(made[d]) => k = made[d])
      /\ (made[d] \in Mutating <=> k \in Mutating)
      /\ exactFailures \in [Calls -> Nat] /\ repeats \in [Calls -> Nat]
      /\ toolFailures \in [Tools -> 0..MaxSame] /\ toolFailures[t] < MaxSame /\ MaxSame \in Nat
  BY CallAssumption, CoercionAssumption, LimitAssumption DEF TypeOK, BelowLimits, Stable
<1>2. /\ exactFailures' = IF failed THEN [exactFailures EXCEPT ![k] = @ + 1] ELSE exactFailures
      /\ toolFailures' = IF failed THEN [toolFailures EXCEPT ![t] = @ + 1] ELSE toolFailures
      /\ repeats' = IF k \in Mutating THEN [repeats EXCEPT ![k] = @ + 1] ELSE repeats
  BY <1>1 DEF AfterCall, IsMutating, Performed
<1> HIDE DEF k, t
<1>3. exactFailures' \in [Calls -> Nat] /\ \A c \in Calls : exactFailures'[c] >= exactFailures[c]
  BY <1>1, <1>2
<1>4. toolFailures' \in [Tools -> 0..MaxSame]
  BY <1>1, <1>2
<1>5. repeats' \in [Calls -> Nat] /\ \A c \in Calls : repeats'[c] >= repeats[c]
  BY <1>1, <1>2
<1>6. Stable(made[d]) /\ made[d] \in Mutating => repeats'[made[d]] = repeats[made[d]] + 1
  BY <1>1, <1>2
<1>7. Stable(made[d]) /\ failed => exactFailures'[made[d]] = exactFailures[made[d]] + 1
  BY <1>1, <1>2
<1> QED  BY <1>2, <1>3, <1>4, <1>5, <1>6, <1>7 DEF t

LEMMA WaitPlaces ==
    ASSUME PlaceInv, NEW d \in Jobs, ResultArrives(d) \/ TimesOut(d) PROVE PlaceInv'
<1>1. PICK r \in {"ok", "command_failed", "runtime_error", "timeout"} :
         /\ stage[d] = "waiting" /\ d \in 1..Len(made) /\ made[d] \in Calls
         /\ Return(d, r)
         /\ r # "timeout" => outcome[d] # "none" /\ UNCHANGED gaveUp /\ AfterCall(d, r # "ok")
         /\ r = "timeout" =>
               /\ gaveUp' = [gaveUp EXCEPT ![made[d]] = @ + 1]
               /\ UNCHANGED <<exactFailures, toolFailures, repeats>>
         /\ UNCHANGED <<guarded, made, queue, executing, outcome, started>>
  BY WaitEnds
<1>2. /\ stage' \in [Jobs -> Stages] /\ result' \in [Jobs -> Results]
      /\ stage'[d] = "returned" /\ result'[d] = r
      /\ \A e \in Jobs : e # d => stage'[e] = stage[e] /\ result'[e] = result[e]
  BY <1>1 DEF Return, PlaceInv, TypeOK, Stages, Results
<1>3. /\ gaveUp' \in [Calls -> Nat] /\ \A c \in Calls : gaveUp'[c] >= gaveUp[c]
      /\ r = "timeout" => gaveUp'[made[d]] > 0
  <2> DEFINE k == made[d]
  <2>1. k \in Calls /\ gaveUp \in [Calls -> Nat]
        /\ \/ gaveUp' = gaveUp /\ r # "timeout"
           \/ gaveUp' = [gaveUp EXCEPT ![k] = @ + 1]
    BY <1>1 DEF PlaceInv, TypeOK
  <2> HIDE DEF k
  <2>2. gaveUp' \in [Calls -> Nat] /\ \A c \in Calls : gaveUp'[c] >= gaveUp[c]
    BY <2>1
  <2>3. r = "timeout" => gaveUp'[k] > 0
    BY <2>1
  <2> QED  BY <2>2, <2>3 DEF k
<1>4. d \in Outstanding /\ Outstanding' = Outstanding \ {d}
  BY <1>1, <1>2 DEF Outstanding
<1>5. /\ exactFailures' \in [Calls -> Nat] /\ toolFailures' \in [Tools -> 0..MaxSame]
      /\ repeats' \in [Calls -> Nat]
  <2>1. CASE r = "timeout" \/ ~guarded
    <3>1. UNCHANGED <<exactFailures, toolFailures, repeats>>
      BY <1>1, <2>1 DEF AfterCall, guardVars
    <3> QED  BY <3>1 DEF PlaceInv, TypeOK
  <2>2. CASE r # "timeout" /\ guarded
    <3>1. BelowLimits(made[d])
      BY <1>4, <2>2 DEF PlaceInv, GuardInv
    <3>2. AfterCall(d, r # "ok") /\ (r # "ok") \in BOOLEAN
      BY <1>1, <2>2
    <3> QED  BY <1>1, <2>2, <3>1, <3>2, AfterCallWithinLimits DEF PlaceInv
  <2> QED  BY <2>1, <2>2
<1>6. TypeOK'
  BY <1>1, <1>2, <1>3, <1>5 DEF PlaceInv, TypeOK
<1>7. ASSUME NEW e \in Jobs PROVE PoolOf(e)'
  <2>1. PoolOf(e) /\ (Queued(e)' <=> Queued(e)) /\ (Begun(e)' <=> Begun(e))
    BY <1>1 DEF PlaceInv, PoolInv, Queued, Begun
  <2>2. CASE e = d
    <3>1. r # "timeout" => Begun(d) /\ ~Queued(d) /\ d \notin executing
      BY <1>1, <2>1, <2>2 DEF PoolOf, Begun
    <3>2. ~(d > Len(made))
      BY <1>1, <2>1, <2>2 DEF PoolOf
    <3>3. d \in executing => outcome[d] = "none"
      BY <2>1, <2>2 DEF PoolOf
    <3>4. Queued(d) => ~Begun(d)
      BY <2>1, <2>2 DEF PoolOf
    <3> QED  BY <1>1, <1>2, <1>3, <2>1, <2>2, <3>1, <3>2, <3>3, <3>4 DEF PoolOf
  <2>3. CASE e # d
    <3>1. result[e] = "timeout" => gaveUp'[made[e]] > 0
      <4>1. SUFFICES ASSUME result[e] = "timeout" PROVE gaveUp'[made[e]] > 0
        OBVIOUS
      <4>2. gaveUp[made[e]] > 0 /\ ~(e > Len(made))
        BY <2>1, <4>1 DEF PoolOf
      <4>3. made[e] \in Calls
        BY <4>2, MadeJobs, LimitAssumption DEF PlaceInv, Jobs
      <4>4. gaveUp'[made[e]] >= gaveUp[made[e]] /\ gaveUp[made[e]] \in Nat
            /\ gaveUp'[made[e]] \in Nat
        BY <1>3, <4>3 DEF PlaceInv, TypeOK
      <4> QED  BY <4>2, <4>4
    <3>2. stage'[e] = stage[e] /\ result'[e] = result[e]
      BY <1>2, <2>3
    <3> QED  BY <1>1, <2>1, <3>1, <3>2 DEF PoolOf
  <2> QED  BY <2>2, <2>3
<1>8. GuardInv'
  <2>1. SUFFICES ASSUME guarded PROVE GuardInv'
    BY <1>1 DEF GuardInv
  <2>2. Outstanding' = {}
    BY <1>4, <2>1 DEF PlaceInv, GuardInv
  <2> QED  BY <2>1, <2>2 DEF GuardInv
<1>9. \A i, j \in DOMAIN queue' : queue'[i] = queue'[j] => i = j
  BY <1>1 DEF PlaceInv, PoolInv
<1> QED  BY <1>6, <1>7, <1>8, <1>9 DEF PlaceInv, PoolInv

LEMMA NextPlaces == PlaceInv /\ [Next]_vars => PlaceInv'
<1> SUFFICES ASSUME PlaceInv, [Next]_vars PROVE PlaceInv'
  OBVIOUS
<1>1. CASE UNCHANGED vars
  BY <1>1 DEF vars, PlaceInv, TypeOK, PoolInv, PoolOf, Queued, Begun, GuardInv, BelowLimits,
              Outstanding
<1>2. CASE Next
  BY <1>1, <1>2, RefusePlaces, AdmitPlaces, HookPlaces, PoolPlaces, WaitPlaces
     DEF Next, Dispatching, Terminated
<1> QED  BY <1>1, <1>2
-----------------------------------------------------------------------------
LEMMA JobsFinite ==
    ASSUME TypeOK, NEW c
    PROVE  /\ IsFiniteSet(JobsBegun(c)) /\ IsFiniteSet(JobsSettled(c))
           /\ JobsBegun(c) \subseteq 1..Len(made) /\ JobsSettled(c) \subseteq 1..Len(made)
<1>1. IsFiniteSet(1..Len(made))
  BY MadeJobs, FS_Interval
<1>2. JobsBegun(c) \subseteq 1..Len(made) /\ JobsSettled(c) \subseteq 1..Len(made)
  BY DEF JobsBegun, JobsSettled
<1> QED  BY <1>1, <1>2, FS_Subset

(* What counts a set of jobs follows it when one job is added. *)
LEMMA OneMore ==
    ASSUME NEW S, IsFiniteSet(S), NEW x, x \notin S
    PROVE  Cardinality(S \cup {x}) = Cardinality(S) + 1
BY FS_AddElement

(* A step that moves no job into a worker and ends no wait counts nothing. *)
LEMMA NothingCounted ==
    ASSUME CountInv, UNCHANGED <<guarded, started, repeats, gaveUp>>,
           \A c \in Calls : JobsBegun(c)' = JobsBegun(c) /\ JobsSettled(c)' = JobsSettled(c)
    PROVE  CountInv'
BY DEF CountInv, CountOf

LEMMA CallerCounts ==
    ASSUME PlaceInv, CountInv, NEW d \in Jobs, NEW k \in Calls, Refuse(d, k) \/ Admit(d, k)
    PROVE  CountInv'
<1>1. /\ CallerMay(d, k) /\ (Return(d, "blocked") \/ (stage' = [stage EXCEPT ![d] = "asking"]
                                                      /\ UNCHANGED result))
      /\ UNCHANGED <<guarded, executing, outcome, started, repeats, gaveUp>>
  BY DEF Refuse, Admit, poolVars, guardVars
<1>2. /\ d = Len(made) + 1 /\ Len(made') = d /\ ~Begun(d)
      /\ \A e \in Jobs : e <= Len(made) => made'[e] = made[e]
  BY <1>1, CallIsNext
<1>3. Len(made) \in Nat /\ 1..Len(made) \subseteq Jobs /\ 1..Len(made') = 1..Len(made) \cup {d}
      /\ d \notin 1..Len(made)
  BY <1>2, MadeJobs DEF PlaceInv
<1>4. \A e \in 1..Len(made) : made'[e] = made[e] /\ e # d
  BY <1>2, <1>3
<1>5. \A e \in 1..Len(made) : stage'[e] = stage[e] /\ result'[e] = result[e]
  BY <1>1, <1>3, <1>4 DEF Return, PlaceInv, TypeOK
<1>6. stage'[d] = "returned" => result'[d] = "blocked"
  BY <1>1 DEF Return, PlaceInv, TypeOK
<1>7. ASSUME NEW c \in Calls
      PROVE  JobsBegun(c)' = JobsBegun(c) /\ JobsSettled(c)' = JobsSettled(c)
  <2>1. JobsBegun(c)' = {e \in 1..Len(made') : made'[e] = c /\ Begun(e)}
    BY <1>1 DEF JobsBegun, Begun
  <2>2. JobsBegun(c)' = JobsBegun(c)
    BY <1>2, <1>3, <1>4, <2>1 DEF JobsBegun
  <2>3. JobsSettled(c)' = JobsSettled(c)
    BY <1>3, <1>4, <1>5, <1>6 DEF JobsSettled
  <2> QED  BY <2>2, <2>3
<1> QED  BY <1>1, <1>7, NothingCounted

LEMMA HookCounts ==
    ASSUME PlaceInv, CountInv, NEW d \in Jobs, HookBlocks(d) \/ Submit(d) PROVE CountInv'
<1>1. /\ UNCHANGED <<guarded, made, executing, outcome, started, repeats, gaveUp>>
      /\ stage[d] = "asking"
      /\ \/ Return(d, "blocked")
         \/ stage' = [stage EXCEPT ![d] = "waiting"] /\ UNCHANGED result
  BY DEF HookBlocks, Submit, poolVars, guardVars
<1>2. \A e \in Jobs : /\ stage'[e] = "returned" /\ result'[e] # "blocked"
                            <=> stage[e] = "returned" /\ result[e] # "blocked"
  BY <1>1 DEF Return, PlaceInv, TypeOK
<1>3. 1..Len(made) \subseteq Jobs
  BY MadeJobs DEF PlaceInv
<1>4. ASSUME NEW c \in Calls
      PROVE  JobsBegun(c)' = JobsBegun(c) /\ JobsSettled(c)' = JobsSettled(c)
  <2>1. JobsBegun(c)' = JobsBegun(c)
    BY <1>1 DEF JobsBegun, Begun
  <2>2. JobsSettled(c)' = JobsSettled(c)
    BY <1>1, <1>2, <1>3 DEF JobsSettled
  <2> QED  BY <2>1, <2>2
<1> QED  BY <1>1, <1>4, NothingCounted

LEMMA PoolCounts ==
    ASSUME PlaceInv, CountInv, WorkerTakes \/ \E d \in Jobs : HandlerEnds(d) PROVE CountInv'
<1>1. CASE WorkerTakes
  <2> DEFINE h == Head(queue)
  <2>1. /\ queue # <<>> /\ executing' = executing \cup {h}
        /\ started' = [started EXCEPT ![made[h]] = @ + 1]
        /\ UNCHANGED <<guarded, made, stage, result, outcome, repeats, gaveUp>>
    BY <1>1 DEF WorkerTakes, guardVars
  <2>2. h \in 1..Len(made) /\ ~Begun(h) /\ made[h] \in Calls
    BY <2>1, HeadOfQueue, MadeJobs, LimitAssumption DEF PlaceInv, Jobs
  <2> HIDE DEF h
  <2>3. \A e \in 1..Len(made) : Begun(e)' <=> Begun(e) \/ e = h
    BY <2>1 DEF Begun
  <2>4. ASSUME NEW c \in Calls PROVE CountOf(c)'
    <3>1. JobsSettled(c)' = JobsSettled(c)
      BY <2>1 DEF JobsSettled
    <3>2. CountOf(c) /\ started \in [Calls -> Nat]
      BY DEF CountInv, PlaceInv, TypeOK
    <3>3. started'[c] = Cardinality(JobsBegun(c)')
      <4>1. CASE c = made[h]
        <5>1. JobsBegun(c)' = JobsBegun(c) \cup {h} /\ h \notin JobsBegun(c)
          BY <2>1, <2>2, <2>3, <4>1 DEF JobsBegun
        <5>2. Cardinality(JobsBegun(c)') = Cardinality(JobsBegun(c)) + 1
          BY <5>1, JobsFinite, OneMore DEF PlaceInv
        <5>3. started'[c] = started[c] + 1
          BY <2>1, <3>2, <4>1
        <5> QED  BY <3>2, <5>2, <5>3 DEF CountOf
      <4>2. CASE c # made[h]
        <5>1. JobsBegun(c)' = JobsBegun(c)
          BY <2>1, <2>3, <4>2 DEF JobsBegun
        <5>2. started'[c] = started[c]
          BY <2>1, <3>2, <4>2
        <5> QED  BY <3>2, <5>1, <5>2 DEF CountOf
      <4> QED  BY <4>1, <4>2
    <3> QED  BY <2>1, <3>1, <3>2, <3>3 DEF CountOf
  <2> QED  BY <2>4 DEF CountInv
<1>2. ASSUME NEW d \in Jobs, HandlerEnds(d) PROVE CountInv'
  <2>1. PICK o \in Outcomes \ {"none"} : outcome' = [outcome EXCEPT ![d] = o]
    BY <1>2 DEF HandlerEnds
  <2>2. d \in executing /\ executing' = executing \ {d}
        /\ UNCHANGED <<guarded, made, stage, result, started, repeats, gaveUp>>
    BY <1>2 DEF HandlerEnds, guardVars
  <2>3. \A e \in Jobs : Begun(e)' <=> Begun(e)
    BY <2>1, <2>2 DEF Begun, PlaceInv, TypeOK
  <2>4. 1..Len(made) \subseteq Jobs
    BY MadeJobs DEF PlaceInv
  <2>5. \A c \in Calls : JobsBegun(c)' = JobsBegun(c) /\ JobsSettled(c)' = JobsSettled(c)
    BY <2>2, <2>3, <2>4 DEF JobsBegun, JobsSettled
  <2> QED  BY <2>2, <2>5, NothingCounted
<1> QED  BY <1>1, <1>2

LEMMA WaitCounts ==
    ASSUME PlaceInv, CountInv, NEW d \in Jobs, ResultArrives(d) \/ TimesOut(d) PROVE CountInv'
<1>1. PICK r \in {"ok", "command_failed", "runtime_error", "timeout"} :
         /\ stage[d] = "waiting" /\ d \in 1..Len(made) /\ made[d] \in Calls
         /\ Return(d, r)
         /\ r # "timeout" => outcome[d] # "none" /\ UNCHANGED gaveUp /\ AfterCall(d, r # "ok")
         /\ r = "timeout" =>
               /\ gaveUp' = [gaveUp EXCEPT ![made[d]] = @ + 1]
               /\ UNCHANGED <<exactFailures, toolFailures, repeats>>
         /\ UNCHANGED <<guarded, made, queue, executing, outcome, started>>
  BY WaitEnds
<1>2. /\ stage'[d] = "returned" /\ result'[d] = r /\ r # "blocked"
      /\ \A e \in Jobs : e # d => stage'[e] = stage[e] /\ result'[e] = result[e]
  BY <1>1 DEF Return, PlaceInv, TypeOK
<1>3. 1..Len(made) \subseteq Jobs /\ d \in Outstanding
  BY <1>1, MadeJobs DEF PlaceInv, Outstanding
<1>4. ASSUME NEW c \in Calls PROVE CountOf(c)'
  <2>1. CountOf(c) /\ gaveUp \in [Calls -> Nat] /\ repeats \in [Calls -> Nat]
    BY DEF CountInv, PlaceInv, TypeOK
  <2>2. JobsBegun(c)' = JobsBegun(c)
    BY <1>1 DEF JobsBegun, Begun
  <2>3. guarded /\ c \in Mutating /\ Stable(c) =>
           /\ Cardinality(JobsSettled(c)') <= repeats'[c] + gaveUp'[c]
           /\ Cardinality(JobsSettled(c)') <= MaxRepeats + gaveUp'[c]
    <3> DEFINE n == Cardinality(JobsSettled(c))
               m == Cardinality(JobsSettled(c)')
    <3>1. SUFFICES ASSUME guarded, c \in Mutating, Stable(c)
                   PROVE  m <= repeats'[c] + gaveUp'[c] /\ m <= MaxRepeats + gaveUp'[c]
      OBVIOUS
    <3>2. /\ n <= repeats[c] + gaveUp[c] /\ n <= MaxRepeats + gaveUp[c]
          /\ n \in Nat /\ MaxRepeats \in Nat /\ repeats[c] \in Nat /\ gaveUp[c] \in Nat
      BY <2>1, <3>1, JobsFinite, FS_CardinalityType, LimitAssumption DEF CountOf, PlaceInv
    <3>3. r # "timeout" =>
             /\ UNCHANGED gaveUp
             /\ c = made[d] => repeats'[c] = repeats[c] + 1 /\ repeats[c] < MaxRepeats
             /\ repeats'[c] >= repeats[c] /\ repeats'[c] \in Nat
      <4>1. SUFFICES ASSUME r # "timeout"
                     PROVE  /\ c = made[d] => repeats'[c] = repeats[c] + 1
                                              /\ repeats[c] < MaxRepeats
                            /\ repeats'[c] >= repeats[c] /\ repeats'[c] \in Nat
        BY <1>1
      <4>2. BelowLimits(made[d])
        BY <1>3, <3>1 DEF PlaceInv, GuardInv
      <4>3. AfterCall(d, r # "ok") /\ (r # "ok") \in BOOLEAN
        BY <1>1, <4>1
      <4>4. /\ repeats' \in [Calls -> Nat] /\ \A q \in Calls : repeats'[q] >= repeats[q]
            /\ Stable(made[d]) /\ made[d] \in Mutating =>
                  repeats'[made[d]] = repeats[made[d]] + 1
        BY <1>1, <3>1, <4>2, <4>3, AfterCallWithinLimits DEF PlaceInv
      <4> QED  BY <3>1, <4>2, <4>4 DEF BelowLimits
    <3>4. CASE c = made[d]
      <4>1. JobsSettled(c)' = JobsSettled(c) \cup {d} /\ d \notin JobsSettled(c)
        BY <1>1, <1>2, <1>3, <3>4 DEF JobsSettled
      <4>2. m = n + 1
        BY <4>1, JobsFinite, OneMore DEF PlaceInv
      <4> HIDE DEF n, m
      <4>3. CASE r = "timeout"
        <5>1. gaveUp'[c] = gaveUp[c] + 1 /\ repeats'[c] = repeats[c]
          BY <1>1, <2>1, <3>4, <4>3
        <5> QED  BY <3>2, <4>2, <5>1
      <4>4. CASE r # "timeout"
        <5>1. repeats'[c] = repeats[c] + 1 /\ gaveUp'[c] = gaveUp[c] /\ repeats[c] < MaxRepeats
          BY <3>3, <3>4, <4>4
        <5> QED  BY <3>2, <4>2, <5>1
      <4> QED  BY <4>3, <4>4
    <3>5. CASE c # made[d]
      <4>1. JobsSettled(c)' = JobsSettled(c)
        BY <1>1, <1>2, <1>3, <3>5 DEF JobsSettled
      <4>2. gaveUp'[c] = gaveUp[c] /\ repeats'[c] >= repeats[c] /\ repeats'[c] \in Nat
        BY <1>1, <2>1, <3>2, <3>3, <3>5
      <4>3. m = n
        BY <4>1
      <4> HIDE DEF n, m
      <4> QED  BY <3>2, <4>2, <4>3
    <3> QED  BY <3>4, <3>5
  <2> QED  BY <1>1, <2>1, <2>2, <2>3 DEF CountOf
<1> QED  BY <1>4 DEF CountInv

LEMMA NextCounts == PlaceInv /\ CountInv /\ [Next]_vars => CountInv'
<1> SUFFICES ASSUME PlaceInv, CountInv, [Next]_vars PROVE CountInv'
  OBVIOUS
<1>1. CASE UNCHANGED vars
  BY <1>1 DEF vars, CountInv, CountOf, JobsBegun, JobsSettled, Begun
<1>2. CASE Next
  BY <1>1, <1>2, CallerCounts, HookCounts, PoolCounts, WaitCounts
     DEF Next, Dispatching, Terminated
<1> QED  BY <1>1, <1>2
-----------------------------------------------------------------------------
(* What failed is a finite set of jobs that were made. *)
LEMMA FailuresFinite ==
    ASSUME PlaceInv, NEW C
    PROVE  /\ IsFiniteSet(Failures(C)) /\ Cardinality(Failures(C)) \in Nat
           /\ \A d \in Failures(C) : d <= Len(made) /\ stage[d] = "returned"
<1>1. IsFiniteSet(Jobs) /\ Failures(C) \subseteq Jobs
  BY FS_Interval, LimitAssumption DEF Jobs, Failures
<1>2. IsFiniteSet(Failures(C)) /\ Cardinality(Failures(C)) \in Nat
  BY <1>1, FS_Subset, FS_CardinalityType
<1>3. ASSUME NEW d \in Failures(C) PROVE d <= Len(made) /\ stage[d] = "returned"
  <2>1. PoolOf(d) /\ result[d] # "none" /\ d \in Jobs
    BY <1>3 DEF Failures, PlaceInv, PoolInv
  <2>2. stage[d] = "returned"
    BY <2>1 DEF PoolOf
  <2>3. ~(d > Len(made)) /\ Len(made) \in Nat /\ d \in Nat
    BY <2>1, <2>2, MadeJobs DEF PoolOf, Jobs, PlaceInv
  <2> QED  BY <2>2, <2>3
<1> QED  BY <1>2, <1>3

LEMMA InitFails == Init => FailInv
<1> SUFFICES ASSUME Init PROVE FailInv
  OBVIOUS
<1>1. ASSUME NEW C PROVE Cardinality(Failures(C)) = 0
  <2>1. Failures(C) = {}
    BY DEF Init, Failures
  <2> QED  BY <2>1, FS_EmptySet
<1>2. /\ MaxExact \in Nat
      /\ \A t \in Tools : toolFailures[t] = 0
      /\ \A c \in Calls : exactFailures[c] = 0
  BY LimitAssumption DEF Init
<1>3. \A t \in Tools : Cardinality(FailuresOf(t)) = 0
  BY <1>1 DEF FailuresOf
<1> QED  BY <1>1, <1>2, <1>3 DEF FailInv

(* A step that answers no job with a failure leaves the failures alone.    *)
LEMMA SameFailures ==
    ASSUME PlaceInv, FailInv, UNCHANGED <<guarded, exactFailures, toolFailures>>,
           \A e \in Jobs : e <= Len(made) => made'[e] = made[e],
           \A e \in Jobs : \/ result'[e] = result[e]
                           \/ /\ result[e] = "none"
                              /\ result'[e] \notin {"command_failed", "runtime_error"}
    PROVE  FailInv'
<1>1. ASSUME NEW C PROVE Failures(C)' = Failures(C)
  <2>1. ASSUME NEW e \in Jobs, result[e] \in {"command_failed", "runtime_error"}
        PROVE  made'[e] = made[e]
    <3>1. e \in {d \in Jobs : /\ result[d] \in {"command_failed", "runtime_error"}
                              /\ made[d] \in {made[e]}}
      BY <2>1
    <3>2. e <= Len(made)
      BY <3>1, FailuresFinite DEF Failures
    <3> QED  BY <2>1, <3>2
  <2> QED  BY <2>1 DEF Failures
<1> QED  BY <1>1 DEF FailInv, FailuresOf

LEMMA CallerFails ==
    ASSUME PlaceInv, FailInv, NEW d \in Jobs, NEW k \in Calls, Refuse(d, k) \/ Admit(d, k)
    PROVE  FailInv'
<1>1. /\ CallerMay(d, k) /\ (Return(d, "blocked") \/ UNCHANGED result)
      /\ UNCHANGED <<guarded, exactFailures, toolFailures>>
  BY DEF Refuse, Admit, guardVars
<1>2. stage[d] = "idle" /\ \A e \in Jobs : e <= Len(made) => made'[e] = made[e]
  BY <1>1, CallIsNext
<1>3. result[d] = "none"
  BY <1>2 DEF PlaceInv, PoolInv, PoolOf
<1>4. \A e \in Jobs : result'[e] = result[e] \/ (e = d /\ result'[e] = "blocked")
  BY <1>1 DEF Return, PlaceInv, TypeOK
<1> QED  BY <1>1, <1>2, <1>3, <1>4, SameFailures

LEMMA HookFails ==
    ASSUME PlaceInv, FailInv, NEW d \in Jobs, HookBlocks(d) \/ Submit(d) PROVE FailInv'
<1>1. /\ stage[d] = "asking" /\ (Return(d, "blocked") \/ UNCHANGED result)
      /\ UNCHANGED <<guarded, made, exactFailures, toolFailures>>
  BY DEF HookBlocks, Submit, guardVars
<1>2. result[d] = "none"
  BY <1>1 DEF PlaceInv, PoolInv, PoolOf
<1>3. \A e \in Jobs : result'[e] = result[e] \/ (e = d /\ result'[e] = "blocked")
  BY <1>1 DEF Return, PlaceInv, TypeOK
<1> QED  BY <1>1, <1>2, <1>3, SameFailures

LEMMA PoolFails ==
    ASSUME PlaceInv, FailInv, WorkerTakes \/ \E d \in Jobs : HandlerEnds(d) PROVE FailInv'
<1>1. UNCHANGED <<guarded, made, result, exactFailures, toolFailures>>
  BY DEF WorkerTakes, HandlerEnds, guardVars
<1> QED  BY <1>1, SameFailures

LEMMA WaitFails ==
    ASSUME PlaceInv, FailInv, NEW d \in Jobs, ResultArrives(d) \/ TimesOut(d) PROVE FailInv'
<1>1. PICK r \in {"ok", "command_failed", "runtime_error", "timeout"} :
         /\ stage[d] = "waiting" /\ d \in 1..Len(made) /\ made[d] \in Calls
         /\ Return(d, r)
         /\ r # "timeout" => outcome[d] # "none" /\ UNCHANGED gaveUp /\ AfterCall(d, r # "ok")
         /\ r = "timeout" =>
               /\ gaveUp' = [gaveUp EXCEPT ![made[d]] = @ + 1]
               /\ UNCHANGED <<exactFailures, toolFailures, repeats>>
         /\ UNCHANGED <<guarded, made, queue, executing, outcome, started>>
  BY WaitEnds
<1>2. result'[d] = r /\ \A e \in Jobs : e # d => result'[e] = result[e]
  BY <1>1 DEF Return, PlaceInv, TypeOK
<1>3. result[d] = "none"
  BY <1>1 DEF PlaceInv, PoolInv, PoolOf
<1>4. CASE r = "timeout"
  BY <1>1, <1>2, <1>3, <1>4, SameFailures
<1>5. CASE ~guarded
  BY <1>1, <1>5 DEF FailInv
<1>6. CASE r # "timeout" /\ guarded
  <2>1. BelowLimits(made[d])
    BY <1>1, <1>6 DEF PlaceInv, GuardInv, Outstanding
  <2>2. AfterCall(d, r # "ok") /\ (r # "ok") \in BOOLEAN
    BY <1>1, <1>6
  <2>3. /\ exactFailures' \in [Calls -> Nat]
        /\ \A c \in Calls : exactFailures'[c] >= exactFailures[c]
        /\ Stable(made[d]) /\ r # "ok" => exactFailures'[made[d]] = exactFailures[made[d]] + 1
        /\ r # "ok" => toolFailures' = [toolFailures EXCEPT ![ToolOf[made[d]]] = @ + 1]
        /\ r = "ok" => UNCHANGED toolFailures
    BY <1>1, <1>6, <2>1, <2>2, AfterCallWithinLimits DEF PlaceInv
  <2>4. ASSUME NEW C
        PROVE  /\ Failures(C)' = IF r # "ok" /\ made[d] \in C THEN Failures(C) \cup {d}
                                                               ELSE Failures(C)
               /\ d \notin Failures(C)
    BY <1>1, <1>2, <1>3, <1>6 DEF Failures
  <2>5. ASSUME NEW C
        PROVE  /\ Cardinality(Failures(C)') = IF r # "ok" /\ made[d] \in C
                                              THEN Cardinality(Failures(C)) + 1
                                              ELSE Cardinality(Failures(C))
               /\ Cardinality(Failures(C)) \in Nat
    BY <2>4, FailuresFinite, OneMore
  <2>6. ASSUME NEW t \in Tools PROVE Cardinality(FailuresOf(t)') = toolFailures'[t]
    <3>1. Cardinality(FailuresOf(t)) = toolFailures[t]
      BY <1>6 DEF FailInv
    <3>2. made[d] \in CallsOf(t) <=> t = ToolOf[made[d]]
      BY <1>1 DEF CallsOf
    <3>3. toolFailures \in [Tools -> 0..MaxSame]
      BY DEF PlaceInv, TypeOK
    <3>4. Cardinality(FailuresOf(t)') = IF r # "ok" /\ t = ToolOf[made[d]]
                                        THEN Cardinality(FailuresOf(t)) + 1
                                        ELSE Cardinality(FailuresOf(t))
      BY <2>5, <3>2 DEF FailuresOf, CallsOf
    <3>5. CASE r # "ok" /\ t = ToolOf[made[d]]
      BY <2>3, <3>1, <3>3, <3>4, <3>5
    <3>6. CASE r # "ok" /\ t # ToolOf[made[d]]
      BY <2>3, <3>1, <3>3, <3>4, <3>6
    <3>7. CASE r = "ok"
      BY <2>3, <3>1, <3>4, <3>7
    <3> QED  BY <3>5, <3>6, <3>7
  <2>7. ASSUME NEW c \in Calls, Stable(c)
        PROVE  /\ Cardinality(Failures({c})') <= exactFailures'[c]
               /\ Cardinality(Failures({c})') <= MaxExact
    <3> DEFINE n == Cardinality(Failures({c}))
               m == Cardinality(Failures({c})')
    <3>1. n \in Nat /\ m = IF r # "ok" /\ made[d] = c THEN n + 1 ELSE n
      BY <2>5
    <3>2. n <= exactFailures[c] /\ n <= MaxExact
      BY <1>6, <2>7 DEF FailInv
    <3>3. exactFailures[c] \in Nat /\ exactFailures'[c] \in Nat /\ MaxExact \in Nat
          /\ exactFailures'[c] >= exactFailures[c]
      BY <2>3, LimitAssumption DEF PlaceInv, TypeOK
    <3>4. r # "ok" /\ made[d] = c => /\ exactFailures'[c] = exactFailures[c] + 1
                                     /\ exactFailures[c] < MaxExact
      BY <2>1, <2>3, <2>7 DEF BelowLimits
    <3> HIDE DEF n, m
    <3>5. m <= exactFailures'[c] /\ m <= MaxExact
      BY <3>1, <3>2, <3>3, <3>4
    <3> QED  BY <3>5 DEF m
  <2> QED  BY <2>6, <2>7 DEF FailInv
<1> QED  BY <1>4, <1>5, <1>6

LEMMA NextFails == PlaceInv /\ FailInv /\ [Next]_vars => FailInv'
<1> SUFFICES ASSUME PlaceInv, FailInv, [Next]_vars PROVE FailInv'
  OBVIOUS
<1>1. CASE UNCHANGED vars
  BY <1>1 DEF vars, FailInv, FailuresOf, Failures
<1>2. CASE Next
  BY <1>1, <1>2, CallerFails, HookFails, PoolFails, WaitFails
     DEF Next, Dispatching, Terminated
<1> QED  BY <1>1, <1>2
-----------------------------------------------------------------------------
(* The inductive invariant holds in every reachable state. *)
THEOREM Invariant == Spec => []IInv
<1>1. Init => IInv
  BY InitPlaces, InitCounts, InitFails DEF IInv
<1>2. IInv /\ [Next]_vars => IInv'
  BY NextPlaces, NextCounts, NextFails DEF IInv
<1> QED  BY <1>1, <1>2, PTL DEF Spec

(* Types, and the failures counted for a tool never pass its limit         *)
(* (guardrails.py:32-50).                                                  *)
THEOREM TypeCorrect == Spec => []TypeOK
<1>1. IInv => TypeOK
  BY DEF IInv, PlaceInv
<1> QED  BY <1>1, Invariant, PTL

(* A refused or blocked job never runs, and none runs twice                *)
(* (dispatcher.py:50-179).                                                 *)
THEOREM OnlyAdmittedRun == Spec => []RunsOnlyAdmitted
<1>1. ASSUME IInv PROVE RunsOnlyAdmitted
  <2>1. ASSUME NEW i \in DOMAIN queue
        PROVE  /\ queue[i] \notin executing /\ outcome[queue[i]] = "none"
               /\ result[queue[i]] \in {"none", "timeout"}
    <3>1. queue[i] \in Jobs /\ Queued(queue[i])
      BY <1>1 DEF IInv, PlaceInv, TypeOK, Queued
    <3>2. PoolOf(queue[i])
      BY <1>1, <3>1 DEF IInv, PlaceInv, PoolInv
    <3> QED  BY <3>1, <3>2 DEF PoolOf, Begun
  <2>2. \A d \in Jobs : result[d] = "blocked" => outcome[d] = "none" /\ d \notin executing
    BY <1>1 DEF IInv, PlaceInv, PoolInv, PoolOf, Begun
  <2>3. \A i, j \in DOMAIN queue : queue[i] = queue[j] => i = j
    BY <1>1 DEF IInv, PlaceInv, PoolInv
  <2> QED  BY <2>1, <2>2, <2>3 DEF RunsOnlyAdmitted
<1> QED  BY <1>1, Invariant, PTL

(* A handler nobody waits for was reported as timed out                    *)
(* (dispatcher.py:166-179).                                                *)
THEOREM AbandonedReported == Spec => []AbandonedWereReported
<1>1. ASSUME IInv PROVE AbandonedWereReported
  <2>1. ASSUME NEW d \in Jobs, d \in executing \/ Queued(d), stage[d] # "waiting"
        PROVE  result[d] = "timeout" /\ gaveUp[made[d]] > 0
    <3>1. PoolOf(d) /\ stage[d] \in Stages
      BY <1>1 DEF IInv, PlaceInv, PoolInv, TypeOK
    <3>2. stage[d] = "returned"
      BY <2>1, <3>1 DEF PoolOf, Begun, Stages
    <3> QED  BY <2>1, <3>1, <3>2 DEF PoolOf
  <2> QED  BY <2>1 DEF AbandonedWereReported, Queued
<1> QED  BY <1>1, Invariant, PTL

(* With guardrails the handler of a mutating call that needs no coercion   *)
(* starts at most max_mutating_repeats times, plus once for each timeout   *)
(* reported (guardrails.py:39-50, dispatcher.py:100-120).                  *)
THEOREM RepeatsBounded == Spec => []MutationsBounded
<1>1. ASSUME IInv PROVE MutationsBounded
  <2>1. SUFFICES ASSUME guarded, NEW c \in Calls \cap Mutating, Stable(c)
                 PROVE  started[c] <= MaxRepeats + gaveUp[c]
    BY DEF MutationsBounded
  <2>2. /\ started[c] = Cardinality(JobsBegun(c))
        /\ Cardinality(JobsSettled(c)) <= repeats[c] + gaveUp[c]
        /\ Cardinality(JobsSettled(c)) <= MaxRepeats + gaveUp[c]
        /\ Cardinality(JobsSettled(c)) \in Nat
        /\ repeats[c] \in Nat /\ gaveUp[c] \in Nat /\ MaxRepeats \in Nat
    BY <1>1, <2>1, LimitAssumption, JobsFinite, FS_CardinalityType
       DEF IInv, PlaceInv, TypeOK, CountInv, CountOf
  <2>3. IsFiniteSet(JobsBegun(c)) /\ IsFiniteSet(JobsSettled(c))
    BY <1>1, JobsFinite DEF IInv, PlaceInv
  <2>4. ASSUME NEW d \in JobsBegun(c) PROVE d \in JobsSettled(c) \/ d \in Outstanding
    <3>1. d \in 1..Len(made) /\ d \in Jobs /\ made[d] = c /\ Begun(d)
      BY <1>1, <2>4, MadeJobs DEF JobsBegun, IInv, PlaceInv
    <3>2. PoolOf(d) /\ stage[d] \in Stages
      BY <1>1, <3>1 DEF IInv, PlaceInv, PoolInv, TypeOK
    <3>3. stage[d] \in {"waiting", "returned"} /\ result[d] # "blocked"
      BY <3>1, <3>2 DEF PoolOf, Stages
    <3> QED  BY <3>1, <3>3 DEF JobsSettled, Outstanding
  <2>5. CASE JobsBegun(c) \subseteq JobsSettled(c)
    <3>1. Cardinality(JobsBegun(c)) <= Cardinality(JobsSettled(c))
      BY <2>3, <2>5, FS_Subset
    <3>2. Cardinality(JobsBegun(c)) \in Nat
      BY <2>3, FS_CardinalityType
    <3>3. Cardinality(JobsBegun(c)) <= MaxRepeats + gaveUp[c]
      BY <2>2, <3>1, <3>2
    <3> QED  BY <2>2, <3>3
  <2>6. CASE \E d \in JobsBegun(c) : d \notin JobsSettled(c)
    <3>1. PICK d \in JobsBegun(c) : d \notin JobsSettled(c)
      BY <2>6
    <3>2. d \in Outstanding /\ made[d] = c /\ \A e \in Outstanding : e = d
      BY <1>1, <2>1, <2>4, <3>1 DEF JobsBegun, IInv, PlaceInv, GuardInv
    <3>3. repeats[c] < MaxRepeats
      BY <1>1, <2>1, <3>2 DEF IInv, PlaceInv, GuardInv, BelowLimits
    <3>4. JobsBegun(c) \subseteq JobsSettled(c) \cup {d}
      BY <2>4, <3>2
    <3>5. Cardinality(JobsSettled(c) \cup {d}) = Cardinality(JobsSettled(c)) + 1
          /\ IsFiniteSet(JobsSettled(c) \cup {d})
      BY <2>3, <3>1, FS_AddElement
    <3>6. Cardinality(JobsBegun(c)) <= Cardinality(JobsSettled(c)) + 1
      BY <2>3, <3>4, <3>5, FS_Subset
    <3>7. Cardinality(JobsBegun(c)) \in Nat
      BY <2>3, FS_CardinalityType
    <3>8. Cardinality(JobsBegun(c)) <= MaxRepeats + gaveUp[c]
      BY <2>2, <3>3, <3>6, <3>7
    <3> QED  BY <2>2, <3>8
  <2> QED  BY <2>5, <2>6
<1> QED  BY <1>1, Invariant, PTL

(* With guardrails a tool's calls, coerced or not, fail at most            *)
(* max_same_tool_failures times, and a call that needs no coercion at most *)
(* max_exact_failures times (guardrails.py:32-46).                         *)
THEOREM FailuresStop == Spec => []FailuresBounded
<1>1. ASSUME IInv PROVE FailuresBounded
  <2>1. ASSUME guarded, NEW t \in Tools PROVE Cardinality(Failures(CallsOf(t))) <= MaxSame
    <3>1. Cardinality(FailuresOf(t)) = toolFailures[t] /\ toolFailures[t] \in 0..MaxSame
      BY <1>1, <2>1 DEF IInv, FailInv, PlaceInv, TypeOK
    <3> QED  BY <3>1, LimitAssumption DEF FailuresOf
  <2> QED  BY <1>1, <2>1 DEF FailuresBounded, IInv, FailInv
<1> QED  BY <1>1, Invariant, PTL
=============================================================================
