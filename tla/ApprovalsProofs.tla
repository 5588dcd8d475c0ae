--------------------------- MODULE ApprovalsProofs ---------------------------
(***************************************************************************)
(* Proofs about Approvals, for any set of calls and any manifest.          *)
(*                                                                         *)
(* The invariant says, for each call, what its stage tells about the other *)
(* variables: only a terminal leads to "prompting" and only its absence to *)
(* "waiting", a waiting hook finds its event set, and the status of its    *)
(* request is pending or what the API put there.  RunsApproved needs       *)
(* RecordMatchesRun (a call that ran is not pending any more, so that the  *)
(* API cannot touch it), and both need the link between thread and line.   *)
(***************************************************************************)
EXTENDS Approvals, TLAPS

Waiting(r) ==
    stage[r] = "waiting" =>
        /\ ~interactive /\ signalled[r] /\ patience # "text"
        /\ status[r] \in {"pending", "approved", "denied"}
        /\ status[r] # "pending" => accepted[r] = status[r]

Asked(r) ==
    /\ stage[r] = "idle" => accepted[r] = "none" /\ thread[r] = "none"
    /\ stage[r] = "prompting" => interactive
    /\ stage[r] = "raised" => ~interactive
    /\ stage[r] \notin {"idle", "returned"} => RequiresApproval(r)

Decided(r) ==
    stage[r] = "returned" /\ RequiresApproval(r) =>
        /\ status[r] \in {"approved", "denied", "timeout", "pending"}
        /\ status[r] = "pending" => outcome[r] = "pending"
        /\ interactive => status[r] \in {"approved", "denied"}

LineRead(r) == line[r] # "none" => thread[r] = "done"

RunOf(r) ==
    /\ verdict[r] = "run" /\ RequiresApproval(r) /\ stage[r] = "returned" => Approved(r)
    /\ stage[r] = "returned" /\ RequiresApproval(r) =>
          IF outcome[r] = "pending"
          THEN ~interactive /\ verdict[r] = "blocked" /\ status[r] \in {"pending", accepted[r]}
          ELSE status[r] = outcome[r] /\ (verdict[r] = "run" <=> status[r] = "approved")
    /\ ~interactive /\ patience # "zero" /\ accepted[r] # "none" => status[r] = accepted[r]

Good(r) == Waiting(r) /\ Asked(r) /\ Decided(r) /\ LineRead(r) /\ RunOf(r)

IInv == TypeOK /\ \A r \in Requests : Good(r)

(* The initial states satisfy the invariant. *)
LEMMA InitInvariant == Init => IInv
BY DEF Init, IInv, TypeOK, Good, Waiting, Asked, Decided, LineRead, RunOf, Stages, Statuses

(* The end of a request, with status s and for a reason that makes it      *)
(* approved only if somebody approved it, preserves the invariant.         *)
LEMMA ResolvePreserves ==
    ASSUME IInv, NEW r \in Requests, NEW s \in Statuses \ {"none"},
           Resolve(r, s), RequiresApproval(r),
           s = "approved" => Approved(r),
           interactive => s \in {"approved", "denied"},
           ~interactive /\ patience # "zero" /\ accepted[r] # "none" => s = accepted[r],
           UNCHANGED <<config, terminal, accepted>>
    PROVE  IInv'
<1> USE DEF IInv, config, terminal
<1>1. TypeOK'
  BY DEF TypeOK, Resolve, Verdict, Stages, Statuses
<1>2. ASSUME NEW q \in Requests PROVE Good(q)'
  <2>1. CASE q = r
    BY <2>1 DEF TypeOK, Resolve, Verdict, Statuses, Good, Waiting, Asked, Decided, LineRead,
                RunOf, Approved, RequiresApproval
  <2>2. CASE q # r
    BY <2>2 DEF TypeOK, Resolve, Good, Waiting, Asked, Decided, LineRead, RunOf, Approved,
                RequiresApproval
  <2> QED  BY <2>1, <2>2
<1> QED  BY <1>1, <1>2

(* The steps of the hook of one call preserve the invariant. *)
LEMMA HookPreserves ==
    ASSUME IInv, NEW r \in Requests, Hook(r) PROVE IInv'
<1> USE DEF IInv
<1>0. TypeOK /\ Good(r)
  OBVIOUS
<1>1. CASE Skip(r)
  BY <1>1 DEF Skip, TypeOK, config, terminal, Stages, Statuses, Good, Waiting, Asked,
              Decided, LineRead, RunOf, Approved, RequiresApproval
<1>2. CASE Prompt(r)
  <2>1. PICK t \in {"queued", "none"} : thread' = [thread EXCEPT ![r] = t]
    BY <1>2 DEF Prompt
  <2>2. TypeOK'
    BY <1>2, <2>1 DEF Prompt, Asks, TypeOK, config, Stages, Statuses
  <2>3. ASSUME NEW q \in Requests PROVE Good(q)'
    BY <1>2, <2>1 DEF Prompt, Asks, TypeOK, config, Stages, Statuses, Good, Waiting, Asked,
                      Decided, LineRead, RunOf, Approved, RequiresApproval
  <2> QED  BY <2>2, <2>3
<1>3. CASE PromptFails(r)
  BY <1>3, ResolvePreserves DEF PromptFails, Asks, Statuses
<1>4. CASE PromptAnswered(r)
  <2>1. interactive /\ RequiresApproval(r)
    BY <1>0, <1>4 DEF PromptAnswered, Good, Asked
  <2>2. line[r] = "yes" => Approved(r)
    BY <2>1 DEF Approved
  <2> QED  BY <1>4, <2>1, <2>2, ResolvePreserves DEF PromptAnswered, Statuses
<1>5. CASE PromptExpires(r)
  <2>1. interactive /\ RequiresApproval(r)
    BY <1>0, <1>5 DEF PromptExpires, Good, Asked
  <2> QED  BY <1>5, <2>1, ResolvePreserves DEF PromptExpires, Statuses
<1>6. CASE ApproveRead(r)
  <2>1. accepted[r] = "none" /\ Approved(r)
    BY <1>0, <1>6 DEF ApproveRead, Asks, Approved, Good, Asked
  <2> QED  BY <1>6, <2>1, ResolvePreserves DEF ApproveRead, Asks, Statuses
<1>7. CASE WaitForApi(r)
  BY <1>7 DEF WaitForApi, Asks, TypeOK, config, terminal, Stages, Statuses, Good, Waiting,
              Asked, Decided, LineRead, RunOf, Approved, RequiresApproval
<1>8. CASE WaitRaises(r)
  BY <1>8 DEF WaitRaises, Asks, TypeOK, config, terminal, Stages, Statuses, Good, Waiting,
              Asked, Decided, LineRead, RunOf, Approved, RequiresApproval
<1>9. CASE WaitReturns(r)
  <2>1. ~interactive /\ RequiresApproval(r) /\ status[r] \in {"pending", "approved", "denied"}
        /\ (status[r] # "pending" => accepted[r] = status[r])
    BY <1>0, <1>9 DEF WaitReturns, Good, Waiting, Asked
  <2>2. status[r] = "approved" => Approved(r)
    BY <2>1 DEF Approved
  <2>3. ~interactive /\ patience # "zero" /\ accepted[r] # "none" => status[r] = accepted[r]
    BY <1>0 DEF Good, RunOf
  <2> QED  BY <1>9, <2>1, <2>2, <2>3, ResolvePreserves DEF WaitReturns, Statuses
<1>10. CASE WaitExpires(r)
  <2>1. ~interactive /\ RequiresApproval(r) /\ patience = "zero"
    BY <1>0, <1>10 DEF WaitExpires, Good, Waiting, Asked
  <2> QED  BY <1>10, <2>1, ResolvePreserves DEF WaitExpires, Statuses
<1> QED  BY <1>1, <1>2, <1>3, <1>4, <1>5, <1>6, <1>7, <1>8, <1>9, <1>10 DEF Hook

(* The terminal, the people at it and the people at the web page preserve  *)
(* the invariant.                                                          *)
LEMMA PeoplePreserve ==
    ASSUME IInv, NEW r \in Requests, ShowPrompt(r) \/ People(r) PROVE IInv'
<1> USE DEF IInv, config, TypeOK, Good, Waiting, Asked, Decided, LineRead, RunOf, Approved,
            RequiresApproval
<1>1. CASE ShowPrompt(r)
  BY <1>1 DEF ShowPrompt
<1>2. CASE ReadLine(r)
  BY <1>2 DEF ReadLine
<1>3. CASE \E a \in {"approved", "denied"} : ApiAnswers(r, a)
  <2>1. PICK a \in {"approved", "denied"} : ApiAnswers(r, a)
    BY <1>3
  <2>2. TypeOK'
    BY <2>1 DEF ApiAnswers, terminal, Statuses, Stages
  <2>3. ASSUME NEW q \in Requests PROVE Good(q)'
    BY <2>1 DEF ApiAnswers, terminal, Statuses
  <2> QED  BY <2>2, <2>3
<1> QED  BY <1>1, <1>2, <1>3 DEF People

(* Every step preserves the invariant. *)
LEMMA NextInvariant == IInv /\ [Next]_vars => IInv'
<1> SUFFICES ASSUME IInv, [Next]_vars PROVE IInv'
  OBVIOUS
<1>1. CASE UNCHANGED vars
  BY <1>1 DEF IInv, vars, TypeOK, Good, Waiting, Asked, Decided, LineRead, RunOf, Approved,
              RequiresApproval
<1>2. CASE \E r \in Requests : Hook(r) \/ ShowPrompt(r) \/ People(r)
  BY <1>2, HookPreserves, PeoplePreserve
<1> QED  BY <1>1, <1>2 DEF Next, Terminated

(* The inductive invariant holds in every reachable state. *)
THEOREM Invariant == Spec => []IInv
<1> QED  BY InitInvariant, NextInvariant, PTL DEF Spec

(* Every variable keeps its type, and a call that has not been asked about *)
(* has neither a request nor a verdict.                                    *)
THEOREM TypeCorrect == Spec => []TypeOK
<1>1. IInv => TypeOK
  BY DEF IInv
<1> QED  BY <1>1, Invariant, PTL

(* A request that was answered lets its call run only if it was approved,  *)
(* by the channel that counts and for that call (core.py:92-119, 152-159). *)
THEOREM RunsWereApproved == Spec => []RunsApproved
<1>1. IInv => RunsApproved
  BY DEF IInv, Good, RunOf, RunsApproved
<1> QED  BY <1>1, Invariant, PTL

(* A request the hook settled agrees for good with what ran, and a record  *)
(* that does not is one given up unanswered (hitl_api.py:57-98).           *)
THEOREM RecordsMatch == Spec => []RecordMatchesRun
<1>1. IInv => RecordMatchesRun
  BY DEF IInv, Good, RunOf, RecordMatchesRun
<1> QED  BY <1>1, Invariant, PTL

(* Without a terminal and with a timeout above zero, an accepted answer of *)
(* the API stays in the store (hitl_api.py:67-69, core.py:110-118).        *)
THEOREM AnswersStand == Spec => []AnswerStands
<1>1. IInv => AnswerStands
  BY DEF IInv, Good, RunOf, AnswerStands
<1> QED  BY <1>1, Invariant, PTL
=============================================================================
