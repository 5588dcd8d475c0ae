----------------------------- MODULE TaskSchedule -----------------------------
(***************************************************************************)
(* What the orchestration of a group promises for the tasks of one         *)
(* request: a plan is fixed once, a task is begun only when every task it  *)
(* needs has come to its end, and every task is begun and ended at most    *)
(* once.  How tasks are grouped and how many run at a time is left open.   *)
(***************************************************************************)
EXTENDS Integers

CONSTANT Plans      \* the dependency maps a plan may have, each task |-> tasks it needs

VARIABLES
    needs,          \* the plan in force: task |-> the tasks it needs
    state           \* task |-> "waiting", "running", or how it ended

Ends == {"ok", "error", "skipped"}

Init == needs = <<>> /\ state = <<>>

Fix ==
    /\ needs = <<>> /\ state = <<>>
    /\ needs' \in Plans
    /\ state' = [t \in DOMAIN needs' |-> "waiting"]

Ready(t) == state[t] = "waiting" /\ \A d \in needs[t] : state[d] \in Ends

Begin(t) ==
    /\ Ready(t)
    /\ \E s \in {"running", "error", "skipped"} : state' = [state EXCEPT ![t] = s]
    /\ UNCHANGED needs

End(t) ==
    /\ state[t] = "running"
    /\ \E s \in {"ok", "error"} : state' = [state EXCEPT ![t] = s]
    /\ UNCHANGED needs

Next == Fix \/ \E t \in DOMAIN needs : Begin(t) \/ End(t)

Spec == Init /\ [][Next]_<<needs, state>>
=============================================================================
