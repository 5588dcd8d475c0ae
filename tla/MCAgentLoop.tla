----------------------------- MODULE MCAgentLoop -----------------------------
(***************************************************************************)
(* Instance of AgentLoop for TLC: one read and two mutating calls of one   *)
(* tool that share a failure shape, and the shipped profiles scaled down.  *)
(***************************************************************************)
EXTENDS AgentLoop

MCCalls == {"read_a", "write_a", "write_b"}
MCTools == {"read", "write"}
MCReads == {"read"}
MCToolOf == [c \in MCCalls |-> IF c = "read_a" THEN "read" ELSE "write"]
MCShapeOf == [c \in MCCalls |-> IF c = "read_a" THEN "r" ELSE "w"]

(* small: one call per turn, soft strict output. *)
Small == [oneCall |-> TRUE, batch |-> FALSE, strict |-> "soft", perTurn |-> 1,
          perSession |-> 2, toolRetries |-> 0, parserRetries |-> 1, maxTurns |-> 3]
(* small with enough turns for the limit of a tool. *)
Long == [Small EXCEPT !.perSession = 4, !.parserRetries = 0, !.maxTurns = 4]
(* balanced: several calls per turn, strict output. *)
Balanced == [oneCall |-> FALSE, batch |-> FALSE, strict |-> "strict", perTurn |-> 2,
             perSession |-> 3, toolRetries |-> 1, parserRetries |-> 0, maxTurns |-> 2]
(* balanced with a per-turn limit below the answers of the model. *)
Narrow == [Balanced EXCEPT !.perTurn = 1, !.maxTurns = 1]
(* deep: concurrent dispatch, no strict output. *)
Deep == [oneCall |-> FALSE, batch |-> TRUE, strict |-> "off", perTurn |-> 2,
         perSession |-> 2, toolRetries |-> 1, parserRetries |-> 0, maxTurns |-> 2]
MCProfiles == {Small, Long, Balanced, Narrow, Deep}
=============================================================================
