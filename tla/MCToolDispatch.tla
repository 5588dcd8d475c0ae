--------------------------- MODULE MCToolDispatch ---------------------------
(***************************************************************************)
(* Instance of ToolDispatch for TLC: a mutating call, the same call with   *)
(* its arguments written as text, and a read, dispatched in every order,   *)
(* and fewer workers than jobs.                                            *)
(***************************************************************************)
EXTENDS ToolDispatch

MCCalls == {"write_a", "write_a_text", "read_a"}
MCTools == {"read", "write"}
MCToolOf == [c \in MCCalls |-> IF c = "read_a" THEN "read" ELSE "write"]
MCMutating == {"write_a", "write_a_text"}
MCCoerced == [c \in MCCalls |-> IF c = "write_a_text" THEN "write_a" ELSE c]
=============================================================================
