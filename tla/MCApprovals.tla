---------------------------- MODULE MCApprovals ----------------------------
(***************************************************************************)
(* Instance of Approvals for TLC: two destructive calls, so that a prompt  *)
(* can queue behind an abandoned one, a read the manifest lists for denial *)
(* and a destructive call it lists for approval.                           *)
(***************************************************************************)
EXTENDS Approvals

MCRequests == {"delete_1", "delete_2", "read", "trusted"}
MCAutoApproved == {"trusted"}
MCAutoDenied == {"read"}
MCReads == {"read"}
MCRuled == {"delete_1", "delete_2", "trusted"}
=============================================================================
