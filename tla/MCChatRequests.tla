---------------------------- MODULE MCChatRequests -----------------------------
(***************************************************************************)
(* Two requests of one conversation: each makes at most one connection,    *)
(* and either may supersede, fall back and close the connection of the     *)
(* other.                                                                  *)
(***************************************************************************)
EXTENDS ChatRequests
===============================================================================
