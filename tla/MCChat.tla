------------------------------- MODULE MCChat -------------------------------
(* Instances of Chat for TLC: constants a .cfg cannot write. *)
EXTENDS Chat
=============================================================================
