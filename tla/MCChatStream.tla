---------------------------- MODULE MCChatStream ----------------------------
(* ChatStream with a few sends. *)
EXTENDS ChatStream
=============================================================================
