-------------------------- MODULE MCClientSession --------------------------
(* One page, two users who share it, a change and a question who the user is at a time. *)
EXTENDS ClientSession
============================================================================
