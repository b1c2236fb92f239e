---------------------------- MODULE MCEventPoll -----------------------------
(* EventPoll with two sockets whose queues hold a single entry and polls   *)
(* that report one socket at a time.                                       *)
EXTENDS EventPoll
=============================================================================
