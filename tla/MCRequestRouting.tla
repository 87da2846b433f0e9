-------------------------- MODULE MCRequestRouting --------------------------
(* One announcement that gets in the way of a call, for TLC.               *)
EXTENDS RequestRouting

MCUdpRequests == {Play("tms", "pre")}
=============================================================================
