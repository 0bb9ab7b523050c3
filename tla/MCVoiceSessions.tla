---------------------------- MODULE MCVoiceSessions ----------------------------
(***************************************************************************)
(* Instance of VoiceSessions for TLC.                                      *)
(***************************************************************************)
EXTENDS VoiceSessions

CONSTANTS v1, v2, u1, u2, a1

MCCalls == (Sessions \X {"preflight", "expire"}) \cup (Uploads \X {"complete", "fail"})
             \cup (Admins \X {"admin"})
MCSessionOf == [u \in Uploads |-> v1]

=============================================================================
