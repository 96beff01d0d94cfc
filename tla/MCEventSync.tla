---------------------------- MODULE MCEventSync ----------------------------
(* Instance of EventSync for TLC: a text event, an audio chunk and an      *)
(* event the receiver refuses.                                             *)
EXTENDS EventSync

MCPayload == {"text", "audio", "refused"}
MCAudioPayload == {"audio"}
MCRefused == {"refused"}

=============================================================================
