-------------------------- MODULE MCCloudReceiver --------------------------
(* Instances of CloudReceiver for TLC: two events, the first one a chunk.  *)
(* Runs of an agent are interchangeable, and so are its answers.           *)
EXTENDS CloudReceiver, TLC

MCChunk == {"chunk"}
MCSymmetry == Permutations(Runner) \cup Permutations(AgentName)

MCLocal == <<"chunk", "text">>

=============================================================================
