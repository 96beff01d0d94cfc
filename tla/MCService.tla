----------------------------- MODULE MCService -----------------------------
(* Two processes of one data root, two sessions and an instance of Memos   *)
(* that takes a recording in two parts.                                    *)
EXTENDS Service, TLC

MCSession == {"s1", "s2"}
MCServer == {"small"}
MCPartsUnder == [srv \in MCServer |-> 2]
MCSymmetry == Permutations(Process) \cup Permutations(Refreshes)

=============================================================================
