--------------------------- MODULE MCUploadQueue ---------------------------
(* Instances of UploadQueue for TLC: one page with every kind of fault, or *)
(* with those that leave the store alone, and two pages without faults.    *)
EXTENDS UploadQueue

MCEveryFault == FaultKind
MCFaultsOutside == {"upload", "reload", "others"}
MCNoFault == {}

=============================================================================
