----------------------- MODULE MCSharingDetector -----------------------
(* Constant values for the model-checking runs of SharingDetector. *)
EXTENDS SharingDetector, TLC

LadderTwo == <<"1h", "permanent">>
TwoDurations == {"1h", "permanent"}
NoLadder == << >>
BrokerFault == {"broker"}
BrokerAndRestart == {"broker", "restart"}
EveryFault == FaultKinds

(* Goroutines are interchangeable: no definition names one of them. *)
WorkerSymmetry == Permutations(Workers)
=========================================================================
