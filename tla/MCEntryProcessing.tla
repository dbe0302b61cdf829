-------------------------- MODULE MCEntryProcessing --------------------------
(* Constants of EntryProcessing for TLC: two networks of two mobile carriers. *)
EXTENDS EntryProcessing, TLC

CONSTANTS i1, i2
Addresses == {i1, i2}
Nets == i1 :> "a" @@ i2 :> "b"
MobileNets == i1 :> "m" @@ i2 :> "n"
Interchangeable == Permutations(Workers)
=============================================================================
