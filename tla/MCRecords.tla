------------------------------ MODULE MCRecords ------------------------------
(* Records on small instances: two devices, of one account or of two.      *)
EXTENDS Records, TLC

CONSTANTS d1, d2

OneAccount == [d \in Device |-> 1]
TwoAccounts == (d1 :> 1) @@ (d2 :> 2)

\* The devices of one account are alike, and so are the objects.
Alike == Permutations(Device) \cup Permutations(Object)
=============================================================================
