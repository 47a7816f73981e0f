----------------------------- MODULE MCCatalog -----------------------------
(* Instances of Catalog for TLC. *)
EXTENDS Catalog, TLC

CONSTANTS d1, d2, k1, k2, r1, r2

c1 == [vis |-> 10, max |-> 1]
c2 == [vis |-> 20, max |-> 2]
MCHard == [vis |-> 300, max |-> 3]
Nothing == [vis |-> 0, max |-> 0]
MCWants == {[vis |-> 0, max |-> 5], [vis |-> 50, max |-> 0]}
OneDefault == {c1}
TwoDefaults == {c1, c2}
NothingGiven == {Nothing}

WorkflowOps == {"create", "update", "delete", "task"}

ReqSymmetry == Permutations(Req)
=============================================================================
