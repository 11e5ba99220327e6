----------------------------- MODULE MCSessions -----------------------------
(* Instances of Sessions for TLC: the seeded administrator, and one address    *)
(* that two clients want.                                                    *)
EXTENDS Sessions, TLC

SessionSymmetry == Permutations(Requests)
=============================================================================
