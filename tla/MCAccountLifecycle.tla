----------------------- MODULE MCAccountLifecycle -----------------------
(* AccountLifecycle for TLC: calls and identities are each                 *)
(* interchangeable.                                                        *)
EXTENDS AccountLifecycle, TLC

Interchangeable == Permutations(Call) \cup Permutations(Identity)
=============================================================================
