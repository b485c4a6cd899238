----------------------------- MODULE MCLoadClient -----------------------------
(* Instances of LoadClient for TLC. *)
EXTENDS LoadClient, TLC

\* Sound for safety: virtual users, tasks and job ids are unordered and unnamed.
Symmetry == Permutations(VUs) \union Permutations(Tasks) \union Permutations(Ids)
=============================================================================
