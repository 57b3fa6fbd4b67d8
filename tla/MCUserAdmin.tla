----------------------------- MODULE MCUserAdmin -----------------------------
(* Small instances of UserAdmin for TLC.                                   *)
EXTENDS UserAdminInvariant, TLC

\* No definition tells two accounts or two requests apart.
Interchangeable == Permutations(Users) \cup Permutations(Requests)
=============================================================================
