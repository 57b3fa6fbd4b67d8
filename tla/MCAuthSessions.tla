---------------------------- MODULE MCAuthSessions ----------------------------
(* Small instances of AuthSessions for TLC.                                *)
EXTENDS AuthSessions, TLC

\* No definition tells two values of a kind apart.
Interchangeable ==
    Permutations(Users) \cup Permutations(Sessions) \cup Permutations(Tokens) \cup Permutations(Requests)
=============================================================================
