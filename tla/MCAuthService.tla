--------------------------- MODULE MCAuthService ----------------------------
(* An instance of AuthService for TLC: callers are interchangeable.        *)
EXTENDS AuthService, TLC

Interchangeable == Permutations(Callers) \cup Permutations(Users)
=============================================================================
