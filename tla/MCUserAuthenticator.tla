------------------------ MODULE MCUserAuthenticator ------------------------
(* TLC instances of UserAuthenticator. *)
EXTENDS UserAuthenticator

\* Sessions are interchangeable; so are the accounts.
Symmetry == Permutations(Sessions) \cup Permutations(Accounts)
=============================================================================
