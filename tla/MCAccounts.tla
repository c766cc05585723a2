----------------------------- MODULE MCAccounts -----------------------------
(* Instances of Accounts for TLC.                                           *)
EXTENDS Accounts, TLC

CONSTANTS u1, h1, h2

\* The requests are interchangeable.
HandlerSymmetry == Permutations({h1, h2})
=============================================================================
