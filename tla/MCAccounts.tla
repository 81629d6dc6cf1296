----------------------------- MODULE MCAccounts -----------------------------
(***************************************************************************)
(* Instances of Accounts for TLC.                                          *)
(***************************************************************************)
EXTENDS Accounts, TLC

\* Workers, users and tokens are only compared.
Symmetry == Permutations(Workers) \cup Permutations(Users) \cup Permutations(Tokens)
=============================================================================
