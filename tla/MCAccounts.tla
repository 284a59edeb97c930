----------------------------- MODULE MCAccounts -----------------------------
(* Instances of Accounts for TLC: constants a .cfg cannot write. *)
EXTENDS Accounts, TLC
Symmetric == Permutations(Browsers) \cup Permutations(Passwords)
=============================================================================
