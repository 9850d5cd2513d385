----------------------------- MODULE MCAccounts -----------------------------
(* Small instances of Accounts: users are alike, and so are requests. *)
EXTENDS Accounts, TLC

Alike == Permutations(Users) \cup Permutations(Requests)
=============================================================================
