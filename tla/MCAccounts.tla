----------------------------- MODULE MCAccounts -----------------------------
(* Accounts on a small instance. *)
EXTENDS Accounts

TwoClients == {1, 2}
=============================================================================
