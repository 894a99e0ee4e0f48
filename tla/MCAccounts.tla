---------------------------- MODULE MCAccounts ----------------------------
(* Small instances of Accounts for TLC. *)
EXTENDS Accounts, TLC

ProgramSymmetry == Permutations(Programs)
AccountSymmetry ==
    Permutations(Programs) \cup Permutations(Nicks) \cup Permutations(Hashes)
===========================================================================
