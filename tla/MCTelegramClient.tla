-------------------------- MODULE MCTelegramClient --------------------------
(* Instances of TelegramClient for TLC. *)
EXTENDS TelegramClient, TLC

Symmetry == Permutations(Calls)
=============================================================================
