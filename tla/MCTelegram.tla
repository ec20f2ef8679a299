----------------------------- MODULE MCTelegram -----------------------------
(* A bridge with few users, turns and prompts for TLC. *)
EXTENDS Telegram
=============================================================================
