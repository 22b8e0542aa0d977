----------------------------- MODULE MCTelegram -----------------------------
(* Instances of Telegram for TLC. *)
EXTENDS TelegramProps, TLC

PrivateAndGroup == <<"private", "group">>
=============================================================================
