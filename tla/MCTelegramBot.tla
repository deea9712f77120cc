---------------------------- MODULE MCTelegramBot ----------------------------
(***************************************************************************)
(* TelegramBot with a few updates and two of three troubles: a crash, a    *)
(* failing call, a mail handled at the same time.                          *)
(***************************************************************************)
EXTENDS TelegramBot

Trouble(n) == [event \in Outside |-> n]
TwoTroubles == {[Trouble(1) EXCEPT ![event] = 0] : event \in Outside}
OneCrash == {[Trouble(0) EXCEPT !["crash"] = 1]}
NoTrouble == {Trouble(0)}
=============================================================================
