---------------------------- MODULE MCGmailSync ----------------------------
(* GmailSync on instances TLC can check. *)
EXTENDS GmailSync

\* Two polls that may overlap and one fault.
TwoPolls == [manual |-> 1, reconnect |-> 1, fault |-> 1]
=============================================================================
