----------------------------- MODULE MCConsole -----------------------------
(***************************************************************************)
(* A screen of two rows of three columns.  Messages keep their shape: the  *)
(* newlines they begin or end with, and printing characters between.       *)
(***************************************************************************)
EXTENDS Console

AllKeys == {"HALT", "REBOOT", "HELP", "MPRINT", "CLEAR", "x"}

OneChar == <<"c">>
OneLine == <<"c", "nl">>
NewLines == <<"nl", "c", "nl">>
TwoNewlines == <<"c", "nl", "nl">>
Nothing == <<>>

(* The heap after read_superblock: one header whose fields the first       *)
(* sector of the superblock has overwritten.                               *)
SuperblockBlock == <<[hdr |-> 20, size |-> 1, free |-> FALSE, data |-> 8192]>>
=============================================================================
