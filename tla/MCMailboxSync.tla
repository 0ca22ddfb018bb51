---------------------------- MODULE MCMailboxSync ----------------------------
(* Instances of MailboxSync for TLC.                                       *)
EXTENDS MailboxSync

Values == 0..4
FewValues == 0..3
OneBox == {0}
===============================================================================
