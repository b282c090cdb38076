------------------------------ MODULE MCDaemon ------------------------------
(***************************************************************************)
(* Small instances of Daemon.                                              *)
(***************************************************************************)
EXTENDS Daemon, TLC

CONSTANTS ann, bob, b1, b2

InOrder == <<ann, bob>>

TwoAlike == {<<ann, bob>>, <<bob, ann>>}
=============================================================================
