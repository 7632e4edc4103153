---------------------------- MODULE MCDeskAgent ----------------------------
(* Small instances of DeskAgent for TLC: see MCDesk.cfg and MCDeskRerun.cfg. *)
EXTENDS DeskAgent
=============================================================================
