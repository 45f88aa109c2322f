------------------------------- MODULE MCReactor -------------------------------
(* A small reactor for TLC: every connection can be replied to. *)
EXTENDS Reactor

MCReply == [conn : ConnIds]

(* Two replies under way in the one run, one in the other. *)
MCTwo == {0, 1}
MCOne == {0}
================================================================================
