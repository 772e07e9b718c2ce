---------------------------- MODULE MCContinual ----------------------------
(* The windows and flags the configurations of Continual choose from.      *)
EXTENDS Continual

OpenWindow   == {[min |-> 1, max |-> 3]}
AnyWindow    == OpenWindow \cup {[min |-> 2, max |-> 2]}
============================================================================
