-------------------------- MODULE MCRegistrations --------------------------
(* Values of the constants of Registrations for model checking. *)
EXTENDS Registrations

CONSTANTS alice

MCOpen == {Everybody}
MCClosed == {Nobody, Everybody}
=============================================================================
