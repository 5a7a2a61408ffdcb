---------------------------- MODULE MCContracts ----------------------------
(* Values of the constants of Contracts for model checking. *)
EXTENDS Contracts

CONSTANTS alice, bob

MCOpen == {Everybody}
MCListed == {AnyOf({alice})}
MCListEdits == {{bob}}
=============================================================================
