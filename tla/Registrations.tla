---------------------------- MODULE Registrations ----------------------------
(***************************************************************************)
(* Registrations that the owners of contracts make in other modules:       *)
(* staking and governance hooks (x/cw-hooks) and shares of transaction     *)
(* fees (x/feeshare), while the contracts are instantiated, called and     *)
(* given new admins as in module Contracts.  Each module asks the wasm     *)
(* keeper again who the owner is, when a registration is made, changed or  *)
(* removed.                                                                *)
(***************************************************************************)
EXTENDS Contracts

CONSTANTS
    Hook,          \* kinds of hooks: staking, governance
    Withdrawers    \* accounts that messages name to receive fees

VARIABLES
    hooks,                    \* contracts registered for hooks
    enabled,                  \* EnableFeeShare
    shares,                   \* FeeShare rows, by contract
    byDeployer, byWithdrawer  \* DeployerMap, WithdrawerMap

regVars == <<hooks, enabled, shares, byDeployer, byWithdrawer>>

Shared == DOMAIN shares

RegInit ==
    /\ Init
    /\ hooks = {} /\ enabled \in BOOLEAN
    /\ shares = <<>> /\ byDeployer = {} /\ byWithdrawer = {}
-----------------------------------------------------------------------------
(* x/cw-hooks *)

isContractSenderAuthorized(a, c) ==
    /\ c \in Deployed
    /\ contracts[c].creator = a
    /\ contracts[c].admin \in {NoAdmin, a}

handleContractRegister(a, c, hook) ==
    /\ Acting(a)
    /\ <<hook, c>> \notin hooks
    /\ isContractSenderAuthorized(a, c)
    /\ hooks' = hooks \cup {<<hook, c>>}
    /\ UNCHANGED <<params, rows, pos, stack, enabled, shares, byDeployer, byWithdrawer>>

handleContractRemoval(a, c, hook) ==
    /\ Acting(a)
    /\ <<hook, c>> \in hooks
    /\ isContractSenderAuthorized(a, c)
    /\ hooks' = hooks \ {<<hook, c>>}
    /\ UNCHANGED <<params, rows, pos, stack, enabled, shares, byDeployer, byWithdrawer>>
-----------------------------------------------------------------------------
(* x/feeshare *)

\* A contract that governance or another contract administers, or that has no
\* admin and was created by another contract.
GetIfContractWasCreatedFromFactory(c) ==
    LET info == contracts[c]
    IN  IF info.admin = NoAdmin THEN info.creator \in Deployed
        ELSE info.admin = Gov \/ info.admin \in Deployed

\* The admin or, without one, the creator.
GetContractAdminOrCreatorAddress(c) ==
    IF contracts[c].admin = NoAdmin THEN contracts[c].creator ELSE contracts[c].admin

SetFeeShare(c, share) ==
    shares' = [d \in Shared \cup {c} |-> IF d = c THEN share ELSE shares[d]]

RegisterFeeShare(a, c, to) ==
    /\ Acting(a) /\ enabled
    /\ c \in Deployed \ Shared
    /\ LET factory  == GetIfContractWasCreatedFromFactory(c)
           deployer == IF factory THEN c ELSE a
       IN  /\ IF factory THEN to = c ELSE a = GetContractAdminOrCreatorAddress(c)
           /\ SetFeeShare(c, [deployer |-> deployer, withdrawer |-> to])
           /\ byDeployer' = byDeployer \cup {<<deployer, c>>}
           /\ byWithdrawer' = byWithdrawer \cup {<<to, c>>}
    /\ UNCHANGED <<params, rows, pos, stack, hooks, enabled>>

UpdateFeeShare(a, c, to) ==
    /\ Acting(a) /\ enabled
    /\ c \in Shared /\ to # shares[c].withdrawer
    /\ a = GetContractAdminOrCreatorAddress(c)
    /\ byWithdrawer' = (byWithdrawer \ {<<shares[c].withdrawer, c>>}) \cup {<<to, c>>}
    /\ SetFeeShare(c, [shares[c] EXCEPT !.withdrawer = to])
    /\ UNCHANGED <<params, rows, pos, stack, hooks, enabled, byDeployer>>

\* Fault: the row of the sender is removed, not that of the registration.
CancelFeeShareOfSender(a, c) ==
    /\ Acting(a) /\ enabled
    /\ c \in Shared
    /\ a = GetContractAdminOrCreatorAddress(c)
    /\ shares' = Restrict(shares, Shared \ {c})
    /\ byDeployer' = byDeployer \ {<<a, c>>}
    /\ byWithdrawer' = byWithdrawer \ {<<shares[c].withdrawer, c>>}
    /\ UNCHANGED <<params, rows, pos, stack, hooks, enabled>>

CancelFeeShare(a, c) ==
    /\ Acting(a) /\ enabled
    /\ c \in Shared
    /\ a = GetContractAdminOrCreatorAddress(c)
    /\ shares' = Restrict(shares, Shared \ {c})
    /\ byDeployer' = byDeployer \ {<<shares[c].deployer, c>>}
    /\ byWithdrawer' = byWithdrawer \ {<<shares[c].withdrawer, c>>}
    /\ UNCHANGED <<params, rows, pos, stack, hooks, enabled>>

\* MsgUpdateParams of x/feeshare, from governance.
UpdateFeeShareParams(on) ==
    /\ Acting(Gov)
    /\ enabled' = on
    /\ UNCHANGED <<params, rows, pos, stack, hooks, shares, byDeployer, byWithdrawer>>
-----------------------------------------------------------------------------
RegMessage(a, c) ==
    \/ \E hook \in Hook : handleContractRegister(a, c, hook) \/ handleContractRemoval(a, c, hook)
    \/ \E to \in Withdrawers \cup {c} : RegisterFeeShare(a, c, to) \/ UpdateFeeShare(a, c, to)
    \/ CancelFeeShare(a, c)

RegNext ==
    \/ Next /\ UNCHANGED regVars
    \/ \E a \in Actors, c \in Deployed : RegMessage(a, c)
    \/ \E on \in BOOLEAN : UpdateFeeShareParams(on)

RegSpec == RegInit /\ [][RegNext]_<<vars, regVars>>
-----------------------------------------------------------------------------
\* The maps by deployer and by withdrawer have one row each per share, whoever
\* owned the contract when the share was registered, changed and cancelled.
SharesIndexed ==
    /\ byDeployer = {<<shares[c].deployer, c>> : c \in Shared}
    /\ byWithdrawer = {<<shares[c].withdrawer, c>> : c \in Shared}
=============================================================================
