---------------------------- MODULE AccessConfig ----------------------------
(***************************************************************************)
(* Access configurations of the wasm module (x/wasm/types) and the         *)
(* authorization policies that decide with them (x/wasm/keeper).  A policy *)
(* is "default", "gov", or the name of the one action for which a sub      *)
(* message of governance keeps its power ("instantiate", "migrate").       *)
(***************************************************************************)

AccessTypes == {"Nobody", "AnyOfAddresses", "Everybody"}

Nobody    == [permission |-> "Nobody", addresses |-> {}]
Everybody == [permission |-> "Everybody", addresses |-> {}]
AnyOf(S)  == [permission |-> "AnyOfAddresses", addresses |-> S]

\* AccessType.With
With(type, actor) ==
    IF type = "AnyOfAddresses" THEN AnyOf({actor})
                               ELSE [permission |-> type, addresses |-> {}]

Allowed(config, actor) ==
    \/ config.permission = "Everybody"
    \/ config.permission = "AnyOfAddresses" /\ actor \in config.addresses

\* AccessType.IsSubset compares the permissions alone ...
TypeIsSubset(type, super) ==
    \/ super = "Everybody"
    \/ type = "Nobody"
    \/ super = "AnyOfAddresses" /\ type = "AnyOfAddresses"

\* ... AccessConfig.IsSubset the lists as well.
IsSubset(config, super) ==
    IF super.permission = "AnyOfAddresses"
    THEN \/ config.permission = "Nobody"
         \/ config.permission = "AnyOfAddresses" /\ config.addresses \subseteq super.addresses
    ELSE TypeIsSubset(config.permission, super.permission)

CanCreateCode(policy, upload, default, actor, config) ==
    policy = "gov" \/ (Allowed(upload, actor) /\ IsSubset(config, default))

CanInstantiateContract(policy, config, actor) ==
    policy \in {"gov", "instantiate"} \/ Allowed(config, actor)

CanModifyContract(policy, admin, actor) ==
    policy \in {"gov", "migrate"} \/ admin = actor

CanModifyCodeAccessConfig(policy, creator, actor, subset) ==
    policy = "gov" \/ (creator = actor /\ subset)

\* Fault: a sub message of governance acts with all its power.
KeepPolicy(policy, action, propagate) == policy

\* The policy the messages of a called contract are judged by.
SubMessageAuthorizationPolicy(policy, action, propagate) ==
    IF policy = "gov" THEN IF action \in propagate THEN action ELSE "default"
                      ELSE policy
=============================================================================
