-------------------------- MODULE MCSmartAccounts --------------------------
\* An instance of SmartAccounts for TLC.
EXTENDS SmartAccounts

CONSTANTS user, officer

Leaf == [op |-> "leaf"]
Both == [op |-> "AllOf", subs |-> <<Leaf, Leaf>>]
Either == [op |-> "AnyOf", subs |-> <<Both, Leaf>>]

MCTree == {Leaf, Both, Either}
MCSize == [t \in MCTree |-> CASE t = Leaf -> 1 [] t = Both -> 3 [] t = Either -> 5]
MCGenesisRows == {[account |-> user, id |-> 1, tree |-> Either],
                  [account |-> officer, id |-> 2, tree |-> Leaf]}
MCMessage ==
    {[signer |-> a, do |-> "other"] : a \in {user, officer}}
    \cup {[signer |-> user, do |-> "add", tree |-> Leaf]}
    \cup {[signer |-> user, do |-> "remove", id |-> i] : i \in {1, 3}}
    \cup {[signer |-> officer, do |-> "active", to |-> FALSE]}
=============================================================================
