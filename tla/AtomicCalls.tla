---------------------------- MODULE AtomicCalls ----------------------------
(***************************************************************************)
(* What a transaction promises about the calls made while it runs: every   *)
(* call either takes effect as a whole or leaves no trace.                 *)
(*                                                                         *)
(* A transaction opens a tree of calls.  A call that is optional for its   *)
(* caller may fail without harm; a call that is not takes its caller down  *)
(* with it.  Nothing reaches the chain before the transaction ends; what   *)
(* then does is the work of exactly the calls that succeeded, none of      *)
(* whose callers failed.  The specification says nothing of caches, gas,   *)
(* replies or the order of the calls: ContractCalls says how the code      *)
(* keeps this promise.                                                     *)
(***************************************************************************)
EXTENDS Naturals, Sequences

VARIABLES
    chain,   \* the calls of the last transaction whose work is in the state
    calls    \* the calls of the current transaction, in the order they began

vars == <<chain, calls>>

Status == {"open", "ok", "failed"}

\* A caller is 0, the transaction itself, or an earlier call.
Call == [caller : Nat, optional : BOOLEAN, status : Status]

\* The calls whose work must last: they and all their callers succeeded.
Lasting(cs) ==
    LET lasts[c \in DOMAIN cs] ==
            /\ cs[c].status = "ok"
            /\ cs[c].caller # 0 => lasts[cs[c].caller]
    IN {c \in DOMAIN cs : lasts[c]}

\* No call that caller c depends on failed or is still running.
Carried(c) ==
    \A d \in DOMAIN calls :
        calls[d].caller = c =>
            calls[d].status = "ok" \/ (calls[d].status = "failed" /\ calls[d].optional)

Init ==
    /\ chain = {}
    /\ calls = <<>>

\* A new transaction: the record of the previous one is dropped.
Begin ==
    /\ calls' = <<>>
    /\ chain' = {}
    /\ \A c \in DOMAIN calls : calls[c].status # "open"

Open ==
    /\ \E c \in 0 .. Len(calls), opt \in BOOLEAN :
          /\ c # 0 => calls[c].status = "open"
          /\ calls' = Append(calls, [caller |-> c, optional |-> opt, status |-> "open"])
    /\ chain = {}
    /\ UNCHANGED chain

\* A call may always fail; it succeeds only on top of the calls it needs.
Settle ==
    /\ \E c \in DOMAIN calls, status \in {"ok", "failed"} :
          /\ calls[c].status = "open"
          /\ status = "ok" => Carried(c)
          /\ calls' = [calls EXCEPT ![c].status = status]
    /\ UNCHANGED chain

\* The transaction succeeds: all that must last does, and nothing else.
Commit ==
    /\ Carried(0)
    /\ chain' = Lasting(calls)
    /\ UNCHANGED calls

Next == Begin \/ Open \/ Settle \/ Commit

Spec == Init /\ [][Next]_vars
=============================================================================
