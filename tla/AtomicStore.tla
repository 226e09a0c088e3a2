----------------------------- MODULE AtomicStore -----------------------------
(***************************************************************************)
(* What the mandate needs of its store: a record is replaced whole or not  *)
(* at all, and stays until it is replaced -- unless the power fails, when  *)
(* it may be an earlier one again.                                         *)
(***************************************************************************)
CONSTANTS Identity, Value, None, PowerMayFail

VARIABLES
    record,   \* the record of each identity, None before the first
    past      \* the records each identity has had

vars == <<record, past>>

Init ==
    /\ record = [k \in Identity |-> None]
    /\ past = [k \in Identity |-> {None}]

Put(k, v) ==
    /\ record' = [record EXCEPT ![k] = v]
    /\ past' = [past EXCEPT ![k] = @ \cup {v}]

FallBack ==
    /\ PowerMayFail
    /\ \A k \in Identity : record'[k] \in past[k]
    /\ record' = [k \in Identity |-> record'[k]]
    /\ UNCHANGED past

Next == FallBack \/ \E k \in Identity, v \in Value : Put(k, v)

Spec == Init /\ [][Next]_vars
=============================================================================
