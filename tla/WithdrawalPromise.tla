------------------------- MODULE WithdrawalPromise ------------------------
(***************************************************************************)
(* What a withdrawal promises, without tabs, processes, locks or failures: *)
(* a key is bound to one plan for ever; its sale is recorded, its shares   *)
(* leave the lots, its units are burned, each once, in this order, and     *)
(* each exactly as the plan says.                                          *)
(***************************************************************************)
EXTENDS Integers

CONSTANTS Keys, Plans, Unbound

VARIABLES
    bound,      \* the plan each key is bound to
    traded,     \* keys whose sale is in the Trade Ledger
    out,        \* shares taken out of the lots for each key
    burned      \* units burned for each key

vars == <<bound, traded, out, burned>>

Init ==
    /\ bound = [k \in Keys |-> Unbound]
    /\ traded = {}
    /\ out = [k \in Keys |-> 0]
    /\ burned = [k \in Keys |-> 0]

Bind(k) ==
    /\ bound[k] = Unbound
    /\ bound'[k] \in Plans
    /\ bound' = [bound EXCEPT ![k] = bound'[k]]
    /\ UNCHANGED <<traded, out, burned>>

RecordSale(k) ==
    /\ bound[k] # Unbound /\ k \notin traded
    /\ bound[k].req.sell > 0
    /\ traded' = traded \cup {k}
    /\ UNCHANGED <<bound, out, burned>>

ConsumeLots(k) ==
    /\ k \in traded /\ out[k] = 0
    /\ out' = [out EXCEPT ![k] = bound[k].req.sell]
    /\ UNCHANGED <<bound, traded, burned>>

BurnUnits(k) ==
    /\ bound[k] # Unbound /\ burned[k] = 0
    /\ out[k] = bound[k].req.sell
    /\ burned' = [burned EXCEPT ![k] = bound[k].entry.units]
    /\ UNCHANGED <<bound, traded, out>>

Next == \E k \in Keys :
    Bind(k) \/ RecordSale(k) \/ ConsumeLots(k) \/ BurnUnits(k)

Spec == Init /\ [][Next]_vars
=============================================================================
