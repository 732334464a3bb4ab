------------------------------ MODULE RunLedger ------------------------------
(***************************************************************************)
(* What an invocation leaves behind (D26, D95): a start row in the audit   *)
(* chain, at most one end row after it, and at most one run row, written   *)
(* last and never without the start row.  A run row with an end hash       *)
(* repeats the end row; one without says that the run failed.              *)
(***************************************************************************)
EXTENDS Naturals

VARIABLES starts, ends, runs

vars == <<starts, ends, runs>>

Init == starts = 0 /\ ends = {} /\ runs = {}

Start == /\ starts = 0 /\ runs = {}
         /\ starts' = 1
         /\ UNCHANGED <<ends, runs>>

End == /\ starts = 1 /\ ends = {} /\ runs = {}
       /\ \E e \in ends' : ends' = {e} /\ e.reason # "failed"
       /\ UNCHANGED <<starts, runs>>

Repeats(r, e) == /\ r.hasEnd = 1 /\ r.reason = e.reason
                 /\ r.iterations = e.iterations /\ r.cost = e.cost

Record == /\ starts = 1 /\ runs = {}
          /\ \E r \in runs' : /\ runs' = {r}
                              /\ \/ \E e \in ends : Repeats(r, e)
                                 \/ r.hasEnd = 0 /\ r.reason = "failed"
          /\ UNCHANGED <<starts, ends>>

Spec == Init /\ [][Start \/ End \/ Record]_vars
=============================================================================
