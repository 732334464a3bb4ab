----------------------------- MODULE TrackedRuns -----------------------------
(***************************************************************************)
(* What evaluation runs and optimization runs promise (D110, D111): a run  *)
(* is running while its records are written, it ends once, as completed or *)
(* as failed, nothing is written to it after that, and the event that ends *)
(* its audit trail comes after the row and agrees with it.                 *)
(***************************************************************************)
EXTENDS Sequences

CONSTANT Ids

VARIABLES status,  \* per run: none, running, completed, failed
          records, \* per run: what it has written
          ended    \* per run: the terminal events in the audit chain

vars == <<status, records, ended>>

Init == status = [i \in Ids |-> "none"] /\ ended = [i \in Ids |-> <<>>]

Start(i) == /\ status[i] = "none"
            /\ status' = [status EXCEPT ![i] = "running"]
            /\ UNCHANGED <<records, ended>>

Write(i) == /\ status[i] = "running"
            /\ \A j \in Ids \ {i} : records'[j] = records[j]
            /\ UNCHANGED <<status, ended>>

Finish(i) == /\ status[i] = "running"
             /\ \E s \in {"completed", "failed"} :
                   status' = [status EXCEPT ![i] = s]
             /\ UNCHANGED <<records, ended>>

AuditEnd(i) == /\ status[i] \in {"completed", "failed"} /\ ended[i] = <<>>
               /\ ended' = [ended EXCEPT ![i] = <<status[i]>>]
               /\ UNCHANGED <<status, records>>

Next == \E i \in Ids : Start(i) \/ Write(i) \/ Finish(i) \/ AuditEnd(i)

Spec == Init /\ [][Next]_vars
=============================================================================
