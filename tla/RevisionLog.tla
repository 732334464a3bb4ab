---------------------------- MODULE RevisionLog ----------------------------
(***************************************************************************)
(* What a revision history promises (D31, D109): a single line of sealed   *)
(* revisions numbered from one, each bound to the hash of the one before.  *)
(* Gold sets implement it.                                                 *)
(***************************************************************************)
EXTENDS Naturals

VARIABLES head,  \* number of the newest sealed revision, 0 before the first
          link   \* per sealed revision: the number whose hash it binds

Init == head = 0 /\ link = [n \in 1..0 |-> 0]

\* Sealing a revision adds it after the head and touches no other.
Seal == /\ head' = head + 1
        /\ link' = [n \in 1..(head + 1) |-> IF n = head + 1 THEN head
                                                            ELSE link[n]]

Spec == Init /\ [][Seal]_<<head, link>>
=============================================================================
