---------------------------- MODULE AuditChain ----------------------------
(***************************************************************************)
(* The hash-chained audit log: PostgresAuditAdapter.emit and verify_chain. *)
(*                                                                         *)
(* An emitter drafts an event (the timestamp is drawn then), reads the     *)
(* chain tail of the event's destination with SELECT .. ORDER BY timestamp *)
(* DESC, id DESC LIMIT 1 FOR UPDATE, and inserts the row that links to it, *)
(* in one READ COMMITTED transaction.  SHA-256 over the payload and the    *)
(* previous hash is abstracted to the number of the event: payloads differ *)
(* (actor, resource, correlation id), so hashes do.                        *)
(*                                                                         *)
(* Postgres is external.  What is used of it: a statement sees the rows    *)
(* committed when it starts; a row lock has one holder and is released at  *)
(* the end of the transaction; a statement that waited for a row lock goes *)
(* on with that row when the row was not modified meanwhile; ids are       *)
(* random (gen_random_uuid) and distinct.                                  *)
(***************************************************************************)
EXTENDS Integers, FiniteSets

CONSTANTS Writers,       \* concurrent emitters: requests, workers, CLI runs
          Destinations,  \* the control-plane table and the tenants' tables
          MaxEvents,     \* bound: events ever drafted
          MaxTicks       \* bound: clock ticks besides those of commits

ASSUME AuditAssumption == MaxEvents \in Nat /\ MaxTicks \in Nat

VARIABLES rows,    \* committed tenant_audit rows, of every destination
          clock,   \* the wall clock the drafts read
          ticks,   \* how often the clock has ticked by itself
          issued,  \* events drafted so far
          pc,      \* per emitter: idle, drafted, waiting, inserting
          event,   \* per emitter: the event it is emitting
          tail,    \* per emitter: the tail hash its SELECT returned
          overlapped \* history: destinations with two emits under way at once

vars == <<rows, clock, ticks, issued, pc, event, tail, overlapped>>

GENESIS == 0
NoEvent == [event |-> 0, dest |-> 0, ts |-> 0]
Events == 1..MaxEvents
Draft == [event: Events, dest: Destinations, ts: Nat]
Row == [event: Events, dest: Destinations, ts: Nat, id: Events,
        prev: Events \union {GENESIS}]

-----------------------------------------------------------------------------
(* ORDER BY timestamp, id: the order the tail and verify_chain use. *)
Before(q, r) == q.ts < r.ts \/ (q.ts = r.ts /\ q.id < r.id)
IsTail(S, r) == r \in S /\ \A q \in S : ~Before(r, q)

\* Variant: one table for every destination.
Table_Shared(d) == rows

\* Each destination is a table of its own.
Table(d) == {r \in rows : r.dest = d}

\* Variant: a row may link to any row of the table.
VerifyChain_AnyLink(S) ==
    \A r \in S : r.prev = GENESIS \/ \E q \in S : r.prev = q.event

(* verify_chain over one table: every row links to the row before it, the
   first one to GENESIS_HASH. *)
VerifyChain(S) ==
    \A r \in S :
        LET earlier == {q \in S : Before(q, r)}
        IN  \/ earlier = {} /\ r.prev = GENESIS
            \/ \E q \in earlier : IsTail(earlier, q) /\ r.prev = q.event

\* The row lock of FOR UPDATE is held from the SELECT to COMMIT or ROLLBACK.
Locked(h) == \E v \in Writers : pc[v] = "inserting" /\ tail[v] = h

-----------------------------------------------------------------------------
Init == /\ rows = {}
        /\ clock = 0
        /\ ticks = 0
        /\ issued = 0
        /\ pc = [w \in Writers |-> "idle"]
        /\ event = [w \in Writers |-> NoEvent]
        /\ tail = [w \in Writers |-> GENESIS]
        /\ overlapped = {}

\* An emit to d is under way, from the draft to commit or rollback.
Emitting(w, d) == pc[w] # "idle" /\ event[w].dest = d

Tick == /\ ticks < MaxTicks
        /\ clock' = clock + 1
        /\ ticks' = ticks + 1
        /\ UNCHANGED <<rows, issued, pc, event, tail, overlapped>>

\* The caller builds the AuditEvent: its timestamp defaults to now.
DraftEvent(w, d) ==
    /\ pc[w] = "idle"
    /\ issued < MaxEvents
    /\ issued' = issued + 1
    /\ event' = [event EXCEPT ![w] =
                    [event |-> issued + 1, dest |-> d, ts |-> clock]]
    /\ pc' = [pc EXCEPT ![w] = "drafted"]
    /\ overlapped' = IF \E v \in Writers : Emitting(v, d)
                     THEN overlapped \union {d} ELSE overlapped
    /\ UNCHANGED <<rows, clock, ticks, tail>>

\* Variant: the tail SELECT has no ORDER BY.
ReadTail_Unordered(w) ==
    LET seen == Table(event[w].dest)
    IN  /\ pc[w] = "drafted"
        /\ \/ /\ seen = {}
              /\ tail' = [tail EXCEPT ![w] = GENESIS]
              /\ pc' = [pc EXCEPT ![w] = "inserting"]
           \/ \E r \in seen :
              /\ tail' = [tail EXCEPT ![w] = r.event]
              /\ pc' = [pc EXCEPT ![w] = "waiting"]
        /\ UNCHANGED <<rows, clock, ticks, issued, event, overlapped>>

(* The tail SELECT starts: an empty table has no row to lock, and the
   transaction goes on with GENESIS_HASH. *)
ReadTail(w) ==
    LET seen == Table(event[w].dest)
    IN  /\ pc[w] = "drafted"
        /\ \/ /\ seen = {}
              /\ tail' = [tail EXCEPT ![w] = GENESIS]
              /\ pc' = [pc EXCEPT ![w] = "inserting"]
           \/ \E r \in seen :
              /\ IsTail(seen, r)
              /\ tail' = [tail EXCEPT ![w] = r.event]
              /\ pc' = [pc EXCEPT ![w] = "waiting"]
        /\ UNCHANGED <<rows, clock, ticks, issued, event, overlapped>>

\* Variant: a waiting emitter blocks the others as one that holds the lock.
LockTail_Blocked(w) ==
    /\ pc[w] = "waiting"
    /\ \A v \in Writers \ {w} :
          pc[v] \in {"waiting", "inserting"} => tail[v] # tail[w]
    /\ pc' = [pc EXCEPT ![w] = "inserting"]
    /\ UNCHANGED <<rows, clock, ticks, issued, event, tail, overlapped>>

\* FOR UPDATE gets the row lock; the row was only inserted, never updated.
LockTail(w) ==
    /\ pc[w] = "waiting"
    /\ ~Locked(tail[w])
    /\ pc' = [pc EXCEPT ![w] = "inserting"]
    /\ UNCHANGED <<rows, clock, ticks, issued, event, tail, overlapped>>

(* INSERT and COMMIT.  The round trip takes longer than the microsecond the
   timestamps resolve, so the clock has moved on. *)
NewRow(w, i) == [event |-> event[w].event, dest |-> event[w].dest,
                 ts |-> event[w].ts, id |-> i, prev |-> tail[w]]

InsertRow(w) ==
    /\ pc[w] = "inserting"
    /\ \E i \in Events :
        /\ \A r \in rows : r.id # i
        /\ rows' = rows \union {NewRow(w, i)}
    /\ clock' = clock + 1
    /\ pc' = [pc EXCEPT ![w] = "idle"]
    /\ UNCHANGED <<ticks, issued, event, tail, overlapped>>

\* The statement or the connection fails, or the process dies: rollback.
Rollback(w) ==
    /\ pc[w] # "idle"
    /\ pc' = [pc EXCEPT ![w] = "idle"]
    /\ UNCHANGED <<rows, clock, ticks, issued, event, tail, overlapped>>

\* Nothing is left to emit within the bound.
Quiet == /\ issued = MaxEvents
         /\ \A w \in Writers : pc[w] = "idle"
         /\ UNCHANGED vars

Emit(w) == ReadTail(w) \/ LockTail(w) \/ InsertRow(w)

Next == \/ Tick
        \/ \E w \in Writers : \/ \E d \in Destinations : DraftEvent(w, d)
                              \/ Emit(w)
                              \/ Rollback(w)
        \/ Quiet

(* A started emit is driven by the event loop and the database; Postgres
   queues lock waiters, so a lock that keeps being freed is granted. *)
Fairness == \A w \in Writers : /\ WF_vars(ReadTail(w) \/ InsertRow(w))
                               /\ SF_vars(LockTail(w))

Spec == Init /\ [][Next]_vars /\ Fairness

-----------------------------------------------------------------------------
(* Type invariant: the variables hold rows, drafts and hashes; an emitter
   past its draft carries an event that was issued. *)
TypeOK ==
    /\ rows \subseteq Row
    /\ clock \in Nat
    /\ ticks \in 0..MaxTicks
    /\ issued \in 0..MaxEvents
    /\ pc \in [Writers -> {"idle", "drafted", "waiting", "inserting"}]
    /\ event \in [Writers -> Draft \union {NoEvent}]
    /\ \A w \in Writers : pc[w] # "idle" => event[w] \in Draft
    /\ tail \in [Writers -> Events \union {GENESIS}]
    /\ overlapped \subseteq Destinations

(* A new row links to GENESIS_HASH or to a row that was committed to the same
   table before it: no link to an aborted emit or across tenants. *)
LinksCommitted ==
    [][\A r \in rows' \ rows :
          \/ r.prev = GENESIS
          \/ \E q \in rows : q.dest = r.dest /\ q.event = r.prev]_vars

\* Two rows of one table claim the same predecessor.
Forked(d) == \E q, r \in Table(d) : q # r /\ q.prev = r.prev

(* verify_chain never calls a table intact in which two rows claim the same
   predecessor: a divergence the writers produce is detected. *)
ForkDetected == \A d \in Destinations : VerifyChain(Table(d)) => ~Forked(d)

(* A table to which one event was emitted after the other verifies, whatever
   was rolled back and whatever happened to the other tables. *)
SequentialIntact ==
    \A d \in Destinations : d \in overlapped \/ VerifyChain(Table(d))

(* The adapter's claim (D37): the lock on the tail row blocks any other writer
   reading the tail, so two writers cannot read the same tail row. *)
NoDivergence ==
    \A q, r \in rows : q # r /\ q.dest = r.dest /\ q.prev = r.prev
                        => q.prev = GENESIS

\* Every emit ends: no emitter waits for the tail lock for ever.
EmitEnds == \A w \in Writers : pc[w] # "idle" ~> pc[w] = "idle"

=============================================================================
