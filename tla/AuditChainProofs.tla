------------------------- MODULE AuditChainProofs -------------------------
(***************************************************************************)
(* Proofs about AuditChain, for any number of emitters, tables and events, *)
(* and about the page walks of AuditPages, for any number of consumers,    *)
(* any filters and any page sizes.                                         *)
(***************************************************************************)
EXTENDS AuditPages, TLAPS, FiniteSetTheorems, WellFoundedInduction

(* What the emitters and the rows know of each other: rows carry issued,
   pairwise different events and ids, an emitter's event is its own, and the
   tail it read is a committed row of the same table. *)
IInv ==
    /\ TypeOK
    /\ \A r \in rows : r.event <= issued
    /\ \A q, r \in rows : q.event = r.event \/ q.id = r.id => q = r
    /\ \A w \in Writers : pc[w] # "idle" => event[w].event <= issued
    /\ \A w \in Writers, r \in rows : pc[w] # "idle" => event[w].event # r.event
    /\ \A v, w \in Writers : pc[v] # "idle" /\ pc[w] # "idle" /\ v # w
                              => event[v].event # event[w].event
    /\ \A w \in Writers : pc[w] \in {"waiting", "inserting"} =>
          \/ tail[w] = GENESIS
          \/ \E q \in rows : q.dest = event[w].dest /\ q.event = tail[w]

LEMMA InitIInv == Init => IInv
BY AuditAssumption DEF Init, IInv, TypeOK, NoEvent, GENESIS, Events, Draft

LEMMA NextIInv == IInv /\ [Next]_vars => IInv'
<1> USE AuditAssumption
<1>1. SUFFICES ASSUME IInv, [Next]_vars PROVE IInv'
  OBVIOUS
<1>2. CASE Tick
  BY <1>1, <1>2 DEF IInv, TypeOK, Tick, Events, Row, Draft, GENESIS, NoEvent
<1>3. ASSUME NEW w \in Writers, NEW d \in Destinations, DraftEvent(w, d)
      PROVE  IInv'
  <2>1. /\ issued + 1 \in Events
        /\ event'[w] = [event |-> issued + 1, dest |-> d, ts |-> clock]
        /\ event'[w] \in Draft
        /\ \A v \in Writers \ {w} : event'[v] = event[v] /\ pc'[v] = pc[v]
    BY <1>1, <1>3 DEF IInv, TypeOK, DraftEvent, Draft, Events
  <2>2. TypeOK'
    BY <1>1, <1>3, <2>1 DEF IInv, TypeOK, DraftEvent
  <2> QED
    BY <1>1, <1>3, <2>1, <2>2 DEF IInv, TypeOK, DraftEvent, Row, Draft, Events
<1>4. ASSUME NEW w \in Writers, ReadTail(w) PROVE IInv'
  <2>1. /\ tail'[w] = GENESIS
           \/ \E q \in rows : q.dest = event[w].dest /\ q.event = tail'[w]
        /\ tail'[w] \in Events \union {GENESIS}
        /\ \A v \in Writers \ {w} : tail'[v] = tail[v] /\ pc'[v] = pc[v]
        /\ pc[w] # "idle" /\ pc'[w] # "idle"
    BY <1>1, <1>4 DEF IInv, TypeOK, ReadTail, Table, IsTail, Row, Events
  <2>2. TypeOK'
    BY <1>1, <1>4, <2>1 DEF IInv, TypeOK, ReadTail
  <2> QED
    BY <1>1, <1>4, <2>1, <2>2 DEF IInv, TypeOK, ReadTail
<1>5. ASSUME NEW w \in Writers, LockTail(w) PROVE IInv'
  BY <1>1, <1>5 DEF IInv, TypeOK, LockTail
<1>6. ASSUME NEW w \in Writers, InsertRow(w) PROVE IInv'
  <2>1. PICK i \in Events : /\ \A r \in rows : r.id # i
                            /\ rows' = rows \union {NewRow(w, i)}
    BY <1>6 DEF InsertRow
  <2>2. /\ NewRow(w, i) \in Row
        /\ NewRow(w, i).event = event[w].event
        /\ NewRow(w, i).dest = event[w].dest
        /\ NewRow(w, i).id = i
    BY <1>1, <1>6 DEF IInv, TypeOK, InsertRow, NewRow, Row, Draft
  <2>3. TypeOK'
    BY <1>1, <1>6, <2>1, <2>2 DEF IInv, TypeOK, InsertRow
  <2> QED
    BY <1>1, <1>6, <2>1, <2>2, <2>3 DEF IInv, TypeOK, InsertRow
<1>7. ASSUME NEW w \in Writers, Rollback(w) PROVE IInv'
  BY <1>1, <1>7 DEF IInv, TypeOK, Rollback
<1>8. CASE Quiet \/ UNCHANGED vars
  BY <1>1, <1>8 DEF Quiet, vars, IInv, TypeOK
<1> QED
  BY <1>1, <1>2, <1>3, <1>4, <1>5, <1>6, <1>7, <1>8 DEF Next, Emit

THEOREM IInvariant == Spec => []IInv
BY InitIInv, NextIInv, PTL DEF Spec

(* The variables keep their types: whatever the emitters interleave, a stored
   row carries an issued event and the hash of one. *)
THEOREM TypeCorrect == Spec => []TypeOK
BY IInvariant, PTL DEF IInv

-----------------------------------------------------------------------------
(* Every inserted row links to GENESIS_HASH or to a row committed to the same
   table before: emit never links to a rolled-back row or another tenant. *)
THEOREM LinksAreCommitted == Spec => LinksCommitted
<1>1. IInv /\ [Next]_vars =>
        [\A r \in rows' \ rows :
            \/ r.prev = GENESIS
            \/ \E q \in rows : q.dest = r.dest /\ q.event = r.prev]_vars
  <2>1. SUFFICES ASSUME IInv, Next, NEW r \in rows' \ rows
                 PROVE  \/ r.prev = GENESIS
                        \/ \E q \in rows : q.dest = r.dest /\ q.event = r.prev
    OBVIOUS
  <2>2. PICK w \in Writers : InsertRow(w)
    BY <2>1 DEF Next, Emit, Tick, DraftEvent, ReadTail, LockTail, Rollback,
                Quiet, vars
  <2>3. /\ r.dest = event[w].dest
        /\ r.prev = tail[w]
        /\ pc[w] = "inserting"
    BY <2>1, <2>2 DEF InsertRow, NewRow
  <2> QED
    BY <2>1, <2>3 DEF IInv
<1> QED
  BY IInvariant, <1>1, PTL DEF Spec, LinksCommitted

-----------------------------------------------------------------------------
(* Two different rows with different ids are ordered one way or the other. *)
LEMMA BeforeTotal ==
  ASSUME NEW q \in Row, NEW r \in Row, q.id # r.id
  PROVE  Before(q, r) \/ Before(r, q)
BY DEF Before, Row, Events

(* verify_chain detects a fork: a table it calls intact has no two rows that
   claim the same predecessor. *)
THEOREM ForksAreDetected == Spec => []ForkDetected
<1>1. IInv => ForkDetected
  <2>1. SUFFICES ASSUME IInv, NEW d \in Destinations, VerifyChain(Table(d)),
                        NEW q \in Table(d), NEW r \in Table(d),
                        q # r, q.prev = r.prev
                 PROVE  FALSE
    BY DEF ForkDetected, Forked
  <2>2. /\ Table(d) \subseteq Row
        /\ \A s \in Table(d) : s.event # GENESIS
        /\ \A s, t \in Table(d) : s.event = t.event => s = t
    BY <2>1 DEF IInv, TypeOK, Table, Row, Events, GENESIS
  <2>3. ASSUME NEW s \in Table(d), NEW t \in Table(d), s.prev = t.prev,
               Before(s, t)
        PROVE  FALSE
    <3>1. PICK u \in Table(d) : /\ IsTail({x \in Table(d) : Before(x, t)}, u)
                                /\ t.prev = u.event
      BY <2>1, <2>3 DEF VerifyChain
    <3>2. PICK v \in Table(d) : /\ Before(v, s)
                                /\ s.prev = v.event
      BY <2>1, <2>2, <2>3, <3>1 DEF VerifyChain
    <3>3. u = v
      BY <2>2, <2>3, <3>1, <3>2
    <3> QED
      BY <2>3, <3>1, <3>2, <3>3 DEF IsTail
  <2>4. Before(q, r) \/ Before(r, q)
    BY <2>1, <2>2, BeforeTotal DEF IInv, Table
  <2> QED
    BY <2>1, <2>3, <2>4
<1> QED
  BY IInvariant, <1>1, PTL

-----------------------------------------------------------------------------
(* A table without overlapping emits: it verifies, the one event on its way
   to it is later than every row, and the tail it read is still the last row. *)
Sequential(d) ==
    /\ VerifyChain(Table(d))
    /\ \A r \in Table(d) : r.ts < clock
    /\ \A v, w \in Writers : Emitting(v, d) /\ Emitting(w, d) => v = w
    /\ \A w \in Writers : Emitting(w, d) =>
          /\ event[w].ts <= clock
          /\ \A r \in Table(d) : r.ts < event[w].ts
    /\ \A w \in Writers : Emitting(w, d) /\ pc[w] \in {"waiting", "inserting"} =>
          \/ Table(d) = {} /\ tail[w] = GENESIS
          \/ \E q \in Table(d) : IsTail(Table(d), q) /\ tail[w] = q.event

SInv == IInv /\ \A d \in Destinations : d \in overlapped \/ Sequential(d)

(* verify_chain stays clean when a row is added after all others and links to
   the last of them. *)
LEMMA AppendKeepsIntact ==
  ASSUME NEW S \in SUBSET Row, VerifyChain(S),
         NEW n \in Row,
         \A r \in S : r.ts < n.ts,
         \/ S = {} /\ n.prev = GENESIS
         \/ \E q \in S : IsTail(S, q) /\ n.prev = q.event
  PROVE  VerifyChain(S \union {n})
<1> DEFINE Earlier(r) == {q \in S \union {n} : Before(q, r)}
<1>1. Earlier(n) = S
  <2>1. ~Before(n, n) /\ \A q \in S : Before(q, n)
    BY DEF Before, Row, Events
  <2> QED
    BY <2>1
<1>2. ASSUME NEW r \in S
      PROVE  Earlier(r) = {q \in S : Before(q, r)}
  BY DEF Before, Row
<1>3. ASSUME NEW r \in S \union {n}
      PROVE  \/ Earlier(r) = {} /\ r.prev = GENESIS
             \/ \E q \in Earlier(r) : IsTail(Earlier(r), q) /\ r.prev = q.event
  <2>1. CASE r = n
    BY <1>1, <2>1
  <2>2. CASE r \in S
    BY <1>2, <2>2 DEF VerifyChain
  <2> QED
    BY <2>1, <2>2
<1> QED
  BY <1>3 DEF VerifyChain

(* The table a row is appended to, when no two emits to it overlapped. *)
LEMMA InsertSequential ==
  ASSUME NEW w \in Writers, NEW d \in Destinations, IInv, Sequential(d),
         InsertRow(w), event[w].dest = d
  PROVE  Sequential(d)'
<1>1. PICK i \in Events : rows' = rows \union {NewRow(w, i)}
  BY DEF InsertRow
<1> DEFINE n == NewRow(w, i)
<1>2. /\ n \in Row
      /\ n.ts = event[w].ts /\ n.dest = event[w].dest /\ n.prev = tail[w]
      /\ event[w].ts \in Nat /\ Emitting(w, d) /\ pc[w] = "inserting"
  BY DEF IInv, TypeOK, InsertRow, NewRow, Row, Draft, Emitting
<1> HIDE DEF n
<1>3. Table(d)' = Table(d) \union {n}
  BY <1>1, <1>2 DEF Table, n
<1>4. Table(d) \in SUBSET Row /\ VerifyChain(Table(d))
  BY DEF IInv, TypeOK, Table, Sequential
<1>5. \A r \in Table(d) : r.ts < n.ts
  BY <1>2 DEF Sequential
<1>6. \/ Table(d) = {} /\ n.prev = GENESIS
      \/ \E q \in Table(d) : IsTail(Table(d), q) /\ n.prev = q.event
  BY <1>2 DEF Sequential
<1>7. VerifyChain(Table(d) \union {n})
  BY <1>2, <1>4, <1>5, <1>6, AppendKeepsIntact
<1>8. VerifyChain(Table(d))'
  BY <1>3, <1>7 DEF VerifyChain, Before, IsTail
<1>9. \A r \in Table(d)' : r.ts < clock'
  <2>1. clock' = clock + 1 /\ clock \in Nat
    BY DEF InsertRow, IInv, TypeOK
  <2>2. \A r \in Table(d) : r.ts < clock /\ r.ts \in Nat
    BY <1>4 DEF Sequential, Row
  <2>3. n.ts <= clock
    BY <1>2 DEF Sequential
  <2> QED
    BY <1>2, <1>3, <2>1, <2>2, <2>3
<1>10. \A v \in Writers : ~Emitting(v, d)'
  BY <1>2 DEF Sequential, Emitting, InsertRow, IInv, TypeOK
<1> QED
  BY <1>8, <1>9, <1>10 DEF Sequential

LEMMA NextSInv ==
  ASSUME SInv, [Next]_vars
  PROVE  SInv'
<1>1. IInv'
  BY NextIInv DEF SInv
<1>2. SUFFICES ASSUME NEW d \in Destinations, d \notin overlapped'
               PROVE  Sequential(d)'
  BY <1>1 DEF SInv
<1>3. d \notin overlapped /\ Sequential(d)
  <2>1. overlapped \subseteq overlapped'
    BY DEF Next, Emit, Tick, DraftEvent, ReadTail, LockTail, InsertRow,
           Rollback, Quiet, vars
  <2> QED
    BY <1>2, <2>1 DEF SInv
<1> USE <1>3 DEF SInv, Sequential, Emitting, IInv, TypeOK
<1>4. CASE Tick
  BY <1>4 DEF Tick, Table, Row, Draft, VerifyChain, Before, IsTail
<1>5. ASSUME NEW w \in Writers, NEW e \in Destinations, DraftEvent(w, e)
      PROVE  Sequential(d)'
  <2>1. Table(d)' = Table(d) /\ VerifyChain(Table(d))' /\ clock' = clock
    BY <1>5 DEF DraftEvent, Table, VerifyChain, Before, IsTail
  <2>2. /\ event'[w].dest = e /\ event'[w].ts = clock /\ pc'[w] = "drafted"
        /\ \A v \in Writers \ {w} : event'[v] = event[v] /\ pc'[v] = pc[v]
        /\ tail' = tail
    BY <1>5 DEF DraftEvent
  <2>3. e = d => \A v \in Writers : ~Emitting(v, d)
    BY <1>2, <1>5 DEF DraftEvent
  <2> QED
    BY <2>1, <2>2, <2>3 DEF IsTail, Before
<1>6. ASSUME NEW w \in Writers, ReadTail(w) PROVE Sequential(d)'
  BY <1>6 DEF ReadTail, Table, VerifyChain, Before, IsTail
<1>7. ASSUME NEW w \in Writers, LockTail(w) PROVE Sequential(d)'
  BY <1>7 DEF LockTail, Table, VerifyChain, Before, IsTail
<1>8. ASSUME NEW w \in Writers, InsertRow(w) PROVE Sequential(d)'
  <2>1. CASE event[w].dest = d
    BY <1>8, <2>1, InsertSequential
  <2>2. CASE event[w].dest # d
    <3>1. Table(d)' = Table(d)
      BY <1>8, <2>2 DEF InsertRow, NewRow, Table
    <3>2. VerifyChain(Table(d))'
      BY <3>1 DEF VerifyChain, Before, IsTail
    <3>3. \A r \in Table(d)' : r.ts < clock'
      BY <1>8, <3>1 DEF InsertRow, Table, Row
    <3>4. /\ event' = event /\ tail' = tail /\ clock' = clock + 1
          /\ \A v \in Writers : Emitting(v, d)' =>
                Emitting(v, d) /\ pc'[v] = pc[v]
      BY <1>8, <2>2 DEF InsertRow
    <3> QED
      BY <3>1, <3>2, <3>3, <3>4 DEF IsTail, Before, Draft
  <2> QED
    BY <2>1, <2>2
<1>9. ASSUME NEW w \in Writers, Rollback(w) PROVE Sequential(d)'
  BY <1>9 DEF Rollback, Table, VerifyChain, Before, IsTail
<1>10. CASE Quiet \/ UNCHANGED vars
  BY <1>10 DEF Quiet, vars, Table, VerifyChain, Before, IsTail
<1> QED
  BY <1>4, <1>5, <1>6, <1>7, <1>8, <1>9, <1>10 DEF Next, Emit

(* A table to which emits never overlapped verifies: there the order of emits,
   of timestamps and of links is the same. *)
THEOREM SequentialChainIntact == Spec => []SequentialIntact
<1>1. Init => SInv
  BY InitIInv DEF Init, SInv, Sequential, Emitting, VerifyChain, Table
<1>2. SInv /\ [Next]_vars => SInv'
  BY NextSInv
<1>3. SInv => SequentialIntact
  BY DEF SInv, Sequential, SequentialIntact
<1> QED
  BY <1>1, <1>2, <1>3, PTL DEF Spec

-----------------------------------------------------------------------------
(* The rows of one database: finitely many, linked among themselves, and never
   in a circle, as a row is committed after the one it links to. *)
ChainInv ==
    /\ IsFiniteSet(rows)
    /\ \A r \in rows : r.prev = GENESIS \/ \E q \in rows : q.event = r.prev
    /\ \A S \in SUBSET rows : S # {} => \E r \in S : \A q \in S : r.prev # q.event

LEMMA NextChainInv ==
  ASSUME IInv, ChainInv, [Next]_vars
  PROVE  ChainInv' /\ rows \subseteq rows'
<1>1. CASE \E w \in Writers : InsertRow(w)
  <2>1. PICK w \in Writers, i \in Events :
             pc[w] = "inserting" /\ rows' = rows \union {NewRow(w, i)}
    BY <1>1 DEF InsertRow
  <2> DEFINE n == NewRow(w, i)
  <2>2. /\ n \in Row /\ n.event \in Events
        /\ \A r \in rows : r.event # n.event
        /\ n.prev = GENESIS \/ \E q \in rows : q.event = n.prev
    BY <2>1 DEF IInv, TypeOK, NewRow, Row, Draft
  <2>3. rows' = rows \union {n}
    BY <2>1
  <2> HIDE DEF n
  <2>4. IsFiniteSet(rows')
    BY <2>3, FS_AddElement DEF ChainInv
  <2>5. \A r \in rows' : r.prev = GENESIS \/ \E q \in rows' : q.event = r.prev
    BY <2>2, <2>3 DEF ChainInv
  <2>6. \A r \in rows' : r.prev # n.event
    <3>1. n.event # GENESIS
      BY <2>2 DEF Events, GENESIS
    <3> QED BY <2>2, <2>3, <3>1 DEF ChainInv
  <2>7. ASSUME NEW S \in SUBSET rows', S # {}
        PROVE  \E r \in S : \A q \in S : r.prev # q.event
    <3>1. CASE S \cap rows = {}
      BY <2>3, <2>6, <2>7, <3>1
    <3>2. CASE S \cap rows # {}
      <4>1. PICK r \in S \cap rows : \A q \in S \cap rows : r.prev # q.event
        BY <3>2 DEF ChainInv
      <4> QED BY <2>3, <2>6, <4>1
    <3> QED BY <3>1, <3>2
  <2> QED BY <2>3, <2>4, <2>5, <2>7 DEF ChainInv
<1>2. CASE ~ \E w \in Writers : InsertRow(w)
  <2>1. rows' = rows
    BY <1>2 DEF Next, Emit, Tick, DraftEvent, ReadTail, LockTail, Rollback, Quiet, vars
  <2> QED BY <2>1 DEF ChainInv
<1> QED BY <1>1, <1>2

-----------------------------------------------------------------------------
(* Rows of one table: the order of (timestamp, id) is total on them. *)
Distinct(S) ==
    /\ S \subseteq Row
    /\ \A q, r \in S : q.event = r.event \/ q.id = r.id => q = r

LEMMA BeforeIsOrder ==
  ASSUME NEW q \in Row, NEW r \in Row, NEW s \in Row
  PROVE  /\ ~Before(q, q)
         /\ Before(q, r) /\ Before(r, s) => Before(q, s)
         /\ ~(Before(q, r) /\ Before(r, q))
BY DEF Before, Row, Events

LEMMA DistinctTotal ==
  ASSUME NEW S, Distinct(S), NEW q \in S, NEW r \in S, q # r
  PROVE  Before(q, r) \/ Before(r, q)
BY BeforeTotal DEF Distinct

(* A set of naturals has a least element. *)
LEMMA LeastNatural ==
  ASSUME NEW S \in SUBSET Nat, S # {}
  PROVE  \E m \in S : \A k \in S : m <= k
<1> DEFINE R == OpToRel(<, Nat)
<1>1. IsWellFoundedOn(R, Nat)
  BY NatLessThanWellFounded
<1>2. \A x, y \in Nat : x < y => <<x, y>> \in R
  BY DEF OpToRel
<1> HIDE DEF R
<1>3. PICK m \in S : \A k \in S : ~(<<k, m>> \in R)
  BY <1>1, WFMin
<1>4. ASSUME NEW k \in S PROVE m <= k
  <2>1. k \in Nat /\ m \in Nat /\ ~(k < m)
    BY <1>2, <1>3
  <2> QED BY <2>1
<1> QED BY <1>4

(* A set of rows has a last one and a first one. *)
LEMMA LatestRow ==
  ASSUME NEW S, IsFiniteSet(S), S # {}, Distinct(S)
  PROVE  \E r \in S : \A q \in S : ~Before(r, q)
<1> DEFINE After(r) == {q \in S : Before(r, q)}
           Counts == {Cardinality(After(r)) : r \in S}
<1>1. \A r \in S : IsFiniteSet(After(r)) /\ Cardinality(After(r)) \in Nat
  <2>1. \A r \in S : After(r) \in SUBSET S
    OBVIOUS
  <2> QED BY <2>1, FS_Subset, FS_CardinalityType
<1>2. Counts \in SUBSET Nat /\ Counts # {}
  BY <1>1
<1>3. PICK m \in Counts : \A k \in Counts : m <= k
  <2> HIDE DEF Counts
  <2> QED BY <1>2, LeastNatural
<1>4. PICK r \in S : m = Cardinality(After(r))
  OBVIOUS
<1>5. ASSUME NEW q \in S, Before(r, q) PROVE FALSE
  <2>1. After(q) \in SUBSET After(r) /\ q \in After(r) /\ q \notin After(q)
    BY <1>5, BeforeIsOrder DEF Distinct
  <2>2. Cardinality(After(q)) < Cardinality(After(r))
    <3> HIDE DEF After
    <3>1. After(q) # After(r)
      BY <2>1
    <3>2. /\ Cardinality(After(q)) <= Cardinality(After(r))
          /\ Cardinality(After(q)) # Cardinality(After(r))
      BY <1>1, <2>1, <3>1, FS_Subset
    <3> QED BY <1>1, <3>2
  <2>3. Cardinality(After(q)) \in Counts
    OBVIOUS
  <2> HIDE DEF After, Counts
  <2> QED BY <1>1, <1>3, <1>4, <2>2, <2>3
<1> QED BY <1>5

LEMMA FirstRow ==
  ASSUME NEW S, IsFiniteSet(S), S # {}, Distinct(S)
  PROVE  \E r \in S : \A q \in S : ~Before(q, r)
<1> DEFINE Earlier(r) == {q \in S : Before(q, r)}
           Counts == {Cardinality(Earlier(r)) : r \in S}
<1>1. \A r \in S : IsFiniteSet(Earlier(r)) /\ Cardinality(Earlier(r)) \in Nat
  <2>1. \A r \in S : Earlier(r) \in SUBSET S
    OBVIOUS
  <2> QED BY <2>1, FS_Subset, FS_CardinalityType
<1>2. Counts \in SUBSET Nat /\ Counts # {}
  BY <1>1
<1>3. PICK m \in Counts : \A k \in Counts : m <= k
  <2> HIDE DEF Counts
  <2> QED BY <1>2, LeastNatural
<1>4. PICK r \in S : m = Cardinality(Earlier(r))
  OBVIOUS
<1>5. ASSUME NEW q \in S, Before(q, r) PROVE FALSE
  <2>1. Earlier(q) \in SUBSET Earlier(r) /\ q \in Earlier(r) /\ q \notin Earlier(q)
    BY <1>5, BeforeIsOrder DEF Distinct
  <2>2. Cardinality(Earlier(q)) < Cardinality(Earlier(r))
    <3> HIDE DEF Earlier
    <3>1. Earlier(q) # Earlier(r)
      BY <2>1
    <3>2. /\ Cardinality(Earlier(q)) <= Cardinality(Earlier(r))
          /\ Cardinality(Earlier(q)) # Cardinality(Earlier(r))
      BY <1>1, <2>1, <3>1, FS_Subset
    <3> QED BY <1>1, <3>2
  <2>3. Cardinality(Earlier(q)) \in Counts
    OBVIOUS
  <2> HIDE DEF Earlier, Counts
  <2> QED BY <1>1, <1>3, <1>4, <2>2, <2>3
<1> QED BY <1>5

(* What ORDER BY .. LIMIT n returns: with a row every later one, all rows when
   there are no more than n, and a row when there is one. *)
LEMMA NewestRows ==
  ASSUME NEW S, IsFiniteSet(S), Distinct(S), NEW n \in Nat \ {0}
  PROVE  /\ Newest(S, n) \subseteq S /\ IsFiniteSet(Newest(S, n))
         /\ \A p \in Newest(S, n), r \in S : Before(p, r) => r \in Newest(S, n)
         /\ Cardinality(S) <= n => Newest(S, n) = S
         /\ S # {} => Newest(S, n) # {}
<1> DEFINE After(r) == {q \in S : Before(r, q)}
<1>1. \A r \in S : /\ After(r) \in SUBSET S /\ IsFiniteSet(After(r))
                   /\ Cardinality(After(r)) \in Nat
  <2>1. \A r \in S : After(r) \in SUBSET S
    OBVIOUS
  <2> QED BY <2>1, FS_Subset, FS_CardinalityType
<1>2. Newest(S, n) = {r \in S : Cardinality(After(r)) < n}
  BY DEF Newest
<1>3. Newest(S, n) \subseteq S
  BY <1>2
<1>4. IsFiniteSet(Newest(S, n))
  BY <1>3, FS_Subset
<1>5. ASSUME NEW p \in Newest(S, n), NEW r \in S, Before(p, r)
      PROVE  r \in Newest(S, n)
  <2>1. p \in S /\ Cardinality(After(p)) < n
    BY <1>2
  <2>2. After(r) \in SUBSET After(p)
    BY <1>5, <2>1, BeforeIsOrder DEF Distinct
  <2> HIDE DEF After
  <2>3. Cardinality(After(r)) <= Cardinality(After(p))
    BY <1>1, <2>1, <2>2, FS_Subset
  <2> QED BY <1>1, <1>2, <2>1, <2>3
<1>6. ASSUME Cardinality(S) <= n, NEW r \in S PROVE Cardinality(After(r)) < n
  <2>1. After(r) # S
    BY BeforeIsOrder DEF Distinct
  <2> HIDE DEF After
  <2>2. /\ Cardinality(After(r)) <= Cardinality(S)
        /\ Cardinality(After(r)) # Cardinality(S)
    BY <1>1, <2>1, FS_Subset
  <2>3. Cardinality(S) \in Nat
    BY FS_CardinalityType
  <2> QED BY <1>1, <1>6, <2>2, <2>3
<1>7. ASSUME S # {} PROVE Newest(S, n) # {}
  <2>1. PICK r \in S : \A q \in S : ~Before(r, q)
    BY <1>7, LatestRow
  <2>2. After(r) = {}
    BY <2>1
  <2>3. Cardinality(After(r)) = 0
    BY <2>2, FS_EmptySet
  <2> HIDE DEF After
  <2> QED BY <1>2, <2>3
<1>8. Cardinality(S) <= n => Newest(S, n) = S
  <2> HIDE DEF After
  <2> QED BY <1>2, <1>6
<1> QED BY <1>3, <1>4, <1>5, <1>7, <1>8

(* The last row of a page is before all its others: the cursor. *)
LEMMA LastRow ==
  ASSUME NEW page, IsFiniteSet(page), page # {}, Distinct(page)
  PROVE  Last(page) \in page /\ \A q \in page : ~Before(q, Last(page))
<1>1. \E r \in page : \A q \in page : ~Before(q, r)
  BY FirstRow
<1> QED BY <1>1 DEF Last

-----------------------------------------------------------------------------
Follows(page, q, r) == Before(q, r) /\ \A p \in page : ~(Before(q, p) /\ Before(p, r))

(* Every row of a page but the oldest has one right before it. *)
LEMMA RowBefore ==
  ASSUME NEW page, IsFiniteSet(page), Distinct(page),
         NEW r \in page, NEW s \in page, Before(s, r)
  PROVE  \E q \in page : Follows(page, q, r)
<1> DEFINE E == {q \in page : Before(q, r)}
<1>1. E \in SUBSET page /\ E # {}
  OBVIOUS
<1>2. IsFiniteSet(E) /\ Distinct(E)
  BY <1>1, FS_Subset DEF Distinct
<1>3. PICK q \in E : \A p \in E : ~Before(q, p)
  <2> HIDE DEF E
  <2> QED BY <1>1, <1>2, LatestRow
<1> QED BY <1>3 DEF Follows

(* The reasons for what VerdictsAgree says of a page. *)
PageAgrees(w) ==
    /\ w.verdict = "verified" =>
          /\ \A q, r \in w.page : q # r => q.prev # r.prev
          /\ \E first \in w.page : \A r \in w.page \ {first} :
                \E q \in w.page : r.prev = q.event
    /\ w.intact /\ w.filter = Events /\ Cardinality(w.page) >= 2
          => w.verdict = "verified"

Linked(page) == \A q, r \in page : Follows(page, q, r) => r.prev = q.event

LEMMA VerdictMeans ==
  ASSUME NEW page
  PROVE  /\ VerifySegment(page) = "verified" => Cardinality(page) >= 2 /\ Linked(page)
         /\ Cardinality(page) >= 2 /\ Linked(page) => VerifySegment(page) = "verified"
BY DEF VerifySegment, Linked, Follows

LEMMA LinkedPage ==
  ASSUME NEW page \in SUBSET rows, IsFiniteSet(page), Distinct(page), page # {},
         Linked(page), ChainInv
  PROVE  /\ \A q, r \in page : q # r => q.prev # r.prev
         /\ \E first \in page : \A r \in page \ {first} : \E q \in page : r.prev = q.event
<1>1. PICK first \in page : \A q \in page : ~Before(q, first)
  BY FirstRow
<1>2. ASSUME NEW r \in page, r # first
      PROVE  \E q \in page : Follows(page, q, r) /\ r.prev = q.event
  <2>1. Before(first, r)
    BY <1>1, <1>2, DistinctTotal
  <2>2. PICK q \in page : Follows(page, q, r)
    BY <2>1, RowBefore
  <2> QED BY <2>2 DEF Linked
<1>3. ASSUME NEW r \in page, r # first, first.prev = r.prev PROVE FALSE
  <2>1. PICK p \in page : Follows(page, p, r) /\ r.prev = p.event
    BY <1>2, <1>3
  <2> DEFINE S == {q \in page : ~Before(p, q)}
  <2>2. first \in S /\ p \in S /\ S \in SUBSET rows
    BY <1>1, BeforeIsOrder DEF Distinct
  <2>3. ASSUME NEW q \in S PROVE \E s \in S : q.prev = s.event
    <3>1. CASE q = first
      BY <1>3, <2>1, <2>2, <3>1
    <3>2. CASE q # first
      <4>1. PICK s \in page : Follows(page, s, q) /\ q.prev = s.event
        BY <1>2, <3>2
      <4>2. ~Before(p, s)
        BY <2>3, <4>1, BeforeIsOrder DEF Distinct, Follows
      <4> QED BY <4>1, <4>2
    <3> QED BY <3>1, <3>2
  <2> HIDE DEF S
  <2> QED BY <2>2, <2>3 DEF ChainInv
<1>4. ASSUME NEW q \in page, NEW r \in page, q # first, r # first, q # r, q.prev = r.prev
      PROVE  FALSE
  <2>1. PICK p \in page : Follows(page, p, q) /\ q.prev = p.event
    BY <1>2, <1>4
  <2>2. PICK s \in page : Follows(page, s, r) /\ r.prev = s.event
    BY <1>2, <1>4
  <2>3. p = s
    BY <1>4, <2>1, <2>2 DEF Distinct
  <2>4. Before(q, r) \/ Before(r, q)
    BY <1>4, DistinctTotal
  <2> QED BY <2>1, <2>2, <2>3, <2>4 DEF Follows
<1>5. \A q, r \in page : q # r => q.prev # r.prev
  BY <1>3, <1>4
<1>6. \A r \in page \ {first} : \E q \in page : r.prev = q.event
  BY <1>2
<1> QED BY <1>5, <1>6

(* A page is a stretch of its table when the filter is the whole of it, so the
   links verify_chain checked are the ones the page has. *)
LEMMA IntactPage ==
  ASSUME NEW T, Distinct(T), VerifyChain(T),
         NEW page \in SUBSET T,
         \A q, p, r \in T : q \in page /\ r \in page /\ Before(q, p) /\ Before(p, r)
                               => p \in page
  PROVE  Linked(page)
<1> SUFFICES ASSUME NEW q \in page, NEW r \in page, Follows(page, q, r)
             PROVE  r.prev = q.event
  BY DEF Linked
<1> DEFINE earlier == {s \in T : Before(s, r)}
<1>1. q \in earlier /\ \A p \in earlier : ~Before(q, p)
  BY DEF Follows
<1>2. PICK s \in earlier : IsTail(earlier, s) /\ r.prev = s.event
  BY <1>1 DEF VerifyChain
<1>3. s = q
  BY <1>1, <1>2, DistinctTotal DEF IsTail
<1> QED BY <1>2, <1>3

-----------------------------------------------------------------------------
Fields == {"state", "dest", "filter", "size", "cursor", "page", "verdict", "intact",
           "listed", "given", "begun"}

(* A walk over the table T: what it listed lies up to its cursor, once each,
   and every matching row there was when it began and that lies up to the
   cursor was listed. *)
WalkFits(w, T) ==
    /\ Fields \subseteq DOMAIN w
    /\ w.state \in {"walking", "ended"}
    /\ w.filter \subseteq Events /\ w.size \in Nat \ {0}
    /\ w.listed \subseteq T /\ w.begun \subseteq T
    /\ IsFiniteSet(w.listed) /\ w.given = Cardinality(w.listed)
    /\ w.cursor = NoRow \/ w.cursor \in T
    /\ w.state = "walking" => \A r \in w.listed : ~Beyond(w.cursor, r)
    /\ \A r \in w.begun :
          r.event \in w.filter /\ (w.state = "ended" \/ ~Beyond(w.cursor, r))
              => r \in w.listed

WalkInv(c) ==
    walk[c].state # "none" =>
        WalkFits(walk[c], Table(c)) /\ walk[c].dest = c /\ PageAgrees(walk[c])

PagesInv ==
    /\ IInv /\ ChainInv
    /\ DOMAIN walk = Readers
    /\ \A c \in Readers : WalkInv(c)

\* The fields of the walk after a page.
PageOf(w) == Newest(Matching(w.dest, w.filter, w.cursor), w.size)
HasNext(w) == Cardinality(Matching(w.dest, w.filter, w.cursor)) > w.size

LEMMA GivenFields ==
  ASSUME NEW w, Fields \subseteq DOMAIN w
  PROVE  /\ Fields \subseteq DOMAIN GivenPage(w)
         /\ GivenPage(w).dest = w.dest /\ GivenPage(w).filter = w.filter
         /\ GivenPage(w).size = w.size /\ GivenPage(w).begun = w.begun
         /\ GivenPage(w).page = PageOf(w)
         /\ GivenPage(w).verdict = VerifySegment(PageOf(w))
         /\ GivenPage(w).intact = VerifyChain(Table(w.dest))
         /\ GivenPage(w).listed = w.listed \union PageOf(w)
         /\ GivenPage(w).given = w.given + Cardinality(PageOf(w))
         /\ GivenPage(w).cursor = IF HasNext(w) THEN Last(PageOf(w)) ELSE NoRow
         /\ GivenPage(w).state = IF HasNext(w) THEN "walking" ELSE "ended"
BY DEF GivenPage, PageOf, HasNext, Fields

LEMMA TableDistinct ==
  ASSUME IInv, ChainInv, NEW d
  PROVE  Distinct(Table(d)) /\ IsFiniteSet(Table(d)) /\ Table(d) \in SUBSET rows
<1>1. Table(d) \in SUBSET rows
  BY DEF Table
<1> QED BY <1>1, FS_Subset DEF IInv, ChainInv, TypeOK, Distinct

(* A page added to a walk: what follows is a walk again, and the verdict of the
   page is worth what VerdictsAgree says. *)
LEMMA PageGiven ==
  ASSUME IInv, ChainInv, NEW w, NEW c, WalkFits(w, Table(c)), w.dest = c,
         w.state = "walking"
  PROVE  WalkFits(GivenPage(w), Table(c)) /\ GivenPage(w).dest = c /\ PageAgrees(GivenPage(w))
<1> DEFINE T == Table(c)
           M == Matching(c, w.filter, w.cursor)
           page == PageOf(w)
           g == GivenPage(w)
<1>1. /\ Distinct(T) /\ IsFiniteSet(T) /\ T \in SUBSET rows
      /\ \A r \in T : r \in Row /\ r.event \in Events
  BY TableDistinct DEF Distinct, Row
<1>2. M = {r \in T : r.event \in w.filter /\ Beyond(w.cursor, r)}
  BY DEF Matching
<1>3. M \in SUBSET T /\ IsFiniteSet(M) /\ Distinct(M) /\ Cardinality(M) \in Nat
  <2>1. M \in SUBSET T
    BY <1>2
  <2> QED BY <1>1, <2>1, FS_Subset, FS_CardinalityType DEF Distinct
<1>4. /\ w.size \in Nat \ {0} /\ w.listed \subseteq T /\ w.begun \subseteq T
      /\ IsFiniteSet(w.listed) /\ w.given = Cardinality(w.listed)
      /\ w.cursor = NoRow \/ w.cursor \in T
      /\ \A r \in w.listed : ~Beyond(w.cursor, r)
      /\ \A r \in w.begun : r.event \in w.filter /\ ~Beyond(w.cursor, r) => r \in w.listed
      /\ w.filter \subseteq Events /\ Fields \subseteq DOMAIN w
  BY DEF WalkFits
<1>5. /\ page \subseteq M /\ IsFiniteSet(page)
      /\ \A p \in page, r \in M : Before(p, r) => r \in page
      /\ Cardinality(M) <= w.size => page = M
      /\ M # {} => page # {}
  <2> HIDE DEF M
  <2>1. page = Newest(M, w.size)
    BY DEF PageOf, M
  <2> QED BY <1>3, <1>4, <2>1, NewestRows
<1>6. HasNext(w) <=> Cardinality(M) > w.size
  BY DEF HasNext
<1>7. ASSUME HasNext(w)
      PROVE  Last(page) \in page /\ \A q \in page : ~Before(q, Last(page))
  <2> HIDE DEF M, page
  <2>1. M # {}
    BY <1>3, <1>4, <1>6, <1>7, FS_EmptySet
  <2> QED BY <1>3, <1>5, <2>1, LastRow DEF Distinct
<1>8. \A r \in T : r # NoRow
  <2>1. \A r \in T : r.event # 0
    BY <1>1 DEF Events
  <2>2. NoRow.event = 0
    BY DEF NoRow
  <2> QED BY <2>1, <2>2
<1>9. /\ Fields \subseteq DOMAIN g
      /\ g.dest = w.dest /\ g.filter = w.filter /\ g.size = w.size /\ g.begun = w.begun
      /\ g.page = page /\ g.verdict = VerifySegment(page)
      /\ g.intact = VerifyChain(Table(w.dest))
      /\ g.listed = w.listed \union page
      /\ g.given = w.given + Cardinality(page)
      /\ g.cursor = IF HasNext(w) THEN Last(page) ELSE NoRow
      /\ g.state = IF HasNext(w) THEN "walking" ELSE "ended"
  BY <1>4, GivenFields
<1> HIDE DEF M, page, g, T
<1>10. Cardinality(w.listed \union page) = Cardinality(w.listed) + Cardinality(page)
  <2>1. w.listed \cap page = {}
    BY <1>2, <1>4, <1>5
  <2>2. Cardinality(w.listed \cap page) = 0
    BY <2>1, FS_EmptySet
  <2>3. Cardinality(w.listed) \in Nat /\ Cardinality(page) \in Nat
    BY <1>4, <1>5, FS_CardinalityType
  <2> QED BY <1>4, <1>5, <2>2, <2>3, FS_Union
<1>11. g.listed \subseteq T /\ IsFiniteSet(g.listed) /\ g.given = Cardinality(g.listed)
  <2>1. IsFiniteSet(w.listed \union page)
    BY <1>4, <1>5, FS_Union
  <2> QED BY <1>3, <1>4, <1>5, <1>9, <1>10, <2>1
<1>12. g.cursor = NoRow \/ g.cursor \in T
  BY <1>3, <1>5, <1>7, <1>9
<1>13. ASSUME g.state = "walking" PROVE \A r \in g.listed : ~Beyond(g.cursor, r)
  <2>1. HasNext(w) /\ g.cursor = Last(page) /\ g.cursor \in page /\ g.cursor \in T
    BY <1>3, <1>5, <1>7, <1>9, <1>13
  <2>2. ASSUME NEW r \in page PROVE ~Beyond(g.cursor, r)
    BY <1>7, <1>8, <2>1, <2>2 DEF Beyond
  <2>3. ASSUME NEW r \in w.listed PROVE ~Beyond(g.cursor, r)
    <3>1. /\ w.cursor # NoRow /\ w.cursor \in T /\ r \in T
          /\ ~Before(r, w.cursor) /\ Before(g.cursor, w.cursor)
      BY <1>2, <1>4, <1>5, <2>1 DEF Beyond
    <3>2. ~Before(r, g.cursor)
      BY <1>1, <2>1, <3>1, BeforeIsOrder
    <3> QED BY <1>8, <2>1, <3>2 DEF Beyond
  <2> QED BY <1>9, <2>2, <2>3
<1>14. ASSUME NEW r \in g.begun, r.event \in g.filter,
              g.state = "ended" \/ ~Beyond(g.cursor, r)
       PROVE  r \in g.listed
  <2>1. r \in w.begun /\ r \in T /\ r.event \in w.filter
    BY <1>4, <1>9, <1>14
  <2>2. CASE ~Beyond(w.cursor, r)
    BY <1>4, <1>9, <2>1, <2>2
  <2>3. CASE Beyond(w.cursor, r)
    <3>1. r \in M
      BY <1>2, <2>1, <2>3
    <3>2. CASE ~HasNext(w)
      BY <1>3, <1>4, <1>5, <1>6, <1>9, <3>1, <3>2
    <3>3. CASE HasNext(w)
      <4>1. /\ g.state = "walking" /\ g.cursor = Last(page)
            /\ g.cursor \in page /\ g.cursor \in M /\ g.cursor \in T
        BY <1>3, <1>5, <1>7, <1>9, <3>3
      <4>2. ~Before(r, g.cursor)
        BY <1>8, <1>14, <4>1 DEF Beyond
      <4>3. r = g.cursor \/ Before(g.cursor, r)
        BY <1>1, <2>1, <4>1, <4>2, DistinctTotal
      <4> QED BY <1>5, <1>9, <3>1, <4>1, <4>3
    <3> QED BY <3>2, <3>3
  <2> QED BY <2>2, <2>3
<1>15. WalkFits(g, T)
  BY <1>4, <1>9, <1>11, <1>12, <1>13, <1>14 DEF WalkFits
<1>16. page \in SUBSET rows /\ Distinct(page)
  BY <1>1, <1>3, <1>5 DEF Distinct
<1>17. ASSUME g.verdict = "verified"
       PROVE  /\ \A q, r \in page : q # r => q.prev # r.prev
              /\ \E first \in page : \A r \in page \ {first} : \E q \in page : r.prev = q.event
  <2>1. Cardinality(page) >= 2 /\ Linked(page)
    BY <1>9, <1>17, VerdictMeans
  <2>2. page # {}
    BY <2>1, FS_EmptySet
  <2> QED BY <1>5, <1>16, <2>1, <2>2, LinkedPage
<1>18. ASSUME g.intact, g.filter = Events, Cardinality(page) >= 2
       PROVE  g.verdict = "verified"
  <2>1. VerifyChain(T)
    BY <1>9, <1>18 DEF T
  <2>2. ASSUME NEW q \in T, NEW p \in T, NEW r \in T, q \in page, r \in page,
               Before(q, p), Before(p, r)
        PROVE  p \in page
    <3>1. Beyond(w.cursor, r)
      BY <1>2, <1>5, <2>2
    <3>2. Beyond(w.cursor, p)
      BY <1>1, <1>4, <2>2, <3>1, BeforeIsOrder DEF Beyond
    <3>3. p \in M
      BY <1>1, <1>2, <1>9, <1>18, <3>2
    <3> QED BY <1>5, <2>2, <3>3
  <2>3. page \in SUBSET T
    BY <1>3, <1>5
  <2>4. Linked(page)
    BY <1>1, <2>1, <2>2, <2>3, IntactPage
  <2> QED BY <1>9, <1>18, <2>4, VerdictMeans
<1> QED BY <1>9, <1>15, <1>17, <1>18 DEF PageAgrees, T, g

LEMMA InitPagesInv == PagesInit => PagesInv
<1> SUFFICES ASSUME PagesInit PROVE PagesInv
  OBVIOUS
<1>1. IInv
  BY InitIInv DEF PagesInit
<1>2. ChainInv
  BY FS_EmptySet DEF PagesInit, Init, ChainInv
<1>3. DOMAIN walk = Readers /\ \A c \in Readers : walk[c].state = "none"
  BY DEF PagesInit, NoWalk
<1> QED BY <1>1, <1>2, <1>3 DEF PagesInv, WalkInv

(* The walk with which ListFirst starts has listed nothing yet. *)
LEMMA WalkBegins ==
  ASSUME PagesInv, NEW c \in Readers, NEW f \in Filters, NEW n \in PageSizes,
         NEW w, w = [state |-> "walking", dest |-> c, filter |-> f, size |-> n,
                     cursor |-> NoRow, page |-> {}, verdict |-> "partial", intact |-> TRUE,
                     listed |-> {}, given |-> 0, begun |-> Table(c)]
  PROVE  WalkFits(w, Table(c)) /\ w.dest = c /\ w.state = "walking"
<1>1. f \subseteq Events /\ n \in Nat \ {0}
  BY PagesAssumption
<1>2. IsFiniteSet({}) /\ Cardinality({}) = 0
  BY FS_EmptySet
<1>3. /\ Fields \subseteq DOMAIN w
      /\ w.state = "walking" /\ w.dest = c /\ w.filter = f /\ w.size = n
      /\ w.cursor = NoRow /\ w.listed = {} /\ w.given = 0 /\ w.begun = Table(c)
  BY DEF Fields
<1> QED BY <1>1, <1>2, <1>3 DEF WalkFits, Beyond

LEMMA NextPagesInv ==
  ASSUME PagesInv, [PagesNext]_<<vars, pageVars>>
  PROVE  PagesInv'
<1>1. IInv' /\ ChainInv' /\ rows \subseteq rows'
  <2>1. [Next]_vars
    BY DEF PagesNext, ListFirst, ListNext
  <2> QED BY <2>1, NextIInv, NextChainInv DEF PagesInv
<1>2. ASSUME NEW c \in Readers, walk'[c] = walk[c] PROVE WalkInv(c)'
  <2>1. Table(c) \subseteq Table(c)'
    BY <1>1 DEF Table
  <2>2. WalkFits(walk[c], Table(c)) => WalkFits(walk[c], Table(c)')
    BY <2>1 DEF WalkFits
  <2>3. WalkInv(c)
    BY DEF PagesInv
  <2>4. WalkFits(walk[c], Table(c)') => WalkFits(walk[c], Table(c))'
    BY <1>2 DEF WalkFits, Beyond, Before
  <2> QED BY <1>2, <2>2, <2>3, <2>4 DEF WalkInv, PageAgrees
<1>3. ASSUME NEW c \in Readers, NEW w, WalkFits(w, Table(c)), w.dest = c,
             w.state = "walking",
             walk' = [walk EXCEPT ![c] = GivenPage(w)], UNCHANGED vars
      PROVE  PagesInv'
  <2>1. /\ DOMAIN walk' = Readers /\ walk'[c] = GivenPage(w)
        /\ \A d \in Readers \ {c} : walk'[d] = walk[d]
    BY <1>3 DEF PagesInv
  <2>2. WalkFits(GivenPage(w), Table(c)) /\ GivenPage(w).dest = c /\ PageAgrees(GivenPage(w))
    BY <1>3, PageGiven DEF PagesInv
  <2>3. Table(c)' = Table(c)
    BY <1>3 DEF vars, Table
  <2>4. WalkInv(c)'
    BY <2>1, <2>2, <2>3 DEF WalkInv, WalkFits, PageAgrees, Beyond, Before
  <2> QED BY <1>1, <1>2, <2>1, <2>4 DEF PagesInv
<1>4. CASE (Next /\ UNCHANGED pageVars) \/ UNCHANGED <<vars, pageVars>>
  <2>1. walk' = walk
    BY <1>4 DEF pageVars
  <2> QED BY <1>1, <1>2, <2>1 DEF PagesInv
<1>5. ASSUME NEW c \in Readers, ListFirst(c) PROVE PagesInv'
  <2>1. PICK f \in Filters, n \in PageSizes : walk' = [walk EXCEPT ![c] = GivenPage(
            [state |-> "walking", dest |-> c, filter |-> f, size |-> n, cursor |-> NoRow,
             page |-> {}, verdict |-> "partial", intact |-> TRUE, listed |-> {}, given |-> 0,
             begun |-> Table(c)])]
    BY <1>5 DEF ListFirst
  <2>2. UNCHANGED vars
    BY <1>5 DEF ListFirst
  <2> DEFINE w == [state |-> "walking", dest |-> c, filter |-> f, size |-> n,
                   cursor |-> NoRow, page |-> {}, verdict |-> "partial", intact |-> TRUE,
                   listed |-> {}, given |-> 0, begun |-> Table(c)]
  <2>3. WalkFits(w, Table(c)) /\ w.dest = c /\ w.state = "walking"
    BY WalkBegins
  <2>4. walk' = [walk EXCEPT ![c] = GivenPage(w)]
    BY <2>1
  <2> HIDE DEF w
  <2> QED BY <1>3, <2>2, <2>3, <2>4
<1>6. ASSUME NEW c \in Readers, ListNext(c) PROVE PagesInv'
  <2>1. /\ walk[c].state = "walking" /\ UNCHANGED vars
        /\ walk' = [walk EXCEPT ![c] = GivenPage(walk[c])]
    BY <1>6 DEF ListNext, PagesInv
  <2>2. WalkFits(walk[c], Table(c)) /\ walk[c].dest = c
    BY <2>1 DEF PagesInv, WalkInv
  <2> QED BY <1>3, <2>1, <2>2
<1> QED BY <1>4, <1>5, <1>6 DEF PagesNext

THEOREM PagesInvariant == PagesSpec => []PagesInv
BY InitPagesInv, NextPagesInv, PTL DEF PagesSpec

(* A walk by pages gives every matching row that was committed when it began,
   and none twice, however emits interleave with its pages: the cursor of
   (timestamp, id) neither skips a row nor repeats one. *)
THEOREM WalksCover == PagesSpec => []WalkCoversSnapshot
<1>1. PagesInv => WalkCoversSnapshot
  BY DEF PagesInv, WalkInv, WalkFits, WalkCoversSnapshot
<1> QED BY PagesInvariant, <1>1, PTL

(* The verdict of a page is worth something: the rows of a verified page have
   different predecessors and all but the oldest link into the page, and an
   unfiltered page of a table verify_chain accepts is verified. *)
THEOREM VerdictsMean == PagesSpec => []VerdictsAgree
<1>1. PagesInv => VerdictsAgree
  BY DEF PagesInv, WalkInv, PageAgrees, VerdictsAgree
<1> QED BY PagesInvariant, <1>1, PTL

(* Reading disturbs nothing: what is proved of the emitters holds beside the
   consumers. *)
THEOREM ReadersDisturbNothing == PagesSpec => [](ForkDetected /\ SequentialIntact)
<1>1. PagesSpec => Spec
  <2>1. PagesInit => Init
    BY DEF PagesInit
  <2>2. [PagesNext]_<<vars, pageVars>> => [Next]_vars
    BY DEF PagesNext, ListFirst, ListNext
  <2> QED BY <2>1, <2>2, PTL DEF PagesSpec, Spec
<1> QED BY <1>1, ForksAreDetected, SequentialChainIntact, PTL

=============================================================================
