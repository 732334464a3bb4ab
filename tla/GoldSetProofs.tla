--------------------------- MODULE GoldSetProofs ---------------------------
(***************************************************************************)
(* Proofs about GoldSet, for any number of concurrent calls, revisions and *)
(* entries.                                                                *)
(***************************************************************************)
EXTENDS GoldSet, FiniteSetTheorems, TLAPS

(* What a call knows between its statements.  `current' only grows, a draft is
   the revision after it, and a draft that was finalized by another call is
   one no more: so a finalization that still finds a draft chains it to the
   revision that is still the current one. *)
Knows(l, c) ==
    /\ l \notin {"idle", "append_snapshot"} => c.rev \in Numbers /\ Created
    /\ l = "append_open" => c.rev <= current + 1
    /\ l \notin {"idle", "append_snapshot", "append_open"} =>
          revs[c.rev].status # "none"
    /\ l = "finalize_write" /\ c.rev \in Drafts => c.prior = current

IInv ==
    /\ TypeOK
    /\ IsFiniteSet(entries)
    /\ LinearChain
    /\ \A a \in Actors : Knows(pc[a], call[a])

LEMMA ConstantFacts ==
  /\ 1 \in Numbers /\ Numbers \subseteq Nat
  /\ NoCall \in Call /\ NoRevision \in Revision /\ DraftRevision \in Revision
  /\ \A n \in 0..MaxRevision : n # 0 => n \in Numbers
<1>1. 1 \in Numbers /\ MaxEntries - 1 \in Nat
  BY GoldSetAssumption DEF Numbers
<1> QED
  BY <1>1, GoldSetAssumption
     DEF Numbers, NoCall, Call, NoRevision, DraftRevision, Revision

(* What an update of one field of a call returns. *)
LEMMA CallUpdate ==
  ASSUME NEW d \in Call
  PROVE  /\ \A n \in 0..MaxRevision : /\ [d EXCEPT !.rev = n] \in Call
                                      /\ [d EXCEPT !.rev = n].rev = n
         /\ \A i \in 0..MaxEntries - 1 : /\ [d EXCEPT !.index = i] \in Call
                                         /\ [d EXCEPT !.index = i].rev = d.rev
         /\ \A S \in SUBSET Entry : /\ [d EXCEPT !.covers = S] \in Call
                                    /\ [d EXCEPT !.covers = S].rev = d.rev
         /\ \A n \in 0..MaxRevision : /\ [d EXCEPT !.prior = n] \in Call
                                      /\ [d EXCEPT !.prior = n].rev = d.rev
                                      /\ [d EXCEPT !.prior = n].prior = n
BY DEF Call

LEMMA InitIInv == Init => IInv
<1> SUFFICES ASSUME Init PROVE IInv
  OBVIOUS
<1>1. TypeOK
  BY ConstantFacts, GoldSetAssumption DEF Init, TypeOK, Labels
<1>2. LinearChain
  BY DEF LinearChain, Drafts, Finalized, Init, Numbers, NoRevision
<1> QED
  BY <1>1, <1>2, FS_EmptySet DEF Init, IInv, Knows

-----------------------------------------------------------------------------
(* Steps that only read: one call moves on to a label l, knowing c. *)
Reads(a, l, c) ==
    /\ pc' = [pc EXCEPT ![a] = l]
    /\ call' = [call EXCEPT ![a] = c]
    /\ UNCHANGED <<current, revs, entries>>

LEMMA ReadStep ==
  ASSUME IInv, NEW a \in Actors, NEW l \in Labels, NEW c \in Call,
         Reads(a, l, c), Knows(l, c)
  PROVE  IInv'
<1>1. TypeOK'
  BY DEF IInv, TypeOK, Reads, Knows
<1>2. LinearChain'
  BY DEF IInv, LinearChain, Finalized, Drafts, Reads
<1>3. ASSUME NEW b \in Actors PROVE Knows(pc[b], call[b])'
  BY DEF IInv, TypeOK, Knows, Drafts, Reads, Created
<1> QED
  BY <1>1, <1>2, <1>3 DEF IInv, Reads

LEMMA ReturnStep ==
  ASSUME IInv, NEW a \in Actors, Return(a), UNCHANGED <<current, revs, entries>>
  PROVE  IInv'
<1>1. Reads(a, "idle", NoCall)
  BY DEF Return, Goto, Keep, Reads
<1>2. Knows("idle", NoCall)
  BY DEF Knows
<1> QED
  BY <1>1, <1>2, ConstantFacts, ReadStep DEF Labels

LEMMA AppendInv ==
  ASSUME IInv, NEW a \in Actors, AppendEntry(a)
  PROVE  IInv'
<1>1. CASE FindDraftToAppend(a)
  <2>1. PICK n \in 0..MaxRevision :
           /\ CurrentDraft(n)
           /\ Reads(a, IF n = 0 THEN "append_snapshot" ELSE "append_read",
                    [NoCall EXCEPT !.rev = n])
    BY <1>1 DEF FindDraftToAppend, Keep, Goto, Reads
  <2> DEFINE c == [NoCall EXCEPT !.rev = n]
  <2>2. /\ c \in Call /\ c.rev = n
        /\ Reads(a, IF n = 0 THEN "append_snapshot" ELSE "append_read", c)
    BY <2>1, ConstantFacts, CallUpdate
  <2> HIDE DEF c
  <2>3. n # 0 => /\ n \in Numbers /\ revs[n].status # "none"
                 /\ n = current + 1
    BY <2>1, ConstantFacts DEF CurrentDraft, Drafts, IInv, LinearChain
  <2>4. n # 0 => Created
    BY <2>3, ConstantFacts DEF IInv, TypeOK, LinearChain, Finalized, Created, Numbers
  <2>5. CASE n = 0
    BY <2>1, <2>2, <2>5, ReadStep DEF Knows, Labels
  <2>6. CASE n # 0
    BY <2>1, <2>2, <2>3, <2>4, <2>6, ReadStep DEF Knows, Labels
  <2> QED
    BY <2>5, <2>6
<1>2. CASE ReadSnapshotToAppend(a)
  <2>1. CASE Return(a)
    BY <1>2, <2>1, ReturnStep DEF ReadSnapshotToAppend
  <2>2. CASE ~Return(a)
    <3>1. /\ Created /\ current + 1 \in Numbers
          /\ Reads(a, "append_open", [call[a] EXCEPT !.rev = current + 1])
      BY <1>2, <2>2, GoldSetAssumption
         DEF ReadSnapshotToAppend, Keep, Goto, Reads, IInv, TypeOK, Numbers
    <3> DEFINE c == [call[a] EXCEPT !.rev = current + 1]
    <3>2. c \in Call /\ c.rev = current + 1 /\ Reads(a, "append_open", c)
      BY <3>1, CallUpdate DEF IInv, TypeOK, Numbers
    <3> HIDE DEF c
    <3>3. Knows("append_open", c)
      BY <3>1, <3>2, ConstantFacts DEF Knows
    <3> QED
      BY <3>1, <3>2, <3>3, ReadStep DEF Labels
  <2> QED
    BY <2>1, <2>2
<1>3. CASE OpenDraft(a)
  <2> DEFINE n == call[a].rev
  <2>1. CASE revs[n].status # "none"
    BY <1>3, <2>1, ReturnStep DEF OpenDraft
  <2>2. CASE revs[n].status = "none"
    <3>1. /\ pc[a] = "append_open"
          /\ revs' = [revs EXCEPT ![n] = DraftRevision]
          /\ pc' = [pc EXCEPT ![a] = "append_read"]
          /\ UNCHANGED <<current, entries, call>>
      BY <1>3, <2>2 DEF OpenDraft, Goto
    <3>2. n \in Numbers /\ n = current + 1 /\ Created
      BY <2>2, <3>1, ConstantFacts
         DEF IInv, TypeOK, Knows, LinearChain, Finalized, Numbers
    <3>3. TypeOK'
      BY <3>1, <3>2, ConstantFacts DEF IInv, TypeOK, Labels
    <3>4. LinearChain'
      BY <3>1, <3>2 DEF IInv, TypeOK, LinearChain, DraftRevision, Numbers,
                        Drafts, Finalized
    <3>5. ASSUME NEW b \in Actors PROVE Knows(pc[b], call[b])'
      BY <2>2, <3>1, <3>2, ConstantFacts
         DEF IInv, TypeOK, Knows, DraftRevision, Drafts, Created
    <3> QED
      BY <3>1, <3>3, <3>4, <3>5 DEF IInv
  <2> QED
    BY <2>1, <2>2
<1>4. CASE ReadEntriesToAppend(a)
  <2>1. CASE Return(a)
    BY <1>4, <2>1, ReturnStep DEF ReadEntriesToAppend
  <2>2. CASE ~Return(a)
    <3> DEFINE n == Cardinality(EntriesOf(call[a].rev))
    <3>1. n \in Nat
      BY FS_Subset, FS_CardinalityType DEF IInv, EntriesOf
    <3>2. /\ n < MaxEntries
          /\ Reads(a, "append_check", [call[a] EXCEPT !.index = n])
      BY <1>4, <2>2 DEF ReadEntriesToAppend, Keep, Goto, Reads
    <3> HIDE DEF n
    <3> DEFINE c == [call[a] EXCEPT !.index = n]
    <3>3. c \in Call /\ c.rev = call[a].rev /\ Reads(a, "append_check", c)
      BY <3>1, <3>2, GoldSetAssumption, CallUpdate DEF IInv, TypeOK
    <3> HIDE DEF c
    <3>4. Knows("append_check", c)
      BY <1>4, <3>3 DEF Knows, IInv, ReadEntriesToAppend
    <3> QED
      BY <3>2, <3>3, <3>4, ReadStep DEF Labels
  <2> QED
    BY <2>1, <2>2
<1>5. CASE CheckDraft(a)
  <2>1. CASE Return(a)
    BY <1>5, <2>1, ReturnStep DEF CheckDraft
  <2>2. CASE ~Return(a)
    <3>1. Reads(a, "append_insert", call[a])
      BY <1>5, <2>2 DEF CheckDraft, Goto, IInv, TypeOK, Reads
    <3>2. Knows("append_insert", call[a])
      BY <1>5, <2>2 DEF CheckDraft, IInv, Knows
    <3> QED
      BY <3>1, <3>2, ReadStep DEF Labels, IInv, TypeOK
  <2> QED
    BY <2>1, <2>2
<1>6. CASE InsertEntry(a)
  <2>1. CASE UNCHANGED entries
    BY <1>6, <2>1, ReturnStep DEF InsertEntry
  <2>2. CASE ~UNCHANGED entries
    <3>1. PICK q \in Queries : entries' = entries \union {[rev |-> call[a].rev,
                                index |-> call[a].index, query |-> q]}
      BY <1>6, <2>2 DEF InsertEntry
    <3>2. [rev |-> call[a].rev, index |-> call[a].index, query |-> q] \in Entry
      BY <1>6 DEF InsertEntry, IInv, TypeOK, Call, Entry
    <3>3. IsFiniteSet(entries')
      BY <3>1, FS_AddElement DEF IInv
    <3>4. /\ pc' = [pc EXCEPT ![a] = "idle"]
          /\ call' = [call EXCEPT ![a] = NoCall]
          /\ UNCHANGED <<current, revs>>
      BY <1>6 DEF InsertEntry, Return, Goto, Keep
    <3>5. TypeOK'
      BY <3>1, <3>2, <3>4, ConstantFacts DEF IInv, TypeOK, Labels
    <3>6. LinearChain'
      BY <3>4 DEF IInv, LinearChain, Finalized, Drafts
    <3>7. \A b \in Actors : Knows(pc[b], call[b])'
      BY <3>4 DEF IInv, TypeOK, Knows, Created, Drafts
    <3> QED
      BY <3>3, <3>5, <3>6, <3>7 DEF IInv
  <2> QED
    BY <2>1, <2>2
<1> QED
  BY <1>1, <1>2, <1>3, <1>4, <1>5, <1>6 DEF AppendEntry

LEMMA FinalizeInv ==
  ASSUME IInv, NEW a \in Actors, Finalize(a)
  PROVE  IInv'
<1>1. CASE FindDraftToFinalize(a)
  <2>1. PICK n \in Drafts : Reads(a, "finalize_read", [NoCall EXCEPT !.rev = n])
    BY <1>1 DEF FindDraftToFinalize, Keep, Goto, Reads
  <2> DEFINE c == [NoCall EXCEPT !.rev = n]
  <2>2. c \in Call /\ c.rev = n /\ Reads(a, "finalize_read", c)
    BY <2>1, ConstantFacts, CallUpdate DEF Drafts, Numbers
  <2> HIDE DEF c
  <2>3. n \in Numbers /\ revs[n].status # "none" /\ n = current + 1
    BY DEF Drafts, IInv, LinearChain
  <2>4. Created
    BY <2>3, ConstantFacts DEF IInv, TypeOK, LinearChain, Finalized, Created, Numbers
  <2> QED
    BY <2>1, <2>2, <2>3, <2>4, ReadStep DEF Knows, Labels
<1>2. CASE ReadEntriesToFinalize(a)
  <2>1. CASE Return(a)
    BY <1>2, <2>1, ReturnStep DEF ReadEntriesToFinalize
  <2>2. CASE ~Return(a)
    <3>1. Reads(a, "finalize_prior",
                [call[a] EXCEPT !.covers = EntriesOf(call[a].rev)])
      BY <1>2, <2>2 DEF ReadEntriesToFinalize, Keep, Goto, Reads
    <3> DEFINE c == [call[a] EXCEPT !.covers = EntriesOf(call[a].rev)]
    <3>2. call[a] \in Call /\ EntriesOf(call[a].rev) \in SUBSET Entry
      BY DEF IInv, TypeOK, EntriesOf
    <3>3. c \in Call /\ c.rev = call[a].rev
      BY <3>2, CallUpdate
    <3> HIDE DEF c
    <3>4. Knows("finalize_prior", c)
      BY <1>2, <3>3 DEF Knows, IInv, ReadEntriesToFinalize
    <3> QED
      BY <3>1, <3>3, <3>4, ReadStep DEF Labels, c
  <2> QED
    BY <2>1, <2>2
<1>3. CASE ReadPrior(a)
  <2>1. Reads(a, "finalize_write", [call[a] EXCEPT !.prior = current])
    BY <1>3 DEF ReadPrior, Keep, Goto, Reads
  <2> DEFINE c == [call[a] EXCEPT !.prior = current]
  <2>2. call[a] \in Call /\ current \in 0..MaxRevision
    BY DEF IInv, TypeOK
  <2>3. c \in Call /\ c.rev = call[a].rev /\ c.prior = current
    BY <2>2, CallUpdate
  <2> HIDE DEF c
  <2>4. Knows("finalize_write", c)
    BY <1>3, <2>3 DEF Knows, IInv, ReadPrior
  <2> QED
    BY <2>1, <2>3, <2>4, ReadStep DEF Labels, c
<1>4. CASE FinalizeRevision(a)
  <2> DEFINE n == call[a].rev
  <2>1. CASE revs[n].status # "draft"
    BY <1>4, <2>1, ReturnStep DEF FinalizeRevision
  <2>2. CASE revs[n].status = "draft"
    <3> DEFINE sealed == [status |-> "finalized", prev |-> call[a].prior,
                          covers |-> call[a].covers]
    <3>1. /\ revs' = [revs EXCEPT ![n] = sealed]
          /\ current' = n
          /\ pc' = [pc EXCEPT ![a] = "idle"]
          /\ call' = [call EXCEPT ![a] = NoCall]
          /\ UNCHANGED entries
      BY <1>4, <2>2 DEF FinalizeRevision, Return, Goto, Keep
    <3>2. n \in Numbers /\ n = current + 1 /\ call[a].prior = current
      BY <1>4, <2>2 DEF FinalizeRevision, IInv, Knows, LinearChain, Drafts
    <3>3. sealed \in Revision /\ sealed.prev = n - 1
      BY <3>2 DEF IInv, TypeOK, Call, Revision
    <3>4. TypeOK'
      BY <3>1, <3>2, <3>3, ConstantFacts DEF IInv, TypeOK, Labels, Numbers
    <3>5. LinearChain'
      BY <3>1, <3>2, <3>3 DEF IInv, TypeOK, LinearChain, Finalized, Drafts, Numbers
    <3>6. ASSUME NEW b \in Actors PROVE Knows(pc[b], call[b])'
      BY <2>2, <3>1, <3>2, ConstantFacts
         DEF IInv, TypeOK, Knows, LinearChain, Finalized, Drafts, Created, Numbers
    <3> QED
      BY <3>1, <3>4, <3>5, <3>6 DEF IInv
  <2> QED
    BY <2>1, <2>2
<1> QED
  BY <1>1, <1>2, <1>3, <1>4 DEF Finalize

LEMMA NextIInv == IInv /\ [Next]_vars => IInv'
<1> SUFFICES ASSUME IInv, [Next]_vars PROVE IInv'
  OBVIOUS
<1>1. CASE CreateGoldSet
  <2>1. current = 0
    BY <1>1, ConstantFacts
       DEF CreateGoldSet, Created, IInv, LinearChain, Finalized, TypeOK, Numbers
  <2>2. /\ revs' = [revs EXCEPT ![1] = DraftRevision]
        /\ UNCHANGED <<current, entries, pc, call>>
    BY <1>1 DEF CreateGoldSet
  <2>3. TypeOK'
    BY <2>2, ConstantFacts DEF IInv, TypeOK
  <2>4. LinearChain'
    BY <2>1, <2>2, ConstantFacts
       DEF IInv, TypeOK, LinearChain, DraftRevision, Drafts, Finalized, Numbers
  <2>5. ASSUME NEW b \in Actors PROVE Knows(pc[b], call[b])'
    BY <1>1, <2>2, ConstantFacts
       DEF CreateGoldSet, IInv, TypeOK, Knows, DraftRevision, Drafts, Created
  <2> QED
    BY <2>2, <2>3, <2>4, <2>5 DEF IInv
<1>2. ASSUME NEW a \in Actors, Abandon(a) PROVE IInv'
  BY <1>2, ReturnStep DEF Abandon
<1>3. CASE UNCHANGED vars
  BY <1>3 DEF vars, IInv, TypeOK, LinearChain, Knows, Drafts, Finalized, Created
<1> QED
  BY <1>1, <1>2, <1>3, AppendInv, FinalizeInv DEF Next

THEOREM IInvariant == Spec => []IInv
BY InitIInv, NextIInv, PTL DEF Spec

(* Rows and calls keep their types under every interleaving. *)
THEOREM TypeCorrect == Spec => []TypeOK
BY IInvariant, PTL DEF IInv

(* The finalized revisions form one unbroken hash chain 1 .. current, with at
   most one draft, the next. *)
THEOREM ChainIsLinear == Spec => []LinearChain
BY IInvariant, PTL DEF IInv

-----------------------------------------------------------------------------
(* One statement seals at most the revision after the current one. *)
LEMMA StepSeals ==
  ASSUME IInv, Next
  PROVE  \/ /\ current' = current
            /\ \A n \in Numbers : Finalized(n) => revs'[n] = revs[n]
         \/ /\ current' = current + 1
            /\ current + 1 \in Numbers
            /\ revs'[current + 1].prev = current
            /\ \A n \in Numbers : Finalized(n) => revs'[n] = revs[n]
<1>1. CASE CreateGoldSet
  BY <1>1, ConstantFacts
     DEF CreateGoldSet, Created, Finalized, IInv, TypeOK
<1>2. ASSUME NEW a \in Actors, OpenDraft(a)
      PROVE  current' = current /\ \A n \in Numbers : Finalized(n) => revs'[n] = revs[n]
  BY <1>2 DEF OpenDraft, Finalized, IInv, TypeOK
<1>3. ASSUME NEW a \in Actors, FinalizeRevision(a), UNCHANGED <<revs, current>>
      PROVE  current' = current /\ \A n \in Numbers : Finalized(n) => revs'[n] = revs[n]
  BY <1>3
<1>4. ASSUME NEW a \in Actors, FinalizeRevision(a), ~UNCHANGED <<revs, current>>
      PROVE  /\ current' = current + 1
             /\ current + 1 \in Numbers
             /\ revs'[current + 1].prev = current
             /\ \A n \in Numbers : Finalized(n) => revs'[n] = revs[n]
  <2>1. /\ revs[call[a].rev].status = "draft"
        /\ revs' = [revs EXCEPT ![call[a].rev] = [status |-> "finalized",
                              prev |-> call[a].prior, covers |-> call[a].covers]]
        /\ current' = call[a].rev
    BY <1>4 DEF FinalizeRevision
  <2>2. /\ call[a].rev \in Numbers /\ call[a].rev = current + 1
        /\ call[a].prior = current
    BY <1>4, <2>1 DEF FinalizeRevision, IInv, Knows, LinearChain, Drafts
  <2> QED
    BY <2>1, <2>2 DEF IInv, TypeOK, Finalized
<1>5. ASSUME NEW a \in Actors, AppendEntry(a) \/ Finalize(a) \/ Abandon(a),
             ~OpenDraft(a), ~FinalizeRevision(a)
      PROVE  UNCHANGED <<current, revs>>
  BY <1>5 DEF AppendEntry, Finalize, Abandon, FindDraftToAppend,
     ReadSnapshotToAppend, ReadEntriesToAppend, CheckDraft, InsertEntry,
     FindDraftToFinalize, ReadEntriesToFinalize, ReadPrior
<1> QED
  BY <1>1, <1>2, <1>3, <1>4, <1>5 DEF Next

(* A sealed revision keeps its hash: concurrent finalizations and appends never
   rewrite it. *)
THEOREM RevisionsSealedOnce == Spec => SealedOnce
<1>1. IInv /\ [Next]_vars =>
        [\A n \in Numbers : Finalized(n) => revs'[n] = revs[n]]_vars
  BY StepSeals
<1> QED
  BY IInvariant, <1>1, PTL DEF Spec, SealedOnce

(* The gold set implements the abstract log of sealed revisions: every step
   seals the next revision, bound to the one before, or leaves the log alone. *)
THEOREM GoldSetImplementsLog == Spec => ImplementsLog
<1> DEFINE link == [n \in 1..current |-> revs[n].prev]
<1>1. Init => Log!Init
  BY DEF Init, Log!Init
<1>2. IInv /\ [Next]_vars => [Log!Seal]_<<current, link>>
  <2>1. SUFFICES ASSUME IInv, [Next]_vars
                 PROVE  Log!Seal \/ UNCHANGED <<current, link>>
    OBVIOUS
  <2>2. \A n \in 1..current : n \in Numbers /\ Finalized(n)
    BY <2>1, GoldSetAssumption DEF IInv, TypeOK, LinearChain, Numbers
  <2>3. CASE UNCHANGED vars
    BY <2>3 DEF vars
  <2>4. CASE Next /\ current' = current
    <3>1. \A n \in 1..current : revs'[n] = revs[n]
      BY <2>1, <2>2, <2>4, StepSeals DEF IInv, TypeOK
    <3> QED
      BY <2>4, <3>1
  <2>5. CASE Next /\ current' # current
    <3>1. /\ current' = current + 1
          /\ revs'[current + 1].prev = current
          /\ \A n \in 1..current : revs'[n] = revs[n]
      BY <2>1, <2>2, <2>5, StepSeals
    <3>2. link' = [n \in 1..(current + 1) |-> IF n = current + 1 THEN current
                                                                 ELSE link[n]]
      BY <2>1, <3>1 DEF IInv, TypeOK
    <3> QED
      BY <3>1, <3>2 DEF Log!Seal
  <2> QED
    BY <2>1, <2>3, <2>4, <2>5
<1> QED
  BY IInvariant, <1>1, <1>2, PTL DEF Spec, ImplementsLog, Log!Spec

-----------------------------------------------------------------------------
(* An appender that has counted the entries knows that every smaller index is
   taken: the entries are never removed. *)
Counted(a) ==
    pc[a] \in {"append_check", "append_insert"} =>
        \A i \in 0..(call[a].index - 1) :
            \E f \in EntriesOf(call[a].rev) : f.index = i

IdxInv == IInv /\ IndexesContiguous /\ \A a \in Actors : Counted(a)

(* The number of entries of a gapless revision is its next index. *)
LEMMA CountIsNext ==
  ASSUME IInv, IndexesContiguous, NEW n \in Numbers,
         NEW i \in 0..(Cardinality(EntriesOf(n)) - 1)
  PROVE  \E f \in EntriesOf(n) : f.index = i
<1> DEFINE S == EntriesOf(n)
<1>1. IsFiniteSet(S) /\ Cardinality(S) \in Nat /\ S \subseteq Entry
  BY FS_Subset, FS_CardinalityType DEF IInv, TypeOK, EntriesOf
<1>2. SUFFICES ASSUME \A f \in S : f.index # i PROVE FALSE
  OBVIOUS
<1>3. \A e \in S : e.index \in 0..(i - 1)
  <2>1. SUFFICES ASSUME NEW e \in S, e.index > i PROVE FALSE
    BY <1>1, <1>2, GoldSetAssumption DEF Entry
  <2>2. e.index \in Nat /\ i \in 0..(e.index - 1)
    BY <1>1, <2>1, GoldSetAssumption DEF Entry
  <2> QED
    BY <1>2, <2>1, <2>2 DEF IndexesContiguous
<1> DEFINE m == [e \in S |-> e.index]
<1>4. m \in Injection(S, 0..(i - 1))
  BY <1>3 DEF Injection, IsInjective, IndexesContiguous
<1>5. i \in Nat /\ IsFiniteSet(0..(i - 1)) /\ Cardinality(0..(i - 1)) = i
  <2>1. i \in Nat /\ i - 1 \in Int /\ (0 > i - 1 => i = 0)
    BY <1>1
  <2> QED
    BY <2>1, FS_Interval
<1>6. Cardinality(S) <= i
  BY <1>4, <1>5, FS_Injection
<1> QED
  BY <1>1, <1>6

LEMMA NextIdxInv == IdxInv /\ [Next]_vars => IdxInv'
<1> SUFFICES ASSUME IdxInv, [Next]_vars PROVE IdxInv'
  OBVIOUS
<1>1. IInv'
  BY NextIInv DEF IdxInv
<1>2. ASSUME NEW a \in Actors, InsertEntry(a), ~UNCHANGED entries
      PROVE  IdxInv'
  <2>0. PICK n \in Numbers, k \in 0..(MaxEntries - 1) :
           n = call[a].rev /\ k = call[a].index
    BY <1>2 DEF InsertEntry, IdxInv, IInv, TypeOK, Call
  <2>1. PICK q \in Queries :
           entries' = entries \union {[rev |-> n, index |-> k, query |-> q]}
    BY <1>2, <2>0 DEF InsertEntry
  <2>2. /\ \A e \in EntriesOf(n) : e.index # k
        /\ \A i \in 0..(k - 1) : \E f \in EntriesOf(n) : f.index = i
    BY <1>2, <2>0 DEF InsertEntry, IdxInv, Counted
  <2> DEFINE new == [rev |-> n, index |-> k, query |-> q]
  <2>3. new.rev = n /\ new.index = k
    OBVIOUS
  <2> HIDE DEF new
  <2>4. EntriesOf(n)' = EntriesOf(n) \union {new}
    BY <2>1, <2>3 DEF EntriesOf, new
  <2>5. ASSUME NEW p \in Numbers
        PROVE  /\ \A e, f \in EntriesOf(p)' : e.index = f.index => e = f
               /\ \A e \in EntriesOf(p)' : \A i \in 0..(e.index - 1) :
                     \E f \in EntriesOf(p)' : f.index = i
    <3>1. CASE p # n
      <4>1. EntriesOf(p)' = EntriesOf(p)
        BY <2>1, <2>3, <3>1 DEF EntriesOf, new
      <4> QED
        BY <4>1 DEF IdxInv, IndexesContiguous
    <3>2. CASE p = n
      <4>1. \A e, f \in EntriesOf(n) : e.index = f.index => e = f
        BY <3>2 DEF IdxInv, IndexesContiguous
      <4>2. \A e \in EntriesOf(n) : \A i \in 0..(e.index - 1) :
               \E f \in EntriesOf(n) : f.index = i
        BY <3>2 DEF IdxInv, IndexesContiguous
      <4>3. EntriesOf(p)' = EntriesOf(n) \union {new}
        BY <2>4, <3>2 DEF EntriesOf
      <4> QED
        BY <2>2, <2>3, <4>1, <4>2, <4>3
    <3> QED
      BY <3>1, <3>2
  <2>6. IndexesContiguous'
    BY <2>5 DEF IndexesContiguous
  <2>7. ASSUME NEW b \in Actors PROVE Counted(b)'
    <3>1. pc'[a] = "idle" /\ \A c \in Actors \ {a} : pc'[c] = pc[c] /\ call'[c] = call[c]
      BY <1>2 DEF InsertEntry, Return, Goto, Keep, IdxInv, IInv, TypeOK
    <3>2. CASE b = a
      BY <3>1, <3>2 DEF Counted
    <3>3. CASE b # a
      <4>1. EntriesOf(call[b].rev) \subseteq EntriesOf(call[b].rev)'
        BY <2>1, <3>1, <3>3 DEF EntriesOf
      <4>2. Counted(b)
        BY DEF IdxInv
      <4> QED
        BY <3>1, <3>3, <4>1, <4>2 DEF Counted
    <3> QED
      BY <3>2, <3>3
  <2> QED
    BY <1>1, <2>6, <2>7 DEF IdxInv
<1>3. ASSUME NEW a \in Actors, UNCHANGED entries,
             \A b \in Actors \ {a} : pc'[b] = pc[b] /\ call'[b] = call[b],
             Counted(a)'
      PROVE  IdxInv'
  <2>1. IndexesContiguous'
    BY <1>3 DEF IdxInv, IndexesContiguous, EntriesOf
  <2>2. ASSUME NEW b \in Actors PROVE Counted(b)'
    BY <1>3 DEF IdxInv, Counted, EntriesOf
  <2> QED
    BY <1>1, <2>1, <2>2 DEF IdxInv
<1>4. ASSUME NEW a \in Actors, ReadEntriesToAppend(a) PROVE IdxInv'
  <2>1. /\ UNCHANGED entries
        /\ \A b \in Actors \ {a} : pc'[b] = pc[b] /\ call'[b] = call[b]
    BY <1>4 DEF ReadEntriesToAppend, Return, Goto, Keep, IdxInv, IInv, TypeOK
  <2>2. CASE pc'[a] = "idle"
    BY <1>3, <2>1, <2>2 DEF Counted
  <2>3. CASE pc'[a] # "idle"
    <3> DEFINE c == Cardinality(EntriesOf(call[a].rev))
    <3>1. call' = [call EXCEPT ![a] = [call[a] EXCEPT !.index = c]]
      BY <1>4, <2>3 DEF ReadEntriesToAppend, Return, Goto, Keep, IdxInv, IInv, TypeOK
    <3>2. call'[a].index = c /\ call'[a].rev = call[a].rev /\ call[a].rev \in Numbers
      BY <1>4, <3>1 DEF ReadEntriesToAppend, IdxInv, IInv, TypeOK, Call
    <3>3. \A i \in 0..(c - 1) : \E f \in EntriesOf(call[a].rev) : f.index = i
      BY <3>2, CountIsNext DEF IdxInv
    <3>4. EntriesOf(call[a].rev)' = EntriesOf(call[a].rev)
      BY <2>1, <3>2 DEF EntriesOf
    <3>5. Counted(a)'
      BY <3>2, <3>3, <3>4 DEF Counted
    <3> QED
      BY <1>3, <2>1, <3>5
  <2> QED
    BY <2>2, <2>3
<1>5. ASSUME NEW a \in Actors, CheckDraft(a) PROVE IdxInv'
  <2>1. /\ UNCHANGED entries
        /\ \A b \in Actors \ {a} : pc'[b] = pc[b] /\ call'[b] = call[b]
        /\ \/ pc'[a] = "idle"
           \/ pc[a] = "append_check" /\ call'[a] = call[a]
    BY <1>5 DEF CheckDraft, Return, Goto, Keep, IdxInv, IInv, TypeOK
  <2>2. Counted(a)'
    BY <2>1 DEF Counted, IdxInv, EntriesOf
  <2> QED
    BY <1>3, <2>1, <2>2
<1>6. ASSUME NEW a \in Actors,
             AppendEntry(a) \/ Finalize(a) \/ Abandon(a), UNCHANGED entries,
             ~ReadEntriesToAppend(a), ~CheckDraft(a)
      PROVE  IdxInv'
  <2>1. /\ \A b \in Actors \ {a} : pc'[b] = pc[b] /\ call'[b] = call[b]
        /\ pc'[a] \notin {"append_check", "append_insert"}
    BY <1>6 DEF AppendEntry, Finalize, Abandon, FindDraftToAppend,
       ReadSnapshotToAppend, OpenDraft, InsertEntry, FindDraftToFinalize,
       ReadEntriesToFinalize, ReadPrior, FinalizeRevision, Return, Goto, Keep,
       IdxInv, IInv, TypeOK
  <2> QED
    BY <1>3, <1>6, <2>1 DEF Counted
<1>7. CASE CreateGoldSet \/ UNCHANGED vars
  <2>1. UNCHANGED <<entries, pc, call>>
    BY <1>7 DEF CreateGoldSet, vars
  <2> QED
    BY <1>1, <2>1 DEF IdxInv, IndexesContiguous, Counted, EntriesOf
<1>8. ASSUME NEW a \in Actors, AppendEntry(a) \/ Finalize(a) \/ Abandon(a),
             ~UNCHANGED entries
      PROVE  InsertEntry(a)
  BY <1>8 DEF AppendEntry, Finalize, Abandon, FindDraftToAppend,
       ReadSnapshotToAppend, OpenDraft, ReadEntriesToAppend, CheckDraft,
       FindDraftToFinalize, ReadEntriesToFinalize, ReadPrior, FinalizeRevision
<1> QED
  BY <1>2, <1>4, <1>5, <1>6, <1>7, <1>8 DEF Next

(* The entries of a revision are numbered 0, 1, 2, .. without a gap or double. *)
THEOREM IndexesAreContiguous == Spec => []IndexesContiguous
<1>1. Init => IdxInv
  BY InitIInv DEF Init, IdxInv, IndexesContiguous, EntriesOf, Counted
<1>2. IdxInv => IndexesContiguous
  BY DEF IdxInv
<1> QED
  BY <1>1, <1>2, NextIdxInv, PTL DEF Spec

=============================================================================
