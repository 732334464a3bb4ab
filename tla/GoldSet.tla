------------------------------ MODULE GoldSet ------------------------------
(***************************************************************************)
(* Authoring of one gold set: create_gold_set, append_entry_to_revision    *)
(* and finalize_revision, called by several users at once.                 *)
(*                                                                         *)
(* Each call is a series of READ COMMITTED statements, most of them in a   *)
(* session of their own: every read, the status check of append_entry, and *)
(* every committed write is a step.  The database keeps the revision       *)
(* numbers of a gold set and the entry indexes of a revision unique.  The  *)
(* hash of a revision is abstracted to what it binds: the number, the      *)
(* entries read, and the revision whose hash it was chained to.            *)
(***************************************************************************)
EXTENDS Integers, FiniteSets

CONSTANTS Actors,      \* concurrent API and CLI calls
          Queries,     \* contents of an entry
          MaxRevision, \* bound: revisions opened
          MaxEntries   \* bound: entries of a revision

ASSUME GoldSetAssumption == MaxRevision \in Nat \ {0} /\ MaxEntries \in Nat \ {0}

VARIABLES current,  \* current_revision_id of the gold_sets row, 0 for NULL
          revs,     \* gold_set_revisions by number
          entries,  \* gold_set_entries
          pc,       \* per actor: the next statement of its call
          call      \* per actor: what its call has read so far

vars == <<current, revs, entries, pc, call>>

Numbers == 1..MaxRevision
Entry == [rev: Numbers, index: 0..MaxEntries - 1, query: Queries]
NoRevision == [status |-> "none", prev |-> 0, covers |-> {}]
DraftRevision == [status |-> "draft", prev |-> 0, covers |-> {}]
EntriesOf(n) == {e \in entries : e.rev = n}
Finalized(n) == revs[n].status = "finalized"
Drafts == {n \in Numbers : revs[n].status = "draft"}

\* The gold_sets row is inserted together with its revision 1.
Created == revs[1].status # "none"

(* find_current_draft_revision: the newest draft; 0 for None. *)
CurrentDraft(n) == \/ n \in Drafts /\ \A k \in Drafts : k <= n
                   \/ n = 0 /\ Drafts = {}

-----------------------------------------------------------------------------
NoCall == [rev |-> 0, index |-> 0, covers |-> {}, prior |-> 0]

Init == /\ current = 0
        /\ revs = [n \in Numbers |-> NoRevision]
        /\ entries = {}
        /\ pc = [a \in Actors |-> "idle"]
        /\ call = [a \in Actors |-> NoCall]

Goto(a, label) == pc' = [pc EXCEPT ![a] = label]
Keep(a, c) == call' = [call EXCEPT ![a] = c]
Return(a) == Goto(a, "idle") /\ Keep(a, NoCall)

\* persist_new_gold_set: the gold set and its draft revision 1, in one commit.
CreateGoldSet ==
    /\ ~Created
    /\ revs' = [revs EXCEPT ![1] = DraftRevision]
    /\ UNCHANGED <<current, entries, pc, call>>

-----------------------------------------------------------------------------
(* append_entry_to_revision *)

FindDraftToAppend(a) ==
    /\ pc[a] = "idle"
    /\ \E n \in 0..MaxRevision :
        /\ CurrentDraft(n)
        /\ Keep(a, [NoCall EXCEPT !.rev = n])
        /\ Goto(a, IF n = 0 THEN "append_snapshot" ELSE "append_read")
    /\ UNCHANGED <<current, revs, entries>>

\* GoldSetNotFoundError for an unknown gold set.
ReadSnapshotToAppend(a) ==
    /\ pc[a] = "append_snapshot"
    /\ \/ ~Created /\ Return(a)
       \/ /\ Created
          /\ current < MaxRevision
          /\ Keep(a, [call[a] EXCEPT !.rev = current + 1])
          /\ Goto(a, "append_open")
       \/ Created /\ current = MaxRevision /\ Return(a)  \* bound
    /\ UNCHANGED <<current, revs, entries>>

\* Variant: no UNIQUE (gold_set_id, revision_number).
OpenDraft_NotUnique(a) ==
    /\ pc[a] = "append_open"
    /\ revs' = [revs EXCEPT ![call[a].rev] = DraftRevision]
    /\ Goto(a, "append_read")
    /\ UNCHANGED <<current, entries, call>>

\* A second revision of the same number is an IntegrityError.
OpenDraft(a) ==
    LET n == call[a].rev
    IN  /\ pc[a] = "append_open"
        /\ \/ /\ revs[n].status = "none"
              /\ revs' = [revs EXCEPT ![n] = DraftRevision]
              /\ Goto(a, "append_read") /\ UNCHANGED call
           \/ revs[n].status # "none" /\ Return(a) /\ UNCHANGED revs
        /\ UNCHANGED <<current, entries>>

\* Variant: indexes start at one.
ReadEntriesToAppend_FromOne(a) ==
    LET n == Cardinality(EntriesOf(call[a].rev))
    IN  /\ pc[a] = "append_read"
        /\ \/ /\ n < MaxEntries
              /\ Keep(a, [call[a] EXCEPT !.index = n + 1])
              /\ Goto(a, "append_check")
           \/ n = MaxEntries /\ Return(a)
        /\ UNCHANGED <<current, revs, entries>>

ReadEntriesToAppend(a) ==
    LET n == Cardinality(EntriesOf(call[a].rev))
    IN  /\ pc[a] = "append_read"
        /\ \/ /\ n < MaxEntries
              /\ Keep(a, [call[a] EXCEPT !.index = n])
              /\ Goto(a, "append_check")
           \/ n = MaxEntries /\ Return(a)  \* bound
        /\ UNCHANGED <<current, revs, entries>>

\* append_entry, first statement: the status is read without a lock.
CheckDraft(a) ==
    /\ pc[a] = "append_check"
    /\ \/ revs[call[a].rev].status = "draft" /\ Goto(a, "append_insert")
                                             /\ UNCHANGED call
       \/ revs[call[a].rev].status # "draft" /\ Return(a)
    /\ UNCHANGED <<current, revs, entries>>

\* Variant: no UNIQUE (gold_set_revision_id, entry_index).
InsertEntry_NotUnique(a) ==
    LET new(q) == [rev |-> call[a].rev, index |-> call[a].index, query |-> q]
    IN  /\ pc[a] = "append_insert"
        /\ \E q \in Queries : entries' = entries \union {new(q)}
        /\ Return(a)
        /\ UNCHANGED <<current, revs>>

\* append_entry, second statement and commit; the index may be taken by now.
InsertEntry(a) ==
    LET new(q) == [rev |-> call[a].rev, index |-> call[a].index, query |-> q]
    IN  /\ pc[a] = "append_insert"
        /\ \/ /\ \A e \in EntriesOf(call[a].rev) : e.index # call[a].index
              /\ \E q \in Queries : entries' = entries \union {new(q)}
           \/ /\ \E e \in EntriesOf(call[a].rev) : e.index = call[a].index
              /\ UNCHANGED entries
        /\ Return(a)
        /\ UNCHANGED <<current, revs>>

-----------------------------------------------------------------------------
(* finalize_revision *)

\* NoDraftToFinalizeError without a draft: the call reads and returns.
FindDraftToFinalize(a) ==
    /\ pc[a] = "idle"
    /\ \E n \in Drafts :
        /\ CurrentDraft(n)
        /\ Keep(a, [NoCall EXCEPT !.rev = n])
        /\ Goto(a, "finalize_read")
    /\ UNCHANGED <<current, revs, entries>>

\* EmptyDraftError for a draft without entries.
ReadEntriesToFinalize(a) ==
    LET read == EntriesOf(call[a].rev)
    IN  /\ pc[a] = "finalize_read"
        /\ \/ /\ read # {}
              /\ Keep(a, [call[a] EXCEPT !.covers = read])
              /\ Goto(a, "finalize_prior")
           \/ read = {} /\ Return(a)
        /\ UNCHANGED <<current, revs, entries>>

\* Variant: every revision is chained to the genesis hash.
ReadPrior_Genesis(a) ==
    /\ pc[a] = "finalize_prior"
    /\ Goto(a, "finalize_write")
    /\ UNCHANGED <<current, revs, entries, call>>

\* The hash to chain to: the current revision's, or GENESIS_REVISION_HASH (0).
ReadPrior(a) ==
    /\ pc[a] = "finalize_prior"
    /\ Keep(a, [call[a] EXCEPT !.prior = current])
    /\ Goto(a, "finalize_write")
    /\ UNCHANGED <<current, revs, entries>>

\* Variant: UPDATE without WHERE status = 'draft'.
FinalizeRevision_NoGuard(a) ==
    LET c == call[a]
    IN  /\ pc[a] = "finalize_write"
        /\ revs' = [revs EXCEPT ![c.rev] = [status |-> "finalized",
                              prev |-> c.prior, covers |-> c.covers]]
        /\ current' = c.rev
        /\ Return(a)
        /\ UNCHANGED entries

(* UPDATE .. WHERE status = 'draft': ValueError when another finalization was
   first; else the revision and the gold set change in one commit. *)
FinalizeRevision(a) ==
    LET c == call[a]
    IN  /\ pc[a] = "finalize_write"
        /\ \/ /\ revs[c.rev].status = "draft"
              /\ revs' = [revs EXCEPT ![c.rev] = [status |-> "finalized",
                                    prev |-> c.prior, covers |-> c.covers]]
              /\ current' = c.rev
           \/ revs[c.rev].status # "draft" /\ UNCHANGED <<revs, current>>
        /\ Return(a)
        /\ UNCHANGED entries

\* The request is cancelled or the process dies between two statements.
Abandon(a) == /\ pc[a] # "idle"
              /\ Return(a)
              /\ UNCHANGED <<current, revs, entries>>

-----------------------------------------------------------------------------
AppendEntry(a) == \/ FindDraftToAppend(a) \/ ReadSnapshotToAppend(a)
                  \/ OpenDraft(a) \/ ReadEntriesToAppend(a)
                  \/ CheckDraft(a) \/ InsertEntry(a)
Finalize(a) == \/ FindDraftToFinalize(a) \/ ReadEntriesToFinalize(a)
               \/ ReadPrior(a) \/ FinalizeRevision(a)

Next == \/ CreateGoldSet
        \/ \E a \in Actors : AppendEntry(a) \/ Finalize(a) \/ Abandon(a)

\* Calls that have started run on; nobody has to start one.
Continue(a) == pc[a] # "idle" /\ (AppendEntry(a) \/ Finalize(a))

Spec == Init /\ [][Next]_vars /\ \A a \in Actors : WF_vars(Continue(a))

-----------------------------------------------------------------------------
Call == [rev: 0..MaxRevision, index: 0..MaxEntries - 1, covers: SUBSET Entry,
         prior: 0..MaxRevision]
Labels == {"idle", "append_snapshot", "append_open", "append_read",
           "append_check", "append_insert",
           "finalize_read", "finalize_prior", "finalize_write"}
Revision == [status: {"none", "draft", "finalized"}, prev: 0..MaxRevision,
             covers: SUBSET Entry]

(* Type invariant: rows and calls have their shapes, and a call past its first
   read knows which revision it works on. *)
TypeOK ==
    /\ current \in 0..MaxRevision
    /\ revs \in [Numbers -> Revision]
    /\ entries \subseteq Entry
    /\ pc \in [Actors -> Labels]
    /\ call \in [Actors -> Call]
    /\ \A a \in Actors :
          pc[a] \notin {"idle", "append_snapshot"} => call[a].rev \in Numbers

(* The finalized revisions are 1 .. current, each chained to the one before it;
   at most the next one is a draft.  No interleaving of append and finalize
   calls forks the chain, skips a number or opens a second draft. *)
LinearChain ==
    /\ \A n \in Numbers : Finalized(n) <=> n <= current
    /\ \A n \in Numbers : Finalized(n) => revs[n].prev = n - 1
    /\ Drafts \subseteq {current + 1}

(* The entries of a revision are numbered 0, 1, 2, .. without a gap and without
   a double, whoever counts and inserts at the same time. *)
IndexesContiguous ==
    \A n \in Numbers :
        /\ \A e, f \in EntriesOf(n) : e.index = f.index => e = f
        /\ \A e \in EntriesOf(n) : \A i \in 0..(e.index - 1) :
              \E f \in EntriesOf(n) : f.index = i

(* Finalizing twice never re-seals a revision: its hash stays what it was. *)
SealedOnce ==
    [][\A n \in Numbers : Finalized(n) => revs'[n] = revs[n]]_vars

\* The abstract log of sealed revisions, and that the gold set implements it.
Log == INSTANCE RevisionLog WITH head <- current,
                                 link <- [n \in 1..current |-> revs[n].prev]
ImplementsLog == Log!Spec

(* The documentation's claim (D31): a finalized revision never changes, so its
   entries do not either. *)
FinalizedEntriesFixed ==
    [][\A e \in entries' \ entries : ~Finalized(e.rev)]_vars

=============================================================================
