----------------------------- MODULE AuditPages -----------------------------
(***************************************************************************)
(* PostgresAuditEventReader beside the emitters of AuditChain: a consumer  *)
(* walks through a table by pages, newest first, and each page carries a   *)
(* verdict on the chain.                                                   *)
(*                                                                         *)
(* Every page is one SELECT in a session of its own, so emits commit       *)
(* between the pages of a walk.  The cursor is the (timestamp, id) of the  *)
(* last row of the page before; it carries the page size, not the filters, *)
(* which the consumer sends again.  The filters are a set of events.       *)
(*                                                                         *)
(* Rows are never updated, so the hash of each recomputes: the verdict     *)
(* "broken_at_row" is for rows that were altered in the database, which    *)
(* nothing here does.                                                      *)
(***************************************************************************)
EXTENDS AuditChain

CONSTANTS Readers,    \* the destinations with a consumer: it reads its own table only
          Filters,    \* the sets of events their filters match
          PageSizes,  \* the page sizes they ask for
          MaxWalks    \* bound: walks ever begun

ASSUME PagesAssumption ==
    /\ Readers \subseteq Destinations /\ Filters \subseteq SUBSET Events
    /\ PageSizes \subseteq Nat \ {0} /\ MaxWalks \in Nat

VARIABLES walk,   \* per consumer: where its walk is, and what it was given
          walks   \* walks begun so far

pageVars == <<walk, walks>>

NoRow == [event |-> 0]
NoWalk == [state |-> "none"]

-----------------------------------------------------------------------------
\* Variant: the cursor compares timestamps only.
Beyond_Timestamp(cursor, r) == cursor = NoRow \/ r.ts < cursor.ts

\* (timestamp, id) < (cursor.timestamp, cursor.id)
Beyond(cursor, r) == cursor = NoRow \/ Before(r, cursor)

Matching(dest, filter, cursor) ==
    {r \in Table(dest) : r.event \in filter /\ Beyond(cursor, r)}

\* ORDER BY timestamp DESC, id DESC LIMIT n.
Newest(S, n) == {r \in S : Cardinality({q \in S : Before(r, q)}) < n}
Last(page) == CHOOSE r \in page : \A q \in page : ~Before(q, r)

\* Variant: a link to any row of the segment will do.
VerifySegment_AnyLink(page) ==
    IF /\ Cardinality(page) >= 2
       /\ \A r \in page : \/ \A q \in page : ~Before(q, r)
                          \/ \E q \in page : q.event = r.prev
    THEN "verified" ELSE "partial"

(* _verify_segment: in the order of (timestamp, id) each row links to the one
   before it; a single row, or none, has no link to verify. *)
VerifySegment(page) ==
    LET Follows(q, r) == Before(q, r) /\ \A p \in page : ~(Before(q, p) /\ Before(p, r))
    IN  IF /\ Cardinality(page) >= 2
           /\ \A q, r \in page : Follows(q, r) => r.prev = q.event
        THEN "verified" ELSE "partial"

(* list_audit_events_with_filters, of the page after the cursor. *)
GivenPage(w) ==
    LET matching == Matching(w.dest, w.filter, w.cursor)
        page == Newest(matching, w.size)
        hasNext == Cardinality(matching) > w.size
    IN  [w EXCEPT !.page = page,
                  !.verdict = VerifySegment(page),
                  !.intact = VerifyChain(Table(w.dest)),
                  !.listed = @ \union page,
                  !.given = @ + Cardinality(page),
                  !.cursor = IF hasNext THEN Last(page) ELSE NoRow,
                  !.state = IF hasNext THEN "walking" ELSE "ended"]

ListFirst(c) ==
    /\ walk[c].state \in {"none", "ended"}
    /\ walks < MaxWalks /\ walks' = walks + 1
    /\ \E f \in Filters, n \in PageSizes :
        walk' = [walk EXCEPT ![c] = GivenPage(
            [state |-> "walking", dest |-> c, filter |-> f, size |-> n, cursor |-> NoRow,
             page |-> {}, verdict |-> "partial", intact |-> TRUE, listed |-> {}, given |-> 0,
             begun |-> Table(c)])]
    /\ UNCHANGED vars

ListNext(c) ==
    /\ walk[c].state = "walking"
    /\ walk' = [walk EXCEPT ![c] = GivenPage(@)]
    /\ UNCHANGED <<vars, walks>>

PagesInit == Init /\ walk = [c \in Readers |-> NoWalk] /\ walks = 0

PagesNext == \/ Next /\ UNCHANGED pageVars
             \/ \E c \in Readers : ListFirst(c) \/ ListNext(c)

PagesSpec == PagesInit /\ [][PagesNext]_<<vars, pageVars>> /\ Fairness

-----------------------------------------------------------------------------
(* Whatever is emitted meanwhile, and wherever it is inserted, a walk that came
   to its end was given every matching row that was committed when it began,
   and it was given no row twice. *)
WalkCoversSnapshot ==
    \A c \in Readers : walk[c].state # "none" =>
        /\ walk[c].given = Cardinality(walk[c].listed)
        /\ walk[c].state = "ended" =>
              {r \in walk[c].begun : r.event \in walk[c].filter} \subseteq walk[c].listed

(* What a page's verdict is worth.  No two rows of a verified page claim the same
   predecessor, and all but the oldest link into the page.  An unfiltered page
   with two rows is verified whenever verify_chain accepts the table; that it
   accepts the table does not follow from verified pages, as nobody verifies
   the link between two pages. *)
VerdictsAgree ==
    \A c \in Readers : walk[c].state # "none" =>
        LET page == walk[c].page
        IN  /\ walk[c].verdict = "verified" =>
                  /\ \A q, r \in page : q # r => q.prev # r.prev
                  /\ \E first \in page : \A r \in page \ {first} :
                        \E q \in page : r.prev = q.event
            /\ walk[c].intact /\ walk[c].filter = Events /\ Cardinality(page) >= 2
                  => walk[c].verdict = "verified"
=============================================================================
