------------------------------ MODULE Explorer ------------------------------
(***************************************************************************)
(* The explorer: list (api/src/routes/contracts.rs) over                   *)
(* list_verifications (common/src/repo.rs), for a client that walks the    *)
(* pages of one filter while workers publish.                              *)
(*                                                                         *)
(* A response is two statements, the page and then the count, and a walk   *)
(* is many responses. Rows are ordered by verified_at, newest first. An    *)
(* upsert stamps its row when it begins (now()) and the row is seen when it *)
(* commits, so of two upserts of a contract the older may commit last.     *)
(*                                                                         *)
(* A definition introduced by "Mistake:" is the next definition with one   *)
(* plausible error; no specification uses it.                              *)
(***************************************************************************)
EXTENDS Integers, SequencesExt, OrderBy

CONSTANTS
  Contracts,     \* the (contract_id, network) pairs that workers publish
  MAX_PER_PAGE,
  Asked,         \* what clients ask for as per_page
  Filters,       \* what they ask for as verified: a verdict, or "all"
  MaxUpserts,    \* bound on upserts, and with them on the clock
  Publishers,    \* bound on upserts at a time: the builds that run
  NONE           \* no row

Verdicts == {"verified", "mismatch"}

ASSUME ExplorerAssumption ==
  /\ IsFiniteSet(Contracts)
  /\ MAX_PER_PAGE \in Nat \ {0} /\ Asked \subseteq Nat
  /\ Filters \subseteq Verdicts \cup {"all"}
  /\ MaxUpserts \in Nat /\ Publishers \in Nat

VARIABLES
  clock,    \* the database's clock; no two upserts begin at the same time
  rows,     \* contract -> its row of `verifications`: [stamp, status], or NONE
  upserts,  \* upserts that have begun and not committed: [contract, stamp, status]
  client,   \* "idle", "page" and "count" (the statement to come), "done", "gone"
  filter, asked, page, \* the query parameters; list lifts a page of 0 to 1
  items,    \* of the response: its page, once it is read
  total,    \* the count of the last response
  shown,    \* history: the contracts the walk has listed, in order
  atStart,  \* history: the whole listing when the walk began
  published,\* history: contracts whose upsert committed during the walk
  receded,  \* history: a listed row sank in the order, or left the filter, in the walk
  overrun   \* history: ... between the page and the count of a response

walkVars == <<client, filter, asked, page, items, total, shown, atStart>>
vars == <<clock, rows, upserts, walkVars, published, receded, overrun>>

Init ==
  /\ clock = 0 /\ rows = [c \in Contracts |-> NONE] /\ upserts = {}
  /\ client = "idle" /\ filter = "all" /\ asked = 1 /\ page = 1
  /\ items = <<>> /\ total = 0 /\ shown = <<>> /\ atStart = <<>>
  /\ published = {} /\ receded = FALSE /\ overrun = FALSE

Matches(row, f) == row # NONE /\ f \in {"all", row.status}

-----------------------------------------------------------------------------
(* upsert_verification; what happens when the walk is over is left out. *)

Watched == client \in {"idle", "page", "count"}

BeginUpsert(c, v) ==
  /\ Watched
  /\ clock < MaxUpserts /\ Cardinality(upserts) < Publishers
  /\ clock' = clock + 1
  /\ upserts' = upserts \cup {[contract |-> c, stamp |-> clock + 1, status |-> v]}
  /\ UNCHANGED <<rows, walkVars, published, receded, overrun>>

\* Does a listed row lose its place to the rows below it?
Recedes(old, new) ==
  Matches(old, filter) /\ (~Matches(new, filter) \/ new.stamp < old.stamp)

CommitUpsert(u) ==
  LET new == [stamp |-> u.stamp, status |-> u.status]
      old == rows[u.contract]
      walking == client \in {"page", "count"}
  IN  /\ Watched
      /\ upserts' = upserts \ {u}
      /\ rows' = [rows EXCEPT ![u.contract] = new]
      /\ published' = IF walking THEN published \cup {u.contract} ELSE published
      /\ receded' = (receded \/ (walking /\ Recedes(old, new)))
      /\ overrun' = (overrun \/ (client = "count" /\ Recedes(old, new)))
      /\ UNCHANGED <<clock, walkVars>>

-----------------------------------------------------------------------------
(* list *)

\* Mistake: per_page is only bounded from above.
CappedPerPage == IF asked > MAX_PER_PAGE THEN MAX_PER_PAGE ELSE asked

\* Mistake: per_page is only bounded from below.
LiftedPerPage == IF asked < 1 THEN 1 ELSE asked

\* clamp
PerPage ==
  IF asked < 1 THEN 1 ELSE IF asked > MAX_PER_PAGE THEN MAX_PER_PAGE ELSE asked

\* Mistake: pages overlap by a row.
OffsetShort == IF page = 1 THEN 0 ELSE (page - 1) * PerPage - 1

Offset == (page - 1) * PerPage

\* Mistake: oldest first.
OldestFirst(c, d) == rows[c].stamp < rows[d].stamp

\* ORDER BY verified_at DESC
Before(c, d) == rows[c].stamp > rows[d].stamp
ByDate(S) == {p \in S \X S : Before(p[1], p[2])}

\* The rows that the filter lets pass, in their order.
Listed(f) == {c \in Contracts : Matches(rows[c], f)}
ListingFor(f) == Sorted(Listed(f), ByDate(Listed(f)))
Listing == ListingFor(filter)

\* A client begins to walk; it asks for page after page until one is short. The
\* API remembers nothing of a client, so one walk is all there is to see.
Walk(f, n) ==
  /\ client = "idle"
  /\ client' = "page" /\ filter' = f /\ asked' = n /\ atStart' = ListingFor(f)
  /\ UNCHANGED <<clock, rows, upserts, page, items, total, shown, published, receded, overrun>>

\* LIMIT per_page OFFSET offset
ReadPage ==
  /\ client = "page" /\ client' = "count"
  /\ items' = [i \in {k \in 1..PerPage : Offset + k <= Len(Listing)} |-> Listing[Offset + i]]
  /\ overrun' = FALSE
  /\ UNCHANGED <<clock, rows, upserts, filter, asked, page, total, shown, atStart,
                 published, receded>>

\* Mistake: the rows are counted for the first page of a walk only.
CountOnce == IF page = 1 THEN Len(Listing) ELSE total

Count == Len(Listing)

\* COUNT(*); then the response is complete.
ReadTotal ==
  /\ client = "count"
  /\ total' = Count
  /\ shown' = shown \o items /\ items' = <<>>
  /\ IF Len(items) < PerPage THEN client' = "done" /\ UNCHANGED page
                             ELSE client' = "page" /\ page' = page + 1
  /\ UNCHANGED <<clock, rows, upserts, filter, asked, atStart, published, receded, overrun>>

\* A statement fails (500), or the client loses interest.
Break ==
  /\ client \in {"page", "count"} /\ client' = "gone"
  /\ UNCHANGED <<clock, rows, upserts, filter, asked, page, items, total, shown, atStart,
                 published, receded, overrun>>

-----------------------------------------------------------------------------
Next ==
  \/ \E c \in Contracts, v \in Verdicts : BeginUpsert(c, v)
  \/ \E u \in upserts : CommitUpsert(u)
  \/ \E f \in Filters, n \in Asked : Walk(f, n)
  \/ ReadPage \/ ReadTotal \/ Break

Spec == Init /\ [][Next]_vars

-----------------------------------------------------------------------------
(* Properties *)

TypeOK ==
  /\ clock \in 0..MaxUpserts
  /\ rows \in [Contracts -> [stamp : 1..clock, status : Verdicts] \cup {NONE}]
  /\ atStart \in Seq(Contracts)
  /\ upserts \subseteq [contract : Contracts, stamp : 1..clock, status : Verdicts]
  /\ client \in {"idle", "page", "count", "done", "gone"}
  /\ filter \in Filters \cup {"all"} /\ asked \in Asked \cup {1} /\ page \in Nat \ {0}
  /\ items \in Seq(Contracts) /\ Len(items) <= MAX_PER_PAGE
  /\ total \in 0..Cardinality(Contracts)
  /\ shown \in Seq(Contracts) /\ published \subseteq Contracts
  /\ receded \in BOOLEAN /\ overrun \in BOOLEAN

\* Newest-first order makes offsets safe to walk by: publications push rows to
\* later pages, so a row that was there from the start is listed, unless it was
\* itself published again or some listed row receded.
WalkMissesNothing ==
  client = "done" /\ ~receded =>
    ToSet(atStart) \ published \subseteq ToSet(shown)

\* A walk during which nothing is published lists the table, every row once.
QuietWalkIsExact ==
  client = "done" /\ published = {} => shown = atStart /\ total = Len(shown)

\* The total of a response covers the rows up to the end of its page, although it
\* is read later, unless a listed row receded in between.
TotalCoversPage ==
  [][client = "count" /\ client' \in {"page", "done"} /\ items # <<>> /\ ~overrun =>
       total' >= Offset + Len(items)]_vars

\* Whatever per_page a client asks for and whatever is published meanwhile, its
\* walk comes to an end: it takes at most a request for every row and one more.
WalkIsBounded == page <= Cardinality(Contracts) + 1
=============================================================================
