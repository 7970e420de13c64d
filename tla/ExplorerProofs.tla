--------------------------- MODULE ExplorerProofs ----------------------------
(***************************************************************************)
(* Proofs about Explorer.tla, for every finite set of contracts, any page  *)
(* size, any number of publishers, and publications between and within the *)
(* responses of a walk.                                                    *)
(*                                                                         *)
(* The argument counts. The rank of a row is the number of listed rows     *)
(* above it (Ahead), and a page is the rows whose ranks lie between two    *)
(* offsets. While no listed row recedes, the listing only grows and ranks  *)
(* only rise: what the walk has not listed yet stays at or beyond its next *)
(* offset (NoneMissed), and the count covers the page (CountCovers).       *)
(***************************************************************************)
EXTENDS Explorer, OrderByProofs, SequenceTheorems

\* The listed rows that come before row c.
Ahead(c) == {d \in Listed(filter) : Before(d, c)}

\* No two rows have the same date, nor will they when the upserts commit.
StampsDiffer ==
  /\ \A c, d \in Contracts :
       rows[c] # NONE /\ rows[d] # NONE /\ rows[c].stamp = rows[d].stamp => c = d
  /\ \A c \in Contracts, u \in upserts : rows[c] # NONE => rows[c].stamp # u.stamp
  /\ \A u, w \in upserts : u.stamp = w.stamp => u = w

\* A walk begins at the first page, and nothing was published in it yet.
WalkBegins ==
  client = "idle" =>
    page = 1 /\ shown = <<>> /\ items = <<>> /\ published = {} /\ ~receded

\* A page has at most PerPage rows, and the table had that many.
PageFits ==
  client = "count" =>
    /\ Len(items) <= PerPage
    /\ items # <<>> => Offset + Len(items) <= Cardinality(Contracts)

\* Unless a listed row receded since, the listing still has the rows of the page.
CountCovers ==
  client = "count" /\ ~overrun /\ items # <<>> =>
    Offset + Len(items) <= Cardinality(Listed(filter))

\* While nothing is published the walk follows the listing it began with.
QuietSoFar ==
  client \in {"page", "count"} /\ published = {} =>
    /\ atStart = Listing
    /\ Len(shown) = Offset /\ Offset <= Len(atStart)
    /\ \A i \in 1..Offset : shown[i] = atStart[i]
    /\ client = "count" =>
         /\ Offset + Len(items) <= Len(atStart)
         /\ \A i \in 1..Len(items) : items[i] = atStart[Offset + i]
         /\ Len(items) < PerPage => Offset + Len(items) = Len(atStart)

\* Where a row of the listing at the start is while the walk goes on: it was shown,
\* it is on the page that was read, or its rank is on a page to come.
ToCome(c, offset) == Matches(rows[c], filter) /\ Cardinality(Ahead(c)) >= offset

NoneMissed ==
  client \in {"page", "count", "done"} /\ ~receded =>
    \A c \in ToSet(atStart) \ published :
      \/ c \in ToSet(shown)
      \/ client = "page" /\ ToCome(c, Offset)
      \/ client = "count" /\ c \in ToSet(items)
      \/ client = "count" /\ Len(items) = PerPage /\ ToCome(c, Offset + PerPage)

IInv ==
  /\ TypeOK
  /\ StampsDiffer
  /\ WalkBegins
  /\ WalkIsBounded
  /\ PageFits
  /\ CountCovers
  /\ QuietSoFar
  /\ QuietWalkIsExact
  /\ NoneMissed
-----------------------------------------------------------------------------
(* Pages and listings *)

\* The next page begins where this one ends.
LEMMA PagesAdjoin ==
  ASSUME NEW p \in Nat \ {0}, NEW n \in Nat \ {0}
  PROVE  (p - 1) * n \in Nat /\ (p + 1 - 1) * n = (p - 1) * n + n /\ p <= (p - 1) * n + n
<1>1. (p - 1) * n \in Nat /\ (p + 1 - 1) * n = p * n /\ (p - 1) * n + n = p * n
  OBVIOUS
<1>2. p <= p * n
  OBVIOUS
<1>q. QED BY <1>1, <1>2

\* clamp leaves at least one row to a page.
LEMMA PerPageType ==
  ASSUME ExplorerAssumption, TypeOK
  PROVE  PerPage \in Nat \ {0} /\ PerPage <= MAX_PER_PAGE /\ Offset \in Nat /\ Cardinality(Contracts) \in Nat
<1>1. asked \in Nat /\ MAX_PER_PAGE \in Nat \ {0} /\ page \in Nat \ {0}
  BY DEF TypeOK, ExplorerAssumption
<1>2. PerPage \in Nat \ {0} /\ PerPage <= MAX_PER_PAGE
  BY <1>1 DEF PerPage
<1>3. Offset \in Nat
  BY <1>1, <1>2, PagesAdjoin DEF Offset
<1>q. QED BY <1>2, <1>3, FS_CardinalityType DEF ExplorerAssumption

\* Rows that match have a date.
LEMMA MatchType ==
  ASSUME ExplorerAssumption, TypeOK, NEW f, NEW c \in Contracts, Matches(rows[c], f)
  PROVE  rows[c] # NONE /\ rows[c] \in [stamp : 1..clock, status : Verdicts] /\ rows[c].stamp \in Nat
<1>1. rows[c] # NONE /\ rows[c] \in [stamp : 1..clock, status : Verdicts]
  BY DEF Matches, TypeOK
<1>2. clock \in Nat
  BY DEF TypeOK, ExplorerAssumption
<1>q. QED BY <1>1, <1>2

\* The dates order the listing strictly, and the table is finite.
LEMMA ListedFacts ==
  ASSUME ExplorerAssumption, TypeOK, StampsDiffer, NEW f
  PROVE  /\ IsFiniteSet(Listed(f)) /\ Listed(f) \subseteq Contracts
         /\ Cardinality(Listed(f)) \in Nat /\ Cardinality(Listed(f)) <= Cardinality(Contracts)
         /\ OrdersStrictly(ByDate(Listed(f)), Listed(f))
<1> DEFINE L == Listed(f)
<1>1. L \in SUBSET Contracts /\ IsFiniteSet(Contracts)
  BY DEF Listed, ExplorerAssumption
<1>2. \A c \in L : c \in Contracts /\ rows[c] # NONE /\ rows[c].stamp \in Nat
  BY MatchType DEF Listed
<1>3. \A c, d \in L : <<c, d>> \in ByDate(L) <=> rows[c].stamp > rows[d].stamp
  BY DEF ByDate, Before
<1>4. \A c, d \in L : c # d => rows[c].stamp # rows[d].stamp
  BY <1>2 DEF StampsDiffer
<1> HIDE DEF L
<1>5. OrdersStrictly(ByDate(L), L)
  <2>1. \A c \in L : <<c, c>> \notin ByDate(L)
    BY <1>2, <1>3
  <2>2. ASSUME NEW b \in L, NEW c \in L, NEW d \in L,
               <<b, c>> \in ByDate(L), <<c, d>> \in ByDate(L)
        PROVE  <<b, d>> \in ByDate(L)
    <3>1. rows[b].stamp > rows[c].stamp /\ rows[c].stamp > rows[d].stamp
      BY <1>3, <2>2
    <3>2. rows[b].stamp \in Nat /\ rows[c].stamp \in Nat /\ rows[d].stamp \in Nat
      BY <1>2
    <3>3. rows[b].stamp > rows[d].stamp
      BY <3>1, <3>2
    <3>q. QED BY <1>3, <3>3
  <2>3. ASSUME NEW c \in L, NEW d \in L, c # d
        PROVE  <<c, d>> \in ByDate(L) \/ <<d, c>> \in ByDate(L)
    <3>1. rows[c].stamp \in Nat /\ rows[d].stamp \in Nat /\ rows[c].stamp # rows[d].stamp
      BY <1>2, <1>4, <2>3
    <3>2. rows[c].stamp > rows[d].stamp \/ rows[d].stamp > rows[c].stamp
      BY <3>1
    <3>q. QED BY <1>3, <3>2
  <2>q. QED BY <2>1, <2>2, <2>3 DEF OrdersStrictly
<1>6. /\ IsFiniteSet(L) /\ Cardinality(L) \in Nat
      /\ Cardinality(L) <= Cardinality(Contracts)
  BY <1>1, FS_Subset, FS_CardinalityType
<1>q. QED BY <1>1, <1>5, <1>6 DEF L

\* A listing is a sequence of the rows that match.
LEMMA ListingType ==
  ASSUME ExplorerAssumption, TypeOK, StampsDiffer, NEW f
  PROVE  /\ ListingFor(f) \in Seq(Contracts)
         /\ Len(ListingFor(f)) = Cardinality(Listed(f))
         /\ \A i \in 1..Len(ListingFor(f)) : ListingFor(f)[i] \in Listed(f)
<1>1. /\ Sorted(Listed(f), ByDate(Listed(f))) \in Seq(Listed(f))
      /\ Len(Sorted(Listed(f), ByDate(Listed(f)))) = Cardinality(Listed(f))
  BY ListedFacts, SortedType
<1>2. Listed(f) \subseteq Contracts
  BY ListedFacts
<1> HIDE DEF Listed, ByDate
<1>3. Sorted(Listed(f), ByDate(Listed(f))) \in Seq(Contracts)
  BY <1>1, <1>2, SeqMonotonic
<1>4. \A i \in 1..Len(Sorted(Listed(f), ByDate(Listed(f)))) :
        Sorted(Listed(f), ByDate(Listed(f)))[i] \in Listed(f)
  BY <1>1, ElementOfSeq
<1>q. QED BY <1>1, <1>3, <1>4 DEF ListingFor

\* A row that matches is listed right after the rows ahead of it.
LEMMA ListedAtRank ==
  ASSUME ExplorerAssumption, TypeOK, StampsDiffer, NEW c \in Contracts, Matches(rows[c], filter)
  PROVE  /\ Cardinality(Ahead(c)) \in Nat
         /\ Cardinality(Ahead(c)) + 1 \in 1..Len(Listing)
         /\ Listing[Cardinality(Ahead(c)) + 1] = c
<1> DEFINE L == Listed(filter)
<1>1. c \in L
  BY DEF Listed
<1>2. Preceding(c, L, ByDate(L)) = Ahead(c)
  BY <1>1 DEF Preceding, ByDate, Ahead
<1>3. IsFiniteSet(L) /\ OrdersStrictly(ByDate(L), L)
  BY ListedFacts
<1>4. Listing = Sorted(L, ByDate(L)) /\ Len(Listing) = Cardinality(L)
  BY ListingType DEF Listing, ListingFor
<1> HIDE DEF L
<1>5. /\ Cardinality(Preceding(c, L, ByDate(L))) + 1 \in 1..Cardinality(L)
      /\ Sorted(L, ByDate(L))[Cardinality(Preceding(c, L, ByDate(L))) + 1] = c
  BY <1>1, <1>3, SortedListsAll
<1>6. Cardinality(Preceding(c, L, ByDate(L))) \in Nat
  BY <1>1, <1>3, RankType, FS_CardinalityType
<1>q. QED BY <1>2, <1>4, <1>5, <1>6

\* What is listed, and where, depends on the rows and the filter alone.
LEMMA SameListing ==
  ASSUME rows' = rows, filter' = filter
  PROVE  /\ Listed(filter)' = Listed(filter) /\ Listing' = Listing
         /\ \A c, n : Ahead(c)' = Ahead(c) /\ (ToCome(c, n)' <=> ToCome(c, n))
<1>1. Listed(filter)' = Listed(filter)
  BY DEF Listed, Matches
<1>2. ByDate(Listed(filter))' = ByDate(Listed(filter))
  BY <1>1 DEF ByDate, Before
<1>3. Listing' = Listing
  BY <1>1, <1>2 DEF Listing, ListingFor
<1>4. ASSUME NEW c, NEW n PROVE Ahead(c)' = Ahead(c) /\ (ToCome(c, n)' <=> ToCome(c, n))
  <2>1. Ahead(c)' = Ahead(c)
    BY <1>1 DEF Ahead, Before
  <2>q. QED BY <2>1 DEF ToCome, Matches
<1>q. QED BY <1>1, <1>3, <1>4
-----------------------------------------------------------------------------
(* The publishers *)

\* An upsert that begins takes a date that no row and no other upsert has.
LEMMA BeginUpsertKeeps ==
  ASSUME ExplorerAssumption, IInv, NEW b \in Contracts, NEW v \in Verdicts, BeginUpsert(b, v)
  PROVE  IInv'
<1> USE DEF IInv
<1> DEFINE new == [contract |-> b, stamp |-> clock + 1, status |-> v]
<1>1. /\ clock \in Nat /\ clock + 1 \in 0..MaxUpserts /\ clock' = clock + 1
      /\ upserts' = upserts \cup {new} /\ new.stamp = clock + 1
      /\ new \in [contract : Contracts, stamp : 1..clock', status : Verdicts]
      /\ UNCHANGED <<rows, walkVars, published, receded, overrun>>
  BY DEF BeginUpsert, TypeOK, ExplorerAssumption
<1> HIDE DEF new
<1>2. TypeOK'
  <2>1. 1..clock \subseteq 1..clock'
    BY <1>1
  <2>2. rows \in [Contracts -> [stamp : 1..clock', status : Verdicts] \cup {NONE}]
    <3>1. \A c \in Contracts : rows[c] \in [stamp : 1..clock', status : Verdicts] \cup {NONE}
      BY <2>1 DEF TypeOK
    <3>q. QED BY <3>1 DEF TypeOK
  <2>3. upserts' \subseteq [contract : Contracts, stamp : 1..clock', status : Verdicts]
    BY <1>1, <2>1 DEF TypeOK
  <2>q. QED BY <1>1, <2>2, <2>3 DEF TypeOK, walkVars
<1>3. StampsDiffer'
  <2>1. \A u \in upserts : u.stamp \in 1..clock
    BY DEF TypeOK
  <2>2. \A c \in Contracts : rows[c] # NONE => rows[c].stamp \in 1..clock
    BY DEF TypeOK
  <2>3. clock + 1 \notin 1..clock
    BY <1>1
  <2>q. QED BY <1>1, <2>1, <2>2, <2>3 DEF StampsDiffer
<1>4. /\ Listed(filter)' = Listed(filter) /\ Listing' = Listing
      /\ \A c, n : ToCome(c, n)' <=> ToCome(c, n)
  BY <1>1, SameListing DEF walkVars
<1>5. Offset' = Offset /\ PerPage' = PerPage
  BY <1>1 DEF walkVars, Offset, PerPage
<1>6. WalkBegins' /\ WalkIsBounded' /\ QuietWalkIsExact'
  BY <1>1 DEF WalkBegins, WalkIsBounded, QuietWalkIsExact, walkVars
<1>7. PageFits' /\ CountCovers'
  BY <1>1, <1>4, <1>5 DEF PageFits, CountCovers, walkVars
<1>8. QuietSoFar'
  BY <1>1, <1>4, <1>5 DEF QuietSoFar, walkVars
<1>9. NoneMissed'
  BY <1>1, <1>4, <1>5 DEF NoneMissed, ToCome, Ahead, walkVars
<1>q. QED BY <1>2, <1>3, <1>6, <1>7, <1>8, <1>9

\* An upsert of a listed row that does not make it recede keeps the rows listed, and
\* keeps them ahead of the rows that it leaves alone.
LEMMA CommitRaisesRanks ==
  ASSUME ExplorerAssumption, TypeOK, NEW u \in upserts, CommitUpsert(u),
         ~Recedes(rows[u.contract], [stamp |-> u.stamp, status |-> u.status])
  PROVE  /\ Cardinality(Listed(filter)) <= Cardinality(Listed(filter)')
         /\ \A c \in Contracts \ {u.contract}, n \in Nat : ToCome(c, n) => ToCome(c, n)'
<1> DEFINE x == u.contract
           new == [stamp |-> u.stamp, status |-> u.status]
<1>1. /\ filter' = filter /\ x \in Contracts /\ rows' = [rows EXCEPT ![x] = new]
      /\ u.stamp \in Nat /\ new.stamp = u.stamp
  BY DEF CommitUpsert, walkVars, TypeOK, ExplorerAssumption
<1>2. rows'[x] = new /\ \A c \in Contracts \ {x} : rows'[c] = rows[c]
  BY <1>1 DEF TypeOK
<1>3. Matches(rows[x], filter) =>
        Matches(new, filter) /\ rows[x].stamp \in Nat /\ new.stamp >= rows[x].stamp
  <2>1. Matches(rows[x], filter) => Matches(new, filter) /\ ~(new.stamp < rows[x].stamp)
    BY DEF Recedes
  <2>q. QED BY <1>1, <2>1, MatchType
<1> HIDE DEF x, new
<1>4. \A c \in Contracts : Matches(rows[c], filter) => Matches(rows'[c], filter')
  BY <1>1, <1>2, <1>3
<1>5. Listed(filter) \subseteq Listed(filter)' /\ Listed(filter)' \subseteq Contracts
  BY <1>4 DEF Listed
<1>6. IsFiniteSet(Contracts)
  BY DEF ExplorerAssumption
<1>7. Cardinality(Listed(filter)) <= Cardinality(Listed(filter)')
  BY <1>5, <1>6, FS_Subset
<1>8. ASSUME NEW c \in Contracts \ {x}, NEW n \in Nat, ToCome(c, n)
      PROVE  ToCome(c, n)'
  <2>1. Matches(rows'[c], filter') /\ rows'[c] = rows[c] /\ rows[c].stamp \in Nat
    BY <1>2, <1>4, <1>8, MatchType DEF ToCome
  <2>2. ASSUME NEW d \in Ahead(c) PROVE d \in Ahead(c)'
    <3>1. /\ d \in Contracts /\ Matches(rows[d], filter) /\ rows[d].stamp > rows[c].stamp
          /\ d \in Listed(filter)' /\ rows[d].stamp \in Nat
      BY <1>5, <2>2, MatchType DEF Ahead, Listed, Before
    <3>2. CASE d # x
      BY <1>2, <2>1, <3>1, <3>2 DEF Ahead, Before
    <3>3. CASE d = x
      <4>1. new.stamp \in Nat /\ new.stamp >= rows[d].stamp
        BY <1>1, <1>3, <3>1, <3>3 DEF new
      <4>2. new.stamp > rows[c].stamp
        BY <2>1, <3>1, <4>1
      <4>q. QED BY <1>2, <2>1, <3>1, <3>3, <4>2 DEF Ahead, Before
    <3>q. QED BY <3>2, <3>3
  <2>3. Ahead(c) \in SUBSET Ahead(c)' /\ Ahead(c)' \in SUBSET Contracts
    BY <1>5, <2>2 DEF Ahead
  <2>4. /\ IsFiniteSet(Ahead(c)') /\ IsFiniteSet(Ahead(c))
        /\ Cardinality(Ahead(c)) <= Cardinality(Ahead(c)')
    BY <1>6, <2>3, FS_Subset
  <2>5. Cardinality(Ahead(c)) \in Nat /\ Cardinality(Ahead(c)') \in Nat
    BY <2>4, FS_CardinalityType
  <2>6. Cardinality(Ahead(c)') >= n
    BY <1>8, <2>4, <2>5 DEF ToCome
  <2>q. QED BY <2>1, <2>6 DEF ToCome
<1>q. QED BY <1>7, <1>8 DEF x

\* An upsert that commits during the walk is in published, and in receded or overrun
\* if it takes the listing back.
LEMMA CommitUpsertKeeps ==
  ASSUME ExplorerAssumption, IInv, NEW u \in upserts, CommitUpsert(u)
  PROVE  IInv'
<1> USE DEF IInv
<1> DEFINE x == u.contract
           new == [stamp |-> u.stamp, status |-> u.status]
           old == rows[x]
<1>1. /\ upserts' = upserts \ {u} /\ rows' = [rows EXCEPT ![x] = new]
      /\ client \in {"idle", "page", "count"}
      /\ published' = IF client \in {"page", "count"} THEN published \cup {x} ELSE published
      /\ receded' = (receded \/ (client \in {"page", "count"} /\ Recedes(old, new)))
      /\ overrun' = (overrun \/ (client = "count" /\ Recedes(old, new)))
      /\ UNCHANGED <<clock, walkVars>>
  BY DEF CommitUpsert, Watched
<1>2. /\ x \in Contracts /\ new \in [stamp : 1..clock, status : Verdicts]
      /\ new.stamp = u.stamp /\ new.stamp \in Nat
  BY DEF TypeOK, ExplorerAssumption
<1>3. rows'[x] = new /\ \A c \in Contracts \ {x} : rows'[c] = rows[c]
  BY <1>1, <1>2 DEF TypeOK
<1>4. ~Recedes(old, new) =>
        /\ Cardinality(Listed(filter)) <= Cardinality(Listed(filter)')
        /\ \A c \in Contracts \ {x}, n \in Nat : ToCome(c, n) => ToCome(c, n)'
  BY CommitRaisesRanks
<1> HIDE DEF x, new, old
<1>5. Offset' = Offset /\ PerPage' = PerPage
  BY <1>1 DEF walkVars, Offset, PerPage
<1>6. PerPage \in Nat \ {0} /\ Offset \in Nat /\ Cardinality(Contracts) \in Nat
  BY PerPageType
<1>7. TypeOK'
  <2>1. rows' \in [Contracts -> [stamp : 1..clock, status : Verdicts] \cup {NONE}]
    BY <1>1, <1>2 DEF TypeOK
  <2>2. published' \subseteq Contracts /\ receded' \in BOOLEAN /\ overrun' \in BOOLEAN
    BY <1>1, <1>2 DEF TypeOK
  <2>q. QED BY <1>1, <2>1, <2>2 DEF TypeOK, walkVars
<1>8. StampsDiffer'
  <2>1. \A w \in upserts \ {u} : w.stamp # new.stamp
    BY <1>2 DEF StampsDiffer
  <2>2. \A c \in Contracts : rows[c] # NONE => rows[c].stamp # new.stamp
    BY <1>2 DEF StampsDiffer
  <2>q. QED BY <1>1, <1>2, <1>3, <2>1, <2>2 DEF StampsDiffer
<1>9. WalkBegins' /\ WalkIsBounded' /\ QuietWalkIsExact'
  BY <1>1 DEF WalkBegins, WalkIsBounded, QuietWalkIsExact, walkVars
<1>10. PageFits'
  BY <1>1, <1>5 DEF PageFits, walkVars
<1>11. CountCovers'
  <2> SUFFICES ASSUME client = "count", ~overrun, ~Recedes(old, new), items # <<>>
               PROVE  Offset + Len(items) <= Cardinality(Listed(filter)')
    BY <1>1, <1>5 DEF CountCovers, walkVars
  <2>1. Offset + Len(items) <= Cardinality(Listed(filter))
    BY DEF CountCovers
  <2>2. Cardinality(Listed(filter)) <= Cardinality(Listed(filter)')
    BY <1>4
  <2>3. Len(items) \in Nat /\ Cardinality(Listed(filter)) \in Nat
    BY ListedFacts DEF TypeOK
  <2>4. Cardinality(Listed(filter)') \in Nat
    <3>1. Listed(filter)' \in SUBSET Contracts /\ IsFiniteSet(Contracts)
      BY DEF Listed, ExplorerAssumption
    <3>q. QED BY <3>1, FS_Subset, FS_CardinalityType
  <2>q. QED BY <1>6, <2>1, <2>2, <2>3, <2>4
<1>12. QuietSoFar'
  BY <1>1 DEF QuietSoFar, walkVars
<1>13. NoneMissed'
  <2> SUFFICES ASSUME client \in {"page", "count"}, ~receded, ~Recedes(old, new),
                      NEW c \in ToSet(atStart) \ (published \cup {x})
               PROVE  \/ c \in ToSet(shown)
                      \/ client = "page" /\ ToCome(c, Offset)'
                      \/ client = "count" /\ c \in ToSet(items)
                      \/ client = "count" /\ Len(items) = PerPage /\ ToCome(c, Offset + PerPage)'
    BY <1>1, <1>5 DEF NoneMissed, walkVars
  <2>1. c \in Contracts \ {x}
    BY DEF TypeOK, ToSet
  <2>2. \/ c \in ToSet(shown)
        \/ client = "page" /\ ToCome(c, Offset)
        \/ client = "count" /\ c \in ToSet(items)
        \/ client = "count" /\ Len(items) = PerPage /\ ToCome(c, Offset + PerPage)
    BY DEF NoneMissed
  <2>3. Offset + PerPage \in Nat
    BY <1>6
  <2>q. QED BY <1>4, <1>5, <1>6, <2>1, <2>2, <2>3 DEF ToCome
<1>q. QED BY <1>7, <1>8, <1>9, <1>10, <1>11, <1>12, <1>13
-----------------------------------------------------------------------------
(* The client *)

\* A walk begins with all of its listing to come.
LEMMA WalkKeeps ==
  ASSUME ExplorerAssumption, IInv, NEW f \in Filters, NEW n \in Asked, Walk(f, n)
  PROVE  IInv'
<1> USE DEF IInv
<1>1. /\ client = "idle" /\ client' = "page" /\ filter' = f /\ asked' = n
      /\ atStart' = ListingFor(f)
      /\ UNCHANGED <<clock, rows, upserts, page, items, total, shown, published, receded, overrun>>
  BY DEF Walk
<1>2. page = 1 /\ shown = <<>> /\ items = <<>> /\ published = {} /\ ~receded
  BY <1>1 DEF WalkBegins
<1>3. /\ ListingFor(f) \in Seq(Contracts) /\ Len(ListingFor(f)) \in Nat
      /\ \A i \in 1..Len(ListingFor(f)) : ListingFor(f)[i] \in Listed(f)
  BY ListingType
<1>4. TypeOK'
  BY <1>1, <1>3 DEF TypeOK
<1>5. Offset' = 0
  <2>1. PerPage' \in Nat
    BY <1>1 DEF ExplorerAssumption, PerPage
  <2>2. \A k \in Nat : (1 - 1) * k = 0
    OBVIOUS
  <2>3. Offset' = (1 - 1) * PerPage'
    BY <1>1, <1>2 DEF Offset
  <2>q. QED BY <2>1, <2>2, <2>3
<1>6. StampsDiffer' /\ WalkBegins' /\ WalkIsBounded' /\ PageFits' /\ CountCovers' /\ QuietWalkIsExact'
  BY <1>1 DEF StampsDiffer, WalkBegins, WalkIsBounded, PageFits, CountCovers, QuietWalkIsExact
<1>7. QuietSoFar'
  <2>1. Listed(filter)' = Listed(f)
    BY <1>1 DEF Listed, Matches
  <2>2. ByDate(Listed(filter))' = ByDate(Listed(f))
    BY <1>1, <2>1 DEF ByDate, Before
  <2>3. Listing' = atStart'
    BY <1>1, <2>1, <2>2 DEF Listing, ListingFor
  <2>q. QED BY <1>1, <1>2, <1>3, <1>5, <2>3 DEF QuietSoFar
<1>8. NoneMissed'
  <2> SUFFICES ASSUME NEW c \in ToSet(atStart') PROVE ToCome(c, Offset)'
    BY <1>1 DEF NoneMissed
  <2>1. c \in Listed(f)
    BY <1>1, <1>3 DEF ToSet
  <2>2. Matches(rows[c], filter)'
    BY <1>1, <2>1 DEF Listed, Matches
  <2>3. Ahead(c)' \in SUBSET Contracts /\ IsFiniteSet(Contracts)
    BY DEF Ahead, Listed, ExplorerAssumption
  <2>4. Cardinality(Ahead(c)') \in Nat
    BY <2>3, FS_Subset, FS_CardinalityType
  <2>q. QED BY <1>5, <2>2, <2>4 DEF ToCome
<1>q. QED BY <1>4, <1>6, <1>7, <1>8

\* What LIMIT and OFFSET take of the listing.
LEMMA PageOfListing ==
  ASSUME ExplorerAssumption, TypeOK, StampsDiffer, ReadPage
  PROVE  /\ items' \in Seq(Contracts)
         /\ Len(items') <= PerPage
         /\ \A i \in 1..Len(items') : items'[i] = Listing[Offset + i]
         /\ items' # <<>> => Offset + Len(items') <= Len(Listing)
         /\ Len(items') < PerPage => Len(Listing) <= Offset + Len(items')
<1> DEFINE n == Len(Listing) - Offset
           m == IF n < 0 THEN 0 ELSE IF n < PerPage THEN n ELSE PerPage
<1>1. /\ PerPage \in Nat \ {0} /\ Offset \in Nat /\ Len(Listing) \in Nat
      /\ \A i \in 1..Len(Listing) : Listing[i] \in Contracts
  BY PerPageType, ListingType, ElementOfSeq DEF Listing
<1>2. m \in Nat /\ m <= PerPage /\ {k \in 1..PerPage : Offset + k <= Len(Listing)} = 1..m
  BY <1>1
<1>3. \A i \in 1..m : Offset + i \in 1..Len(Listing)
  BY <1>1, <1>2
<1>4. (m # 0 => Offset + m <= Len(Listing)) /\ (m < PerPage => Len(Listing) <= Offset + m)
  BY <1>1
<1> HIDE DEF m
<1>5. items' = [i \in 1..m |-> Listing[Offset + i]]
  BY <1>2 DEF ReadPage
<1>6. items' \in Seq(Contracts) /\ Len(items') = m
  BY <1>1, <1>2, <1>3, <1>5
<1>q. QED BY <1>2, <1>4, <1>5, <1>6

\* The rows to come that are not on this page have ranks beyond it.
LEMMA ReadPageKeeps == ASSUME ExplorerAssumption, IInv, ReadPage PROVE IInv'
<1> USE DEF IInv
<1>1. /\ client = "page" /\ client' = "count" /\ ~overrun'
      /\ UNCHANGED <<clock, rows, upserts, filter, asked, page, total, shown, atStart,
                     published, receded>>
  BY DEF ReadPage
<1>2. /\ items' \in Seq(Contracts)
      /\ Len(items') <= PerPage
      /\ \A i \in 1..Len(items') : items'[i] = Listing[Offset + i]
      /\ items' # <<>> => Offset + Len(items') <= Len(Listing)
      /\ Len(items') < PerPage => Len(Listing) <= Offset + Len(items')
  BY PageOfListing
<1>3. /\ PerPage \in Nat \ {0} /\ PerPage <= MAX_PER_PAGE /\ Offset \in Nat
      /\ Cardinality(Contracts) \in Nat /\ MAX_PER_PAGE \in Nat
  BY PerPageType DEF ExplorerAssumption
<1>4. Len(Listing) = Cardinality(Listed(filter)) /\ Len(Listing) \in Nat /\ Len(Listing) <= Cardinality(Contracts)
  BY ListingType, ListedFacts DEF Listing
<1>5. /\ Listed(filter)' = Listed(filter) /\ Listing' = Listing
      /\ \A c, n : ToCome(c, n)' <=> ToCome(c, n)
  BY <1>1, SameListing
<1>6. Offset' = Offset /\ PerPage' = PerPage
  BY <1>1 DEF Offset, PerPage
<1>7. Len(items') \in Nat /\ (items' = <<>> <=> Len(items') = 0)
  BY <1>2
<1>8. TypeOK'
  <2>1. Len(items') <= MAX_PER_PAGE /\ overrun' = FALSE
    BY <1>2, <1>3, <1>7 DEF ReadPage
  <2>q. QED BY <1>1, <1>2, <2>1 DEF TypeOK
<1>9. StampsDiffer' /\ WalkBegins' /\ WalkIsBounded' /\ QuietWalkIsExact'
  BY <1>1 DEF StampsDiffer, WalkBegins, WalkIsBounded, QuietWalkIsExact
<1>10. PageFits' /\ CountCovers'
  BY <1>1, <1>2, <1>3, <1>4, <1>5, <1>6, <1>7 DEF PageFits, CountCovers
<1>11. QuietSoFar'
  <2> SUFFICES ASSUME published = {} PROVE QuietSoFar'
    BY <1>1 DEF QuietSoFar
  <2>1. /\ atStart = Listing
        /\ Len(shown) = Offset /\ Offset <= Len(atStart)
        /\ \A i \in 1..Offset : shown[i] = atStart[i]
    BY <1>1 DEF QuietSoFar
  <2>2. /\ Offset + Len(items') <= Len(atStart)
        /\ Len(items') < PerPage => Offset + Len(items') = Len(atStart)
    BY <1>2, <1>3, <1>4, <1>7, <2>1
  <2>q. QED BY <1>1, <1>2, <1>5, <1>6, <2>1, <2>2 DEF QuietSoFar
<1>12. NoneMissed'
  <2> SUFFICES ASSUME ~receded, NEW c \in ToSet(atStart) \ published
               PROVE  \/ c \in ToSet(shown)
                      \/ c \in ToSet(items')
                      \/ Len(items') = PerPage /\ ToCome(c, Offset + PerPage)
    BY <1>1, <1>5, <1>6 DEF NoneMissed, ToCome
  <2>1. c \in ToSet(shown) \/ ToCome(c, Offset)
    BY <1>1 DEF NoneMissed
  <2>2. ASSUME ToCome(c, Offset)
        PROVE  c \in ToSet(items') \/ (Len(items') = PerPage /\ ToCome(c, Offset + PerPage))
    <3> DEFINE r == Cardinality(Ahead(c))
    <3>1. c \in Contracts /\ Matches(rows[c], filter) /\ r >= Offset
      BY <2>2 DEF ToCome, TypeOK, ToSet
    <3>2. r \in Nat /\ r + 1 \in 1..Len(Listing) /\ Listing[r + 1] = c
      BY <3>1, ListedAtRank
    <3> HIDE DEF r
    <3>3. CASE r < Offset + Len(items')
      <4>1. r + 1 - Offset \in 1..Len(items') /\ Offset + (r + 1 - Offset) = r + 1
        BY <1>3, <1>7, <3>1, <3>2, <3>3
      <4>2. items'[r + 1 - Offset] = c
        BY <1>2, <3>2, <4>1
      <4>q. QED BY <1>2, <4>1, <4>2 DEF ToSet
    <3>4. CASE r >= Offset + Len(items')
      <4>1. Len(items') = PerPage /\ r >= Offset + PerPage
        BY <1>2, <1>3, <1>4, <1>7, <3>2, <3>4
      <4>q. QED BY <3>1, <4>1 DEF ToCome, r
    <3>q. QED BY <1>3, <1>7, <3>2, <3>3, <3>4
  <2>q. QED BY <2>1, <2>2
<1>q. QED BY <1>8, <1>9, <1>10, <1>11, <1>12
\* The count ends a response: the page joins what was shown, and a short one ends
\* the walk, with nothing to come.
LEMMA ReadTotalKeeps == ASSUME ExplorerAssumption, IInv, ReadTotal PROVE IInv'
<1> USE DEF IInv
<1>1. /\ client = "count" /\ total' = Len(Listing)
      /\ shown' = shown \o items /\ items' = <<>>
      /\ \/ Len(items) < PerPage /\ client' = "done" /\ page' = page
         \/ ~(Len(items) < PerPage) /\ client' = "page" /\ page' = page + 1
      /\ UNCHANGED <<clock, rows, upserts, filter, asked, atStart, published, receded, overrun>>
  BY DEF ReadTotal, Count
<1>2. /\ shown \in Seq(Contracts) /\ items \in Seq(Contracts) /\ atStart \in Seq(Contracts)
      /\ Len(shown) \in Nat /\ Len(items) \in Nat /\ Len(atStart) \in Nat
      /\ page \in Nat \ {0} /\ (items = <<>> <=> Len(items) = 0)
  BY DEF TypeOK
<1>3. /\ PerPage \in Nat \ {0} /\ Offset \in Nat /\ Cardinality(Contracts) \in Nat
      /\ PerPage' = PerPage
  BY <1>1, PerPageType DEF PerPage
<1>4. Len(Listing) = Cardinality(Listed(filter)) /\ Len(Listing) \in 0..Cardinality(Contracts)
  BY <1>3, ListingType, ListedFacts DEF Listing
<1>5. /\ Listing' = Listing
      /\ \A c, n : ToCome(c, n)' <=> ToCome(c, n)
  BY <1>1, SameListing
<1>6. page' = page + 1 => Offset' = Offset + PerPage /\ page <= Offset + PerPage
  BY <1>2, <1>3, PagesAdjoin DEF Offset
<1>7. Len(items) <= PerPage /\ (items # <<>> => Offset + Len(items) <= Cardinality(Contracts))
  BY <1>1 DEF PageFits
<1>8. /\ shown' \in Seq(Contracts) /\ Len(shown') = Len(shown) + Len(items)
      /\ DOMAIN shown' = 1..Len(shown) + Len(items)
      /\ \A i \in 1..Len(shown) + Len(items) :
           shown'[i] = IF i <= Len(shown) THEN shown[i] ELSE items[i - Len(shown)]
  BY <1>1, <1>2, ConcatProperties
<1>9. ToSet(shown) \cup ToSet(items) \subseteq ToSet(shown')
  <2>1. ASSUME NEW c \in ToSet(shown) PROVE c \in ToSet(shown')
    <3>1. PICK i \in 1..Len(shown) : shown[i] = c
      BY <1>2 DEF ToSet
    <3>2. i \in 1..Len(shown) + Len(items) /\ shown'[i] = c
      BY <1>2, <1>8, <3>1
    <3>q. QED BY <1>8, <3>2 DEF ToSet
  <2>2. ASSUME NEW c \in ToSet(items) PROVE c \in ToSet(shown')
    <3>1. PICK i \in 1..Len(items) : items[i] = c
      BY <1>2 DEF ToSet
    <3>2. /\ i + Len(shown) \in 1..Len(shown) + Len(items)
          /\ ~(i + Len(shown) <= Len(shown)) /\ i + Len(shown) - Len(shown) = i
      BY <1>2
    <3>3. shown'[i + Len(shown)] = c
      BY <1>8, <3>1, <3>2
    <3>q. QED BY <1>8, <3>2, <3>3 DEF ToSet
  <2>q. QED BY <2>1, <2>2
<1>10. TypeOK'
  <2>1. /\ page' \in Nat \ {0} /\ client' \in {"idle", "page", "count", "done", "gone"}
        /\ items' \in Seq(Contracts) /\ Len(items') <= MAX_PER_PAGE
        /\ total' \in 0..Cardinality(Contracts)
    BY <1>1, <1>2, <1>4 DEF ExplorerAssumption
  <2>q. QED BY <1>1, <1>8, <2>1 DEF TypeOK
<1>11. StampsDiffer' /\ WalkBegins' /\ PageFits' /\ CountCovers'
  BY <1>1 DEF StampsDiffer, WalkBegins, PageFits, CountCovers
<1>12. WalkIsBounded'
  <2>1. CASE Len(items) < PerPage
    BY <1>1, <2>1 DEF WalkIsBounded
  <2>2. CASE ~(Len(items) < PerPage)
    <3>1. page' = page + 1 /\ Len(items) = PerPage /\ items # <<>>
      BY <1>1, <1>2, <1>3, <1>7, <2>2
    <3>2. page <= Offset + PerPage /\ Offset + PerPage <= Cardinality(Contracts)
      BY <1>6, <1>7, <3>1
    <3>q. QED BY <1>2, <1>3, <3>1, <3>2 DEF WalkIsBounded
  <2>q. QED BY <2>1, <2>2
<1>13. ASSUME published = {}
       PROVE  /\ atStart = Listing
              /\ Len(shown') = Offset + Len(items) /\ Offset + Len(items) <= Len(atStart)
              /\ \A i \in 1..Len(shown') : shown'[i] = atStart[i]
              /\ Len(items) < PerPage => Len(shown') = Len(atStart)
  <2>1. /\ atStart = Listing
        /\ Len(shown) = Offset
        /\ \A i \in 1..Offset : shown[i] = atStart[i]
        /\ Offset + Len(items) <= Len(atStart)
        /\ \A i \in 1..Len(items) : items[i] = atStart[Offset + i]
        /\ Len(items) < PerPage => Offset + Len(items) = Len(atStart)
    BY <1>1, <1>13 DEF QuietSoFar
  <2>2. ASSUME NEW i \in 1..Len(shown') PROVE shown'[i] = atStart[i]
    <3>1. CASE i <= Offset
      BY <1>3, <1>8, <2>1, <3>1
    <3>2. CASE ~(i <= Offset)
      <4>1. i - Offset \in 1..Len(items) /\ Offset + (i - Offset) = i
        BY <1>2, <1>3, <1>8, <2>1, <3>2
      <4>q. QED BY <1>8, <2>1, <3>2, <4>1
    <3>q. QED BY <3>1, <3>2
  <2>q. QED BY <1>8, <2>1, <2>2
<1>14. QuietSoFar'
  <2> SUFFICES ASSUME published = {}, client' = "page" PROVE QuietSoFar'
    BY <1>1 DEF QuietSoFar
  <2>1. page' = page + 1 /\ ~(Len(items) < PerPage)
    BY <1>1
  <2>2. Len(items) = PerPage
    BY <1>2, <1>3, <1>7, <2>1
  <2>3. Offset' = Offset + Len(items)
    BY <1>6, <2>1, <2>2
  <2>q. QED BY <1>1, <1>5, <1>13, <2>3 DEF QuietSoFar
<1>15. QuietWalkIsExact'
  <2> SUFFICES ASSUME published = {}, client' = "done" PROVE shown' = atStart /\ total' = Len(shown')
    BY <1>1 DEF QuietWalkIsExact
  <2>1. Len(items) < PerPage
    BY <1>1
  <2>2. shown' = atStart
    BY <1>2, <1>8, <1>13, <2>1, SeqEqual
  <2>q. QED BY <1>1, <1>13, <2>2
<1>16. NoneMissed'
  <2> SUFFICES ASSUME ~receded, NEW c \in ToSet(atStart) \ published
               PROVE  c \in ToSet(shown') \/ (client' = "page" /\ ToCome(c, Offset)')
    BY <1>1 DEF NoneMissed
  <2>1. \/ c \in ToSet(shown) \cup ToSet(items)
        \/ Len(items) = PerPage /\ ToCome(c, Offset + PerPage)
    BY <1>1 DEF NoneMissed
  <2>2. CASE c \in ToSet(shown) \cup ToSet(items)
    BY <1>9, <2>2
  <2>3. CASE Len(items) = PerPage /\ ToCome(c, Offset + PerPage)
    <3>1. client' = "page" /\ Offset' = Offset + PerPage
      BY <1>1, <1>3, <1>6, <2>3
    <3>q. QED BY <1>5, <2>3, <3>1 DEF ToCome
  <2>q. QED BY <2>1, <2>2, <2>3
<1>q. QED BY <1>10, <1>11, <1>12, <1>14, <1>15, <1>16

\* A client that is gone is owed nothing.
LEMMA BreakKeeps == ASSUME ExplorerAssumption, IInv, Break PROVE IInv'
<1>1. /\ client' = "gone"
      /\ UNCHANGED <<clock, rows, upserts, filter, asked, page, items, total, shown, atStart,
                     published, receded, overrun>>
  BY DEF Break
<1>2. TypeOK'
  BY <1>1 DEF IInv, TypeOK
<1>q. QED BY <1>1, <1>2 DEF IInv, StampsDiffer, WalkBegins, WalkIsBounded, PageFits, CountCovers,
                            QuietSoFar, QuietWalkIsExact, NoneMissed

-----------------------------------------------------------------------------
(* The specification *)

\* The invariant holds at first.
LEMMA InitKeeps == ASSUME ExplorerAssumption, Init PROVE IInv
<1>1. Cardinality(Contracts) \in Nat
  BY FS_CardinalityType DEF ExplorerAssumption
<1>2. TypeOK
  <2>1. /\ shown \in Seq(Contracts) /\ items \in Seq(Contracts) /\ atStart \in Seq(Contracts)
        /\ Len(items) = 0 /\ total \in 0..Cardinality(Contracts)
    BY <1>1 DEF Init
  <2>2. /\ rows \in [Contracts -> [stamp : 1..clock, status : Verdicts] \cup {NONE}]
        /\ clock \in 0..MaxUpserts /\ page \in Nat \ {0} /\ upserts = {}
    BY DEF Init, ExplorerAssumption
  <2>3. Len(items) <= MAX_PER_PAGE
    BY <2>1 DEF ExplorerAssumption
  <2>q. QED BY <2>1, <2>2, <2>3 DEF Init, TypeOK
<1>3. WalkIsBounded
  BY <1>1 DEF Init, WalkIsBounded
<1>q. QED BY <1>2, <1>3 DEF Init, IInv, StampsDiffer, WalkBegins, PageFits, CountCovers,
                            QuietSoFar, QuietWalkIsExact, NoneMissed

\* What a walk has not shown is still ahead of it, however publications and the
\* statements of its responses interleave.
THEOREM Invariance == Spec => []IInv
<1>1. Init => IInv
  BY InitKeeps, ExplorerAssumption
<1>2. ASSUME IInv, [Next]_vars PROVE IInv'
  <2>1. CASE UNCHANGED vars
    <3>1. /\ UNCHANGED <<clock, rows, upserts, client, filter, asked, page, items, total, shown,
                         atStart, published, receded, overrun>>
      BY <2>1 DEF vars, walkVars
    <3>2. Listing' = Listing /\ Listed(filter)' = Listed(filter) /\ \A c, n : ToCome(c, n)' <=> ToCome(c, n)
      BY <3>1, SameListing
    <3>3. Offset' = Offset /\ PerPage' = PerPage
      BY <3>1 DEF Offset, PerPage
    <3>4. TypeOK' /\ StampsDiffer' /\ WalkBegins' /\ WalkIsBounded' /\ QuietWalkIsExact'
      BY <1>2, <3>1 DEF IInv, TypeOK, StampsDiffer, WalkBegins, WalkIsBounded, QuietWalkIsExact
    <3>5. PageFits' /\ CountCovers' /\ QuietSoFar'
      BY <1>2, <3>1, <3>2, <3>3 DEF IInv, PageFits, CountCovers, QuietSoFar
    <3>6. NoneMissed'
      BY <1>2, <3>1, <3>2, <3>3 DEF IInv, NoneMissed, ToCome, Ahead
    <3>q. QED BY <3>4, <3>5, <3>6 DEF IInv
  <2>2. CASE \E c \in Contracts, v \in Verdicts : BeginUpsert(c, v)
    BY <1>2, <2>2, BeginUpsertKeeps, ExplorerAssumption
  <2>3. CASE \E u \in upserts : CommitUpsert(u)
    BY <1>2, <2>3, CommitUpsertKeeps, ExplorerAssumption
  <2>4. CASE \E f \in Filters, n \in Asked : Walk(f, n)
    BY <1>2, <2>4, WalkKeeps, ExplorerAssumption
  <2>5. CASE ReadPage \/ ReadTotal \/ Break
    BY <1>2, <2>5, ReadPageKeeps, ReadTotalKeeps, BreakKeeps, ExplorerAssumption
  <2>q. QED BY <1>2, <2>1, <2>2, <2>3, <2>4, <2>5 DEF Next
<1>q. QED BY <1>1, <1>2, PTL DEF Spec

\* A response has at most MAX_PER_PAGE rows, and its total is a number of contracts.
THEOREM TypeCorrect == Spec => []TypeOK
<1>1. IInv => TypeOK
  BY DEF IInv
<1>q. QED BY <1>1, Invariance, PTL

\* A client that walks to the end has seen every row that was there when it began,
\* unless that row was published again or some listed row receded: OFFSET over
\* newest-first order shifts rows to later pages, never to earlier ones.
THEOREM NothingMissed == Spec => []WalkMissesNothing
<1>1. IInv => WalkMissesNothing
  BY DEF IInv, NoneMissed, WalkMissesNothing
<1>q. QED BY <1>1, Invariance, PTL

\* While nothing is published, pages adjoin: the walk lists the table, each row once.
THEOREM QuietExact == Spec => []QuietWalkIsExact
<1>1. IInv => QuietWalkIsExact
  BY DEF IInv
<1>q. QED BY <1>1, Invariance, PTL

\* However many rows are published meanwhile, no walk asks for more pages than there
\* are contracts, and one: clamp keeps pages from being empty.
THEOREM Bounded == Spec => []WalkIsBounded
<1>1. IInv => WalkIsBounded
  BY DEF IInv
<1>q. QED BY <1>1, Invariance, PTL

\* The total, counted after the page was read, is never below what the pages show,
\* unless a listed row receded between the two statements.
THEOREM TotalCovers == Spec => TotalCoversPage
<1>1. IInv /\ [Next]_vars =>
        [client = "count" /\ client' \in {"page", "done"} /\ items # <<>> /\ ~overrun =>
           total' >= Offset + Len(items)]_vars
  <2> SUFFICES ASSUME IInv, Next, client = "count", client' \in {"page", "done"},
                      items # <<>>, ~overrun
               PROVE  total' >= Offset + Len(items)
    OBVIOUS
  <2>1. total' = Len(Listing)
    BY DEF Next, BeginUpsert, CommitUpsert, Walk, ReadPage, ReadTotal, Break, Count, walkVars
  <2>2. Len(Listing) = Cardinality(Listed(filter)) /\ Cardinality(Listed(filter)) \in Nat
    BY ExplorerAssumption, ListingType, ListedFacts DEF IInv, Listing
  <2>3. Offset + Len(items) <= Cardinality(Listed(filter))
    BY DEF IInv, CountCovers
  <2>4. Offset \in Nat /\ Len(items) \in Nat
    BY ExplorerAssumption, PerPageType DEF IInv, TypeOK
  <2>q. QED BY <2>1, <2>2, <2>3, <2>4
<1>q. QED BY <1>1, Invariance, PTL DEF Spec, TotalCoversPage
=============================================================================
