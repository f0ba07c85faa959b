------------------------------ MODULE Listing ------------------------------
(***************************************************************************)
(* Paging through the items of one type while clients Put and Delete: List *)
(* of the v1alpha graph store behind `deps get modules` and `deps get      *)
(* sources` (page numbers), and List of the v1beta graph store (page       *)
(* tokens).  One listing is modelled, beside all calls of GraphStore.      *)
(*                                                                         *)
(* Neither statement has an ORDER BY, so the rows come in the order of the *)
(* index they are found by.  v1alpha: the primary key, whose first column  *)
(* the WHERE clause fixes (sqlite, mysql).  v1beta (sqlite, where its Put  *)
(* works): the index of kind, and in it the order of insertion, in which   *)
(* REPLACE puts a row at the end.  On postgres the rows lie in a heap, in  *)
(* which an UPDATE moves them: any order may follow a write.               *)
(*                                                                         *)
(* The v1beta store has a table of its own and the writes of GraphStore,   *)
(* but an error rolls the whole call back.  A tracker without a storage    *)
(* address writes nothing in v1beta either: its driver wraps a nil sql.DB, *)
(* the check for a missing one does not see it, and the call panics where  *)
(* it should answer that it is unsupported.                                *)
(***************************************************************************)
EXTENDS GraphStore, Integers

CONSTANTS Apis,        \* the versions of List that are called
          ListType,    \* the type of the items listed
          ListKeys,    \* their keys
          KeyOrder,    \* the pairs of them in the order of the primary key
          MinLimit,    \* the fewest rows of a page (10)
          MaxLimit,    \* the most rows of a page (100)
          PageSize,    \* the rows the client asks for (100)
          Bits         \* the width of the integers an offset is computed in (32)

VARIABLES api,         \* the version called
          lister,      \* where the client is
          page,        \* v1alpha: the number of the next page
          token,       \* v1beta: the offset the next page token stands for
          order,       \* the pairs of keys in the order of the index
          listed,      \* the keys of the items the client has written out
          twice,       \* those it has written out more than once
          begun,       \* the keys List could see when the listing began
          shrunk,      \* a key has gone out of sight since
          grown,       \* a key has come into sight since
          moved,       \* a row has been inserted again since, at the end
          cut          \* the rows of some page ended before their end

listVars == <<api, lister, page, token, order, listed, twice, begun, shrunk, grown, moved, cut>>

allVars == <<table, call, listVars>>

ASSUME ApisAssumption == Apis \subseteq {"v1alpha", "v1beta"}

\* Any two keys come one before the other.
TotalOrder(r) ==
  /\ r \subseteq ListKeys \X ListKeys
  /\ \A k \in ListKeys : <<k, k>> \notin r
  /\ \A k, l \in ListKeys : k = l \/ <<k, l>> \in r \/ <<l, k>> \in r
  /\ \A k, l, m \in ListKeys : (<<k, l>> \in r /\ <<l, m>> \in r) => <<k, m>> \in r

ASSUME KeyOrderAssumption ==
  /\ ListKeys \subseteq RowKeys /\ IsFiniteSet(ListKeys)
  /\ \A k \in ListKeys : k.type = ListType
  /\ TotalOrder(KeyOrder)

Half == 2^(Bits - 1)

\* The client asks for pages the server neither shortens nor lengthens, and a
\* table is shorter than the integers are wide.
ASSUME LimitsAssumption ==
  /\ MinLimit \in Nat \ {0} /\ MaxLimit \in Nat /\ Bits \in Nat \ {0} /\ Half \in Nat
  /\ PageSize \in MinLimit..MaxLimit
  /\ Cardinality(ListKeys) + MaxLimit < Half

Larger(a, b) == IF a > b THEN a ELSE b
Smaller(a, b) == IF a < b THEN a ELSE b

NarrowWrapped(n) == ((n + 2) % 4) - 2  \* a mutant: too few bits for the table

\* What is left of n in a signed integer of this width.
Wrapped(n) == ((n + Half) % (2 * Half)) - Half

\* The v1alpha statement does not look at date_deleted; the v1beta one does.
Sees(k) == IF api = "v1alpha" THEN k \in DOMAIN table ELSE Live(table, k)

Seen == {k \in ListKeys : Sees(k)}

\* How many of the keys in K come before k.
Before(k, K) == Cardinality({l \in K : <<l, k>> \in order})

\* The first n of the rows.
FirstOf(rows, n) == {k \in rows : Before(k, rows) < n}

\* SELECT ... WHERE type ... LIMIT limit OFFSET offset; sqlite takes an offset
\* below zero for zero.
ListGraphData(limit, offset) ==
  LET from == Larger(offset, 0)
  IN {k \in Seen : Before(k, Seen) \in from..(from + limit - 1)}

-----------------------------------------------------------------------------
(* v1alpha: page numbers from one, and a limit the server clamps.          *)

\* graphStore.List: limit and offset for a page, and the rows.
Limit(count) == Larger(Smaller(count, MaxLimit), MinLimit)

Offset(p, count) == Wrapped((Larger(p, 1) - 1) * Limit(count))

ListV1alpha(p, count) == ListGraphData(Limit(count), Offset(p, count))

-----------------------------------------------------------------------------
(* v1beta: the next page token holds the next offset.                      *)

\* sqlDriver.List asks for one row more than it returns ...
DriverRows(offset, limit) == ListGraphData(limit + 1, offset)

\* ... and says whether there was one.
DriverItems(rows, limit) == FirstOf(rows, limit)
HasNext(rows, limit) == Cardinality(rows) > limit

\* paginate: the offset of the token after this one.
Paginate(offset, limit) == offset + limit

-----------------------------------------------------------------------------
(* The client.                                                             *)

ListingInit ==
  /\ Init
  /\ api \in Apis /\ lister = "idle" /\ page = 1 /\ token = 0
  /\ order = KeyOrder
  /\ listed = {} /\ twice = {} /\ begun = {}
  /\ shrunk = FALSE /\ grown = FALSE /\ moved = FALSE /\ cut = FALSE

Begin ==
  /\ lister = "idle"
  /\ lister' = "list"
  /\ begun' = Seen
  /\ UNCHANGED <<table, call, api, page, token, order, listed, twice, shrunk, grown, moved, cut>>

\* The items of a page are written out.
WriteOut(items) ==
  /\ listed' = listed \cup items
  /\ twice' = twice \cup (listed \cap items)

\* The loop over rows.Next takes an error for the end of the rows (rows.Err is not
\* asked): what is read is the beginning of them.
Read(rows, n) ==
  /\ n \in 0..Cardinality(rows)
  /\ cut' = (cut \/ n < Cardinality(rows))

FetchPageFullEnds ==  \* a mutant: a full page ends the listing
  /\ lister = "list" /\ api = "v1alpha"
  /\ LET rows == ListV1alpha(page, PageSize)
     IN \E n \in 0..PageSize :
          /\ Read(rows, n)
          /\ WriteOut(FirstOf(rows, n))
          /\ lister' = IF n <= PageSize THEN "over" ELSE "list"
  /\ page' = Wrapped(page + 1)
  /\ UNCHANGED <<table, call, api, token, order, begun, shrunk, grown, moved>>

\* An iteration of the loop of the modules and sources commands.
FetchPage ==
  /\ lister = "list" /\ api = "v1alpha"
  /\ LET rows == ListV1alpha(page, PageSize)
     IN \E n \in 0..PageSize :
          /\ Read(rows, n)
          /\ WriteOut(FirstOf(rows, n))
          /\ lister' = IF n < PageSize THEN "over" ELSE "list"
  /\ page' = Wrapped(page + 1)
  /\ UNCHANGED <<table, call, api, token, order, begun, shrunk, grown, moved>>

\* A client of GraphStoreServer.List follows the tokens up to an empty one.
FollowToken ==
  /\ lister = "list" /\ api = "v1beta"
  /\ LET rows == DriverRows(token, PageSize)
     IN \E n \in 0..(PageSize + 1) :
          LET got == FirstOf(rows, n)
          IN /\ Read(rows, n)
             /\ WriteOut(DriverItems(got, PageSize))
             /\ lister' = IF HasNext(got, PageSize) THEN "list" ELSE "over"
  /\ token' = Paginate(token, PageSize)
  /\ UNCHANGED <<table, call, api, page, order, begun, shrunk, grown, moved>>

\* The query fails and with it the services in between and the command.
ListFails ==
  /\ lister = "list"
  /\ lister' = "failed"
  /\ UNCHANGED <<table, call, api, page, token, order, listed, twice, begun,
                 shrunk, grown, moved, cut>>

\* The v1beta rows the last call has inserted, anew or in place of themselves.
Rewritten ==
  IF api = "v1beta" /\ call'.op = "put" /\ call'.status = "ok" THEN call'.keys ELSE {}

\* The order after the rows of K have gone to the end.  A key without a row has a
\* place as well, which nothing sees.
Reordered(K) ==
  {p \in order : p[1] \notin K /\ p[2] \notin K}
  \cup ((ListKeys \ K) \X (ListKeys \cap K))
  \cup {p \in KeyOrder : p[1] \in K /\ p[2] \in K}

\* The orders in which the next SELECT may find the rows.
Orders(K) ==
  IF Driver = "postgres"
  THEN {r \in SUBSET (ListKeys \X ListKeys) : TotalOrder(r)}
  ELSE {Reordered(K)}

\* Other clients Put and Delete meanwhile; sqlDriver stops at the first error and
\* rolls back.
Write ==
  /\ Next
  /\ UNCHANGED <<api, lister, page, token, listed, twice, begun, cut>>
  /\ (api = "v1beta" /\ call'.status = "error") => table' = table
  /\ order' \in Orders(Rewritten)
  /\ shrunk' = (shrunk \/ (lister = "list" /\ ~(Seen \subseteq Seen')))
  /\ grown' = (grown \/ (lister = "list" /\ ~(Seen' \subseteq Seen)))
  /\ moved' = (moved \/ (lister = "list" /\ Rewritten \cap (begun \cup listed) # {}))

ListStep == Begin \/ FetchPage \/ FollowToken \/ ListFails

ListingNext == ListStep \/ Write

\* The client goes on with a listing it has begun.
ListingSpec == ListingInit /\ [][ListingNext]_allVars /\ WF_allVars(FetchPage \/ FollowToken)

-----------------------------------------------------------------------------
(* Properties.                                                             *)

\* A listing that comes to its end, with no page cut short, has all items that were
\* there at its beginning, whatever was put meanwhile: in v1alpha an insertion shifts
\* rows to later pages only and a deleted row stays in sight; v1beta loses the
\* neighbour of a row that is deleted, or put again, between two pages.  An item
\* comes twice only after an insertion (v1alpha) or when it was put again (v1beta).
\* (Not on postgres, where a page boundary means nothing after a write.)
ListingExact ==
  /\ (lister = "over" /\ ~cut /\ (api = "v1alpha" \/ (~shrunk /\ ~moved))) =>
       begun \subseteq listed
  /\ twice # {} => IF api = "v1alpha" THEN grown ELSE moved

\* The loop ends: a page that is not full comes, since offsets never wrap around.
ListingEnds == (lister = "list") ~> (lister \in {"over", "failed"})
=============================================================================
