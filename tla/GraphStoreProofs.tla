-------------------------- MODULE GraphStoreProofs --------------------------
(***************************************************************************)
(* Proofs about the v1alpha graph store, for every set of keys, requests   *)
(* and trackers: its type invariant, and, for the dialects whose upsert    *)
(* clears date_deleted (sqlite and mysql), that an item answered "ok" is   *)
(* visible and that the store implements the map ItemStore describes.      *)
(* And of the listings beside it, by page number and by page token: which  *)
(* of them are complete, and when an item may come twice.                  *)
(***************************************************************************)
EXTENDS Listing, FiniteSetTheorems, FunctionTheorems, TLAPS

(* What the statements of a transaction do to the table.                   *)

\* Inserting well-formed items into a well-formed table yields one.
LEMMA InsertedType ==
  ASSUME NEW t, DOMAIN t \subseteq RowKeys, \A k \in DOMAIN t : t[k] \in Rows,
         NEW K \in SUBSET RowKeys, NEW new \in [K -> Payloads]
  PROVE  /\ DOMAIN Inserted(t, new) \subseteq RowKeys
         /\ \A k \in DOMAIN Inserted(t, new) : Inserted(t, new)[k] \in Rows
<1>1. DOMAIN Inserted(t, new) = DOMAIN t \cup K
  BY DEF Inserted
<1>2. ASSUME NEW k \in DOMAIN t \cup K PROVE Inserted(t, new)[k] \in Rows
  <2>1. CASE k \in K
    <3>1. Inserted(t, new)[k] = InsertGraphData(t, k, new[k])
      BY <2>1 DEF Inserted
    <3>2. new[k] \in Payloads
      BY <2>1
    <3> DEFINE kept == IF Driver = "postgres" /\ k \in DOMAIN t THEN t[k].deleted ELSE FALSE
    <3>3. kept \in BOOLEAN
      <4>1. CASE Driver = "postgres" /\ k \in DOMAIN t
        BY <4>1 DEF Rows
      <4>2. CASE ~(Driver = "postgres" /\ k \in DOMAIN t)
        BY <4>2
      <4> QED
        BY <4>1, <4>2
    <3>4. InsertGraphData(t, k, new[k]) = [data |-> new[k], deleted |-> kept]
      BY DEF InsertGraphData
    <3> QED
      <4> HIDE DEF kept
      <4> QED
        BY <3>1, <3>2, <3>3, <3>4 DEF Rows
  <2>2. CASE k \notin K
    BY <2>2 DEF Inserted
  <2> QED
    BY <2>1, <2>2
<1> QED
  BY <1>1, <1>2

\* Soft-deleting rows keeps the table well formed.
LEMMA DeletedType ==
  ASSUME NEW t, DOMAIN t \subseteq RowKeys, \A k \in DOMAIN t : t[k] \in Rows, NEW K
  PROVE  /\ DOMAIN Deleted(t, K) \subseteq RowKeys
         /\ \A k \in DOMAIN Deleted(t, K) : Deleted(t, K)[k] \in Rows
  BY DEF Deleted, DeleteGraphData, Rows

\* Unless the dialect is postgres, exactly the old live keys and the inserted ones
\* are live after the inserts, with the inserted data where there is any.
LEMMA InsertedLive ==
  ASSUME Driver # "postgres", NEW t, NEW new
  PROVE  /\ LiveKeys(Inserted(t, new)) = LiveKeys(t) \cup DOMAIN new
         /\ \A k \in LiveKeys(Inserted(t, new)) :
              Inserted(t, new)[k].data = IF k \in DOMAIN new THEN new[k] ELSE t[k].data
  BY DEF LiveKeys, Inserted, InsertGraphData

\* The deletes take exactly their keys away and leave the data of the others.
LEMMA DeletedLive ==
  ASSUME NEW t, NEW K, \A k \in DOMAIN t : t[k] \in Rows
  PROVE  /\ LiveKeys(Deleted(t, K)) = LiveKeys(t) \ K
         /\ \A k \in LiveKeys(Deleted(t, K)) : Deleted(t, K)[k].data = t[k].data
  BY DEF LiveKeys, Deleted, DeleteGraphData, Rows

-----------------------------------------------------------------------------
(* The type invariant.                                                     *)

\* Every Put and Delete keeps the table well formed, on every dialect.
THEOREM TypeCorrect == Spec => []TypeOK
<1>1. Init => TypeOK
  BY DEF Init, TypeOK
<1>2. TypeOK /\ [Next]_vars => TypeOK'
  <2> SUFFICES ASSUME TypeOK, [Next]_vars PROVE TypeOK'
    OBVIOUS
  <2> DEFINE Calls == [op : {"none", "put", "delete"}, keys : SUBSET RowKeys,
                       status : {"ok", "error"}]
  <2>1. ASSUME NEW w \in Trackers, NEW new \in PutRequests, Put(w, new) PROVE TypeOK'
    <3>1. PICK K \in SUBSET RowKeys : new \in [K -> Payloads]
      BY RequestAssumption
    <3>2. call' \in Calls
      BY <2>1, <3>1 DEF Put, Answer
    <3>3. CASE table' = Inserted(table, new)
      BY <3>1, <3>2, <3>3, InsertedType DEF TypeOK
    <3>4. CASE \E P \in PartsOf(DOMAIN new) : table' = Inserted(table, Restricted(new, P))
      <4>1. PICK P \in PartsOf(DOMAIN new) : table' = Inserted(table, Restricted(new, P))
        BY <3>4
      <4>2. P \in SUBSET K
        BY <3>1, <4>1 DEF PartsOf
      <4>3. P \in SUBSET RowKeys /\ Restricted(new, P) \in [P -> Payloads]
        BY <3>1, <4>2 DEF Restricted
      <4> QED
        BY <3>2, <4>1, <4>3, InsertedType DEF TypeOK
    <3>5. CASE UNCHANGED table
      BY <3>2, <3>5 DEF TypeOK
    <3> QED
      BY <2>1, <3>3, <3>4, <3>5 DEF Put
  <2>2. ASSUME NEW w \in Trackers, NEW keys \in DeleteRequests, Delete(w, keys) PROVE TypeOK'
    <3>1. call' \in Calls
      BY <2>2, RequestAssumption DEF Delete, Answer
    <3>2. UNCHANGED table \/ \E K : table' = Deleted(table, K)
      BY <2>2 DEF Delete
    <3> QED
      BY <3>1, <3>2, DeletedType DEF TypeOK
  <2>3. CASE UNCHANGED vars
    BY <2>3 DEF TypeOK, vars
  <2> QED
    BY <2>1, <2>2, <2>3 DEF Next
<1> QED
  BY <1>1, <1>2, PTL DEF Spec

-----------------------------------------------------------------------------
(* What the services rely on.                                              *)

\* On sqlite and mysql an item whose Put was answered without an error is visible,
\* also if its row was soft-deleted before.
THEOREM PutIsVisible ==
  ASSUME Driver # "postgres"
  PROVE  Spec => []PutVisible
<1>1. Init => PutVisible
  BY DEF Init, PutVisible
<1>2. PutVisible /\ [Next]_vars => PutVisible'
  <2> SUFFICES ASSUME PutVisible, [Next]_vars PROVE PutVisible'
    OBVIOUS
  <2>1. ASSUME NEW w \in Trackers, NEW new \in PutRequests, Put(w, new) PROVE PutVisible'
    <3>1. CASE table' = Inserted(table, new) /\ call'.keys = DOMAIN new
      <4>1. \A k \in DOMAIN new : k \in LiveKeys(table')
        BY <3>1, InsertedLive
      <4> QED
        BY <3>1, <4>1 DEF PutVisible, Live, LiveKeys
    <3>2. CASE call'.status = "error"
      BY <3>2 DEF PutVisible
    <3> QED
      BY <2>1, <3>1, <3>2 DEF Put, Answer
  <2>2. ASSUME NEW w \in Trackers, NEW keys \in DeleteRequests, Delete(w, keys) PROVE PutVisible'
    BY <2>2 DEF Delete, Answer, PutVisible
  <2>3. CASE UNCHANGED vars
    BY <2>3 DEF PutVisible, Live, vars
  <2> QED
    BY <2>1, <2>2, <2>3 DEF Next
<1> QED
  BY <1>1, <1>2, PTL DEF Spec

\* Puts and deletes of the table are puts and deletes of the visible items.
LEMMA VisibleInserted ==
  ASSUME Driver # "postgres", NEW new, table' = Inserted(table, new)
  PROVE  VisibleItems' = Abstract!Written(VisibleItems, new)
  BY InsertedLive DEF VisibleItems, Abstract!Written

\* A Delete takes the visible items away.
LEMMA VisibleDeleted ==
  ASSUME TypeOK, NEW K, table' = Deleted(table, K)
  PROVE  VisibleItems' = Abstract!Without(VisibleItems, K)
  BY DeletedLive DEF TypeOK, VisibleItems, Abstract!Without

\* On sqlite and mysql the table, seen through its rows that are not deleted,
\* implements the map from keys to data: a step of Put or Delete, whichever of its
\* statements failed, is a step of the map's.
THEOREM StoreImplementsMap ==
  ASSUME Driver # "postgres"
  PROVE  Spec => ImplementsItemStore
<1>1. Init => Abstract!Init
  BY DEF Init, Abstract!Init, Abstract!NoCall, VisibleItems, LiveKeys
<1>2. TypeOK /\ [Next]_vars => [Abstract!Next]_<<VisibleItems, call>>
  <2> SUFFICES ASSUME TypeOK, [Next]_vars
               PROVE  Abstract!Next \/ UNCHANGED <<VisibleItems, call>>
    OBVIOUS
  <2>1. ASSUME NEW w \in Trackers, NEW new \in PutRequests, Put(w, new)
        PROVE  Abstract!Put(new)
    <3>1. CASE table' = Inserted(table, new) /\ Answer("put", DOMAIN new, "ok")
      BY <3>1, VisibleInserted DEF Abstract!Put, Answer
    <3>2. CASE /\ \E K \in PartsOf(DOMAIN new) : table' = Inserted(table, Restricted(new, K))
               /\ Answer("put", DOMAIN new, "error")
      <4>1. PICK K \in SUBSET DOMAIN new : table' = Inserted(table, Restricted(new, K))
        BY <3>2 DEF PartsOf
      <4>2. Restricted(new, K) = Abstract!Part(new, K)
        BY DEF Restricted, Abstract!Part
      <4>3. VisibleItems' = Abstract!Written(VisibleItems, Abstract!Part(new, K))
        BY <4>1, <4>2, VisibleInserted
      <4> QED
        BY <3>2, <4>1, <4>3 DEF Abstract!Put, Answer
    <3>3. CASE UNCHANGED table /\ Answer("put", DOMAIN new, "error")
      <4>1. VisibleItems' = Abstract!Written(VisibleItems, Abstract!Part(new, {}))
        BY <3>3 DEF VisibleItems, LiveKeys, Abstract!Written, Abstract!Part
      <4> QED
        BY <3>3, <4>1 DEF Abstract!Put, Answer
    <3> QED
      BY <2>1, <3>1, <3>2, <3>3 DEF Put
  <2>2. ASSUME NEW w \in Trackers, NEW keys \in DeleteRequests, Delete(w, keys)
        PROVE  Abstract!Delete(keys)
    <3>1. CASE table' = Deleted(table, keys) /\ Answer("delete", keys, "ok")
      BY <3>1, VisibleDeleted DEF Abstract!Delete, Answer
    <3>2. CASE /\ \E K \in PartsOf(keys) : table' = Deleted(table, K)
               /\ Answer("delete", keys, "error")
      <4>1. PICK K \in SUBSET keys : table' = Deleted(table, K)
        BY <3>2 DEF PartsOf
      <4> QED
        BY <3>2, <4>1, VisibleDeleted DEF Abstract!Delete, Answer
    <3>3. CASE UNCHANGED table /\ Answer("delete", keys, "error")
      <4>1. VisibleItems' = Abstract!Without(VisibleItems, {})
        BY <3>3 DEF VisibleItems, LiveKeys, Abstract!Without
      <4> QED
        BY <3>3, <4>1 DEF Abstract!Delete, Answer
    <3> QED
      BY <2>2, <3>1, <3>2, <3>3 DEF Delete
  <2>3. CASE UNCHANGED vars
    BY <2>3 DEF vars, VisibleItems, LiveKeys
  <2> QED
    BY <2>1, <2>2, <2>3 DEF Next, Abstract!Next
<1> QED
  BY <1>1, <1>2, TypeCorrect, PTL DEF Spec, ImplementsItemStore, Abstract!Spec

-----------------------------------------------------------------------------
(* The number of a row in an order, and the rows with numbers from a to b. *)

Preds(r, k, S) == {l \in S : <<l, k>> \in r}

Rank(r, k, S) == Cardinality(Preds(r, k, S))

Window(r, S, a, b) == {k \in S : a <= Rank(r, k, S) /\ Rank(r, k, S) < b}

\* A set of keys is finite, and so is a row's number.
LEMMA RankNat ==
  ASSUME NEW r, NEW S \in SUBSET ListKeys, NEW k
  PROVE  /\ IsFiniteSet(S) /\ Cardinality(S) \in Nat
         /\ IsFiniteSet(Preds(r, k, S)) /\ Rank(r, k, S) \in Nat
<1>1. IsFiniteSet(S)
  BY KeyOrderAssumption, FS_Subset
<1>2. IsFiniteSet(Preds(r, k, S))
  <2>1. Preds(r, k, S) \in SUBSET S
    BY DEF Preds
  <2> QED
    BY <1>1, <2>1, FS_Subset
<1> QED
  BY <1>1, <1>2, FS_CardinalityType DEF Rank

\* With more rows before it, a row has a larger number.
LEMMA RankMonotone ==
  ASSUME NEW r, NEW S \in SUBSET ListKeys, NEW k,
         NEW q, NEW R \in SUBSET ListKeys, NEW l,
         Preds(r, k, S) \subseteq Preds(q, l, R)
  PROVE  Rank(r, k, S) <= Rank(q, l, R)
  BY RankNat, FS_Subset DEF Rank

\* Of two rows the earlier one has the smaller number.
LEMMA RankLess ==
  ASSUME NEW r, TotalOrder(r), NEW S \in SUBSET ListKeys,
         NEW k \in ListKeys, NEW l \in S, <<l, k>> \in r
  PROVE  Rank(r, l, S) < Rank(r, k, S)
<1> DEFINE P == Preds(r, l, S)
           Q == Preds(r, k, S)
<1>1. P \subseteq Q /\ l \in Q /\ l \notin P
  BY DEF TotalOrder, Preds
<1>2. IsFiniteSet(Q) /\ Cardinality(P) \in Nat /\ Cardinality(Q) \in Nat
  BY RankNat DEF Rank
<1>3. Cardinality(P) <= Cardinality(Q) /\ Cardinality(P) # Cardinality(Q)
  <2> HIDE DEF P, Q
  <2> QED
    BY <1>1, <1>2, FS_Subset
<1> QED
  BY <1>2, <1>3 DEF Rank

\* The numbers of the rows of S are below their count, and tell them apart.
LEMMA RankInjective ==
  ASSUME NEW r, TotalOrder(r), NEW S \in SUBSET ListKeys
  PROVE  /\ \A k \in S : Rank(r, k, S) \in 0..(Cardinality(S) - 1)
         /\ \A k, l \in S : Rank(r, k, S) = Rank(r, l, S) => k = l
<1>1. ASSUME NEW k \in S PROVE Rank(r, k, S) < Cardinality(S)
  <2> DEFINE P == Preds(r, k, S)
  <2>1. P \subseteq S /\ k \notin P
    BY DEF TotalOrder, Preds
  <2>2. IsFiniteSet(S) /\ Cardinality(P) \in Nat /\ Cardinality(S) \in Nat
    BY RankNat DEF Rank
  <2>3. Cardinality(P) <= Cardinality(S) /\ Cardinality(P) # Cardinality(S)
    <3> HIDE DEF P
    <3> QED
      BY <2>1, <2>2, FS_Subset
  <2> QED
    BY <2>2, <2>3 DEF Rank
<1>2. ASSUME NEW k \in S PROVE Rank(r, k, S) \in 0..(Cardinality(S) - 1)
  BY <1>1, RankNat
<1>3. ASSUME NEW k \in S, NEW l \in S, Rank(r, k, S) = Rank(r, l, S) PROVE k = l
  <2>1. Rank(r, k, S) \in Nat
    BY RankNat
  <2>2. <<k, l>> \notin r /\ <<l, k>> \notin r
    BY <1>3, <2>1, RankLess
  <2> QED
    BY <2>2 DEF TotalOrder
<1> QED
  BY <1>2, <1>3

\* A row comes before another one exactly if its number is smaller.
LEMMA RankOrder ==
  ASSUME NEW r, TotalOrder(r), NEW S \in SUBSET ListKeys, NEW k \in S, NEW l \in S
  PROVE  /\ <<l, k>> \in r <=> Rank(r, l, S) < Rank(r, k, S)
         /\ Rank(r, k, S) < Cardinality(S)
<1>1. Rank(r, k, S) \in Nat /\ Rank(r, l, S) \in Nat /\ Cardinality(S) \in Nat
  BY RankNat
<1>2. <<l, k>> \in r => Rank(r, l, S) < Rank(r, k, S)
  BY RankLess
<1>3. ASSUME <<l, k>> \notin r PROVE ~(Rank(r, l, S) < Rank(r, k, S))
  <2>1. CASE k = l
    BY <1>1, <2>1
  <2>2. CASE <<k, l>> \in r
    BY <1>1, <2>2, RankLess
  <2> QED
    BY <1>3, <2>1, <2>2 DEF TotalOrder
<1>4. Rank(r, k, S) < Cardinality(S)
  <2>1. Rank(r, k, S) \in 0..(Cardinality(S) - 1)
    BY RankInjective
  <2> QED
    BY <1>1, <2>1
<1> QED
  BY <1>2, <1>3, <1>4

\* A map from S to T that tells the elements of S apart makes S no larger than T;
\* if they are of one size it reaches all of T.
LEMMA Apart ==
  ASSUME NEW S, NEW T, IsFiniteSet(T), NEW f \in [S -> T],
         \A k, l \in S : f[k] = f[l] => k = l
  PROVE  /\ Cardinality(S) <= Cardinality(T)
         /\ Cardinality(S) = Cardinality(T) => \A t \in T : \E k \in S : f[k] = t
<1>1. f \in Injection(S, T)
  BY Fun_IsInj
<1>2. /\ Cardinality(S) <= Cardinality(T)
      /\ Cardinality(S) = Cardinality(T) => f \in Surjection(S, T)
  BY <1>1, FS_Injection
<1> QED
  BY <1>2 DEF Surjection

\* Each number below the count is a row's.
LEMMA RankReaches ==
  ASSUME NEW r, TotalOrder(r), NEW S \in SUBSET ListKeys,
         NEW i \in Nat, i < Cardinality(S)
  PROVE  \E k \in S : Rank(r, k, S) = i
<1> DEFINE T == 0..(Cardinality(S) - 1)
           f == [k \in S |-> Rank(r, k, S)]
<1>1. Cardinality(S) \in Nat /\ i \in T
  BY RankNat
<1>2. IsFiniteSet(T) /\ Cardinality(T) = Cardinality(S)
  BY <1>1, FS_Interval
<1>3. f \in [S -> T] /\ \A k, l \in S : f[k] = f[l] => k = l
  BY RankInjective
<1>4. \E k \in S : f[k] = i
  <2> HIDE DEF f, T
  <2> QED
    BY <1>1, <1>2, <1>3, Apart
<1> QED
  BY <1>4

\* A window has at most as many rows as numbers, and as many if it ends in time.
LEMMA WindowSize ==
  ASSUME NEW r, TotalOrder(r), NEW S \in SUBSET ListKeys,
         NEW a \in Nat, NEW b \in Nat, a <= b
  PROVE  /\ IsFiniteSet(Window(r, S, a, b)) /\ Cardinality(Window(r, S, a, b)) \in Nat
         /\ Cardinality(Window(r, S, a, b)) <= b - a
         /\ b <= Cardinality(S) => Cardinality(Window(r, S, a, b)) = b - a
<1> DEFINE W == Window(r, S, a, b)
           T == a..(b - 1)
           f == [k \in W |-> Rank(r, k, S)]
<1>1. W \in SUBSET ListKeys /\ W \subseteq S
  BY DEF Window
<1>2. IsFiniteSet(W) /\ Cardinality(W) \in Nat
  <2> HIDE DEF W
  <2> QED
    BY <1>1, RankNat
<1>3. IsFiniteSet(T) /\ Cardinality(T) = b - a
  <2>1. a \in Int /\ b - 1 \in Int
    OBVIOUS
  <2>2. IsFiniteSet(T) /\ Cardinality(T) = IF a > b - 1 THEN 0 ELSE (b - 1) - a + 1
    BY <2>1, FS_Interval
  <2> QED
    BY <2>2
<1>4. \A k \in W : Rank(r, k, S) \in T
  BY RankNat DEF Window
<1>5. \A k, l \in W : Rank(r, k, S) = Rank(r, l, S) => k = l
  BY <1>1, RankInjective
<1>6. f \in [W -> T] /\ \A k, l \in W : f[k] = f[l] => k = l
  BY <1>4, <1>5
<1>7. Cardinality(W) <= Cardinality(T)
  <2> HIDE DEF W, T, f
  <2> QED
    BY <1>3, <1>6, Apart
<1>8. ASSUME b <= Cardinality(S) PROVE Cardinality(T) <= Cardinality(W)
  <2> DEFINE g == [i \in T |-> CHOOSE k \in S : Rank(r, k, S) = i]
  <2>1. ASSUME NEW i \in T PROVE g[i] \in W /\ Rank(r, g[i], S) = i
    <3>1. i \in Nat /\ i < Cardinality(S) /\ a <= i /\ i < b
      BY <1>8, RankNat
    <3>2. \E k \in S : Rank(r, k, S) = i
      BY <3>1, RankReaches
    <3>3. g[i] \in S /\ Rank(r, g[i], S) = i
      BY <3>2
    <3> QED
      BY <3>1, <3>3 DEF Window
  <2>2. g \in [T -> W]
    BY <2>1
  <2>3. \A i, j \in T : g[i] = g[j] => i = j
    <3> HIDE DEF g
    <3> QED
      BY <2>1
  <2> HIDE DEF W, T, g
  <2> QED
    BY <1>2, <2>2, <2>3, Apart
<1> QED
  BY <1>2, <1>3, <1>7, <1>8

\* In a window that begins at the number a, a row has its number less a.
LEMMA WindowRank ==
  ASSUME NEW r, TotalOrder(r), NEW S \in SUBSET ListKeys,
         NEW a \in Nat, NEW b \in Nat, NEW k \in Window(r, S, a, b)
  PROVE  Rank(r, k, Window(r, S, a, b)) = Rank(r, k, S) - a
<1> DEFINE c == Rank(r, k, S)
<1>1. k \in S /\ a <= c /\ c < b /\ c \in Nat
  BY RankNat DEF Window
<1>2. c <= Cardinality(S)
  <2>1. Rank(r, k, S) < Cardinality(S)
    BY <1>1, RankOrder
  <2>2. Rank(r, k, S) \in Nat /\ Cardinality(S) \in Nat
    BY RankNat
  <2> QED
    BY <2>1, <2>2
<1>3. Preds(r, k, Window(r, S, a, b)) = Window(r, S, a, c)
  <2>1. \A l \in S : <<l, k>> \in r <=> Rank(r, l, S) < c
    BY <1>1, RankOrder
  <2>2. \A l \in S : Rank(r, l, S) \in Nat
    BY RankNat
  <2> HIDE DEF c
  <2> QED
    BY <1>1, <2>1, <2>2 DEF Preds, Window
<1>4. Cardinality(Window(r, S, a, c)) = c - a
  <2> HIDE DEF c
  <2> QED
    BY <1>1, <1>2, WindowSize
<1> QED
  BY <1>3, <1>4 DEF Rank

\* The first n rows of R.
First(r, R, n) == {k \in R : Rank(r, k, R) < n}

\* A row of the first n has the number it has among all of them.
LEMMA FirstRank ==
  ASSUME NEW r, TotalOrder(r), NEW R \in SUBSET ListKeys, NEW n \in Nat,
         NEW k \in First(r, R, n)
  PROVE  Rank(r, k, First(r, R, n)) = Rank(r, k, R)
<1>1. k \in R /\ Rank(r, k, R) < n /\ Rank(r, k, R) \in Nat
  BY RankNat DEF First
<1>2. ASSUME NEW l \in R, <<l, k>> \in r PROVE l \in First(r, R, n)
  <2>1. Rank(r, l, R) < Rank(r, k, R) /\ Rank(r, l, R) \in Nat
    BY <1>1, <1>2, RankOrder, RankNat
  <2> QED
    BY <1>1, <2>1 DEF First
<1>3. Preds(r, k, First(r, R, n)) = Preds(r, k, R)
  BY <1>2 DEF Preds, First
<1> QED
  BY <1>3 DEF Rank

\* The first n rows of R are all of them if R has n.
LEMMA FirstAll ==
  ASSUME NEW r, TotalOrder(r), NEW R \in SUBSET ListKeys
  PROVE  First(r, R, Cardinality(R)) = R
  BY RankOrder DEF First

-----------------------------------------------------------------------------
(* The inductive invariant of a listing.                                   *)

\* What the client has before the first page, and what never changes its kind.
Listable ==
  /\ api \in {"v1alpha", "v1beta"} /\ lister \in {"idle", "list", "over", "failed"}
  /\ TotalOrder(order) /\ page \in Int /\ token \in Nat
  /\ listed \subseteq ListKeys /\ begun \subseteq ListKeys
  /\ lister = "idle" => page = 1 /\ token = 0 /\ listed = {} /\ twice = {} /\ begun = {}

\* The number of the first row the client has not asked for.
Reached == IF api = "v1alpha" THEN (page - 1) * PageSize ELSE token

\* Page numbers never run ahead of the table, so that no offset wraps around; what
\* was there at the beginning is in sight, for v1beta unless a row went out of sight;
\* and v1beta puts nothing before it.
InSight ==
  lister = "list" =>
    /\ api = "v1alpha" =>
         page \in Nat \ {0} /\ (page - 1) * PageSize <= Cardinality(Seen)
    /\ (api = "v1alpha" \/ ~shrunk) => begun \subseteq Seen
    /\ (api = "v1beta" /\ ~moved) =>
         \A k \in begun : Preds(order, k, Seen) \subseteq begun

\* Of the rows of the beginning those asked for are written out.
Complete ==
  (~cut /\ (api = "v1alpha" \/ (~shrunk /\ ~moved))) =>
    /\ lister = "list" =>
         \A k \in begun : Rank(order, k, Seen) < Reached => k \in listed
    /\ lister = "over" => begun \subseteq listed

\* A row written out is not asked for again, unless rows were inserted meanwhile.
Apiece ==
  ~(IF api = "v1alpha" THEN grown ELSE moved) =>
    /\ twice = {}
    /\ lister = "list" => \A k \in listed : Rank(order, k, Seen) < Reached

LInv == Listable /\ InSight /\ Complete /\ Apiece

-----------------------------------------------------------------------------
(* The rows of a page.                                                     *)

\* The limit the client asks for is the one it gets.
LEMMA LimitKept ==
  /\ PageSize \in Nat \ {0} /\ Limit(PageSize) = PageSize
  /\ MaxLimit \in Nat /\ PageSize <= MaxLimit
  BY LimitsAssumption DEF Limit, Larger, Smaller

\* An integer that is small enough is kept, and the others stay integers.
LEMMA WrappedKept ==
  ASSUME NEW n \in Nat
  PROVE  /\ Wrapped(n) \in Int
         /\ n < Half => Wrapped(n) = n
<1>1. PICK h \in Nat : h = Half
  BY LimitsAssumption
<1>2. h > 0
  <2>1. Cardinality(ListKeys) \in Nat
    BY KeyOrderAssumption, FS_CardinalityType
  <2> QED
    BY <1>1, <2>1, LimitsAssumption
<1>3. (n + h) % (2 * h) \in Int
  BY <1>2
<1>4. n < h => (n + h) % (2 * h) = n + h
  BY <1>2
<1> QED
  BY <1>1, <1>3, <1>4 DEF Wrapped

\* A product is no smaller than its first factor, and one more of it adds the second.
LEMMA Product ==
  ASSUME NEW m \in Nat, NEW n \in Nat \ {0}
  PROVE  m * n \in Nat /\ m <= m * n /\ (m + 1) * n = m * n + n
  OBVIOUS

\* The statement returns the rows with the numbers from the offset to the limit.
LEMMA ListGraphDataWindow ==
  ASSUME NEW offset \in Nat, NEW limit \in Nat
  PROVE  ListGraphData(limit, offset) = Window(order, Seen, offset, offset + limit)
<1>1. \A k \in Seen : Before(k, Seen) = Rank(order, k, Seen)
  BY DEF Before, Rank, Preds
<1>2. \A k \in Seen : Rank(order, k, Seen) \in Nat
  <2>1. Seen \in SUBSET ListKeys
    BY DEF Seen
  <2> QED
    BY <2>1, RankNat
<1>3. Larger(offset, 0) = offset
  BY DEF Larger
<1> QED
  BY <1>1, <1>2, <1>3 DEF ListGraphData, Window

\* What is read of the rows of a page is the first of them.
LEMMA FirstOfFirst ==
  ASSUME NEW rows, NEW n
  PROVE  FirstOf(rows, n) = First(order, rows, n)
  BY DEF FirstOf, First, Before, Rank, Preds

\* While the page number does not run ahead of the table, a page holds its rows.
LEMMA PageRows ==
  ASSUME page \in Nat \ {0}, (page - 1) * PageSize <= Cardinality(Seen)
  PROVE  /\ (page - 1) * PageSize \in Nat
         /\ page * PageSize = (page - 1) * PageSize + PageSize
         /\ ListV1alpha(page, PageSize) =
              Window(order, Seen, (page - 1) * PageSize, (page - 1) * PageSize + PageSize)
         /\ page * PageSize <= Cardinality(Seen) => Wrapped(page + 1) = page + 1
<1>1. PICK p \in Nat \ {0} : p = page
  OBVIOUS
<1>2. PICK o : o = (p - 1) * PageSize
  OBVIOUS
<1>3. PageSize \in Nat \ {0} /\ Limit(PageSize) = PageSize
  BY LimitKept
<1>4. o \in Nat /\ p - 1 <= o /\ p * PageSize = o + PageSize
  <2>1. PICK q \in Nat : q = p - 1
    OBVIOUS
  <2>2. p = q + 1
    BY <2>1
  <2>3. q * PageSize \in Nat /\ q <= q * PageSize /\ (q + 1) * PageSize = q * PageSize + PageSize
    BY <1>3, Product
  <2> QED
    BY <1>2, <2>1, <2>2, <2>3
<1>5. PICK s \in Nat : s = Cardinality(Seen) /\ s + MaxLimit < Half
  <2>1. Seen \in SUBSET ListKeys /\ IsFiniteSet(ListKeys)
    BY KeyOrderAssumption DEF Seen
  <2>2. Cardinality(Seen) <= Cardinality(ListKeys)
    BY <2>1, FS_Subset
  <2>3. Cardinality(Seen) \in Nat /\ Cardinality(ListKeys) \in Nat
    BY <2>1, FS_Subset, FS_CardinalityType
  <2> QED
    BY <2>2, <2>3, LimitsAssumption
<1>6. o <= s /\ o < Half
  <2>1. o <= s
    BY <1>1, <1>2, <1>5
  <2> QED
    BY <1>4, <1>5, <2>1, LimitsAssumption
<1>7. Offset(page, PageSize) = o
  <2>1. Larger(p, 1) = p
    BY DEF Larger
  <2>2. Wrapped(o) = o
    BY <1>4, <1>6, WrappedKept
  <2> QED
    BY <1>1, <1>2, <1>3, <2>1, <2>2 DEF Offset
<1>8. ListV1alpha(page, PageSize) = Window(order, Seen, o, o + PageSize)
  BY <1>3, <1>4, <1>7, ListGraphDataWindow DEF ListV1alpha
<1>9. p * PageSize <= s => Wrapped(p + 1) = p + 1
  <2>1. MaxLimit \in Nat /\ PageSize <= MaxLimit
    BY LimitKept
  <2>2. o + PageSize <= s => p + 1 < Half
    BY <1>3, <1>4, <1>5, <2>1, LimitsAssumption
  <2>3. p + 1 \in Nat
    OBVIOUS
  <2> QED
    BY <1>4, <2>2, <2>3, WrappedKept
<1> QED
  BY <1>1, <1>2, <1>4, <1>5, <1>8, <1>9

\* Unless a page has all the rows it may have, no row comes after it; and a page
\* that has them does not go beyond the end.
LEMMA FullPage ==
  ASSUME NEW r, TotalOrder(r), NEW S \in SUBSET ListKeys, NEW a \in Nat, NEW n \in Nat
  PROVE  /\ Cardinality(Window(r, S, a, a + n)) < n =>
              \A k \in S : Rank(r, k, S) < a + n
         /\ (a <= Cardinality(S) /\ n <= Cardinality(Window(r, S, a, a + n))) =>
              a + n <= Cardinality(S)
<1> DEFINE W == Window(r, S, a, a + n)
           c == Cardinality(S)
<1>1. c \in Nat /\ \A k \in S : Rank(r, k, S) \in Nat /\ Rank(r, k, S) < c
  <2>1. Cardinality(S) \in Nat /\ \A k \in S : Rank(r, k, S) \in Nat
    BY RankNat
  <2>2. \A k \in S : Rank(r, k, S) < Cardinality(S)
    BY RankOrder
  <2> QED
    BY <2>1, <2>2
<1>2. /\ Cardinality(W) \in Nat
      /\ a + n <= c => Cardinality(W) = (a + n) - a
  <2>1. a + n \in Nat /\ a <= a + n
    OBVIOUS
  <2> QED
    BY <2>1, WindowSize
<1>3. ASSUME Cardinality(W) < n, NEW k \in S PROVE Rank(r, k, S) < a + n
  <2>1. Rank(r, k, S) \in Nat /\ Rank(r, k, S) < c
    BY <1>1
  <2> HIDE DEF W, c
  <2> QED
    BY <1>1, <1>2, <1>3, <2>1
<1>4. ASSUME a <= c, n <= Cardinality(W) PROVE a + n <= c
  <2> SUFFICES ASSUME c < a + n PROVE FALSE
    BY <1>1
  <2>1. W = Window(r, S, a, c)
    <3> HIDE DEF c
    <3> QED
      BY <1>1 DEF Window
  <2>2. Cardinality(W) <= c - a
    <3>1. Cardinality(Window(r, S, a, c)) <= c - a
      <4> HIDE DEF c
      <4> QED
        BY <1>1, <1>4, WindowSize
    <3> QED
      BY <2>1, <3>1
  <2> HIDE DEF W, c
  <2> QED
    BY <1>1, <1>2, <1>4, <2>2
<1> QED
  BY <1>3, <1>4

\* The rows of a page and one more.
Looked(r, S, a, n) == Window(r, S, a, a + (n + 1))

\* Of these, as far as they were read, the page keeps rows with numbers of its own,
\* and all of them if all were read.
LEMMA TokenPage ==
  ASSUME NEW r, TotalOrder(r), NEW S \in SUBSET ListKeys, NEW a \in Nat, NEW n \in Nat,
         NEW m \in Nat
  PROVE  /\ First(r, First(r, Looked(r, S, a, n), m), n) \subseteq Window(r, S, a, a + n)
         /\ m = Cardinality(Looked(r, S, a, n)) =>
              /\ First(r, Looked(r, S, a, n), m) = Looked(r, S, a, n)
              /\ First(r, First(r, Looked(r, S, a, n), m), n) = Window(r, S, a, a + n)
<1> PICK W, G : W = Looked(r, S, a, n) /\ G = First(r, W, m)
  OBVIOUS
<1>0. W = Window(r, S, a, a + (n + 1))
  BY DEF Looked
<1>1. W \in SUBSET ListKeys /\ W \subseteq S /\ G \subseteq W
  BY <1>0 DEF Window, First
<1>2. \A k \in W : /\ Rank(r, k, W) = Rank(r, k, S) - a
                   /\ Rank(r, k, S) \in Nat /\ a <= Rank(r, k, S)
  <2>1. \A k \in W : Rank(r, k, S) \in Nat /\ a <= Rank(r, k, S)
    BY <1>0, <1>1, RankNat DEF Window
  <2>2. a + (n + 1) \in Nat
    OBVIOUS
  <2> QED
    BY <1>0, <2>1, <2>2, WindowRank
<1>3. \A k \in G : Rank(r, k, G) = Rank(r, k, W)
  BY <1>0, <1>1, FirstRank
<1>4. First(r, G, n) = {k \in G : Rank(r, k, S) < a + n}
  <2>1. \A k \in G : Rank(r, k, G) < n <=> Rank(r, k, S) < a + n
    BY <1>1, <1>2, <1>3
  <2> QED
    BY <2>1 DEF First
<1>5. First(r, G, n) \subseteq Window(r, S, a, a + n)
  BY <1>1, <1>2, <1>4 DEF Window
<1>6. ASSUME m = Cardinality(W) PROVE G = W /\ First(r, G, n) = Window(r, S, a, a + n)
  <2>1. G = W
    BY <1>0, <1>1, <1>6, FirstAll
  <2>2. Window(r, S, a, a + n) = {k \in W : Rank(r, k, S) < a + n}
    <3>1. \A k \in S : Rank(r, k, S) \in Nat
      BY RankNat
    <3> QED
      BY <1>0, <3>1 DEF Window
  <2> QED
    BY <1>4, <2>1, <2>2
<1> QED
  BY <1>5, <1>6

-----------------------------------------------------------------------------
(* The steps of the client keep the invariant.                             *)

\* A v1alpha page: a full one leaves the next page within the table, one that is
\* not full and not cut is the last.
LEMMA FetchPageKeeps ==
  ASSUME LInv, FetchPage
  PROVE  LInv'
<1>1. PICK n \in 0..PageSize :
        LET rows == ListV1alpha(page, PageSize)
        IN /\ Read(rows, n)
           /\ WriteOut(FirstOf(rows, n))
           /\ lister' = IF n < PageSize THEN "over" ELSE "list"
  BY DEF FetchPage
<1>2. /\ lister = "list" /\ api = "v1alpha" /\ page' = Wrapped(page + 1)
      /\ UNCHANGED <<table, call, api, token, order, begun, shrunk, grown, moved>>
  BY DEF FetchPage
<1>3. /\ TotalOrder(order) /\ token \in Nat /\ listed \subseteq ListKeys
      /\ begun \subseteq ListKeys /\ page \in Nat \ {0}
      /\ (page - 1) * PageSize <= Cardinality(Seen) /\ begun \subseteq Seen
  BY <1>2 DEF LInv, Listable, InSight
<1>4. Seen' = Seen /\ Seen \in SUBSET ListKeys
  BY <1>2 DEF Seen, Sees, Live
<1>5. PICK r : r = order
  OBVIOUS
<1>6. PICK S \in SUBSET ListKeys : S = Seen
  BY <1>4
<1>7. PICK p \in Nat \ {0} : p = page
  BY <1>3
<1>8. PICK a : a = (p - 1) * PageSize
  OBVIOUS
<1>9. PICK W : W = Window(r, S, a, a + PageSize)
  OBVIOUS
<1>10. /\ a \in Nat /\ p * PageSize = a + PageSize /\ ListV1alpha(page, PageSize) = W
       /\ a + PageSize <= Cardinality(S) => Wrapped(page + 1) = p + 1
  BY <1>3, <1>5, <1>6, <1>7, <1>8, <1>9, PageRows
<1>11. PageSize \in Nat \ {0} /\ a + PageSize \in Nat /\ n \in Nat /\ n <= PageSize
  BY <1>10, LimitKept
<1>12. TotalOrder(r) /\ a <= Cardinality(S) /\ Cardinality(S) \in Nat
  BY <1>3, <1>5, <1>6, <1>7, <1>8, RankNat
<1>13. /\ W \in SUBSET ListKeys /\ W \subseteq S
       /\ Cardinality(W) \in Nat /\ Cardinality(W) <= PageSize
       /\ \A k \in W : a <= Rank(r, k, S) /\ Rank(r, k, S) < a + PageSize
  <2>1. Cardinality(W) \in Nat /\ Cardinality(W) <= (a + PageSize) - a
    BY <1>9, <1>10, <1>11, <1>12, WindowSize
  <2> QED
    BY <1>9, <1>10, <1>11, <2>1 DEF Window
<1>14. PICK items : items = First(r, W, n)
  OBVIOUS
<1>15. /\ n <= Cardinality(W) /\ cut' = (cut \/ n < Cardinality(W))
       /\ listed' = listed \cup items /\ twice' = twice \cup (listed \cap items)
       /\ lister' = IF n < PageSize THEN "over" ELSE "list"
  BY <1>1, <1>5, <1>10, <1>11, <1>13, <1>14, FirstOfFirst DEF Read, WriteOut
<1>16. items \subseteq W /\ (n = Cardinality(W) => items = W)
  <2>1. First(r, W, Cardinality(W)) = W
    BY <1>12, <1>13, FirstAll
  <2> QED
    BY <1>14, <2>1 DEF First
<1>17. lister' = "list" => /\ n = PageSize /\ a + PageSize <= Cardinality(S)
                           /\ page' = p + 1
  <2>1. n >= PageSize => a + PageSize <= Cardinality(S)
    BY <1>9, <1>10, <1>11, <1>12, <1>13, <1>15, FullPage
  <2> QED
    BY <1>2, <1>10, <1>11, <1>15, <2>1
<1>18. \A k \in S : Rank(r, k, S) \in Nat
  BY RankNat
<1>19. Reached = a /\ (lister' = "list" => Reached' = a + PageSize)
  <2>1. Reached = a
    BY <1>2, <1>7, <1>8 DEF Reached
  <2>2. lister' = "list" => Reached' = ((p + 1) - 1) * PageSize
    BY <1>2, <1>17 DEF Reached
  <2>3. ((p + 1) - 1) * PageSize = p * PageSize
    OBVIOUS
  <2> QED
    BY <1>10, <2>1, <2>2, <2>3
<1>20. Listable'
  <2>1. page' \in Int
    BY <1>2, <1>3, WrappedKept
  <2> QED
    BY <1>2, <1>3, <1>13, <1>15, <1>16, <2>1 DEF Listable
<1>21. InSight'
  <2>1. lister' = "list" => /\ page' \in Nat \ {0}
                            /\ (page' - 1) * PageSize <= Cardinality(S)
    <3>1. ((p + 1) - 1) * PageSize = p * PageSize
      OBVIOUS
    <3> QED
      BY <1>10, <1>17, <3>1
  <2> QED
    BY <1>2, <1>3, <1>4, <1>6, <2>1 DEF InSight
<1>22. Complete'
  <2>1. SUFFICES ASSUME ~cut'
                 PROVE  /\ lister' = "list" =>
                             \A k \in begun : Rank(r, k, S) < a + PageSize => k \in listed'
                        /\ lister' = "over" => begun \subseteq listed'
    BY <1>2, <1>4, <1>5, <1>6, <1>19 DEF Complete
  <2>2. n = Cardinality(W) /\ items = W /\ ~cut
    <3>1. ~cut /\ ~(n < Cardinality(W))
      BY <1>15, <2>1, Zenon
    <3>2. n = Cardinality(W)
      BY <1>11, <1>13, <1>15, <3>1
    <3> QED
      BY <1>16, <3>1, <3>2
  <2>3. \A k \in begun : Rank(r, k, S) < a => k \in listed
    BY <1>2, <1>5, <1>6, <1>19, <2>2 DEF LInv, Complete
  <2>4. ASSUME NEW k \in begun, Rank(r, k, S) < a + PageSize PROVE k \in listed'
    <3>1. k \in S /\ Rank(r, k, S) \in Nat
      BY <1>3, <1>6, <1>18
    <3>2. CASE a <= Rank(r, k, S)
      BY <1>9, <1>15, <2>2, <2>4, <3>1, <3>2 DEF Window
    <3> QED
      BY <1>10, <1>15, <2>3, <3>1, <3>2
  <2>5. ASSUME n < PageSize, NEW k \in begun PROVE Rank(r, k, S) < a + PageSize
    <3>1. k \in S
      BY <1>3, <1>6
    <3> QED
      BY <1>9, <1>10, <1>11, <1>12, <2>2, <2>5, <3>1, FullPage
  <2> QED
    BY <1>15, <2>4, <2>5
<1>23. Apiece'
  <2>1. SUFFICES ASSUME ~grown
                 PROVE  /\ twice' = {}
                        /\ lister' = "list" => \A k \in listed' : Rank(r, k, S) < a + PageSize
    BY <1>2, <1>4, <1>5, <1>6, <1>19 DEF Apiece
  <2>2. twice = {} /\ \A k \in listed : Rank(r, k, S) < a
    BY <1>2, <1>5, <1>6, <1>19, <2>1 DEF LInv, Apiece
  <2>3. \A k \in listed : Rank(r, k, S) \in Nat
    BY RankNat
  <2>4. listed \cap items = {}
    <3> SUFFICES ASSUME NEW k \in listed, k \in items PROVE FALSE
      OBVIOUS
    <3>1. Rank(r, k, S) \in Nat /\ Rank(r, k, S) < a /\ a <= Rank(r, k, S)
      BY <1>13, <1>16, <2>2, <2>3
    <3> QED
      BY <1>10, <3>1
  <2>5. \A k \in listed : Rank(r, k, S) < a + PageSize
    BY <1>10, <1>11, <2>2, <2>3
  <2>6. \A k \in items : Rank(r, k, S) < a + PageSize
    BY <1>13, <1>16
  <2> QED
    BY <1>15, <2>2, <2>4, <2>5, <2>6
<1> QED
  BY <1>20, <1>21, <1>22, <1>23 DEF LInv

\* A v1beta page: the row after it is there or the listing is over.
LEMMA FollowTokenKeeps ==
  ASSUME LInv, FollowToken
  PROVE  LInv'
<1>1. PICK n \in 0..(PageSize + 1) :
        LET rows == DriverRows(token, PageSize)
            got == FirstOf(rows, n)
        IN /\ Read(rows, n)
           /\ WriteOut(DriverItems(got, PageSize))
           /\ lister' = IF HasNext(got, PageSize) THEN "list" ELSE "over"
  BY DEF FollowToken
<1>2. /\ lister = "list" /\ api = "v1beta" /\ token' = token + PageSize
      /\ UNCHANGED <<table, call, api, page, order, begun, shrunk, grown, moved>>
  BY DEF FollowToken, Paginate
<1>3. /\ TotalOrder(order) /\ token \in Nat /\ listed \subseteq ListKeys
      /\ begun \subseteq ListKeys /\ page \in Int
  BY DEF LInv, Listable
<1>4. Seen' = Seen /\ Seen \in SUBSET ListKeys
  BY <1>2 DEF Seen, Sees, Live
<1>5. PICK r : r = order
  OBVIOUS
<1>6. PICK S \in SUBSET ListKeys : S = Seen
  BY <1>4
<1>7. PICK a \in Nat : a = token
  BY <1>3
<1>8. PageSize \in Nat \ {0} /\ PageSize + 1 \in Nat /\ n \in Nat
  BY LimitKept
<1>9. PICK W : W = Window(r, S, a, a + (PageSize + 1))
  OBVIOUS
<1>10. DriverRows(token, PageSize) = W
  BY <1>5, <1>6, <1>7, <1>8, <1>9, ListGraphDataWindow DEF DriverRows
<1>11. PICK G : G = First(r, W, n)
  OBVIOUS
<1>12. PICK items : items = First(r, G, PageSize)
  OBVIOUS
<1>13. TotalOrder(r)
  BY <1>3, <1>5
<1>14. Cardinality(W) \in Nat
  <2>1. a + (PageSize + 1) \in Nat /\ a <= a + (PageSize + 1)
    BY <1>8
  <2> QED
    BY <1>9, <1>13, <2>1, WindowSize
<1>15. /\ n <= Cardinality(W) /\ cut' = (cut \/ n < Cardinality(W))
       /\ listed' = listed \cup items /\ twice' = twice \cup (listed \cap items)
       /\ lister' = IF Cardinality(G) > PageSize THEN "list" ELSE "over"
  BY <1>1, <1>5, <1>10, <1>11, <1>12, <1>14, FirstOfFirst
     DEF Read, WriteOut, DriverItems, HasNext
<1>16. /\ items \subseteq Window(r, S, a, a + PageSize)
       /\ n = Cardinality(W) => G = W /\ items = Window(r, S, a, a + PageSize)
  <2>1. PICK z \in Nat : z = PageSize
    BY <1>8
  <2>2. W = Looked(r, S, a, z) /\ G = First(r, W, n)
    BY <1>9, <1>11, <2>1 DEF Looked
  <2>3. PICK m \in Nat : m = n
    BY <1>8
  <2>4. /\ First(r, First(r, Looked(r, S, a, z), m), z) \subseteq Window(r, S, a, a + z)
        /\ m = Cardinality(Looked(r, S, a, z)) =>
             /\ First(r, Looked(r, S, a, z), m) = Looked(r, S, a, z)
             /\ First(r, First(r, Looked(r, S, a, z), m), z) = Window(r, S, a, a + z)
    BY <1>13, TokenPage
  <2> QED
    BY <1>12, <2>1, <2>2, <2>3, <2>4
<1>17. \A k \in items : k \in S /\ a <= Rank(r, k, S) /\ Rank(r, k, S) < a + PageSize
  BY <1>16 DEF Window
<1>18. Reached = a /\ Reached' = a + PageSize
  BY <1>2, <1>7 DEF Reached
<1>19. Listable'
  <2>1. token' \in Nat
    BY <1>2, <1>3, <1>8
  <2>2. listed' \subseteq ListKeys
    BY <1>3, <1>15, <1>17
  <2> QED
    BY <1>2, <1>3, <1>15, <2>1, <2>2 DEF Listable
<1>20. InSight'
  BY <1>2, <1>4 DEF LInv, InSight
<1>21. Complete'
  <2>1. SUFFICES ASSUME ~cut', ~shrunk, ~moved
                 PROVE  /\ \A k \in begun : Rank(r, k, S) < a + PageSize => k \in listed'
                        /\ lister' = "over" => begun \subseteq listed'
    BY <1>2, <1>4, <1>5, <1>6, <1>18 DEF Complete
  <2>2. n = Cardinality(W) /\ ~cut
    <3>1. ~cut /\ ~(n < Cardinality(W))
      BY <1>15, <2>1, Zenon
    <3> QED
      BY <1>8, <1>14, <1>15, <3>1
  <2>3. G = W /\ items = Window(r, S, a, a + PageSize)
    BY <1>16, <2>2
  <2>4. begun \subseteq S
    BY <1>2, <1>6, <2>1 DEF LInv, InSight
  <2>5. \A k \in begun : Rank(r, k, S) < a => k \in listed
    BY <1>2, <1>5, <1>6, <1>18, <2>1, <2>2 DEF LInv, Complete
  <2>6. ASSUME NEW k \in begun, Rank(r, k, S) < a + PageSize PROVE k \in listed'
    <3>1. k \in S /\ Rank(r, k, S) \in Nat
      BY <2>4, RankNat
    <3>2. CASE a <= Rank(r, k, S)
      BY <1>15, <2>3, <2>6, <3>1, <3>2 DEF Window
    <3> QED
      BY <1>15, <2>5, <3>1, <3>2
  <2>7. ASSUME lister' = "over", NEW k \in begun PROVE Rank(r, k, S) < a + PageSize
    <3>1. k \in S /\ Rank(r, k, S) \in Nat
      BY <2>4, RankNat
    <3>2. Cardinality(W) < PageSize + 1
      BY <1>8, <1>14, <1>15, <2>3, <2>7
    <3>3. Rank(r, k, S) < a + (PageSize + 1)
      BY <1>8, <1>9, <1>13, <3>1, <3>2, FullPage
    <3>4. SUFFICES ASSUME Rank(r, k, S) = a + PageSize PROVE FALSE
      BY <1>8, <3>1, <3>3
    <3>5. Rank(r, k, S) < Cardinality(S) /\ Cardinality(S) \in Nat
      BY <1>13, <3>1, RankNat, RankOrder
    <3>6. a + (PageSize + 1) <= Cardinality(S)
      BY <1>8, <3>4, <3>5
    <3>7. a + (PageSize + 1) \in Nat /\ a <= a + (PageSize + 1)
      BY <1>8
    <3>8. Cardinality(W) = (a + (PageSize + 1)) - a
      BY <1>9, <1>13, <3>6, <3>7, WindowSize
    <3> QED
      BY <1>8, <3>2, <3>8
  <2> QED
    BY <2>6, <2>7
<1>22. Apiece'
  <2>1. SUFFICES ASSUME ~moved
                 PROVE  /\ twice' = {}
                        /\ \A k \in listed' : Rank(r, k, S) < a + PageSize
    BY <1>2, <1>4, <1>5, <1>6, <1>18 DEF Apiece
  <2>2. twice = {} /\ \A k \in listed : Rank(r, k, S) < a
    BY <1>2, <1>5, <1>6, <1>18, <2>1 DEF LInv, Apiece
  <2>3. \A k \in listed : Rank(r, k, S) \in Nat
    BY RankNat
  <2>4. listed \cap items = {}
    <3> SUFFICES ASSUME NEW k \in listed, k \in items PROVE FALSE
      OBVIOUS
    <3>1. Rank(r, k, S) \in Nat /\ Rank(r, k, S) < a /\ a <= Rank(r, k, S)
      BY <1>17, <2>2, <2>3
    <3> QED
      BY <3>1
  <2>5. \A k \in listed : Rank(r, k, S) < a + PageSize
    BY <1>8, <2>2, <2>3
  <2> QED
    BY <1>15, <1>17, <2>2, <2>4, <2>5
<1> QED
  BY <1>19, <1>20, <1>21, <1>22 DEF LInv

\* The listing begins with nothing written out, and at the first row.
LEMMA BeginKeeps ==
  ASSUME LInv, Begin
  PROVE  LInv'
<1>1. /\ lister = "idle" /\ lister' = "list" /\ begun' = Seen
      /\ UNCHANGED <<table, call, api, page, token, order, listed, twice, shrunk, grown, moved, cut>>
  BY DEF Begin
<1>2. page = 1 /\ token = 0 /\ listed = {} /\ twice = {}
  BY <1>1 DEF LInv, Listable
<1>3. Seen' = Seen /\ Seen \in SUBSET ListKeys
  BY <1>1 DEF Seen, Sees, Live
<1>4. Cardinality(Seen) \in Nat /\ \A k \in Seen : Rank(order, k, Seen) \in Nat
  BY <1>3, RankNat
<1>5. PageSize \in Nat /\ (1 - 1) * PageSize = 0
  BY LimitKept
<1>6. Reached' = 0
  BY <1>1, <1>2, <1>5 DEF Reached
<1>7. Listable'
  BY <1>1, <1>3 DEF LInv, Listable
<1>8. InSight'
  BY <1>1, <1>2, <1>3, <1>4, <1>5 DEF InSight, Preds
<1>9. Complete'
  <2>1. ASSUME NEW k \in Seen PROVE ~(Rank(order, k, Seen) < 0)
    BY <1>4
  <2> QED
    BY <1>1, <1>3, <1>6, <2>1 DEF Complete
<1>10. Apiece'
  BY <1>1, <1>2 DEF Apiece
<1> QED
  BY <1>7, <1>8, <1>9, <1>10 DEF LInv

\* A listing that fails promises nothing.
LEMMA ListFailsKeeps ==
  ASSUME LInv, ListFails
  PROVE  LInv'
  BY DEF LInv, ListFails, Listable, InSight, Complete, Apiece

-----------------------------------------------------------------------------
(* What other clients do meanwhile.                                        *)

\* A row comes into sight of v1alpha for good.
LEMMA WriteKeepsRows ==
  ASSUME Next, api = "v1alpha", api' = api
  PROVE  Seen \subseteq Seen'
<1>1. DOMAIN table \subseteq DOMAIN table'
  <2>1. ASSUME NEW w \in Trackers, NEW new \in PutRequests, Put(w, new)
        PROVE  DOMAIN table \subseteq DOMAIN table'
    BY <2>1 DEF Put, Inserted
  <2>2. ASSUME NEW w \in Trackers, NEW keys \in DeleteRequests, Delete(w, keys)
        PROVE  DOMAIN table \subseteq DOMAIN table'
    BY <2>2 DEF Delete, Deleted
  <2> QED
    BY <2>1, <2>2 DEF Next
<1> QED
  BY <1>1 DEF Seen, Sees

\* A row comes into sight of v1beta by an insertion that went well.
LEMMA WriteShows ==
  ASSUME Next, api = "v1beta", api' = api, call'.status = "error" => table' = table
  PROVE  Seen' \subseteq Seen \cup Rewritten
<1>1. SUFFICES ASSUME NEW k \in ListKeys, Live(table', k), k \notin Rewritten
               PROVE  Live(table, k)
  BY DEF Seen, Sees
<1>2. CASE table' = table
  BY <1>1, <1>2
<1>3. ASSUME NEW w \in Trackers, NEW new \in PutRequests, Put(w, new) PROVE Live(table, k)
  <2>1. CASE table' = Inserted(table, new) /\ Answer("put", DOMAIN new, "ok")
    <3>1. Rewritten = DOMAIN new
      BY <2>1 DEF Rewritten, Answer
    <3>2. k \in DOMAIN table /\ table'[k] = table[k]
      BY <1>1, <2>1, <3>1 DEF Live, Inserted
    <3> QED
      BY <1>1, <3>2 DEF Live
  <2>2. CASE Answer("put", DOMAIN new, "error")
    BY <1>2, <2>2 DEF Answer
  <2> QED
    BY <1>3, <2>1, <2>2 DEF Put
<1>4. ASSUME NEW w \in Trackers, NEW keys \in DeleteRequests, Delete(w, keys)
      PROVE  Live(table, k)
  <2>1. CASE table' = Deleted(table, keys)
    <3>1. k \in DOMAIN table /\ (table'[k] = table[k] \/ table'[k] = DeleteGraphData(table[k]))
      BY <1>1, <2>1 DEF Live, Deleted
    <3>2. CASE table'[k] = table[k]
      BY <1>1, <3>1, <3>2 DEF Live
    <3>3. CASE table[k].deleted /\ table'[k] = DeleteGraphData(table[k])
      BY <1>1, <3>3 DEF Live, DeleteGraphData
    <3> QED
      BY <3>1, <3>2, <3>3 DEF Live
  <2>2. CASE Answer("delete", keys, "error")
    BY <1>2, <2>2 DEF Answer
  <2> QED
    BY <1>4, <2>1, <2>2 DEF Delete
<1> QED
  BY <1>3, <1>4 DEF Next

\* Of two keys the one that is inserted again comes last.
LEMMA ReorderedPair ==
  ASSUME TotalOrder(order), NEW K, NEW k \in ListKeys, NEW l \in ListKeys
  PROVE  <<k, l>> \in Reordered(K) <=>
           \/ k \notin K /\ l \notin K /\ <<k, l>> \in order
           \/ k \notin K /\ l \in K
           \/ k \in K /\ l \in K /\ <<k, l>> \in KeyOrder
  BY DEF Reordered

\* The index stays an order, and without an insertion the same.
LEMMA ReorderedOrder ==
  ASSUME TotalOrder(order), NEW K
  PROVE  TotalOrder(Reordered(K)) /\ (K = {} => Reordered(K) = order)
<1>1. TotalOrder(KeyOrder)
  BY KeyOrderAssumption
<1>2. Reordered(K) \subseteq ListKeys \X ListKeys
  BY <1>1 DEF TotalOrder, Reordered
<1>3. PICK q : q = order
  OBVIOUS
<1>4. PICK r : r = Reordered(K)
  OBVIOUS
<1>5. \A k, l \in ListKeys : <<k, l>> \in r <=>
        \/ k \notin K /\ l \notin K /\ <<k, l>> \in q
        \/ k \notin K /\ l \in K
        \/ k \in K /\ l \in K /\ <<k, l>> \in KeyOrder
  BY <1>3, <1>4, ReorderedPair
<1>6. TotalOrder(q)
  BY <1>3
<1>7. \A k \in ListKeys : <<k, k>> \notin r
  BY <1>1, <1>5, <1>6 DEF TotalOrder
<1>8. \A k, l \in ListKeys : k = l \/ <<k, l>> \in r \/ <<l, k>> \in r
  BY <1>1, <1>5, <1>6 DEF TotalOrder
<1>9. \A k, l, m \in ListKeys : (<<k, l>> \in r /\ <<l, m>> \in r) => <<k, m>> \in r
  BY <1>1, <1>5, <1>6 DEF TotalOrder
<1>10. TotalOrder(r)
  BY <1>2, <1>4, <1>7, <1>8, <1>9 DEF TotalOrder
<1>11. K = {} => r = q
  BY <1>3, <1>4, <1>6 DEF TotalOrder, Reordered
<1> QED
  BY <1>3, <1>4, <1>10, <1>11

\* Puts and Deletes beside a listing by page number: rows are inserted before the
\* ones still to come and among them, which only puts rows off.
LEMMA WriteKeepsPages ==
  ASSUME Driver # "postgres", LInv, Write, api = "v1alpha"
  PROVE  LInv'
<1>1. /\ Next /\ UNCHANGED <<api, lister, page, token, listed, twice, begun, cut>>
      /\ order' = Reordered(Rewritten)
      /\ grown' = (grown \/ (lister = "list" /\ ~(Seen' \subseteq Seen)))
  BY DEF Write, Orders
<1>2. order' = order
  <2>1. TotalOrder(order) /\ Rewritten = {}
    BY DEF LInv, Listable, Rewritten
  <2>2. PICK K : K = Rewritten
    OBVIOUS
  <2> QED
    BY <1>1, <2>1, <2>2, ReorderedOrder
<1>3. Seen \subseteq Seen'
  BY <1>1, WriteKeepsRows
<1>4. PICK r : r = order
  OBVIOUS
<1>5. PICK S \in SUBSET ListKeys : S = Seen
  BY DEF Seen
<1>6. PICK R \in SUBSET ListKeys : R = Seen'
  BY DEF Seen
<1>7. S \subseteq R /\ Cardinality(S) \in Nat /\ Cardinality(R) \in Nat /\ IsFiniteSet(R)
  BY <1>3, <1>5, <1>6, RankNat
<1>8. Cardinality(S) <= Cardinality(R)
  BY <1>7, FS_Subset
<1>9. PICK a \in Int : a = Reached
  <2>1. page \in Int /\ PageSize \in Int
    BY LimitKept DEF LInv, Listable
  <2> QED
    BY <2>1 DEF Reached
<1>10. Reached' = a
  BY <1>1, <1>9 DEF Reached
<1>11. Listable'
  BY <1>1, <1>2 DEF LInv, Listable
<1>12. InSight'
  <2>1. ASSUME lister = "list"
        PROVE  /\ page \in Nat \ {0} /\ (page - 1) * PageSize <= Cardinality(R)
               /\ begun \subseteq R
    <3>1. /\ page \in Nat \ {0} /\ (page - 1) * PageSize <= Cardinality(S)
          /\ begun \subseteq S
      BY <1>5, <2>1 DEF LInv, InSight
    <3>2. (page - 1) * PageSize \in Int
      BY <3>1, LimitKept
    <3> QED
      BY <1>7, <1>8, <3>1, <3>2
  <2> QED
    BY <1>1, <1>6, <2>1 DEF InSight
<1>13. Complete'
  <2>1. SUFFICES ASSUME ~cut
                 PROVE  /\ lister = "list" =>
                             \A k \in begun : Rank(r, k, R) < a => k \in listed
                        /\ lister = "over" => begun \subseteq listed
    BY <1>1, <1>2, <1>4, <1>6, <1>10 DEF Complete
  <2>2. /\ lister = "list" => \A k \in begun : Rank(r, k, S) < a => k \in listed
        /\ lister = "over" => begun \subseteq listed
    BY <1>4, <1>5, <1>9, <2>1 DEF LInv, Complete
  <2>3. ASSUME NEW k \in begun, Rank(r, k, R) < a PROVE Rank(r, k, S) < a
    <3>1. Rank(r, k, S) <= Rank(r, k, R)
      BY <1>7, RankMonotone DEF Preds
    <3>2. Rank(r, k, S) \in Nat /\ Rank(r, k, R) \in Nat
      BY RankNat
    <3> QED
      BY <2>3, <3>1, <3>2
  <2> QED
    BY <2>2, <2>3
<1>14. Apiece'
  <2>1. SUFFICES ASSUME ~grown'
                 PROVE  /\ twice = {}
                        /\ lister = "list" => \A k \in listed : Rank(r, k, R) < a
    BY <1>1, <1>2, <1>4, <1>6, <1>10 DEF Apiece
  <2>2. ~grown /\ (lister = "list" => R \subseteq S)
    <3>1. ~grown /\ ~(lister = "list" /\ ~(Seen' \subseteq Seen))
      BY <1>1, <2>1, Zenon
    <3> QED
      BY <1>5, <1>6, <3>1
  <2>3. /\ twice = {}
        /\ lister = "list" => \A k \in listed : Rank(r, k, S) < a
    BY <1>4, <1>5, <1>9, <2>2 DEF LInv, Apiece
  <2>4. lister = "list" => R = S
    BY <1>7, <2>2
  <2> QED
    BY <2>3, <2>4
<1> QED
  BY <1>11, <1>12, <1>13, <1>14 DEF LInv

\* Beside a listing by token: what is inserted comes after all rows of the
\* beginning, and after all rows written out that were not inserted again.
LEMMA WriteKeepsTokens ==
  ASSUME Driver # "postgres", LInv, Write, api = "v1beta"
  PROVE  LInv'
<1>1. /\ Next /\ UNCHANGED <<api, lister, page, token, listed, twice, begun, cut>>
      /\ call'.status = "error" => table' = table
      /\ order' = Reordered(Rewritten)
      /\ shrunk' = (shrunk \/ (lister = "list" /\ ~(Seen \subseteq Seen')))
      /\ moved' = (moved \/ (lister = "list" /\ Rewritten \cap (begun \cup listed) # {}))
  BY DEF Write, Orders
<1>2. PICK r : r = order
  OBVIOUS
<1>3. PICK q : q = order'
  OBVIOUS
<1>4. PICK S \in SUBSET ListKeys : S = Seen
  BY DEF Seen
<1>5. PICK R \in SUBSET ListKeys : R = Seen'
  BY DEF Seen
<1>6. PICK K : K = Rewritten
  OBVIOUS
<1>7. R \subseteq S \cup K
  BY <1>1, <1>4, <1>5, <1>6, WriteShows
<1>8. TotalOrder(r) /\ begun \subseteq ListKeys /\ listed \subseteq ListKeys
  BY <1>2 DEF LInv, Listable
<1>9. TotalOrder(q)
  BY <1>1, <1>2, <1>3, <1>6, <1>8, ReorderedOrder
<1>10. ASSUME NEW k \in ListKeys, k \notin K, NEW l \in ListKeys
       PROVE  <<l, k>> \in q <=> l \notin K /\ <<l, k>> \in r
  <2>1. TotalOrder(order) /\ q = Reordered(K)
    BY <1>1, <1>2, <1>3, <1>6, <1>8
  <2>2. <<l, k>> \in Reordered(K) <=>
          \/ l \notin K /\ k \notin K /\ <<l, k>> \in order
          \/ l \notin K /\ k \in K
          \/ l \in K /\ k \in K /\ <<l, k>> \in KeyOrder
    BY <2>1, ReorderedPair
  <2> QED
    BY <1>2, <1>10, <2>1, <2>2
<1>11. ASSUME NEW k \in ListKeys, k \notin K PROVE Preds(q, k, R) \subseteq Preds(r, k, S)
  BY <1>7, <1>10, <1>11 DEF Preds
<1>12. ASSUME ~moved', lister = "list"
       PROVE  /\ ~moved /\ K \cap (begun \cup listed) = {}
              /\ \A k \in begun : Preds(r, k, S) \subseteq begun
  <2>1. ~moved /\ ~(lister = "list" /\ Rewritten \cap (begun \cup listed) # {})
    BY <1>1, <1>12, Zenon
  <2> QED
    BY <1>2, <1>4, <1>6, <1>12, <2>1 DEF LInv, InSight
<1>13. ASSUME ~shrunk' PROVE ~shrunk /\ (lister = "list" => S \subseteq R)
  <2>1. ~shrunk /\ ~(lister = "list" /\ ~(Seen \subseteq Seen'))
    BY <1>1, <1>13, Zenon
  <2> QED
    BY <1>4, <1>5, <2>1
<1>14. PICK a \in Nat : a = token
  BY DEF LInv, Listable
<1>15. Reached = a /\ Reached' = a
  BY <1>1, <1>14 DEF Reached
<1>16. Listable'
  BY <1>1, <1>3, <1>9 DEF LInv, Listable
<1>17. InSight'
  <2>1. ASSUME lister = "list", ~shrunk' PROVE begun \subseteq R
    <3>1. begun \subseteq S
      BY <1>4, <1>13, <2>1 DEF LInv, InSight
    <3> QED
      BY <1>13, <2>1, <3>1
  <2>2. ASSUME lister = "list", ~moved', NEW k \in begun PROVE Preds(q, k, R) \subseteq begun
    <3>1. k \in ListKeys /\ k \notin K /\ Preds(r, k, S) \subseteq begun
      BY <1>8, <1>12, <2>2
    <3> QED
      BY <1>11, <3>1
  <2> QED
    BY <1>1, <1>3, <1>5, <2>1, <2>2 DEF InSight
<1>18. Complete'
  <2>1. SUFFICES ASSUME ~cut, ~shrunk', ~moved'
                 PROVE  /\ lister = "list" =>
                             \A k \in begun : Rank(q, k, R) < a => k \in listed
                        /\ lister = "over" => begun \subseteq listed
    BY <1>1, <1>3, <1>5, <1>15 DEF Complete
  <2>2. ~moved /\ ~shrunk
    <3>1. ~moved
      BY <1>1, <2>1, Zenon
    <3> QED
      BY <1>13, <2>1, <3>1
  <2>3. /\ lister = "list" => \A k \in begun : Rank(r, k, S) < a => k \in listed
        /\ lister = "over" => begun \subseteq listed
    BY <1>2, <1>4, <1>15, <2>1, <2>2 DEF LInv, Complete
  <2>4. ASSUME lister = "list", NEW k \in begun, Rank(q, k, R) < a PROVE Rank(r, k, S) < a
    <3>1. k \in ListKeys /\ k \notin K /\ S \subseteq R
      BY <1>8, <1>12, <1>13, <2>1, <2>4
    <3>2. Preds(r, k, S) \subseteq Preds(q, k, R)
      <4> SUFFICES ASSUME NEW l \in S, <<l, k>> \in r PROVE l \in R /\ <<l, k>> \in q
        BY DEF Preds
      <4>1. l \in begun
        BY <1>12, <2>1, <2>4 DEF Preds
      <4>2. l \notin K
        BY <1>12, <2>1, <2>4, <4>1
      <4> QED
        BY <1>10, <3>1, <4>2
    <3>3. Rank(r, k, S) <= Rank(q, k, R)
      BY <3>2, RankMonotone
    <3>4. Rank(r, k, S) \in Nat /\ Rank(q, k, R) \in Nat
      BY RankNat
    <3> QED
      BY <2>4, <3>3, <3>4
  <2> QED
    BY <2>3, <2>4
<1>19. Apiece'
  <2>1. SUFFICES ASSUME ~moved'
                 PROVE  /\ twice = {}
                        /\ lister = "list" => \A k \in listed : Rank(q, k, R) < a
    BY <1>1, <1>3, <1>5, <1>15 DEF Apiece
  <2>2. ~moved
    BY <1>1, <2>1, Zenon
  <2>3. /\ twice = {}
        /\ lister = "list" => \A k \in listed : Rank(r, k, S) < a
    BY <1>2, <1>4, <1>15, <2>2 DEF LInv, Apiece
  <2>4. ASSUME lister = "list", NEW k \in listed PROVE Rank(q, k, R) < a
    <3>1. k \in ListKeys /\ k \notin K
      BY <1>8, <1>12, <2>1, <2>4
    <3>2. Rank(q, k, R) <= Rank(r, k, S)
      BY <1>11, <3>1, RankMonotone
    <3>3. Rank(r, k, S) \in Nat /\ Rank(q, k, R) \in Nat /\ Rank(r, k, S) < a
      BY <2>3, <2>4, RankNat
    <3> QED
      BY <3>2, <3>3
  <2> QED
    BY <2>3, <2>4
<1> QED
  BY <1>16, <1>17, <1>18, <1>19 DEF LInv

-----------------------------------------------------------------------------
(* Listings are exact.                                                     *)

\* A listing that ends, with no page cut short, has all items that were there at its
\* beginning: by page number whatever is put and deleted meanwhile, by token unless
\* one of them goes out of sight or is inserted again; and an item comes twice only
\* after an insertion (page number), or after its own (token).  For every number of
\* items and every page size in the limits, where the rows come in the order of an
\* index: on postgres they come in the order of the heap, which writes change.
THEOREM ListsExactly ==
  ASSUME Driver # "postgres"
  PROVE  ListingSpec => []ListingExact
<1>1. ListingInit => LInv
  <2> SUFFICES ASSUME ListingInit PROVE LInv
    OBVIOUS
  <2>1. Listable
    BY ApisAssumption, KeyOrderAssumption DEF ListingInit, Listable
  <2>2. InSight /\ Complete /\ Apiece
    BY DEF ListingInit, InSight, Complete, Apiece
  <2> QED
    BY <2>1, <2>2 DEF LInv
<1>2. LInv /\ [ListingNext]_allVars => LInv'
  <2> SUFFICES ASSUME LInv, [ListingNext]_allVars PROVE LInv'
    OBVIOUS
  <2>1. CASE ListStep
    BY <2>1, BeginKeeps, FetchPageKeeps, FollowTokenKeeps, ListFailsKeeps DEF ListStep
  <2>2. CASE Write
    <3>1. api = "v1alpha" \/ api = "v1beta"
      BY DEF LInv, Listable
    <3> QED
      BY <2>2, <3>1, WriteKeepsPages, WriteKeepsTokens
  <2>3. CASE UNCHANGED allVars
    <3>1. UNCHANGED <<api, lister, page, token, order, listed, twice, begun,
                      shrunk, grown, moved, cut>> /\ Seen' = Seen
      BY <2>3 DEF allVars, listVars, Seen, Sees, Live
    <3>2. Reached' = Reached
      BY <3>1 DEF Reached
    <3> QED
      BY <3>1, <3>2 DEF LInv, Listable, InSight, Complete, Apiece
  <2> QED
    BY <2>1, <2>2, <2>3 DEF ListingNext
<1>3. LInv => ListingExact
  BY DEF LInv, Listable, Complete, Apiece, ListingExact
<1> QED
  BY <1>1, <1>2, <1>3, PTL DEF ListingSpec

\* A listing only reads: beside it the store is the store above, with its theorems.
LEMMA ListingOnlyReads == ListingSpec => Spec
<1>1. ListingInit => Init
  BY DEF ListingInit
<1>2. [ListingNext]_allVars => [Next]_vars
  BY DEF ListingNext, ListStep, Begin, FetchPage, FollowToken, ListFails, Write,
         allVars, vars
<1> QED
  BY <1>1, <1>2, PTL DEF ListingSpec, Spec
=============================================================================
