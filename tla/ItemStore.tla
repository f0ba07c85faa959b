----------------------------- MODULE ItemStore -----------------------------
(***************************************************************************)
(* What the v1alpha graph store promises the services built on it: a map   *)
(* from item keys to item data.  Put stores items, Delete removes them; a  *)
(* call answered "ok" did all of its work, one answered "error" any part.  *)
(* Soft deletion, SQL dialects and transactions are not visible here;      *)
(* GraphStore is shown to implement this module.                           *)
(***************************************************************************)
CONSTANTS PutRequests,     \* the item maps (key -> data) clients Put
          DeleteRequests   \* the sets of keys clients Delete

VARIABLES items,           \* the stored items, a function from keys to data
          call             \* the last call and the status it was answered with

Written(old, new) ==
  [k \in DOMAIN old \cup DOMAIN new |-> IF k \in DOMAIN new THEN new[k] ELSE old[k]]

Without(old, K) == [k \in DOMAIN old \ K |-> old[k]]

Part(new, K) == [k \in K |-> new[k]]

NoCall == [op |-> "none", keys |-> {}, status |-> "ok"]

Init == /\ DOMAIN items = {}
        /\ call = NoCall

Put(new) ==
  \/ /\ items' = Written(items, new)
     /\ call' = [op |-> "put", keys |-> DOMAIN new, status |-> "ok"]
  \/ /\ \E K \in SUBSET DOMAIN new : items' = Written(items, Part(new, K))
     /\ call' = [op |-> "put", keys |-> DOMAIN new, status |-> "error"]

Delete(keys) ==
  \/ /\ items' = Without(items, keys)
     /\ call' = [op |-> "delete", keys |-> keys, status |-> "ok"]
  \/ /\ \E K \in SUBSET keys : items' = Without(items, K)
     /\ call' = [op |-> "delete", keys |-> keys, status |-> "error"]

Next == \/ \E new \in PutRequests : Put(new)
        \/ \E keys \in DeleteRequests : Delete(keys)

Spec == Init /\ [][Next]_<<items, call>>
=============================================================================
