---------------------------- MODULE MemoryStore ----------------------------
(***************************************************************************)
(* The in-memory product store, whose mutex makes each call one step: what *)
(* a product store promises of its ids.  Seeding shows that PostgreSQL's   *)
(* table and identity sequence implement it while one instance uses them.  *)
(***************************************************************************)
EXTENDS Integers, Sequences

CONSTANTS Products,    \* what a product is besides its id
          ExplicitIds, \* the ids that callers of CreateWithID choose
          MaxProducts  \* bound: products in the store

VARIABLES
    byID,  \* the products by id
    order, \* their ids, in the order of insertion: what List goes by
    nextID

vars == <<byID, order, nextID>>

-----------------------------------------------------------------------------

\* The counter after CreateWithID(id).
NextAfter(id) == IF id >= nextID THEN id + 1 ELSE nextID

\* CreateWithID refuses an id that is there.
IsFree(id) == id \notin DOMAIN byID

-----------------------------------------------------------------------------

Init == byID = << >> /\ order = << >> /\ nextID = 1

\* Both calls assign: a product that had the id would be lost.
Put(id, np) == /\ byID' = [d \in DOMAIN byID \cup {id} |-> IF d = id THEN np ELSE byID[d]]
               /\ order' = Append(order, id)

\* No duplicates: else ErrConflict, and nothing changes.
CreateWithID(id, np) == /\ IsFree(id)
                        /\ Put(id, np)
                        /\ nextID' = NextAfter(id)

Create(np) == /\ Put(nextID, np)
              /\ nextID' = nextID + 1

Next == /\ Len(order) < MaxProducts
        /\ \E np \in Products : Create(np) \/ \E id \in ExplicitIds : CreateWithID(id, np)

Spec == Init /\ [][Next]_vars

-----------------------------------------------------------------------------

\* "Advanced past explicit ids so later Creates never collide" (memory.go).
NeverCollides == \A id \in DOMAIN byID : id < nextID

\* List shows each product, and once.
ListedOnce == /\ {order[n] : n \in 1 .. Len(order)} = DOMAIN byID
              /\ \A m, n \in 1 .. Len(order) : order[m] = order[n] => m = n

\* A product that was stored stays what it was, whatever is called.
NeverReplaced == [][\A id \in DOMAIN byID : id \in DOMAIN byID' /\ byID'[id] = byID[id]]_vars
=============================================================================
