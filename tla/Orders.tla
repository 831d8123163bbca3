------------------------------- MODULE Orders -------------------------------
(***************************************************************************)
(* POST /api/order of one server, from the request to the rows in          *)
(* PostgreSQL, and what a shutdown does to the requests in flight:         *)
(* requireScope, placeOrder, Orders.Place, postgres.CreateOrder and run of *)
(* cmd/server.                                                             *)
(*                                                                         *)
(* A handler takes a step for each call it makes: the validator, the       *)
(* lookup of the products, each statement of the transaction.  What it     *)
(* computes between two calls belongs to the step before.  Quantities and  *)
(* the number of items matter as far as the limits tell them apart.  The   *)
(* set of valid codes changes when an index is swapped in; the catalogue   *)
(* shows any part of the table (CatalogCache says which).                  *)
(***************************************************************************)
EXTENDS Integers, Sequences

CONSTANTS Clients,     \* each with an order it wants to place
          Requests,    \* [key, items, coupon]: what clients may send
          Table,       \* the products there are
          Codes,       \* codes that may be valid
          NoCoupon,    \* couponCode is absent
          MaxOrderItems, MaxQuantity,
          MaxAttempts, \* bound: requests of a client
          MaxFaults    \* bound: failed calls, lost answers, crashes

ASSUME OrdersAssumption ==
    /\ NoCoupon \notin Codes
    /\ \A r \in Requests : r.items \in Seq([product : STRING, quantity : Nat])
    /\ MaxOrderItems \in Nat /\ MaxQuantity \in Nat /\ MaxAttempts \in Nat /\ MaxFaults \in Nat

VARIABLES
    server,  \* "up", "draining", "closing" or "down"
    req,     \* what each client wants
    attempt, \* how often it has asked
    pc,      \* the handler of its last request
    tx,      \* rows of its open transaction: 0 is the order, i the item i
    stored,  \* the committed rows of each attempt
    answer,  \* what the client has last been told
    codes,   \* the codes that are valid now
    since,   \* history: those valid at some moment of the request in flight
    visible, \* the products that GetMany finds
    faults

request == <<attempt, pc, tx, stored, answer>>
world == <<codes, since, visible>>
vars == <<server, req, request, world, faults>>

None == 0  \* no answer
Lost == -1 \* the connection broke

Items(c) == req[c].items
Rows(c) == 0 .. Len(Items(c))
InFlight(c) == pc[c] # "idle"
HoldsConn(c) == pc[c] = "tx"

-----------------------------------------------------------------------------
(* Rules of the code, preceded by faulty variants.                         *)

\* requireScope, then placeOrder and the start of Place: 0 is no objection.
Refusal(r) == CASE r.key = "unknown" -> 401
                [] r.key = "unscoped" -> 403
                [] r.key = "scoped" /\ r.items = <<>> -> 400
                [] r.key = "scoped" /\ Len(r.items) > MaxOrderItems -> 422
                [] OTHER -> None

\* The per-item checks, which come after the coupon.
ItemsSound(r) == \A i \in 1 .. Len(r.items) : r.items[i].quantity \in 1 .. MaxQuantity

\* Fail closed: a validator that cannot answer approves nothing.
OnValidatorErrorOpen == None
OnValidatorError == 503

\* failDomain: what is not a domain.Error is a 500.
OnUnexpectedUnavailable == 503
OnUnexpected == 500

\* defer tx.Rollback.
TxAfterReturnOpen(c) == tx[c]
TxAfterReturn(c) == {}

\* What a transaction that was not committed leaves in the tables.
RolledBackNot(c) == tx[c]
RolledBack(c) == {}

\* Handlers run with the context of their request, which ends with the server.
CancelledNot(c) == FALSE
Cancelled(c) == server \in {"draining", "closing"} /\ pc[c] \in {"lookup", "begin", "tx"}

-----------------------------------------------------------------------------

Init == /\ server = "up"
        /\ req \in [Clients -> Requests]
        /\ attempt = [c \in Clients |-> 0]
        /\ pc = [c \in Clients |-> "idle"]
        /\ tx = [c \in Clients |-> {}]
        /\ stored = [c \in Clients |-> [n \in 1 .. MaxAttempts |-> {}]]
        /\ answer = [c \in Clients |-> None]
        /\ codes = Codes
        /\ since = [c \in Clients |-> {}]
        /\ visible = Table
        /\ faults = 0

\* The handler returns.
Answer(c, status) == /\ pc' = [pc EXCEPT ![c] = "idle"]
                     /\ answer' = [answer EXCEPT ![c] = status]
                     /\ tx' = [tx EXCEPT ![c] = TxAfterReturn(c)]
                     /\ UNCHANGED attempt

Persist(c, rows) == stored' = [stored EXCEPT ![c][attempt[c]] = @ \cup rows]

\* A client asks again after a 5xx or when it was told nothing.
Send(c) == /\ server = "up" /\ ~InFlight(c)
           /\ attempt[c] < MaxAttempts
           /\ answer[c] \in {None, Lost, 500, 503}
           /\ attempt' = [attempt EXCEPT ![c] = @ + 1]
           /\ answer' = [answer EXCEPT ![c] = None]
           /\ pc' = [pc EXCEPT ![c] = "arrived"]
           /\ since' = [since EXCEPT ![c] = codes]
           /\ UNCHANGED <<server, req, tx, stored, codes, visible, faults>>

Refuse(c) == /\ pc[c] = "arrived" /\ Refusal(req[c]) # None
             /\ Answer(c, Refusal(req[c]))
             /\ UNCHANGED <<server, req, stored, world, faults>>

\* The coupon first, then the items.
CheckItems(c) == IF ItemsSound(req[c])
                 THEN pc' = [pc EXCEPT ![c] = "lookup"] /\ UNCHANGED <<attempt, tx, answer>>
                 ELSE Answer(c, 422)

Validate(c) == /\ pc[c] = "arrived" /\ Refusal(req[c]) = None
               /\ IF req[c].coupon \in codes \cup {NoCoupon} THEN CheckItems(c) ELSE Answer(c, 422)
               /\ UNCHANGED <<server, req, stored, world, faults>>

ValidateFails(c) == /\ pc[c] = "arrived" /\ Refusal(req[c]) = None
                    /\ req[c].coupon # NoCoupon
                    /\ faults < MaxFaults /\ faults' = faults + 1
                    /\ IF OnValidatorError = None THEN CheckItems(c) ELSE Answer(c, OnValidatorError)
                    /\ UNCHANGED <<server, req, stored, world>>

\* GetMany: every product, or an error that names the missing ones.
Lookup(c) == /\ pc[c] = "lookup"
             /\ IF \A i \in 1 .. Len(Items(c)) : Items(c)[i].product \in visible
                THEN pc' = [pc EXCEPT ![c] = "begin"] /\ UNCHANGED <<attempt, tx, answer>>
                ELSE Answer(c, 422)
             /\ UNCHANGED <<server, req, stored, world, faults>>

\* Begin; the pool is open until the server closes it.
Begin(c) == /\ pc[c] = "begin" /\ server \in {"up", "draining"}
            /\ pc' = [pc EXCEPT ![c] = "tx"]
            /\ UNCHANGED <<server, req, attempt, tx, stored, answer, world, faults>>

\* The order, then its items one by one.
Insert(c, i) == /\ pc[c] = "tx" /\ i \in Rows(c) \ tx[c]
                /\ \A j \in 0 .. i - 1 : j \in tx[c]
                /\ tx' = [tx EXCEPT ![c] = @ \cup {i}]
                /\ UNCHANGED <<server, req, attempt, pc, stored, answer, world, faults>>

Commit(c) == /\ pc[c] = "tx" /\ tx[c] = Rows(c)
             /\ Persist(c, tx[c])
             /\ Answer(c, 200)
             /\ UNCHANGED <<server, req, world, faults>>

\* A call to the database fails: the deferred Rollback, and an internal error.
StoreError(c) == /\ Persist(c, RolledBack(c))
                 /\ Answer(c, OnUnexpected)

\* The commit takes effect but its answer does not arrive.
CommitError(c) == /\ tx[c] = Rows(c)
                  /\ Persist(c, tx[c])
                  /\ Answer(c, OnUnexpected)

StoreFails(c) == /\ pc[c] \in {"lookup", "begin", "tx"}
                 /\ faults < MaxFaults /\ faults' = faults + 1
                 /\ StoreError(c) \/ CommitError(c)
                 /\ UNCHANGED <<server, req, world>>

\* fasthttp closes the contexts of all requests when its shutdown begins.
CancelRequest(c) == /\ Cancelled(c)
                    /\ StoreError(c) \/ CommitError(c)
                    /\ UNCHANGED <<server, req, world, faults>>

\* The client has given up waiting, or the network lost what it was told.
AnswerLost(c) == /\ answer[c] > None /\ ~InFlight(c)
                 /\ faults < MaxFaults /\ faults' = faults + 1
                 /\ answer' = [answer EXCEPT ![c] = Lost]
                 /\ UNCHANGED <<server, req, attempt, pc, tx, stored, world>>

-----------------------------------------------------------------------------
(* The server.                                                             *)

\* An index is swapped in; the catalogue is refreshed, from any replica.
Reload == /\ codes' \in SUBSET Codes
          /\ since' = [c \in Clients |-> since[c] \cup codes']
          /\ UNCHANGED <<server, req, request, visible, faults>>

Refresh == /\ visible' \in SUBSET Table
           /\ UNCHANGED <<server, req, request, codes, since, faults>>

Signal == /\ server = "up"
          /\ server' = "draining"
          /\ UNCHANGED <<req, request, world, faults>>

\* ShutdownWithTimeout returns.
Drained == /\ server = "draining" /\ \A c \in Clients : ~InFlight(c)
           /\ server' = "closing"
           /\ UNCHANGED <<req, request, world, faults>>

DrainTimeout == /\ server = "draining" /\ \E c \in Clients : InFlight(c)
                /\ faults < MaxFaults /\ faults' = faults + 1
                /\ server' = "closing"
                /\ UNCHANGED <<req, request, world>>

\* The process is gone, with its handlers and its transactions.
Gone == /\ server' = "down"
        /\ pc' = [c \in Clients |-> "idle"]
        /\ tx' = [c \in Clients |-> {}]
        /\ answer' = [c \in Clients |-> IF InFlight(c) THEN Lost ELSE answer[c]]
        /\ UNCHANGED <<req, attempt, stored, world>>

\* The deferred closeStores waits for the connections in use.
Exit == /\ server = "closing" /\ \A c \in Clients : ~HoldsConn(c)
        /\ Gone /\ UNCHANGED faults

Crash == /\ server # "down" /\ faults < MaxFaults
         /\ faults' = faults + 1
         /\ Gone

Restart == /\ server = "down"
           /\ server' = "up"
           /\ UNCHANGED <<req, request, world, faults>>

Pure(c) == Refuse(c) \/ Validate(c)
Database(c) == Lookup(c) \/ Begin(c) \/ (\E i \in Rows(c) : Insert(c, i)) \/ Commit(c)

Next == \/ \E c \in Clients : \/ Send(c) \/ Pure(c) \/ Database(c) \/ CancelRequest(c)
                              \/ ValidateFails(c) \/ StoreFails(c) \/ AnswerLost(c)
        \/ Reload \/ Refresh
        \/ Signal \/ Drained \/ DrainTimeout \/ Exit \/ Crash \/ Restart

\* A query may hang: nothing bounds it while the server is up.  The validator
\* answers or times out, a cancelled query returns, and shutdown goes on.
Spec == /\ Init /\ [][Next]_vars
        /\ \A c \in Clients : WF_vars(Pure(c)) /\ WF_vars(CancelRequest(c))
        /\ WF_vars(Drained) /\ WF_vars(Exit) /\ WF_vars(Restart)

-----------------------------------------------------------------------------

TypeOK ==
    /\ server \in {"up", "draining", "closing", "down"}
    /\ req \in [Clients -> Requests]
    /\ attempt \in [Clients -> 0 .. MaxAttempts]
    /\ pc \in [Clients -> {"idle", "arrived", "lookup", "begin", "tx"}]
    /\ tx \in [Clients -> SUBSET Nat]
    /\ \A c \in Clients : tx[c] \subseteq Rows(c) /\ (tx[c] # {} => pc[c] = "tx")
    /\ stored \in [Clients -> [1 .. MaxAttempts -> SUBSET Nat]]
    /\ answer \in [Clients -> {None, Lost, 200, 400, 401, 403, 422, 500, 503}]
    /\ codes \subseteq Codes /\ since \in [Clients -> SUBSET Codes]
    /\ visible \subseteq Table
    /\ faults \in 0 .. MaxFaults

Attempts(c) == 1 .. attempt[c]

\* "Order + items commit atomically" (postgres.go): whatever fails, crashes or
\* is cancelled, an order is in the tables with all of its items or not at all.
StoredWhole == \A c \in Clients : \A n \in Attempts(c) : stored[c][n] \in {{}, Rows(c)}

\* What is stored was acceptable: the key has the scope, the quantities are in
\* range, the products exist and the coupon was valid at some moment while the
\* request was handled, although the index may be swapped at any.
StoredWasAcceptable == \A c \in Clients : \A n \in Attempts(c) :
    stored[c][n] # {} => /\ Refusal(req[c]) = None
                         /\ \A i \in 1 .. Len(Items(c)) : /\ Items(c)[i].product \in Table
                                                          /\ Items(c)[i].quantity \in 1 .. MaxQuantity
                         /\ n = attempt[c] => req[c].coupon \in since[c] \cup {NoCoupon}

\* A client that is told 200 has its order in the tables, and one that is told
\* a 4xx or "temporarily unavailable, please retry" has not: only after a 500
\* or silence may a retry order twice.
AnswerTellsTruth == \A c \in Clients :
    ~InFlight(c) /\ attempt[c] > 0 =>
        /\ answer[c] = 200 => stored[c][attempt[c]] = Rows(c)
        /\ answer[c] \in {400, 401, 403, 422, 503} => stored[c][attempt[c]] = {}

\* A shutdown ends, although closing the pools waits for every connection and
\* a query may hang for ever.
ShutdownEnds == server = "draining" ~> server = "down"

\* "Zero dropped orders on deploys" (docs/DESIGN.md): when no call fails and
\* the drain is not cut short, no client is told of an error or nothing at all.
NoDroppedOrders == \A c \in Clients : answer[c] \notin {500, Lost}
=============================================================================
