---------------------------- MODULE OrdersProofs ----------------------------
(***************************************************************************)
(* That orders are stored whole or not at all, that only acceptable ones   *)
(* are, and that clients are told the truth, for any number of clients,    *)
(* requests, products and codes, and whatever fails, is cancelled or dies. *)
(*                                                                         *)
(* A handler in flight has stored nothing yet and its client has been told *)
(* nothing; what it has passed so far was in order.                        *)
(***************************************************************************)
EXTENDS Orders, TLAPS

Handling == {"idle", "arrived", "lookup", "begin", "tx"}
Answers == {None, Lost, 200, 400, 401, 403, 422, 500, 503}

\* What a client's last request has come to, and its earlier ones left.
StoredSoFar(c) ==
    /\ \A n \in 1 .. MaxAttempts : stored[c][n] \in {{}, Rows(c)}
    /\ \A n \in 1 .. MaxAttempts : n > attempt[c] => stored[c][n] = {}
    /\ InFlight(c) => /\ attempt[c] > 0 /\ answer[c] = None
                      /\ stored[c][attempt[c]] = {}

\* What a handler has passed.
CouponValid(c) == req[c].coupon \in since[c] \cup {NoCoupon}
ProductsKnown(c) == \A i \in 1 .. Len(Items(c)) : Items(c)[i].product \in Table
PassedSoFar(c) ==
    /\ InFlight(c) => codes \subseteq since[c]
    /\ pc[c] \in {"lookup", "begin", "tx"} =>
          Refusal(req[c]) = None /\ ItemsSound(req[c]) /\ CouponValid(c)
    /\ pc[c] \in {"begin", "tx"} => ProductsKnown(c)

\* What is stored was passed.
AcceptableSoFar(c) == \A n \in 1 .. MaxAttempts :
    stored[c][n] # {} =>
        /\ Refusal(req[c]) = None /\ ItemsSound(req[c]) /\ ProductsKnown(c)
        /\ n = attempt[c] => CouponValid(c)

TruthSoFar(c) == ~InFlight(c) /\ attempt[c] > 0 =>
    /\ answer[c] = 200 => stored[c][attempt[c]] = Rows(c)
    /\ answer[c] \in {400, 401, 403, 422, 503} => stored[c][attempt[c]] = {}

HandlerInv(c) == StoredSoFar(c) /\ PassedSoFar(c) /\ AcceptableSoFar(c) /\ TruthSoFar(c)

OrdersInv == TypeOK /\ \A c \in Clients : HandlerInv(c)

LEMMA RowsThere ==
    ASSUME TypeOK, NEW c \in Clients
    PROVE  Len(Items(c)) \in Nat /\ 0 \in Rows(c) /\ Rows(c) \subseteq Nat
BY OrdersAssumption DEF TypeOK, Items, Rows

LEMMA RefusalIsStatus == \A r : Refusal(r) \in {None, 400, 401, 403, 422}
BY DEF Refusal, None

LEMMA OrdersInit == Init => OrdersInv
<1> SUFFICES ASSUME Init PROVE OrdersInv
  OBVIOUS
<1> USE OrdersAssumption
<1>1. TypeOK
  BY DEF Init, TypeOK, None
<1> QED
  BY <1>1 DEF Init, OrdersInv, HandlerInv, StoredSoFar, PassedSoFar, AcceptableSoFar, TruthSoFar, InFlight

\* Nothing changes for a handler but, perhaps, the codes that were valid.
LEMMA OthersKeep ==
    ASSUME NEW d \in Clients, HandlerInv(d),
           req' = req, pc'[d] = pc[d], attempt'[d] = attempt[d], stored'[d] = stored[d],
           answer'[d] = answer[d],
           since[d] \subseteq since'[d],
           codes' \subseteq codes \cup since'[d]
    PROVE  HandlerInv(d)'
BY DEF HandlerInv, StoredSoFar, PassedSoFar, AcceptableSoFar, TruthSoFar, InFlight, CouponValid,
       ProductsKnown, Items, Rows

\* The handler is gone, and its client has been told.
Returned(c, status) ==
    /\ pc' \in [Clients -> Handling] /\ pc'[c] = "idle"
    /\ \A d \in Clients : d # c => pc'[d] = pc[d]
    /\ answer' \in [Clients -> Answers] /\ answer'[c] = status
    /\ \A d \in Clients : d # c => answer'[d] = answer[d]
    /\ tx' \in [Clients -> SUBSET Nat] /\ tx'[c] = {}
    /\ \A d \in Clients : d # c => tx'[d] = tx[d]
    /\ attempt' = attempt

LEMMA AnswerReturns ==
    ASSUME TypeOK, NEW c \in Clients, NEW status \in Answers, Answer(c, status)
    PROVE  Returned(c, status)
<1>1. /\ pc' = [pc EXCEPT ![c] = "idle"] /\ answer' = [answer EXCEPT ![c] = status]
      /\ tx' = [tx EXCEPT ![c] = {}] /\ attempt' = attempt
  BY DEF Answer, TxAfterReturn
<1>2. pc \in [Clients -> Handling] /\ answer \in [Clients -> Answers] /\ tx \in [Clients -> SUBSET Nat]
  BY DEF TypeOK, Handling, Answers
<1>3. pc' \in [Clients -> Handling] /\ pc'[c] = "idle" /\ \A d \in Clients : d # c => pc'[d] = pc[d]
  BY <1>1, <1>2 DEF Handling
<1>4. /\ answer' \in [Clients -> Answers] /\ answer'[c] = status
      /\ \A d \in Clients : d # c => answer'[d] = answer[d]
  BY <1>1, <1>2
<1>5. tx' \in [Clients -> SUBSET Nat] /\ tx'[c] = {} /\ \A d \in Clients : d # c => tx'[d] = tx[d]
  BY <1>1, <1>2
<1> QED
  BY <1>1, <1>3, <1>4, <1>5 DEF Returned

\* A handler returns a status and has stored nothing.
LEMMA AnswerKeeps ==
    ASSUME OrdersInv, NEW c \in Clients, InFlight(c),
           NEW status \in {400, 401, 403, 422, 500, 503}, Answer(c, status),
           UNCHANGED <<server, req, stored, codes, since, visible>>, faults' \in 0 .. MaxFaults
    PROVE  OrdersInv'
<1>1. Returned(c, status)
  BY AnswerReturns DEF OrdersInv, Answers
<1>2. TypeOK'
  <2>1. \A d \in Clients : tx'[d] \subseteq Rows(d)' /\ (tx'[d] # {} => pc'[d] = "tx")
    BY <1>1 DEF Returned, OrdersInv, TypeOK, Rows, Items
  <2> QED
    BY <1>1, <2>1 DEF Returned, OrdersInv, TypeOK, Handling, Answers
<1>3. HandlerInv(c)'
  BY <1>1, RowsThere DEF Returned, OrdersInv, HandlerInv, StoredSoFar, PassedSoFar, AcceptableSoFar, TruthSoFar,
                         InFlight, CouponValid, ProductsKnown, Items, Rows, None
<1>4. ASSUME NEW d \in Clients, d # c PROVE HandlerInv(d)'
  BY <1>1, <1>4, OthersKeep DEF Returned, OrdersInv
<1> QED
  BY <1>2, <1>3, <1>4 DEF OrdersInv

\* A handler goes on.
LEMMA HandlerMoves ==
    ASSUME OrdersInv, NEW c \in Clients, InFlight(c), NEW to \in {"lookup", "begin", "tx"},
           pc' = [pc EXCEPT ![c] = to], UNCHANGED <<attempt, tx, answer>>,
           UNCHANGED <<server, req, stored, codes, since, visible>>, faults' \in 0 .. MaxFaults,
           Refusal(req[c]) = None /\ ItemsSound(req[c]) /\ CouponValid(c),
           to \in {"begin", "tx"} => ProductsKnown(c),
           tx[c] # {} => to = "tx"
    PROVE  OrdersInv'
<1>1. /\ pc' \in [Clients -> Handling] /\ pc'[c] = to
      /\ \A d \in Clients : d # c => pc'[d] = pc[d]
  BY DEF OrdersInv, TypeOK, Handling
<1>2. TypeOK'
  BY <1>1 DEF OrdersInv, TypeOK, Handling, Rows, Items
<1>3. HandlerInv(c)'
  BY <1>1 DEF OrdersInv, HandlerInv, StoredSoFar, PassedSoFar, AcceptableSoFar, TruthSoFar,
              InFlight, CouponValid, ProductsKnown, Items, Rows
<1>4. ASSUME NEW d \in Clients, d # c PROVE HandlerInv(d)'
  BY <1>1, <1>4, OthersKeep DEF OrdersInv
<1> QED
  BY <1>2, <1>3, <1>4 DEF OrdersInv

LEMMA PersistAdds ==
    ASSUME TypeOK, NEW c \in Clients, attempt[c] \in 1 .. MaxAttempts,
           NEW rows \in SUBSET Nat, Persist(c, rows)
    PROVE  /\ stored' \in [Clients -> [1 .. MaxAttempts -> SUBSET Nat]]
           /\ \A d \in Clients : d # c => stored'[d] = stored[d]
           /\ \A n \in 1 .. MaxAttempts :
                 stored'[c][n] = IF n = attempt[c] THEN stored[c][n] \cup rows ELSE stored[c][n]
<1>1. /\ stored' = [stored EXCEPT ![c] = [stored[c] EXCEPT ![attempt[c]] = stored[c][attempt[c]] \cup rows]]
      /\ stored \in [Clients -> [1 .. MaxAttempts -> SUBSET Nat]]
  BY DEF Persist, TypeOK
<1>2. [stored[c] EXCEPT ![attempt[c]] = stored[c][attempt[c]] \cup rows] \in [1 .. MaxAttempts -> SUBSET Nat]
  BY <1>1
<1> QED
  BY <1>1, <1>2

LEMMA PersistOnce ==
    ASSUME TypeOK, NEW c \in Clients, attempt[c] \in 1 .. MaxAttempts, stored[c][attempt[c]] = {},
           Persist(c, Rows(c))
    PROVE  /\ stored' \in [Clients -> [1 .. MaxAttempts -> SUBSET Nat]]
           /\ \A d \in Clients : d # c => stored'[d] = stored[d]
           /\ \A n \in 1 .. MaxAttempts :
                 stored'[c][n] = IF n = attempt[c] THEN Rows(c) ELSE stored[c][n]
<1>1. PICK rows \in SUBSET Nat : rows = Rows(c)
  BY RowsThere
<1>2. Persist(c, rows)
  BY <1>1
<1>3. /\ stored' \in [Clients -> [1 .. MaxAttempts -> SUBSET Nat]]
      /\ \A d \in Clients : d # c => stored'[d] = stored[d]
      /\ \A n \in 1 .. MaxAttempts :
            stored'[c][n] = IF n = attempt[c] THEN stored[c][n] \cup rows ELSE stored[c][n]
  BY <1>2, PersistAdds
<1>4. stored[c][attempt[c]] \cup rows = Rows(c)
  BY <1>1
<1> QED
  BY <1>3, <1>4

\* The rows of a transaction are committed, and the client is told of it or of
\* an internal error.
LEMMA PersistKeeps ==
    ASSUME OrdersInv, NEW c \in Clients, pc[c] = "tx", tx[c] = Rows(c), Persist(c, tx[c]),
           NEW status \in {200, 500}, Answer(c, status),
           UNCHANGED <<server, req, codes, since, visible>>, faults' \in 0 .. MaxFaults
    PROVE  OrdersInv'
<1>1. Returned(c, status)
  BY AnswerReturns DEF OrdersInv, Answers
<1>2. /\ attempt[c] \in 1 .. MaxAttempts /\ stored[c][attempt[c]] = {}
      /\ Refusal(req[c]) = None /\ ItemsSound(req[c]) /\ CouponValid(c) /\ ProductsKnown(c)
  BY DEF OrdersInv, TypeOK, HandlerInv, StoredSoFar, PassedSoFar, InFlight
<1>3. /\ stored' \in [Clients -> [1 .. MaxAttempts -> SUBSET Nat]]
      /\ \A d \in Clients : d # c => stored'[d] = stored[d]
      /\ \A n \in 1 .. MaxAttempts : stored'[c][n] = IF n = attempt[c] THEN Rows(c) ELSE stored[c][n]
  <2>1. TypeOK /\ Persist(c, Rows(c))
    BY DEF OrdersInv
  <2> QED
    BY <1>2, <2>1, PersistOnce
<1>4. TypeOK'
  <2>1. \A d \in Clients : tx'[d] \subseteq Rows(d)' /\ (tx'[d] # {} => pc'[d] = "tx")
    BY <1>1 DEF Returned, OrdersInv, TypeOK, Rows, Items
  <2> QED
    BY <1>1, <1>3, <2>1 DEF Returned, OrdersInv, TypeOK, Handling, Answers
<1>5. HandlerInv(c)'
  <2>1. StoredSoFar(c)'
    <3>1. /\ ~InFlight(c)' /\ attempt'[c] = attempt[c] /\ Rows(c)' = Rows(c)
      BY <1>1 DEF Returned, InFlight, Rows, Items
    <3>2. /\ \A n \in 1 .. MaxAttempts : stored[c][n] \in {{}, Rows(c)}
          /\ \A n \in 1 .. MaxAttempts : n > attempt[c] => stored[c][n] = {}
      BY DEF OrdersInv, HandlerInv, StoredSoFar
    <3>3. \A n \in 1 .. MaxAttempts : stored'[c][n] \in {{}, Rows(c)}
      BY <1>3, <3>2
    <3>4. \A n \in 1 .. MaxAttempts : n > attempt[c] => stored'[c][n] = {}
      BY <1>2, <1>3, <3>2
    <3> QED
      BY <3>1, <3>3, <3>4 DEF StoredSoFar
  <2>2. PassedSoFar(c)'
    BY <1>1 DEF Returned, PassedSoFar, InFlight
  <2>3. AcceptableSoFar(c)'
    BY <1>1, <1>2, <1>3 DEF Returned, OrdersInv, HandlerInv, AcceptableSoFar, CouponValid, ProductsKnown, Items
  <2>4. TruthSoFar(c)'
    BY <1>1, <1>2, <1>3 DEF Returned, TruthSoFar, Rows, Items
  <2> QED
    BY <2>1, <2>2, <2>3, <2>4 DEF HandlerInv
<1>6. ASSUME NEW d \in Clients, d # c PROVE HandlerInv(d)'
  BY <1>1, <1>3, <1>6, OthersKeep DEF Returned, OrdersInv
<1> QED
  BY <1>4, <1>5, <1>6 DEF OrdersInv

LEMMA RolledBackKeeps ==
    ASSUME OrdersInv, NEW c \in Clients, InFlight(c), Persist(c, RolledBack(c))
    PROVE  stored' = stored
<1>1. attempt[c] \in 1 .. MaxAttempts
  BY DEF OrdersInv, TypeOK, HandlerInv, StoredSoFar
<1>2. /\ stored' \in [Clients -> [1 .. MaxAttempts -> SUBSET Nat]]
      /\ \A d \in Clients : d # c => stored'[d] = stored[d]
      /\ \A n \in 1 .. MaxAttempts :
            stored'[c][n] = IF n = attempt[c] THEN stored[c][n] \cup {} ELSE stored[c][n]
  BY <1>1, PersistAdds DEF RolledBack, OrdersInv
<1>3. stored \in [Clients -> [1 .. MaxAttempts -> SUBSET Nat]]
  BY DEF OrdersInv, TypeOK
<1>4. \A n \in 1 .. MaxAttempts : stored'[c][n] = stored[c][n]
  BY <1>2
<1>5. stored'[c] = stored[c]
  <2>1. /\ stored[c] = [n \in 1 .. MaxAttempts |-> stored[c][n]]
        /\ stored'[c] = [n \in 1 .. MaxAttempts |-> stored'[c][n]]
    BY <1>2, <1>3
  <2>2. [n \in 1 .. MaxAttempts |-> stored[c][n]] = [n \in 1 .. MaxAttempts |-> stored'[c][n]]
    BY <1>4, Zenon
  <2> QED
    BY <2>1, <2>2, Zenon
<1>6. \A d \in Clients : stored'[d] = stored[d]
  BY <1>2, <1>5
<1>7. stored = [d \in Clients |-> stored[d]] /\ stored' = [d \in Clients |-> stored'[d]]
  BY <1>2, <1>3
<1>8. [d \in Clients |-> stored[d]] = [d \in Clients |-> stored'[d]]
  BY <1>6, Zenon
<1> QED
  BY <1>7, <1>8, Zenon

\* A call to the database fails or is cancelled, and the transaction is rolled
\* back, or committed without an answer.
LEMMA ErrorKeeps ==
    ASSUME OrdersInv, NEW c \in Clients, pc[c] \in {"lookup", "begin", "tx"},
           StoreError(c) \/ CommitError(c),
           UNCHANGED <<server, req, codes, since, visible>>, faults' \in 0 .. MaxFaults
    PROVE  OrdersInv'
<1>1. InFlight(c)
  BY DEF InFlight
<1>2. CASE StoreError(c)
  <2>1. stored' = stored /\ Answer(c, 500)
    BY <1>1, <1>2, RolledBackKeeps DEF StoreError, OnUnexpected
  <2> QED
    BY <1>1, <2>1, AnswerKeeps
<1>3. CASE CommitError(c)
  <2>1. tx[c] = Rows(c) /\ Persist(c, tx[c]) /\ Answer(c, 500)
    BY <1>3 DEF CommitError, OnUnexpected
  <2>2. pc[c] = "tx"
    BY <2>1, RowsThere DEF OrdersInv, TypeOK
  <2> QED
    BY <2>1, <2>2, PersistKeeps
<1> QED
  BY <1>2, <1>3

-----------------------------------------------------------------------------

LEMMA SendKeeps == ASSUME OrdersInv, NEW c \in Clients, Send(c) PROVE OrdersInv'
<1>1. /\ attempt[c] \in Nat /\ attempt[c] < MaxAttempts /\ ~InFlight(c)
      /\ UNCHANGED <<server, req, tx, stored, codes, visible, faults>>
      /\ attempt' = [attempt EXCEPT ![c] = @ + 1]
      /\ pc' = [pc EXCEPT ![c] = "arrived"]
      /\ answer' = [answer EXCEPT ![c] = None]
      /\ since' = [since EXCEPT ![c] = codes]
  BY DEF Send, OrdersInv, TypeOK
<1>2. /\ pc'[c] = "arrived" /\ answer'[c] = None /\ since'[c] = codes
      /\ attempt'[c] = attempt[c] + 1 /\ attempt'[c] \in 1 .. MaxAttempts
      /\ \A d \in Clients : d # c => /\ pc'[d] = pc[d] /\ answer'[d] = answer[d]
                                     /\ since'[d] = since[d] /\ attempt'[d] = attempt[d]
  BY <1>1, OrdersAssumption DEF OrdersInv, TypeOK
<1>3. TypeOK'
  <2>1. tx[c] = {}
    BY <1>1 DEF OrdersInv, TypeOK, InFlight
  <2>2. \A d \in Clients : tx'[d] \subseteq Rows(d)' /\ (tx'[d] # {} => pc'[d] = "tx")
    BY <1>1, <1>2, <2>1 DEF OrdersInv, TypeOK, Rows, Items
  <2> QED
    BY <1>1, <1>2, <2>2, OrdersAssumption DEF OrdersInv, TypeOK
<1>4. HandlerInv(c)'
  <2>1. \A n \in 1 .. MaxAttempts : n >= attempt'[c] => stored'[c][n] = {}
    BY <1>1, <1>2 DEF OrdersInv, HandlerInv, StoredSoFar
  <2>2. StoredSoFar(c)'
    BY <1>1, <1>2, <2>1 DEF OrdersInv, HandlerInv, StoredSoFar, InFlight, Rows, Items
  <2>3. PassedSoFar(c)' /\ TruthSoFar(c)'
    BY <1>1, <1>2 DEF PassedSoFar, TruthSoFar, InFlight
  <2>4. AcceptableSoFar(c)'
    BY <1>1, <1>2, <2>1 DEF OrdersInv, HandlerInv, AcceptableSoFar, ProductsKnown, Items
  <2> QED
    BY <2>2, <2>3, <2>4 DEF HandlerInv
<1>5. ASSUME NEW d \in Clients, d # c PROVE HandlerInv(d)'
  BY <1>1, <1>2, <1>5, OthersKeep DEF OrdersInv
<1> QED
  BY <1>3, <1>4, <1>5 DEF OrdersInv

\* The coupon was found valid, or there is none, and the items are checked.
LEMMA CheckItemsKeeps ==
    ASSUME OrdersInv, NEW c \in Clients, pc[c] = "arrived", Refusal(req[c]) = None,
           req[c].coupon \in codes \cup {NoCoupon}, CheckItems(c),
           UNCHANGED <<server, req, stored, codes, since, visible>>, faults' \in 0 .. MaxFaults
    PROVE  OrdersInv'
<1>1. InFlight(c) /\ CouponValid(c) /\ tx[c] = {}
  BY DEF OrdersInv, TypeOK, HandlerInv, PassedSoFar, InFlight, CouponValid
<1>2. CASE ItemsSound(req[c])
  <2>1. pc' = [pc EXCEPT ![c] = "lookup"] /\ UNCHANGED <<attempt, tx, answer>>
    BY <1>2 DEF CheckItems
  <2> QED
    BY <1>1, <1>2, <2>1, HandlerMoves
<1>3. CASE ~ItemsSound(req[c])
  BY <1>1, <1>3, AnswerKeeps DEF CheckItems
<1> QED
  BY <1>2, <1>3

LEMMA PureKeeps ==
    ASSUME OrdersInv, NEW c \in Clients, Pure(c) \/ ValidateFails(c) PROVE OrdersInv'
<1>0. faults \in 0 .. MaxFaults /\ MaxFaults \in Nat
  BY OrdersAssumption DEF OrdersInv, TypeOK
<1>1. pc[c] = "arrived" /\ InFlight(c)
  BY DEF Pure, Refuse, Validate, ValidateFails, InFlight
<1>2. UNCHANGED <<server, req, stored, codes, since, visible>> /\ faults' \in 0 .. MaxFaults
  BY <1>0 DEF Pure, Refuse, Validate, ValidateFails, world
<1>3. CASE Refuse(c)
  BY <1>1, <1>2, <1>3, RefusalIsStatus, AnswerKeeps DEF Refuse
<1>4. CASE Validate(c)
  <2>1. CASE req[c].coupon \in codes \cup {NoCoupon}
    BY <1>1, <1>2, <1>4, <2>1, CheckItemsKeeps DEF Validate
  <2>2. CASE req[c].coupon \notin codes \cup {NoCoupon}
    BY <1>1, <1>2, <1>4, <2>2, AnswerKeeps DEF Validate
  <2> QED
    BY <2>1, <2>2
<1>5. CASE ValidateFails(c)
  <2>1. Answer(c, 503)
    BY <1>5 DEF ValidateFails, OnValidatorError, None
  <2> QED
    BY <1>1, <1>2, <2>1, AnswerKeeps
<1> QED
  BY <1>3, <1>4, <1>5 DEF Pure

LEMMA DatabaseKeeps == ASSUME OrdersInv, NEW c \in Clients, Database(c) PROVE OrdersInv'
<1>0. faults \in 0 .. MaxFaults
  BY DEF OrdersInv, TypeOK
<1>1. CASE Lookup(c)
  <2>1. /\ pc[c] = "lookup" /\ InFlight(c) /\ tx[c] = {}
        /\ Refusal(req[c]) = None /\ ItemsSound(req[c]) /\ CouponValid(c)
        /\ UNCHANGED <<server, req, stored, codes, since, visible, faults>>
    BY <1>1 DEF Lookup, OrdersInv, TypeOK, HandlerInv, PassedSoFar, InFlight, world
  <2>2. CASE \A i \in 1 .. Len(Items(c)) : Items(c)[i].product \in visible
    <3>1. ProductsKnown(c)
      BY <2>2 DEF OrdersInv, TypeOK, ProductsKnown
    <3> QED
      BY <1>0, <1>1, <2>1, <2>2, <3>1, HandlerMoves DEF Lookup
  <2>3. CASE ~\A i \in 1 .. Len(Items(c)) : Items(c)[i].product \in visible
    <3>1. Answer(c, 422)
      BY <1>1, <2>3 DEF Lookup
    <3> QED
      BY <1>0, <2>1, <3>1, AnswerKeeps
  <2> QED
    BY <2>2, <2>3
<1>2. CASE Begin(c)
  <2>1. /\ pc[c] = "begin" /\ InFlight(c)
        /\ Refusal(req[c]) = None /\ ItemsSound(req[c]) /\ CouponValid(c) /\ ProductsKnown(c)
        /\ pc' = [pc EXCEPT ![c] = "tx"] /\ UNCHANGED <<attempt, tx, answer>>
        /\ UNCHANGED <<server, req, stored, codes, since, visible, faults>>
    BY <1>2 DEF Begin, OrdersInv, HandlerInv, PassedSoFar, InFlight, world
  <2> QED
    BY <1>0, <2>1, HandlerMoves
<1>3. ASSUME NEW i \in Rows(c), Insert(c, i) PROVE OrdersInv'
  <2>1. /\ pc[c] = "tx" /\ tx' = [tx EXCEPT ![c] = @ \cup {i}]
        /\ UNCHANGED <<server, req, attempt, pc, stored, answer, codes, since, visible, faults>>
    BY <1>3 DEF Insert, world
  <2>2. TypeOK'
    BY <2>1 DEF OrdersInv, TypeOK, Rows, Items
  <2>3. \A d \in Clients : HandlerInv(d)'
    BY <2>1, OthersKeep DEF OrdersInv
  <2> QED
    BY <2>2, <2>3 DEF OrdersInv
<1>4. CASE Commit(c)
  <2>1. UNCHANGED <<server, req, codes, since, visible, faults>>
    BY <1>4 DEF Commit, world
  <2> QED
    BY <1>0, <1>4, <2>1, PersistKeeps DEF Commit
<1> QED
  BY <1>1, <1>2, <1>3, <1>4 DEF Database

LEMMA StoreFailsKeeps ==
    ASSUME OrdersInv, NEW c \in Clients, StoreFails(c) \/ CancelRequest(c) PROVE OrdersInv'
<1>1. /\ pc[c] \in {"lookup", "begin", "tx"} /\ (StoreError(c) \/ CommitError(c))
      /\ UNCHANGED <<server, req, codes, since, visible>>
  BY DEF StoreFails, CancelRequest, Cancelled, world
<1>2. faults' \in 0 .. MaxFaults
  BY OrdersAssumption DEF StoreFails, CancelRequest, OrdersInv, TypeOK
<1> QED
  BY <1>1, <1>2, ErrorKeeps

LEMMA AnswerLostKeeps == ASSUME OrdersInv, NEW c \in Clients, AnswerLost(c) PROVE OrdersInv'
<1>1. /\ ~InFlight(c) /\ faults' \in 0 .. MaxFaults
      /\ answer' = [answer EXCEPT ![c] = Lost]
      /\ UNCHANGED <<server, req, attempt, pc, tx, stored, codes, since, visible>>
  BY OrdersAssumption DEF AnswerLost, OrdersInv, TypeOK, world
<1>2. /\ answer' \in [Clients -> Answers] /\ answer'[c] = Lost
      /\ \A d \in Clients : d # c => answer'[d] = answer[d]
  BY <1>1 DEF OrdersInv, TypeOK, Answers
<1>3. TypeOK'
  BY <1>1, <1>2 DEF OrdersInv, TypeOK, Answers, Rows, Items
<1>4. HandlerInv(c)'
  BY <1>1, <1>2 DEF OrdersInv, HandlerInv, StoredSoFar, PassedSoFar, AcceptableSoFar, TruthSoFar,
                    InFlight, CouponValid, ProductsKnown, Items, Rows, Lost
<1>5. ASSUME NEW d \in Clients, d # c PROVE HandlerInv(d)'
  BY <1>1, <1>2, <1>5, OthersKeep DEF OrdersInv
<1> QED
  BY <1>3, <1>4, <1>5 DEF OrdersInv

\* The index, the catalogue, and the phases of the server that end no handler.
LEMMA WorldKeeps ==
    ASSUME OrdersInv, Reload \/ Refresh \/ Signal \/ Drained \/ DrainTimeout \/ Restart
    PROVE  OrdersInv'
<1>1. /\ UNCHANGED <<req, attempt, pc, tx, stored, answer>> /\ faults' \in 0 .. MaxFaults
      /\ server' \in {"up", "draining", "closing", "down"}
      /\ codes' \subseteq Codes /\ visible' \subseteq Table
      /\ since' \in [Clients -> SUBSET Codes]
      /\ \A d \in Clients : since[d] \subseteq since'[d] /\ codes' \subseteq codes \cup since'[d]
  BY OrdersAssumption DEF Reload, Refresh, Signal, Drained, DrainTimeout, Restart, request, world,
     OrdersInv, TypeOK
<1>2. TypeOK'
  BY <1>1 DEF OrdersInv, TypeOK, Rows, Items
<1>3. \A d \in Clients : HandlerInv(d)'
  BY <1>1, OthersKeep DEF OrdersInv
<1> QED
  BY <1>2, <1>3 DEF OrdersInv

\* The process ends: what was not committed is gone.
LEMMA GoneKeeps == ASSUME OrdersInv, Exit \/ Crash PROVE OrdersInv'
<1>1. /\ Gone /\ faults' \in 0 .. MaxFaults
  BY OrdersAssumption DEF Exit, Crash, OrdersInv, TypeOK
<1>2. /\ server' = "down" /\ UNCHANGED <<req, attempt, stored, codes, since, visible>>
      /\ pc' = [c \in Clients |-> "idle"] /\ tx' = [c \in Clients |-> {}]
      /\ answer' = [c \in Clients |-> IF InFlight(c) THEN Lost ELSE answer[c]]
  BY <1>1 DEF Gone, world
<1>3. TypeOK'
  BY <1>1, <1>2 DEF OrdersInv, TypeOK
<1>4. ASSUME NEW c \in Clients PROVE HandlerInv(c)'
  <2>1. /\ pc'[c] = "idle" /\ answer'[c] = IF InFlight(c) THEN Lost ELSE answer[c]
    BY <1>2
  <2>2. StoredSoFar(c)' /\ PassedSoFar(c)'
    BY <1>2, <2>1 DEF OrdersInv, HandlerInv, StoredSoFar, PassedSoFar, InFlight, Rows, Items
  <2>3. AcceptableSoFar(c)'
    BY <1>2 DEF OrdersInv, HandlerInv, AcceptableSoFar, CouponValid, ProductsKnown, Items
  <2>4. TruthSoFar(c)'
    BY <1>2, <2>1 DEF OrdersInv, HandlerInv, TruthSoFar, InFlight, Rows, Items, Lost
  <2> QED
    BY <2>2, <2>3, <2>4 DEF HandlerInv
<1> QED
  BY <1>3, <1>4 DEF OrdersInv

LEMMA OrdersStep == OrdersInv /\ [Next]_vars => OrdersInv'
<1> SUFFICES ASSUME OrdersInv, [Next]_vars PROVE OrdersInv'
  OBVIOUS
<1>1. ASSUME NEW c \in Clients,
             \/ Send(c) \/ Pure(c) \/ Database(c) \/ CancelRequest(c)
             \/ ValidateFails(c) \/ StoreFails(c) \/ AnswerLost(c)
      PROVE  OrdersInv'
  BY <1>1, SendKeeps, PureKeeps, DatabaseKeeps, StoreFailsKeeps, AnswerLostKeeps
<1>2. CASE UNCHANGED vars
  <2>1. UNCHANGED <<server, req, attempt, pc, tx, stored, answer, codes, since, visible, faults>>
    BY <1>2 DEF vars, request, world
  <2>2. TypeOK'
    BY <2>1 DEF OrdersInv, TypeOK, Rows, Items
  <2>3. \A d \in Clients : HandlerInv(d)'
    BY <2>1, OthersKeep DEF OrdersInv
  <2> QED
    BY <2>2, <2>3 DEF OrdersInv
<1> QED
  BY <1>1, <1>2, WorldKeeps, GoneKeeps DEF Next

LEMMA OrdersInvariant == Spec => []OrdersInv
BY OrdersInit, OrdersStep, PTL DEF Spec

LEMMA AttemptsBounded ==
    ASSUME OrdersInv, NEW c \in Clients, NEW n \in Attempts(c) PROVE n \in 1 .. MaxAttempts
BY OrdersAssumption DEF Attempts, OrdersInv, TypeOK

\* The types of the state: a transaction has rows only while it is open.
THEOREM OrdersTypeCorrect == Spec => []TypeOK
<1>1. OrdersInv => TypeOK BY DEF OrdersInv
<1> QED BY OrdersInvariant, <1>1, PTL

\* Whatever fails, crashes or is cancelled, and whenever: an order is in the
\* tables with all of its items or not at all.
THEOREM OrdersStoredWhole == Spec => []StoredWhole
<1>1. OrdersInv => StoredWhole
  BY AttemptsBounded DEF OrdersInv, HandlerInv, StoredSoFar, StoredWhole
<1> QED BY OrdersInvariant, <1>1, PTL

\* Only acceptable orders are stored, although the index and the catalogue may
\* change between any two steps of a handler.
THEOREM OnlyAcceptableStored == Spec => []StoredWasAcceptable
<1>1. OrdersInv => StoredWasAcceptable
  <2> SUFFICES ASSUME OrdersInv, NEW c \in Clients, NEW n \in Attempts(c), stored[c][n] # {}
               PROVE  /\ Refusal(req[c]) = None
                      /\ \A i \in 1 .. Len(Items(c)) : /\ Items(c)[i].product \in Table
                                                       /\ Items(c)[i].quantity \in 1 .. MaxQuantity
                      /\ n = attempt[c] => req[c].coupon \in since[c] \cup {NoCoupon}
    BY DEF StoredWasAcceptable
  <2>1. /\ Refusal(req[c]) = None /\ ItemsSound(req[c]) /\ ProductsKnown(c)
        /\ n = attempt[c] => CouponValid(c)
    BY AttemptsBounded DEF OrdersInv, HandlerInv, AcceptableSoFar
  <2> QED
    BY <2>1 DEF ItemsSound, ProductsKnown, CouponValid, Items
<1> QED BY OrdersInvariant, <1>1, PTL

\* A client that is told 200 has its order, and one that is told of its own
\* mistake, or to retry, has not.
THEOREM AnswersTellTruth == Spec => []AnswerTellsTruth
<1>1. OrdersInv => AnswerTellsTruth
  BY DEF OrdersInv, HandlerInv, TruthSoFar, AnswerTellsTruth
<1> QED BY OrdersInvariant, <1>1, PTL
=============================================================================
