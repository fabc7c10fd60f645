---------------------------- MODULE Merchandise -----------------------------
(***************************************************************************)
(* Packing supplies: the stock of a facility, the orders tenants place and *)
(* pay for online, the packages that website bookings reserve, and the     *)
(* worker that releases the holds nobody paid for.                         *)
(*                                                                         *)
(* Every transaction on an order locks the order row first and reads it    *)
(* again, and takes stock with updates that are conditional on the product *)
(* row; so each is one step here.  A booking checks the stock of its       *)
(* package and reserves it in two steps.  The webhook and the worker are   *)
(* sequences of transactions, and can stop between any two.                *)
(***************************************************************************)
EXTENDS Integers, FiniteSets, Functions

CONSTANTS Product,
          MaxOrder,        \* orders ever placed; an order is its idempotency key
          Package,         \* the packages of website bookings
          Baskets,         \* what can be ordered: a quantity of each product
          PackageLines,    \* what a package takes, one of Baskets
          Delivery,        \* notifications of one payment handled at the same time
          Batch,           \* orders the worker lists at a time (100 in the code)
          PerTick,         \* batches of one tick (5 in the code)
          Ops,             \* the operations this instance exercises
          Damaged,         \* orders that may lose their lines to a hand
          InitialStock, MaxStock, MaxNow,   \* bounds: units on hand, the clock,
          MaxFaults                         \*   crashes and failed calls

Order == 1 .. MaxOrder
NoLines == [p \in Product |-> 0]
Instant == 0 .. MaxNow + 1

ASSUME BasketAssumption ==
    /\ Baskets \subseteq [Product -> Nat] \ {NoLines}
    /\ PackageLines \in Baskets
ASSUME PackageAssumption ==
    IsFiniteSet(Package)
ASSUME WorkerAssumption ==
    Batch \in Nat \ {0} /\ PerTick \in Nat \ {0}
ASSUME SizeAssumption ==
    /\ MaxOrder \in Nat /\ MaxNow \in Nat /\ MaxFaults \in Nat
    /\ InitialStock \in Nat /\ MaxStock \in Nat /\ InitialStock <= MaxStock
    /\ Damaged \subseteq Order

VARIABLES now,        \* the clock of the application
          onHand,     \* Product.quantityOnHand
          reserved,   \* Product.quantityReserved
          order,      \* MerchandiseOrder with its lines and the status of its Payment
          books,      \* what the order posted: ledger entries, and credit on the account
          provider,   \* what the payment provider knows: has the customer paid?
          inbox,      \* WebhookInbox, one row per provider transaction
          hook,       \* the deliveries of a notification being handled
          package,    \* ReservationPackage.status
          booking,    \* the booking that checked stock and holds the facility lock
          worker,     \* the expiry worker of the process
          faults

vars == <<now, onHand, reserved, order, books, provider, inbox, hook, package, booking,
          worker, faults>>
stock == <<onHand, reserved>>
payments == <<books, provider, inbox, hook>>
packages == <<package, booking>>

NoOrder == [status |-> "NONE", basket |-> NoLines, held |-> FALSE, test |-> FALSE,
            expires |-> 0, payment |-> "NONE"]
NoBooks == [payment |-> 0, charge |-> 0, credit |-> 0]
Quiet == [pc |-> "idle", accepted |-> FALSE, write |-> "PENDING"]
Start == <<0, 0>>
FreshWorker == [pc |-> "idle", cursor |-> Start, todo |-> {}, full |-> FALSE, round |-> 0,
                sweepFailures |-> FALSE, failed |-> FALSE, completed |-> FALSE]

(* The rows of an order, of what it posted, of a delivery being handled,   *)
(* and of the worker.                                                      *)
OrderRow ==
    [status : {"NONE", "AWAITING_PAYMENT", "PAID", "PAYMENT_REVIEW", "FULFILLED",
               "CANCELLED", "EXPIRED"},
     basket : Baskets \cup {NoLines}, held : BOOLEAN, test : BOOLEAN, expires : Instant,
     payment : {"NONE", "PENDING", "SUCCEEDED", "TEST_PENDING", "TEST_SUCCEEDED"}]
Postings == [payment : 0 .. 1, charge : 0 .. 1, credit : 0 .. 1]
Handling ==
    [pc : {"idle", "verify", "settle", "ack"}, accepted : BOOLEAN,
     write : {"PENDING", "FAILED", "SUCCEEDED"}]

WorkerRow ==
    [pc : {"idle", "list", "batch"}, cursor : Instant \X (Order \cup {0}),
     todo : SUBSET Order, full : BOOLEAN, round : 0 .. PerTick, sweepFailures : BOOLEAN,
     failed : BOOLEAN, completed : BOOLEAN]

(* The type of the state; stock counts never leave their range. *)
TypeOK ==
    /\ now \in 0 .. MaxNow
    /\ onHand \in [Product -> 0 .. MaxStock]
    /\ reserved \in [Product -> Nat]
    /\ order \in [Order -> OrderRow]
    /\ books \in [Order -> Postings]
    /\ provider \in [Order -> {"none", "open", "accepted"}]
    /\ inbox \in [Order -> {"NONE", "PENDING", "FAILED", "SUCCEEDED"}]
    /\ hook \in [Order \X Delivery -> Handling]
    /\ package \in [Package -> {"NONE", "RESERVED", "RELEASED"}]
    /\ booking \subseteq Package
    /\ worker \in WorkerRow
    /\ faults \in 0 .. MaxFaults

Init ==
    /\ now = 0
    /\ onHand = [p \in Product |-> InitialStock]
    /\ reserved = [p \in Product |-> 0]
    /\ order = [o \in Order |-> NoOrder]
    /\ books = [o \in Order |-> NoBooks]
    /\ provider = [o \in Order |-> "none"]
    /\ inbox = [o \in Order |-> "NONE"]
    /\ hook = [h \in Order \X Delivery |-> Quiet]
    /\ package = [k \in Package |-> "NONE"]
    /\ booking = {}
    /\ worker = FreshWorker
    /\ faults = 0

-----------------------------------------------------------------------------
(* Stock is taken for lines b when every product still has as much free,   *)
(* and given back when as much is reserved.                                *)
Available(b) == \A p \in Product : b[p] > 0 => onHand[p] - reserved[p] >= b[p]
Plus(b) == [p \in Product |-> reserved[p] + b[p]]
Minus(b) == [p \in Product |-> reserved[p] - b[p]]
Releasable(b) == \A p \in Product : reserved[p] >= b[p]

Fault == faults < MaxFaults /\ faults' = faults + 1

(* Orders as the worker lists them: by deadline, then by their identifier. *)
Before(a, b) == a[1] < b[1] \/ (a[1] = b[1] /\ a[2] < b[2])
Key(o) == <<order[o].expires, o>>
IsFirst(o, orders) == o \in orders /\ \A i \in orders \ {o} : Before(Key(o), Key(i))
IsLast(o, orders) == o \in orders /\ \A i \in orders \ {o} : Before(Key(i), Key(o))

(***************************************************************************)
(* Operations as a slip in the code would have them.  Each stands in for   *)
(* the operation it is named after when a property is tested for its       *)
(* teeth, and takes no part in the specification.                          *)
(***************************************************************************)

(* A cancellation that does not look at the status under its lock. *)
CancelAnyStatus(o) ==
    /\ order[o].status # "NONE" /\ Releasable(order[o].basket)
    /\ reserved' = Minus(order[o].basket)
    /\ order' = [order EXCEPT ![o].status = "CANCELLED", ![o].held = FALSE]
    /\ UNCHANGED <<now, onHand, payments, packages, worker, faults>>

(* A late payment that pays for the order all the same ... *)
PostLatePaid(o) ==
    /\ order' = [order EXCEPT ![o].payment = "SUCCEEDED", ![o].status = "PAID"]
    /\ books' = [books EXCEPT ![o].payment = @ + 1, ![o].charge = @ + 1]

(* ... and one that leaves the money out of the account balance. *)
PostUncredited(o) ==
    LET paid == order[o].status = "AWAITING_PAYMENT" /\ order[o].held
    IN  /\ order' = [order EXCEPT ![o].payment = "SUCCEEDED",
                                  ![o].status = IF paid THEN "PAID" ELSE "PAYMENT_REVIEW"]
        /\ books' = [books EXCEPT ![o].payment = @ + 1,
                                  ![o].charge = IF paid THEN @ + 1 ELSE @]

(* Every accepted notification posts. *)
SettleAgain(o, d) ==
    /\ hook[<<o, d>>].pc = "settle" /\ hook[<<o, d>>].accepted /\ ~ order[o].test
    /\ order' = [order EXCEPT ![o].payment = "SUCCEEDED"]
    /\ books' = [books EXCEPT ![o].payment = @ + 1]
    /\ hook' = [hook EXCEPT ![<<o, d>>].pc = "ack", ![<<o, d>>].write = "SUCCEEDED"]
    /\ UNCHANGED <<now, stock, provider, inbox, packages, worker, faults>>

(* A write-off that may take what is held. *)
MoveStockAnyHeld(p, delta) ==
    /\ "move" \in Ops
    /\ onHand[p] + delta \in 0 .. MaxStock
    /\ onHand' = [onHand EXCEPT ![p] = @ + delta]
    /\ UNCHANGED <<now, reserved, order, payments, packages, worker, faults>>

(* A delivery that closes its inbox row whatever the provider said, and    *)
(* one that takes a row still pending for a duplicate.                     *)
CheckStatusClosing(o, d) ==
    /\ hook[<<o, d>>].pc = "verify"
    /\ hook' = [hook EXCEPT ![<<o, d>>] = [pc |-> "settle", accepted |-> provider[o] = "accepted",
                                       write |-> "SUCCEEDED"]]
    /\ UNCHANGED <<now, stock, order, books, provider, inbox, packages, worker, faults>>

NotifyOnce(o, d) ==
    /\ order[o].payment # "NONE" /\ hook[<<o, d>>] = Quiet
    /\ inbox[o] \in {"NONE", "FAILED"}
    /\ inbox' = [inbox EXCEPT ![o] = IF @ = "NONE" THEN "PENDING" ELSE @]
    /\ hook' = [hook EXCEPT ![<<o, d>>].pc = "verify"]
    /\ UNCHANGED <<now, stock, order, books, provider, packages, worker, faults>>

(* A worker that starts every tick from the oldest order, and one whose    *)
(* health is that of its latest batch.                                     *)
BatchDoneFromStart ==
    LET tickOver == ~ worker.full \/ worker.round = PerTick
    IN  /\ worker.pc = "batch" /\ worker.todo = {}
        /\ worker' = [worker EXCEPT !.cursor = IF tickOver THEN Start ELSE @,
                                    !.pc = IF tickOver THEN "idle" ELSE "list",
                                    !.completed = @ \/ tickOver]
        /\ UNCHANGED <<now, stock, order, payments, packages, faults>>

BatchDoneLatest ==
    LET tickOver == ~ worker.full \/ worker.round = PerTick
    IN  /\ worker.pc = "batch" /\ worker.todo = {}
        /\ worker' = [worker EXCEPT !.cursor = IF worker.full THEN @ ELSE Start,
                                    !.pc = IF tickOver THEN "idle" ELSE "list",
                                    !.failed = worker.sweepFailures, !.sweepFailures = FALSE,
                                    !.completed = @ \/ tickOver]
        /\ UNCHANGED <<now, stock, order, payments, packages, faults>>

-----------------------------------------------------------------------------
(* A tenant holds stock for a basket.  A repeated request finds its order, *)
(* under the lock of the account, and changes nothing.                     *)
HoldOrder(o, b, test) ==
    /\ test => "test" \in Ops
    /\ order[o].status = "NONE"
    /\ Available(b)
    /\ reserved' = Plus(b)
    /\ order' = [order EXCEPT ![o] =
         [status |-> "AWAITING_PAYMENT", basket |-> b, held |-> TRUE, test |-> test,
          expires |-> now + 1, payment |-> "NONE"]]
    /\ UNCHANGED <<now, onHand, payments, packages, worker, faults>>

CancelOrder(o) ==
    /\ "cancel" \in Ops
    /\ order[o].status = "AWAITING_PAYMENT"
    /\ order[o].held => Releasable(order[o].basket)
    /\ reserved' = IF order[o].held THEN Minus(order[o].basket) ELSE reserved
    /\ order' = [order EXCEPT ![o].status = "CANCELLED", ![o].held = FALSE]
    /\ UNCHANGED <<now, onHand, payments, packages, worker, faults>>

(* One payment form per order, while its hold runs. *)
StartCheckout(o) ==
    /\ "checkout" \in Ops
    /\ order[o].status = "AWAITING_PAYMENT" /\ order[o].held /\ order[o].expires > now
    /\ order[o].payment = "NONE"
    /\ order' = [order EXCEPT ![o].payment = IF order[o].test THEN "TEST_PENDING" ELSE "PENDING"]
    /\ provider' = [provider EXCEPT ![o] = "open"]
    /\ UNCHANGED <<now, stock, books, inbox, hook, packages, worker, faults>>

(* The customer pays on the page of the provider, at any time. *)
CustomerPays(o) ==
    /\ provider[o] = "open"
    /\ provider' = [provider EXCEPT ![o] = "accepted"]
    /\ UNCHANGED <<now, stock, order, books, inbox, hook, packages, worker, faults>>

(* Paid goods are handed over, and leave the stock. *)
FulfilOrder(o) ==
    LET b == order[o].basket
    IN  /\ "fulfil" \in Ops /\ ~ order[o].test
        /\ order[o].status = "PAID" /\ order[o].held /\ order[o].payment = "SUCCEEDED"
        /\ Releasable(b) /\ \A p \in Product : onHand[p] >= b[p]
        /\ reserved' = Minus(b)
        /\ onHand' = [p \in Product |-> onHand[p] - b[p]]
        /\ order' = [order EXCEPT ![o].status = "FULFILLED", ![o].held = FALSE]
        /\ UNCHANGED <<now, payments, packages, worker, faults>>

(* Staff record one item received or written off; a write-off may not take *)
(* what is held, and is refused when the held quantity changed meanwhile.  *)
MoveStock(p, delta) ==
    /\ "move" \in Ops
    /\ onHand[p] + delta \in 0 .. MaxStock
    /\ delta < 0 => onHand[p] + delta >= reserved[p]
    /\ onHand' = [onHand EXCEPT ![p] = @ + delta]
    /\ UNCHANGED <<now, reserved, order, payments, packages, worker, faults>>

-----------------------------------------------------------------------------
(* The provider notifies, and notifies again until the inbox row is closed.*)
Notify(o, d) ==
    /\ order[o].payment # "NONE" /\ hook[<<o, d>>] = Quiet
    /\ inbox[o] # "SUCCEEDED"
    /\ inbox' = [inbox EXCEPT ![o] = IF @ = "NONE" THEN "PENDING" ELSE @]
    /\ hook' = [hook EXCEPT ![<<o, d>>].pc = "verify"]
    /\ UNCHANGED <<now, stock, order, books, provider, packages, worker, faults>>

(* Only what the provider says when asked counts. *)
CheckStatus(o, d) ==
    /\ hook[<<o, d>>].pc = "verify"
    /\ hook' = [hook EXCEPT ![<<o, d>>] =
         [pc |-> "settle", accepted |-> provider[o] = "accepted",
          write |-> IF provider[o] = "accepted" THEN "SUCCEEDED" ELSE "PENDING"]]
    /\ UNCHANGED <<now, stock, order, books, provider, inbox, packages, worker, faults>>

(* A verified payment posts a ledger credit, and a charge against it when  *)
(* the goods are still held, or else a credit on the account for staff to  *)
(* review.                                                                 *)
PostPayment(o) ==
    LET paid == order[o].status = "AWAITING_PAYMENT" /\ order[o].held
    IN  /\ order' = [order EXCEPT ![o].payment = "SUCCEEDED",
                                  ![o].status = IF paid THEN "PAID" ELSE "PAYMENT_REVIEW"]
        /\ books' = [books EXCEPT ![o].payment = @ + 1,
                                  ![o].charge = IF paid THEN @ + 1 ELSE @,
                                  ![o].credit = IF paid THEN @ ELSE @ + 1]

(* A verified test payment posts nothing and lets the goods go.            *)
VerifyTest(o) ==
    /\ reserved' = IF order[o].held THEN Minus(order[o].basket) ELSE reserved
    /\ order' = [order EXCEPT ![o].payment = "TEST_SUCCEEDED", ![o].status = "CANCELLED",
                              ![o].held = FALSE]

Posted(o) == order[o].payment \in {"SUCCEEDED", "TEST_SUCCEEDED"}

Settle(o, d) ==
    LET h == hook[<<o, d>>]
        settled == order[o].status \in {"PAID", "PAYMENT_REVIEW", "FULFILLED"} \/ Posted(o)
    IN  /\ h.pc = "settle"
        /\ IF ~ h.accepted \/ settled
           THEN UNCHANGED <<order, books, reserved>>
           ELSE IF order[o].test
           THEN (order[o].held => Releasable(order[o].basket)) /\ VerifyTest(o) /\ UNCHANGED books
           ELSE PostPayment(o) /\ UNCHANGED reserved
        /\ hook' = [hook EXCEPT ![<<o, d>>].pc = "ack"]
        /\ UNCHANGED <<now, onHand, provider, inbox, packages, worker, faults>>

(* The provider does not answer, or the settlement throws. *)
HookFails(o, d) ==
    /\ hook[<<o, d>>].pc \in {"verify", "settle"}
    /\ Fault
    /\ hook' = [hook EXCEPT ![<<o, d>>].pc = "ack", ![<<o, d>>].write = "FAILED"]
    /\ UNCHANGED <<now, stock, order, books, provider, inbox, packages, worker>>

(* The outcome is written to the inbox row, over whatever it says by then. *)
Acknowledge(o, d) ==
    /\ hook[<<o, d>>].pc = "ack"
    /\ inbox' = [inbox EXCEPT ![o] = hook[<<o, d>>].write]
    /\ hook' = [hook EXCEPT ![<<o, d>>] = Quiet]
    /\ UNCHANGED <<now, stock, order, books, provider, packages, worker, faults>>

HookLost(o, d) ==
    /\ hook[<<o, d>>] # Quiet
    /\ Fault
    /\ hook' = [hook EXCEPT ![<<o, d>>] = Quiet]
    /\ UNCHANGED <<now, stock, order, books, provider, inbox, packages, worker>>

-----------------------------------------------------------------------------
(* A booking with a package, under the facility lock: it looks at the      *)
(* stock, which no lock keeps, and reserves it whatever it is by then.     *)
PackageCheck(k) ==
    /\ package[k] = "NONE" /\ booking = {}
    /\ Available(PackageLines)
    /\ booking' = {k}
    /\ UNCHANGED <<now, stock, order, payments, package, worker, faults>>

PackageReserve(k) ==
    /\ k \in booking
    /\ reserved' = Plus(PackageLines)
    /\ package' = [package EXCEPT ![k] = "RESERVED"]
    /\ booking' = {}
    /\ UNCHANGED <<now, onHand, order, payments, worker, faults>>

PackageAbandon ==
    /\ booking # {}
    /\ booking' = {}
    /\ UNCHANGED <<now, stock, order, payments, package, worker, faults>>

(* The booking lapses or its code is not delivered: under the reservation  *)
(* row its package is released, once.                                      *)
PackageRelease(k) ==
    /\ package[k] = "RESERVED"
    /\ reserved' = Minus(PackageLines)
    /\ package' = [package EXCEPT ![k] = "RELEASED"]
    /\ UNCHANGED <<now, onHand, order, payments, booking, worker, faults>>

(* A renewed booking takes its package again if there is stock.            *)
PackageRenew(k) ==
    /\ package[k] = "RELEASED" /\ booking = {}
    /\ Available(PackageLines)
    /\ reserved' = Plus(PackageLines)
    /\ package' = [package EXCEPT ![k] = "RESERVED"]
    /\ UNCHANGED <<now, onHand, order, payments, booking, worker, faults>>

-----------------------------------------------------------------------------
Overdue(o) == order[o].status = "AWAITING_PAYMENT" /\ order[o].expires <= now

(* An overdue order whose hold cannot be released without a review.        *)
Inconsistent(o) ==
    \/ Posted(o)
    \/ order[o].held /\ (order[o].basket = NoLines \/ ~ Releasable(order[o].basket))

Expire(o) ==
    /\ reserved' = IF order[o].held THEN Minus(order[o].basket) ELSE reserved
    /\ order' = [order EXCEPT ![o].status = "EXPIRED", ![o].held = FALSE]

(* The lines of an order are lost to a hand on the database. *)
LoseLines(o) ==
    /\ o \in Damaged /\ order[o].status = "AWAITING_PAYMENT" /\ order[o].basket # NoLines
    /\ order' = [order EXCEPT ![o].basket = NoLines]
    /\ UNCHANGED <<now, stock, payments, packages, worker, faults>>

(* Another instance of the application, or the authenticated endpoint,     *)
(* releases an overdue hold.                                               *)
ExpireElsewhere(o) ==
    /\ "expire" \in Ops
    /\ Overdue(o) /\ ~ Inconsistent(o)
    /\ Expire(o)
    /\ UNCHANGED <<now, onHand, payments, packages, worker, faults>>

(* The first orders after the worker's cursor, as many as a batch takes.   *)
Listed ==
    LET due == {o \in Order : Overdue(o) /\ Before(worker.cursor, Key(o))}
    IN  {o \in due : Cardinality({i \in due : Before(Key(i), Key(o))}) < Batch}

WorkerTick ==
    /\ "worker" \in Ops /\ worker.pc = "idle"
    /\ worker' = [worker EXCEPT !.pc = "list", !.round = 0]
    /\ UNCHANGED <<now, stock, order, payments, packages, faults>>

WorkerList ==
    /\ worker.pc = "list"
    /\ \E to \in Instant \X (Order \cup {0}) :
          /\ IF Listed = {} THEN to = worker.cursor
             ELSE \E last \in Order : IsLast(last, Listed) /\ to = Key(last)
          /\ worker' = [worker EXCEPT !.pc = "batch", !.todo = Listed,
                                      !.full = Cardinality(Listed) = Batch,
                                      !.cursor = to, !.round = @ + 1]
    /\ UNCHANGED <<now, stock, order, payments, packages, faults>>

(* The next order of the batch, looked at again under its lock: it is      *)
(* still overdue if it still awaits payment.  A failure is noted for the   *)
(* health report and the worker goes on.                                   *)
WorkerExpire ==
    \E o \in Order :
       LET stuck == Overdue(o) /\ Inconsistent(o)
       IN  /\ worker.pc = "batch" /\ IsFirst(o, worker.todo)
           /\ IF Overdue(o) /\ ~ stuck THEN Expire(o) ELSE UNCHANGED <<order, reserved>>
           /\ worker' = [worker EXCEPT !.todo = @ \ {o}, !.failed = @ \/ stuck,
                                       !.sweepFailures = @ \/ stuck]
           /\ UNCHANGED <<now, onHand, payments, packages, faults>>

(* After a full batch the next one follows, in this tick or, once the tick *)
(* has had its share, in the next; a short one ends the sweep, and the     *)
(* sweep decides what the worker reports.                                  *)
WorkerBatchDone ==
    LET tickOver == ~ worker.full \/ worker.round = PerTick
    IN  /\ worker.pc = "batch" /\ worker.todo = {}
        /\ worker' = [worker EXCEPT !.cursor = IF worker.full THEN @ ELSE Start,
                                    !.pc = IF tickOver THEN "idle" ELSE "list",
                                    !.failed = IF worker.full THEN @ ELSE worker.sweepFailures,
                                    !.sweepFailures = @ /\ worker.full,
                                    !.completed = @ \/ tickOver]
        /\ UNCHANGED <<now, stock, order, payments, packages, faults>>

(* One transaction fails, the listing fails, or the process restarts. *)
WorkerSkips ==
    \E o \in Order :
       /\ worker.pc = "batch" /\ IsFirst(o, worker.todo)
       /\ Fault
       /\ worker' = [worker EXCEPT !.todo = @ \ {o}, !.failed = TRUE, !.sweepFailures = TRUE]
       /\ UNCHANGED <<now, stock, order, payments, packages>>

WorkerTickFails ==
    /\ worker.pc = "list"
    /\ Fault
    /\ worker' = [worker EXCEPT !.pc = "idle", !.failed = TRUE]
    /\ UNCHANGED <<now, stock, order, payments, packages>>

WorkerRestarts ==
    /\ worker # FreshWorker
    /\ Fault
    /\ worker' = FreshWorker
    /\ UNCHANGED <<now, stock, order, payments, packages>>

Tick ==
    /\ now < MaxNow
    /\ now' = now + 1
    /\ UNCHANGED <<stock, order, payments, packages, worker, faults>>

-----------------------------------------------------------------------------
Orders ==
    \/ \E o \in Order, b \in Baskets, test \in BOOLEAN : HoldOrder(o, b, test)
    \/ \E o \in Order : CancelOrder(o) \/ StartCheckout(o) \/ CustomerPays(o) \/ FulfilOrder(o)
    \/ \E o \in Order : ExpireElsewhere(o) \/ LoseLines(o)
    \/ \E p \in Product, delta \in {-1, 1} : MoveStock(p, delta)

Hooks ==
    \E o \in Order, d \in Delivery :
       \/ Notify(o, d) \/ CheckStatus(o, d) \/ Settle(o, d) \/ Acknowledge(o, d)
       \/ HookFails(o, d) \/ HookLost(o, d)

Packages ==
    \/ \E k \in Package : PackageCheck(k) \/ PackageReserve(k) \/ PackageRelease(k)
    \/ \E k \in Package : PackageRenew(k)
    \/ PackageAbandon

WorkerSteps == WorkerTick \/ WorkerList \/ WorkerExpire \/ WorkerBatchDone
WorkerFaults == WorkerSkips \/ WorkerTickFails \/ WorkerRestarts

Next == Orders \/ Hooks \/ Packages \/ WorkerSteps \/ WorkerFaults \/ Tick

(* The worker is a timer of the running process, and its loop goes on      *)
(* until the tick ends.  The provider repeats a notification that was not  *)
(* answered with success, and a delivery that is not lost runs to its end. *)
Fairness ==
    /\ WF_vars(WorkerSteps)
    /\ \A o \in Order :
          /\ WF_vars(\E d \in Delivery : Notify(o, d))
          /\ \A d \in Delivery : WF_vars(CheckStatus(o, d) \/ Settle(o, d) \/ Acknowledge(o, d))

Spec == Init /\ [][Next]_vars
FairSpec == Spec /\ Fairness

-----------------------------------------------------------------------------
Holders == {o \in Order : order[o].held}
HeldFor(p) == SumFunction([o \in Holders |-> order[o].basket[p]])
Packed(p) == PackageLines[p] * Cardinality({k \in Package : package[k] = "RESERVED"})

(* The reserved quantity of a product is what its open orders and packages *)
(* hold, to the item: cancellation, expiry, settlement, fulfilment and the *)
(* sweep of bookings never release a hold twice or leave one behind.       *)
StockAccounted == \A p \in Product : reserved[p] = HeldFor(p) + Packed(p)

(* What tenants have on hold, and may have paid for, is in stock: paid     *)
(* goods can be handed over, even when a booking has reserved more than    *)
(* there was.                                                              *)
HeldInStock == \A p \in Product : HeldFor(p) <= onHand[p]

(* The books follow the orders.  A payment is posted once, and only after  *)
(* the provider has the money; it meets a charge for goods that are or     *)
(* were held for it, or becomes a credit for staff to review.  A test      *)
(* order never posts.                                                      *)
MoneyAccounted ==
    \A o \in Order :
       LET paid == order[o].status \in {"PAID", "FULFILLED"}
           late == order[o].status = "PAYMENT_REVIEW"
       IN  /\ books[o] = [payment |-> IF paid \/ late THEN 1 ELSE 0,
                          charge |-> IF paid THEN 1 ELSE 0, credit |-> IF late THEN 1 ELSE 0]
           /\ paid \/ late <=> order[o].payment = "SUCCEEDED"
           /\ Posted(o) => provider[o] = "accepted"

(* "A late payment cannot resurrect released stock": an order whose goods  *)
(* have been let go is never held for, paid or fulfilled again, and an     *)
(* order waits for review only with its payment posted.                    *)
NoResurrection ==
    [][\A o \in Order :
          /\ order[o].status \in {"CANCELLED", "EXPIRED", "PAYMENT_REVIEW", "FULFILLED"} =>
                ~ order'[o].held /\ order'[o].status # "PAID"
          /\ order[o].status \notin {"PAID", "FULFILLED"} => order'[o].status # "FULFILLED"]_vars

(* An inbox row is closed, and later deliveries are taken for duplicates,  *)
(* only when the payment it tells of has been posted.                      *)
InboxHonest == \A o \in Order : inbox[o] = "SUCCEEDED" => Posted(o)

(* "Inconsistent old rows do not starve later holds": every overdue hold   *)
(* that can be released is released, whatever restarts and failures.       *)
ReleasedEventually ==
    \A o \in Order : (Overdue(o) /\ order[o].basket # NoLines)
                        ~> (order[o].status # "AWAITING_PAYMENT" \/ order[o].basket = NoLines)

(* A payment the provider accepted is posted in the end, however often its *)
(* notification was lost, came too early or could not be verified.         *)
PostedEventually == \A o \in Order : (provider[o] = "accepted") ~> Posted(o)

(* An overdue order that nobody repairs makes the health endpoint report   *)
(* a degraded worker for good, whatever the other batches of a sweep found.*)
Degraded == worker.failed \/ ~ worker.completed

BrokenIsReported == \A o \in Order : <>[](Overdue(o) /\ Inconsistent(o)) => <>[]Degraded
=============================================================================
