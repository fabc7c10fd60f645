--------------------------- MODULE SettlementProofs ---------------------------
(***************************************************************************)
(* The money of the supplies shop, for any number of orders, products and  *)
(* deliveries of a notification: payments are posted once, when the        *)
(* provider has them, an inbox row is closed only then, and goods that     *)
(* were let go stay let go.                                                *)
(*                                                                         *)
(* What a delivery knows is still true when it uses it: the provider does  *)
(* not take an acceptance back, and a posted payment stays posted.         *)
(***************************************************************************)
EXTENDS Merchandise, SumProofs

(* The rows settlement reads and writes are well formed. *)
Rows ==
    /\ now \in 0 .. MaxNow
    /\ order \in [Order -> OrderRow]
    /\ books \in [Order -> Postings]
    /\ provider \in [Order -> {"none", "open", "accepted"}]
    /\ inbox \in [Order -> {"NONE", "PENDING", "FAILED", "SUCCEEDED"}]
    /\ hook \in [Order \X Delivery -> Handling]

(* An order the provider has never heard of has no payment; goods are held *)
(* for orders that wait for payment or are paid, and for no others.        *)
OrderSound(o) ==
    /\ order[o].payment = "NONE" => provider[o] = "none"
    /\ order[o].status = "NONE" => order[o].payment = "NONE"
    /\ order[o].held => order[o].status \in {"AWAITING_PAYMENT", "PAID"}

(* The books of one order: MoneyAccounted, an order at a time.             *)
Balanced(o) ==
    LET paid == order[o].status \in {"PAID", "FULFILLED"}
        late == order[o].status = "PAYMENT_REVIEW"
    IN  /\ books[o] = [payment |-> IF paid \/ late THEN 1 ELSE 0,
                       charge |-> IF paid THEN 1 ELSE 0, credit |-> IF late THEN 1 ELSE 0]
        /\ paid \/ late <=> order[o].payment = "SUCCEEDED"
        /\ Posted(o) => provider[o] = "accepted"

(* A delivery that was told of an acceptance was told the truth, and one   *)
(* that is about to close its inbox row has seen the payment posted.       *)
DeliverySound(o, d) ==
    /\ hook[<<o, d>>].pc = "settle" =>
          /\ hook[<<o, d>>].accepted => provider[o] = "accepted"
          /\ hook[<<o, d>>].write = "SUCCEEDED" => hook[<<o, d>>].accepted
    /\ hook[<<o, d>>].pc = "ack" /\ hook[<<o, d>>].write = "SUCCEEDED" => Posted(o)

SettlementInv ==
    /\ Rows
    /\ \A o \in Order : OrderSound(o) /\ Balanced(o) /\ (inbox[o] = "SUCCEEDED" => Posted(o))
    /\ \A o \in Order, d \in Delivery : DeliverySound(o, d)

(* What no step of the shop does to an order. *)
StaysLetGo(o) ==
    /\ order[o].status \in {"CANCELLED", "EXPIRED", "PAYMENT_REVIEW", "FULFILLED"} =>
          ~ order'[o].held /\ order'[o].status # "PAID"
    /\ order[o].status \notin {"PAID", "FULFILLED"} => order'[o].status # "FULFILLED"

StepGoal == SettlementInv' /\ \A o \in Order : StaysLetGo(o)

-----------------------------------------------------------------------------
(* Setting one column of a well-formed row leaves it well formed: the row  *)
(* of an order ...                                                         *)
LEMMA OrderFields ==
  ASSUME NEW q \in OrderRow
  PROVE  /\ \A x \in {"NONE", "AWAITING_PAYMENT", "PAID", "PAYMENT_REVIEW", "FULFILLED",
                      "CANCELLED", "EXPIRED"} : [q EXCEPT !.status = x] \in OrderRow
         /\ \A x \in {"NONE", "PENDING", "SUCCEEDED", "TEST_PENDING", "TEST_SUCCEEDED"} :
               [q EXCEPT !.payment = x] \in OrderRow
         /\ \A x \in BOOLEAN : [q EXCEPT !.held = x] \in OrderRow
         /\ [q EXCEPT !.basket = NoLines] \in OrderRow
BY DEF OrderRow

(* ... and that of a delivery.                                             *)
LEMMA HandlingFields ==
  ASSUME NEW h \in Handling
  PROVE  /\ \A x \in {"idle", "verify", "settle", "ack"} : [h EXCEPT !.pc = x] \in Handling
         /\ \A x \in {"PENDING", "FAILED", "SUCCEEDED"} : [h EXCEPT !.write = x] \in Handling
BY DEF Handling

-----------------------------------------------------------------------------
(* What holding, releasing and handing over goods may do to an order: the  *)
(* payment stays, and the goods of an order that had let go stay let go.   *)
Harmless(o) ==
    /\ order'[o].payment = order[o].payment
    /\ order'[o].held =>
          /\ order[o].held \/ order[o].status = "NONE"
          /\ order'[o].status \in {"AWAITING_PAYMENT", "PAID"}
    /\ \/ order'[o].status = order[o].status
       \/ /\ order[o].status \in {"NONE", "AWAITING_PAYMENT"}
          /\ order'[o].status \in {"AWAITING_PAYMENT", "CANCELLED", "EXPIRED"}
       \/ order[o].status = "PAID" /\ order'[o].status = "FULFILLED"

(* A step that does harmless things to orders, and nothing to their money, *)
(* keeps everything.                                                       *)
LEMMA GoodsStep ==
  ASSUME SettlementInv, UNCHANGED payments, now' \in 0 .. MaxNow,
         order' \in [Order -> OrderRow], \A o \in Order : Harmless(o)
  PROVE  StepGoal
<1>1. Rows'
  BY DEF SettlementInv, Rows, payments
<1>2. ASSUME NEW o \in Order
      PROVE  /\ OrderSound(o)' /\ Balanced(o)' /\ (inbox[o] = "SUCCEEDED" => Posted(o))'
             /\ StaysLetGo(o)
  <2>1. /\ Harmless(o) /\ OrderSound(o) /\ Balanced(o) /\ (inbox[o] = "SUCCEEDED" => Posted(o))
        /\ provider' = provider /\ books' = books /\ inbox' = inbox
        /\ order[o] \in OrderRow /\ order'[o] \in OrderRow
    BY <1>2 DEF SettlementInv, Rows, payments
  <2>2. OrderSound(o)'
    BY <2>1 DEF OrderSound, Harmless
  <2>3. Balanced(o)'
    BY <2>1 DEF Balanced, Harmless, Posted
  <2>4. StaysLetGo(o)
    BY <2>1 DEF StaysLetGo, Harmless, OrderSound
  <2> QED BY <2>1, <2>2, <2>3, <2>4 DEF Posted, Harmless
<1>3. ASSUME NEW o \in Order, NEW d \in Delivery PROVE DeliverySound(o, d)'
  BY <1>3 DEF SettlementInv, DeliverySound, Posted, Harmless, payments
<1> QED BY <1>1, <1>2, <1>3 DEF StepGoal, SettlementInv

(* A step of one delivery that does nothing to orders and books keeps      *)
(* everything when what the delivery then knows, or closes, is so.         *)
LEMMA DeliveryStep ==
  ASSUME SettlementInv, UNCHANGED <<now, order, books, provider>>,
         inbox' \in [Order -> {"NONE", "PENDING", "FAILED", "SUCCEEDED"}],
         \A x \in Order : inbox'[x] = "SUCCEEDED" => Posted(x),
         NEW o \in Order, NEW d \in Delivery, NEW h \in Handling,
         hook' = [hook EXCEPT ![<<o, d>>] = h],
         h.pc = "settle" => (h.accepted => provider[o] = "accepted")
                               /\ (h.write = "SUCCEEDED" => h.accepted),
         h.pc = "ack" /\ h.write = "SUCCEEDED" => Posted(o)
  PROVE  StepGoal
<1>0. hook \in [Order \X Delivery -> Handling]
  BY DEF SettlementInv, Rows
<1>1. Rows'
  BY <1>0 DEF SettlementInv, Rows
<1>2. ASSUME NEW x \in Order
      PROVE  /\ OrderSound(x)' /\ Balanced(x)' /\ (inbox[x] = "SUCCEEDED" => Posted(x))'
             /\ StaysLetGo(x)
  <2>1. OrderSound(x) /\ Balanced(x)
    BY <1>2 DEF SettlementInv
  <2> QED BY <2>1 DEF OrderSound, Balanced, Posted, StaysLetGo
<1>3. ASSUME NEW x \in Order, NEW e \in Delivery PROVE DeliverySound(x, e)'
  <2>1. DeliverySound(x, e) /\ (Posted(x)' <=> Posted(x))
    BY <1>3 DEF SettlementInv, Posted
  <2>2. CASE x = o /\ e = d
    <3>1. hook'[<<x, e>>] = h
      BY <1>0, <2>2
    <3> QED BY <3>1, <2>1, <2>2 DEF DeliverySound
  <2>3. CASE ~ (x = o /\ e = d)
    <3>1. hook'[<<x, e>>] = hook[<<x, e>>]
      BY <1>0, <2>3
    <3> QED BY <3>1, <2>1 DEF DeliverySound
  <2> QED BY <2>2, <2>3
<1> QED BY <1>1, <1>2, <1>3 DEF StepGoal, SettlementInv

-----------------------------------------------------------------------------
(* Holding, cancelling, paying and handing over, and moving stock.         *)
LEMMA OrdersStep == SettlementInv /\ Orders => StepGoal
<1> SUFFICES ASSUME SettlementInv, Orders PROVE StepGoal
  OBVIOUS
<1> USE GoodsStep
<1> DEFINE Row(o) == order[o] \in OrderRow /\ OrderSound(o) /\ Balanced(o)
<1>r. /\ now \in 0 .. MaxNow /\ order \in [Order -> OrderRow]
      /\ \A o \in Order : Row(o)
  BY DEF SettlementInv, Rows
<1>1. ASSUME NEW o \in Order, NEW b \in Baskets, NEW test \in BOOLEAN, HoldOrder(o, b, test)
      PROVE  StepGoal
  <2> DEFINE q == [status |-> "AWAITING_PAYMENT", basket |-> b, held |-> TRUE,
                   test |-> test, expires |-> now + 1, payment |-> "NONE"]
  <2>0. now + 1 \in Instant
    BY <1>r, SizeAssumption DEF Instant
  <2>1. q \in OrderRow
    BY <2>0 DEF OrderRow
  <2>2. order' = [order EXCEPT ![o] = q]
    BY <1>1 DEF HoldOrder
  <2>3. \A x \in Order : Harmless(x)
    BY <1>1, <1>r, <2>1, <2>2 DEF HoldOrder, Harmless, OrderSound, OrderRow
  <2> QED BY <1>1, <1>r, <2>1, <2>2, <2>3 DEF HoldOrder
<1>2. ASSUME NEW o \in Order, CancelOrder(o) PROVE StepGoal
  <2>1. order' \in [Order -> OrderRow]
    BY <1>2, <1>r, OrderFields DEF CancelOrder
  <2>2. \A x \in Order : Harmless(x)
    BY <1>2, <1>r DEF CancelOrder, Harmless, OrderRow, OrderSound
  <2> QED BY <1>2, <1>r, <2>1, <2>2 DEF CancelOrder
<1>3. ASSUME NEW o \in Order, StartCheckout(o) PROVE StepGoal
  <2> DEFINE kind == IF order[o].test THEN "TEST_PENDING" ELSE "PENDING"
  <2>1. /\ order' = [order EXCEPT ![o].payment = kind]
        /\ provider' = [provider EXCEPT ![o] = "open"]
        /\ kind \in {"TEST_PENDING", "PENDING"} /\ order[o].payment = "NONE"
        /\ order[o].status = "AWAITING_PAYMENT"
        /\ now' = now /\ books' = books /\ inbox' = inbox /\ hook' = hook
    BY <1>3 DEF StartCheckout
  <2> HIDE DEF kind
  <2>2. order' \in [Order -> OrderRow]
    BY <2>1, <1>r, OrderFields
  <2>3. Rows'
    BY <2>1, <2>2 DEF SettlementInv, Rows
  <2>4. provider[o] = "none"
    BY <2>1, <1>r DEF OrderSound
  <2>5. \A x \in Order : /\ order'[x].status = order[x].status /\ order'[x].held = order[x].held
                         /\ x # o => order'[x] = order[x] /\ provider'[x] = provider[x]
                         /\ order'[x].payment = IF x = o THEN kind ELSE order[x].payment
    BY <2>1, <1>r DEF OrderRow, SettlementInv, Rows
  <2>6. \A x \in Order : Posted(x)' <=> Posted(x)
    BY <2>1, <2>5 DEF Posted
  <2>7. ASSUME NEW x \in Order
        PROVE  /\ OrderSound(x)' /\ Balanced(x)' /\ (inbox[x] = "SUCCEEDED" => Posted(x))'
               /\ StaysLetGo(x)
    <3>1. OrderSound(x) /\ Balanced(x) /\ (inbox[x] = "SUCCEEDED" => Posted(x))
      BY DEF SettlementInv
    <3>2. OrderSound(x)'
      BY <3>1, <2>1, <2>5 DEF OrderSound
    <3>3. Balanced(x)'
      BY <3>1, <2>1, <2>4, <2>5, <2>6 DEF Balanced
    <3> QED BY <3>1, <3>2, <3>3, <2>1, <2>5, <2>6 DEF StaysLetGo, OrderSound
  <2>8. ASSUME NEW x \in Order, NEW d \in Delivery PROVE DeliverySound(x, d)'
    <3>1. DeliverySound(x, d)
      BY DEF SettlementInv
    <3> QED BY <3>1, <2>1, <2>4, <2>5, <2>6 DEF DeliverySound
  <2> QED BY <2>3, <2>7, <2>8 DEF StepGoal, SettlementInv
<1>4. ASSUME NEW o \in Order, CustomerPays(o) PROVE StepGoal
  <2>1. /\ provider' = [provider EXCEPT ![o] = "accepted"] /\ provider[o] = "open"
        /\ now' = now /\ order' = order /\ books' = books /\ inbox' = inbox /\ hook' = hook
    BY <1>4 DEF CustomerPays, stock
  <2>2. Rows'
    BY <2>1 DEF SettlementInv, Rows
  <2>3. \A x \in Order : /\ provider[x] = "accepted" => provider'[x] = "accepted"
                         /\ provider[x] = "none" => provider'[x] = "none"
    BY <2>1 DEF SettlementInv, Rows
  <2>4. ASSUME NEW x \in Order
        PROVE  /\ OrderSound(x)' /\ Balanced(x)' /\ (inbox[x] = "SUCCEEDED" => Posted(x))'
               /\ StaysLetGo(x)
    <3>1. OrderSound(x) /\ Balanced(x) /\ (inbox[x] = "SUCCEEDED" => Posted(x))
      BY DEF SettlementInv
    <3> QED BY <3>1, <2>1, <2>3 DEF OrderSound, Balanced, Posted, StaysLetGo
  <2>5. ASSUME NEW x \in Order, NEW d \in Delivery PROVE DeliverySound(x, d)'
    <3>1. DeliverySound(x, d)
      BY DEF SettlementInv
    <3> QED BY <3>1, <2>1, <2>3 DEF DeliverySound, Posted
  <2> QED BY <2>2, <2>4, <2>5 DEF StepGoal, SettlementInv
<1>5. ASSUME NEW o \in Order, FulfilOrder(o) PROVE StepGoal
  <2>1. order' \in [Order -> OrderRow]
    BY <1>5, <1>r, OrderFields DEF FulfilOrder
  <2>2. \A x \in Order : Harmless(x)
    BY <1>5, <1>r DEF FulfilOrder, Harmless, OrderRow, OrderSound
  <2> QED BY <1>5, <1>r, <2>1, <2>2 DEF FulfilOrder
<1>6. ASSUME NEW o \in Order, ExpireElsewhere(o) PROVE StepGoal
  <2>1. order' \in [Order -> OrderRow]
    BY <1>6, <1>r, OrderFields DEF ExpireElsewhere, Expire
  <2>2. \A x \in Order : Harmless(x)
    BY <1>6, <1>r DEF ExpireElsewhere, Expire, Overdue, Harmless, OrderRow, OrderSound
  <2> QED BY <1>6, <1>r, <2>1, <2>2 DEF ExpireElsewhere
<1>7. ASSUME NEW o \in Order, LoseLines(o) PROVE StepGoal
  <2>1. order' \in [Order -> OrderRow]
    BY <1>7, <1>r, OrderFields DEF LoseLines
  <2>2. \A x \in Order : Harmless(x)
    BY <1>7, <1>r DEF LoseLines, Harmless, OrderRow, OrderSound
  <2> QED BY <1>7, <1>r, <2>1, <2>2 DEF LoseLines
<1>8. ASSUME NEW p \in Product, NEW delta \in {-1, 1}, MoveStock(p, delta) PROVE StepGoal
  <2>1. order' = order /\ now' = now /\ UNCHANGED payments
    BY <1>8 DEF MoveStock
  <2> QED BY <2>1, <1>r DEF Harmless, OrderSound
<1> QED BY <1>1, <1>2, <1>3, <1>4, <1>5, <1>6, <1>7, <1>8 DEF Orders

(* A notification: checking it with the provider, settling, acknowledging. *)
LEMMA HooksStep == SettlementInv /\ Hooks => StepGoal
<1> SUFFICES ASSUME SettlementInv,
                    NEW o \in Order, NEW d \in Delivery,
                    \/ Notify(o, d) \/ CheckStatus(o, d) \/ Settle(o, d) \/ Acknowledge(o, d)
                    \/ HookFails(o, d) \/ HookLost(o, d)
             PROVE  StepGoal
  BY DEF Hooks
<1> DEFINE h == hook[<<o, d>>]
<1>r. /\ order \in [Order -> OrderRow] /\ hook \in [Order \X Delivery -> Handling]
      /\ inbox \in [Order -> {"NONE", "PENDING", "FAILED", "SUCCEEDED"}]
      /\ \A x \in Order : /\ OrderSound(x) /\ Balanced(x)
                          /\ inbox[x] = "SUCCEEDED" => Posted(x)
      /\ \A x \in Order, e \in Delivery : DeliverySound(x, e)
      /\ h \in Handling
  BY DEF SettlementInv, Rows
<1>i. /\ inbox \in [Order -> {"NONE", "PENDING", "FAILED", "SUCCEEDED"}]
      /\ \A x \in Order : inbox[x] = "SUCCEEDED" => Posted(x)
  BY <1>r
<1>q. Quiet \in Handling /\ Quiet.pc = "idle"
  BY DEF Quiet, Handling
<1>1. CASE Notify(o, d)
  <2> DEFINE n == [h EXCEPT !.pc = "verify"]
  <2>1. n \in Handling /\ n.pc = "verify"
    BY <1>r, HandlingFields DEF Handling
  <2>2. inbox' \in [Order -> {"NONE", "PENDING", "FAILED", "SUCCEEDED"}]
    BY <1>1, <1>r DEF Notify
  <2>3. \A x \in Order : inbox'[x] = "SUCCEEDED" => Posted(x)
    BY <1>1, <1>r DEF Notify
  <2>4. hook' = [hook EXCEPT ![<<o, d>>] = n] /\ UNCHANGED <<now, order, books, provider>>
    BY <1>1 DEF Notify
  <2> HIDE DEF n
  <2> QED BY <2>1, <2>2, <2>3, <2>4, DeliveryStep
<1>2. CASE CheckStatus(o, d)
  <2> DEFINE n == [pc |-> "settle", accepted |-> provider[o] = "accepted",
                   write |-> IF provider[o] = "accepted" THEN "SUCCEEDED" ELSE "PENDING"]
  <2>1. /\ n \in Handling /\ n.pc = "settle"
        /\ n.accepted <=> provider[o] = "accepted"
        /\ n.write = "SUCCEEDED" => provider[o] = "accepted"
    BY DEF Handling
  <2>2. /\ hook' = [hook EXCEPT ![<<o, d>>] = n] /\ UNCHANGED <<now, order, books, provider>>
        /\ inbox' = inbox
    BY <1>2 DEF CheckStatus
  <2> HIDE DEF n
  <2> QED BY <1>i, <2>1, <2>2, DeliveryStep
<1>3. CASE Settle(o, d)
  <2> DEFINE settled == \/ order[o].status \in {"PAID", "PAYMENT_REVIEW", "FULFILLED"}
                        \/ Posted(o)
  <2>s. /\ h.pc = "settle"
        /\ hook' = [hook EXCEPT ![<<o, d>>].pc = "ack"]
        /\ now' = now /\ provider' = provider /\ inbox' = inbox
    BY <1>3 DEF Settle
  <2>t. hook' \in [Order \X Delivery -> Handling]
    BY <2>s, <1>r, HandlingFields
  <2>u. \A x \in Order, e \in Delivery :
           IF x = o /\ e = d
           THEN hook'[<<x, e>>].pc = "ack" /\ hook'[<<x, e>>].write = h.write
           ELSE hook'[<<x, e>>] = hook[<<x, e>>]
    BY <2>s, <1>r DEF Handling
  <2>v. /\ h.accepted => provider[o] = "accepted"
        /\ h.write = "SUCCEEDED" => h.accepted
    BY <2>s, <1>r DEF DeliverySound
  <2>w. ASSUME h.write = "SUCCEEDED" => Posted(o)', \A x \in Order : Posted(x) => Posted(x)',
               NEW x \in Order, NEW e \in Delivery
        PROVE  DeliverySound(x, e)'
    <3>1. CASE x = o /\ e = d
      <4>1. hook'[<<x, e>>].pc = "ack" /\ hook'[<<x, e>>].write = h.write
        BY <2>u, <3>1
      <4> QED BY <4>1, <2>w, <3>1 DEF DeliverySound
    <3>2. CASE ~ (x = o /\ e = d)
      <4>1. hook'[<<x, e>>] = hook[<<x, e>>] /\ provider' = provider
        BY <2>u, <2>s, <3>2
      <4>2. DeliverySound(x, e) /\ (Posted(x) => Posted(x)')
        BY <1>r, <2>w
      <4> QED BY <4>1, <4>2 DEF DeliverySound
    <3> QED BY <3>1, <3>2
  <2>1. CASE ~ h.accepted \/ settled
    <3>1. order' = order /\ books' = books
      BY <1>3, <2>1 DEF Settle
    <3>2. settled => Posted(o)
      BY <1>r DEF Balanced, Posted
    <3> DEFINE n == [h EXCEPT !.pc = "ack"]
    <3>3. n \in Handling /\ n.pc = "ack" /\ n.write = h.write
      BY <1>r, HandlingFields DEF Handling
    <3>4. hook' = [hook EXCEPT ![<<o, d>>] = n] /\ UNCHANGED <<now, order, books, provider>>
      BY <2>s, <3>1
    <3>5. n.write = "SUCCEEDED" => Posted(o)
      BY <2>1, <2>v, <3>2, <3>3
    <3>6. inbox' = inbox
      BY <2>s
    <3> HIDE DEF n
    <3> QED BY <1>i, <3>3, <3>4, <3>5, <3>6, DeliveryStep
  <2>2. CASE h.accepted /\ ~ settled
    (* A test order and a payment differ only in what becomes of the order. *)
    <3>1. /\ provider[o] = "accepted" /\ order[o].payment # "NONE"
          /\ order[o].status \in {"AWAITING_PAYMENT", "CANCELLED", "EXPIRED"}
          /\ books[o] = [payment |-> 0, charge |-> 0, credit |-> 0]
      BY <2>2, <2>v, <1>r DEF OrderSound, Balanced, OrderRow
    <3>2. /\ order' \in [Order -> OrderRow] /\ books' \in [Order -> Postings]
          /\ \A x \in Order : x # o => order'[x] = order[x] /\ books'[x] = books[x]
          /\ OrderSound(o)' /\ Balanced(o)' /\ Posted(o)' /\ StaysLetGo(o)
      <4>1. CASE order[o].test
        <5>1. VerifyTest(o) /\ books' = books
          BY <1>3, <2>2, <4>1 DEF Settle
        <5>2. order' \in [Order -> OrderRow]
          BY <5>1, <1>r, OrderFields DEF VerifyTest
        <5>3. /\ order'[o].payment = "TEST_SUCCEEDED" /\ order'[o].status = "CANCELLED"
              /\ order'[o].held = FALSE
              /\ \A x \in Order : x # o => order'[x] = order[x]
          BY <5>1, <1>r DEF VerifyTest, OrderRow
        <5>4. books' \in [Order -> Postings]
          BY <5>1 DEF SettlementInv, Rows
        <5>5. Balanced(o)'
          BY <5>1, <5>3, <3>1, <2>s DEF Balanced, Posted
        <5> QED BY <5>1, <5>2, <5>3, <5>4, <5>5 DEF OrderSound, Posted, StaysLetGo
      <4>2. CASE ~ order[o].test
        <5> DEFINE paid == order[o].status = "AWAITING_PAYMENT" /\ order[o].held
        <5>1. PostPayment(o)
          BY <1>3, <2>2, <4>2 DEF Settle
        <5>2. order' \in [Order -> OrderRow]
          BY <5>1, <1>r, OrderFields DEF PostPayment
        <5>3. /\ order'[o].payment = "SUCCEEDED" /\ order'[o].held = order[o].held
              /\ order'[o].status = IF paid THEN "PAID" ELSE "PAYMENT_REVIEW"
              /\ \A x \in Order : x # o => order'[x] = order[x]
          BY <5>1, <1>r DEF PostPayment, OrderRow
        <5>4. /\ books' \in [Order -> Postings]
              /\ books'[o] = [payment |-> 1, charge |-> IF paid THEN 1 ELSE 0,
                              credit |-> IF paid THEN 0 ELSE 1]
              /\ \A x \in Order : x # o => books'[x] = books[x]
          BY <5>1, <3>1 DEF SettlementInv, Rows, PostPayment, Postings
        <5>5. Balanced(o)'
          BY <5>3, <5>4, <3>1, <2>s DEF Balanced, Posted
        <5>6. OrderSound(o)' /\ StaysLetGo(o)
          BY <5>3, <3>1, <1>r DEF OrderSound, StaysLetGo
        <5> QED BY <5>2, <5>3, <5>4, <5>5, <5>6 DEF Posted
      <4> QED BY <4>1, <4>2
    <3>3. \A x \in Order : Posted(x) => Posted(x)'
      BY <3>2 DEF Posted
    <3>4. ASSUME NEW x \in Order
          PROVE  /\ OrderSound(x)' /\ Balanced(x)' /\ (inbox[x] = "SUCCEEDED" => Posted(x))'
                 /\ StaysLetGo(x)
      <4>1. CASE x = o
        BY <4>1, <3>2
      <4>2. CASE x # o
        <5>1. /\ order'[x] = order[x] /\ books'[x] = books[x]
              /\ OrderSound(x) /\ Balanced(x) /\ (inbox[x] = "SUCCEEDED" => Posted(x))
          BY <4>2, <3>2, <1>r
        <5> QED BY <5>1, <2>s DEF OrderSound, Balanced, Posted, StaysLetGo
      <4> QED BY <4>1, <4>2
    <3>5. \A x \in Order, e \in Delivery : DeliverySound(x, e)'
      BY <2>w, <3>2, <3>3
    <3>6. Rows'
      BY <2>s, <2>t, <3>2 DEF SettlementInv, Rows
    <3> QED BY <3>4, <3>5, <3>6 DEF StepGoal, SettlementInv
  <2> QED BY <2>1, <2>2
<1>4. CASE Acknowledge(o, d)
  <2>1. inbox' \in [Order -> {"NONE", "PENDING", "FAILED", "SUCCEEDED"}]
    BY <1>4, <1>r DEF Acknowledge, Handling
  <2>2. \A x \in Order : inbox'[x] = "SUCCEEDED" => Posted(x)
    BY <1>4, <1>r DEF Acknowledge, DeliverySound
  <2>3. /\ hook' = [hook EXCEPT ![<<o, d>>] = Quiet]
        /\ UNCHANGED <<now, order, books, provider>>
    BY <1>4 DEF Acknowledge
  <2> QED BY <1>q, <2>1, <2>2, <2>3, DeliveryStep
<1>5. CASE HookFails(o, d)
  <2> DEFINE n == [h EXCEPT !.pc = "ack", !.write = "FAILED"]
  <2>1. n \in Handling /\ n.pc = "ack" /\ n.write = "FAILED"
    BY <1>r, HandlingFields DEF Handling
  <2>2. /\ hook' = [hook EXCEPT ![<<o, d>>] = n] /\ UNCHANGED <<now, order, books, provider>>
        /\ inbox' = inbox
    BY <1>5 DEF HookFails
  <2> HIDE DEF n
  <2> QED BY <1>i, <2>1, <2>2, DeliveryStep
<1>6. CASE HookLost(o, d)
  <2>1. /\ hook' = [hook EXCEPT ![<<o, d>>] = Quiet] /\ UNCHANGED <<now, order, books, provider>>
        /\ inbox' = inbox
    BY <1>6 DEF HookLost
  <2> QED BY <1>i, <1>q, <2>1, DeliveryStep
<1> QED BY <1>1, <1>2, <1>3, <1>4, <1>5, <1>6

(* Packages, the worker and the clock leave money alone, and orders unless *)
(* the worker lets one go.                                                 *)
LEMMA OtherStep ==
  SettlementInv /\ (Packages \/ WorkerSteps \/ WorkerFaults \/ Tick \/ UNCHANGED vars) => StepGoal
<1> SUFFICES ASSUME SettlementInv,
                    Packages \/ WorkerSteps \/ WorkerFaults \/ Tick \/ UNCHANGED vars
             PROVE  StepGoal
  OBVIOUS
<1>r. /\ now \in 0 .. MaxNow /\ order \in [Order -> OrderRow]
      /\ \A x \in Order : OrderSound(x)
  BY DEF SettlementInv, Rows
<1>1. CASE WorkerExpire
  <2>1. UNCHANGED payments /\ now' = now
    BY <1>1 DEF WorkerExpire
  <2>2. CASE order' = order
    BY <2>1, <2>2, <1>r, GoodsStep DEF Harmless, OrderSound
  <2>3. ASSUME NEW o \in Order, Overdue(o), Expire(o) PROVE StepGoal
    <3>1. order' \in [Order -> OrderRow]
      BY <2>3, <1>r, OrderFields DEF Expire
    <3>2. \A x \in Order : Harmless(x)
      BY <2>3, <1>r DEF Expire, Overdue, Harmless, OrderRow, OrderSound
    <3> QED BY <2>1, <3>1, <3>2, <1>r, GoodsStep
  <2> QED BY <1>1, <2>2, <2>3 DEF WorkerExpire
<1>2. CASE ~ WorkerExpire
  <2>1. /\ order' = order /\ UNCHANGED payments
        /\ now' = now \/ (now < MaxNow /\ now' = now + 1)
    BY <1>2 DEF Packages, PackageCheck, PackageReserve, PackageRelease, PackageRenew,
                PackageAbandon, WorkerSteps, WorkerTick, WorkerList, WorkerBatchDone,
                WorkerFaults, WorkerSkips, WorkerTickFails, WorkerRestarts, Tick, vars,
                payments
  <2>2. now' \in 0 .. MaxNow
    BY <2>1, <1>r, SizeAssumption
  <2>3. \A x \in Order : Harmless(x)
    BY <2>1, <1>r DEF Harmless, OrderSound
  <2> QED BY <2>1, <2>2, <2>3, <1>r, GoodsStep
<1> QED BY <1>1, <1>2

-----------------------------------------------------------------------------
(* The books, the inbox and what deliveries know agree in the empty shop.  *)
LEMMA SettlementInit == Init => SettlementInv
<1> SUFFICES ASSUME Init PROVE SettlementInv
  OBVIOUS
<1>1. NoOrder \in OrderRow /\ NoBooks \in Postings /\ Quiet \in Handling /\ 0 \in 0 .. MaxNow
  BY SizeAssumption DEF NoOrder, OrderRow, Instant, NoBooks, Postings, Quiet, Handling
<1>2. Rows
  BY <1>1 DEF Init, Rows
<1>3. ASSUME NEW o \in Order
      PROVE  OrderSound(o) /\ Balanced(o) /\ (inbox[o] = "SUCCEEDED" => Posted(o))
  BY DEF Init, NoOrder, NoBooks, OrderSound, Balanced, Posted
<1>4. ASSUME NEW o \in Order, NEW d \in Delivery PROVE DeliverySound(o, d)
  BY DEF Init, Quiet, DeliverySound
<1> QED BY <1>2, <1>3, <1>4 DEF SettlementInv

(* Every step of the shop keeps them in agreement, and lets go for good.   *)
LEMMA SettlementStep == SettlementInv /\ [Next]_vars => StepGoal
BY OrdersStep, HooksStep, OtherStep DEF Next

(* What the shop knows about payments agrees at all times. *)
THEOREM SettlementHolds == Spec => []SettlementInv
<1>1. SettlementInv /\ [Next]_vars => SettlementInv'
  BY SettlementStep DEF StepGoal
<1> QED BY SettlementInit, <1>1, PTL DEF Spec

(* A payment is posted once, when the provider has it, as a charge for     *)
(* goods that were held or as a credit for review; whatever notifications  *)
(* are lost, repeated or handled at the same time.                         *)
THEOREM PostedOnce == Spec => []MoneyAccounted
<1>1. SettlementInv => MoneyAccounted
  BY DEF SettlementInv, Balanced, MoneyAccounted
<1> QED BY <1>1, SettlementHolds, PTL

(* An inbox row is closed only when its payment has been posted.           *)
THEOREM InboxIsHonest == Spec => []InboxHonest
<1>1. SettlementInv => InboxHonest
  BY DEF SettlementInv, InboxHonest
<1> QED BY <1>1, SettlementHolds, PTL

(* Goods that were let go are never held for, or sold to, a late payer.    *)
THEOREM LetGoForGood == Spec => NoResurrection
<1>1. SettlementInv /\ [Next]_vars =>
        [\A o \in Order :
            /\ order[o].status \in {"CANCELLED", "EXPIRED", "PAYMENT_REVIEW", "FULFILLED"} =>
                  ~ order'[o].held /\ order'[o].status # "PAID"
            /\ order[o].status \notin {"PAID", "FULFILLED"} => order'[o].status # "FULFILLED"]_vars
  BY SettlementStep DEF StepGoal, StaysLetGo
<1> QED BY <1>1, SettlementHolds, PTL DEF Spec, NoResurrection

-----------------------------------------------------------------------------
(* What the orders of a table hold of a product. *)
HeldIn(table, p) ==
  SumFunction([o \in {x \in Order : table[x].held} |-> table[o].basket[p]])

(* A well-formed row orders so much of each product. *)
LEMMA BasketNat ==
  ASSUME NEW q \in OrderRow
  PROVE  q.basket \in [Product -> Nat]
BY BasketAssumption DEF OrderRow, NoLines

(* What orders hold is an amount; there are finitely many of them.         *)
LEMMA HeldNat ==
  ASSUME NEW t \in [Order -> OrderRow], NEW p \in Product
  PROVE  HeldIn(t, p) \in Nat
<1> DEFINE S == {x \in Order : t[x].held}
           f == [o \in S |-> t[o].basket[p]]
<1>1. IsFiniteSet(Order)
  BY SizeAssumption, FS_Interval DEF Order
<1>2. IsFiniteSet(S)
  BY <1>1, FS_Subset
<1>3. \A o \in S : t[o].basket[p] \in Nat
  BY BasketNat
<1>4. f \in [S -> Nat]
  BY <1>3
<1>5. HeldIn(t, p) = SumFunction(f)
  BY DEF HeldIn
<1> HIDE DEF S, f
<1> QED BY <1>2, <1>4, <1>5, SumNat

(* Orders that hold the same hold as much. *)
LEMMA HeldSame ==
  ASSUME NEW t, NEW u, NEW p \in Product,
         \A o \in Order : /\ u[o].held = t[o].held
                          /\ t[o].held => u[o].basket = t[o].basket
  PROVE  HeldIn(u, p) = HeldIn(t, p)
<1>1. {x \in Order : u[x].held} = {x \in Order : t[x].held}
  OBVIOUS
<1>2. [o \in {x \in Order : u[x].held} |-> u[o].basket[p]]
         = [o \in {x \in Order : t[x].held} |-> t[o].basket[p]]
  BY <1>1
<1> QED BY <1>2 DEF HeldIn

(* One order more holds its basket more. *)
LEMMA HeldMore ==
  ASSUME NEW t \in [Order -> OrderRow], NEW u \in [Order -> OrderRow], NEW p \in Product,
         NEW o \in Order, ~ t[o].held, u[o].held,
         \A x \in Order : x # o => u[x].held = t[x].held /\ u[x].basket = t[x].basket
  PROVE  HeldIn(u, p) = HeldIn(t, p) + u[o].basket[p]
<1> DEFINE U == {x \in Order : t[x].held}
           f == [x \in {y \in Order : u[y].held} |-> u[x].basket[p]]
           g == [x \in U |-> t[x].basket[p]]
<1>1. {y \in Order : u[y].held} = U \cup {o} /\ o \notin U
  OBVIOUS
<1>2. IsFiniteSet(U)
  <2>1. IsFiniteSet(Order)
    BY SizeAssumption, FS_Interval DEF Order
  <2> QED BY <2>1, FS_Subset
<1>3. \A x \in Order : t[x].basket[p] \in Int /\ u[x].basket[p] \in Int
  BY BasketNat
<1>4. f \in [U \cup {o} -> Int]
  BY <1>1, <1>3
<1>5. g \in [U -> Int]
  BY <1>3
<1>6. \A x \in U : f[x] = g[x]
  BY <1>1
<1>7. f[o] = u[o].basket[p] /\ HeldIn(u, p) = SumFunction(f) /\ HeldIn(t, p) = SumFunction(g)
  BY DEF HeldIn
<1> HIDE DEF U, f, g
<1>8. SumFunction(f) = f[o] + SumFunction(g) /\ SumFunction(g) \in Int
  BY <1>1, <1>2, <1>4, <1>5, <1>6, SumAdds
<1>9. u[o].basket[p] \in Int
  BY <1>3
<1> QED BY <1>7, <1>8, <1>9

-----------------------------------------------------------------------------
(* The shelves: every product has at least as much reserved as orders and  *)
(* packages hold, exactly as much while no lines are lost by hand, and     *)
(* what orders hold is in stock.  A booking reserves for a package that    *)
(* has nothing reserved yet.                                               *)
Shelf(p) ==
  /\ reserved[p] \in Nat /\ onHand[p] \in 0 .. MaxStock
  /\ HeldIn(order, p) + Packed(p) <= reserved[p]
  /\ Damaged = {} => reserved[p] = HeldIn(order, p) + Packed(p)
  /\ HeldIn(order, p) <= onHand[p]

Shelves ==
  /\ DOMAIN reserved = Product /\ DOMAIN onHand = Product
  /\ reserved = [p \in Product |-> reserved[p]] /\ onHand = [p \in Product |-> onHand[p]]
  /\ package \in [Package -> {"NONE", "RESERVED", "RELEASED"}]
  /\ booking \subseteq {k \in Package : package[k] = "NONE"}

StockInv == Shelves /\ \A p \in Product : Shelf(p)

(* What packages hold is an amount. *)
LEMMA PackedNat ==
  ASSUME NEW p \in Product
  PROVE  Packed(p) \in Nat
<1> DEFINE K == {k \in Package : package[k] = "RESERVED"}
<1>1. IsFiniteSet(K)
  BY PackageAssumption, FS_Subset
<1>2. Cardinality(K) \in Nat
  BY <1>1, FS_CardinalityType
<1>3. PackageLines[p] \in Nat
  BY BasketAssumption
<1>4. \A m, n \in Nat : m * n \in Nat
  OBVIOUS
<1> HIDE DEF K
<1> QED BY <1>2, <1>3, <1>4 DEF Packed, K

(* One package more holds its lines more. *)
LEMMA PackMore ==
  ASSUME NEW k \in Package, NEW t \in [Package -> {"NONE", "RESERVED", "RELEASED"}],
         NEW u \in [Package -> {"NONE", "RESERVED", "RELEASED"}], NEW p \in Product,
         t[k] # "RESERVED", u[k] = "RESERVED", \A i \in Package : i # k => u[i] = t[i]
  PROVE  PackageLines[p] * Cardinality({i \in Package : u[i] = "RESERVED"})
           = PackageLines[p] * Cardinality({i \in Package : t[i] = "RESERVED"}) + PackageLines[p]
<1> DEFINE T == {i \in Package : t[i] = "RESERVED"}
           U == {i \in Package : u[i] = "RESERVED"}
<1>1. U = T \cup {k} /\ k \notin T
  OBVIOUS
<1>2. IsFiniteSet(T)
  BY PackageAssumption, FS_Subset
<1> HIDE DEF T, U
<1>3. Cardinality(U) = Cardinality(T) + 1 /\ Cardinality(T) \in Nat
  BY <1>1, <1>2, FS_AddElement, FS_CardinalityType
<1>4. PackageLines[p] \in Nat
  BY BasketAssumption
<1>5. \A m, n \in Nat : m * (n + 1) = m * n + m
  OBVIOUS
<1>6. PackageLines[p] * Cardinality(U) = PackageLines[p] * Cardinality(T) + PackageLines[p]
  BY <1>3, <1>4, <1>5
<1> QED BY <1>6 DEF T, U

(* A step that leaves stock and packages alone, and what orders hold.      *)
LEMMA ShelvesStay ==
  ASSUME StockInv, UNCHANGED <<onHand, reserved, package, booking>>,
         \A o \in Order : /\ order'[o].held = order[o].held
                          /\ order[o].held => order'[o].basket = order[o].basket
  PROVE  StockInv'
<1>1. \A p \in Product : HeldIn(order', p) = HeldIn(order, p)
  BY HeldSame
<1>2. \A p \in Product : Packed(p)' = Packed(p)
  BY DEF Packed
<1>3. \A p \in Product : HeldIn(order, p)' = HeldIn(order', p)
  BY DEF HeldIn
<1>4. ASSUME NEW p \in Product PROVE Shelf(p)'
  BY <1>1, <1>2, <1>3 DEF StockInv, Shelf
<1> QED BY <1>4 DEF StockInv, Shelves

(* An order that takes hold of stock that is free. *)
LEMMA ShelvesTaken ==
  ASSUME StockInv, Rows, Rows', UNCHANGED <<onHand, package, booking>>, NEW o \in Order,
         ~ order[o].held, order'[o].held, Available(order'[o].basket),
         reserved' = Plus(order'[o].basket),
         \A x \in Order : x # o => order'[x] = order[x]
  PROVE  StockInv'
<1> DEFINE b == order'[o].basket
<1>1. order \in [Order -> OrderRow] /\ order' \in [Order -> OrderRow]
  BY DEF Rows
<1>2. \A p \in Product : HeldIn(order', p) = HeldIn(order, p) + b[p]
  BY <1>1, HeldMore
<1>3. \A p \in Product : b[p] \in Nat /\ HeldIn(order, p) \in Nat /\ Packed(p) \in Nat
  BY <1>1, BasketNat, HeldNat, PackedNat
<1>4. \A p \in Product : Packed(p)' = Packed(p) /\ HeldIn(order, p)' = HeldIn(order', p)
  BY DEF Packed, HeldIn
<1>5. \A p \in Product : /\ reserved'[p] = reserved[p] + b[p]
                         /\ b[p] > 0 => onHand[p] - reserved[p] >= b[p]
  BY DEF Plus, Available
<1>6. \A p \in Product : reserved[p] \in Nat /\ onHand[p] \in Int
  BY DEF StockInv, Shelf
<1>7. Shelves'
  BY DEF StockInv, Shelves, Plus
<1> HIDE DEF b
<1>8. ASSUME NEW p \in Product PROVE Shelf(p)'
  <2>1. Shelf(p)
    BY DEF StockInv
  <2>2. HeldIn(order', p) <= onHand[p]
    BY <1>2, <1>3, <1>5, <1>6, <2>1 DEF Shelf
  <2> QED BY <1>2, <1>3, <1>4, <1>5, <1>6, <2>1, <2>2 DEF Shelf
<1> QED BY <1>7, <1>8 DEF StockInv

(* An order that lets its goods go, back on the shelf or to the customer.  *)
LEMMA ShelvesReleased ==
  ASSUME StockInv, Rows, Rows', UNCHANGED <<package, booking>>, NEW o \in Order,
         order[o].held, ~ order'[o].held, Releasable(order[o].basket),
         reserved' = Minus(order[o].basket),
         \A x \in Order : x # o => order'[x] = order[x],
         \/ onHand' = onHand
         \/ /\ \A p \in Product : onHand[p] >= order[o].basket[p]
            /\ onHand' = [p \in Product |-> onHand[p] - order[o].basket[p]]
  PROVE  StockInv'
<1> DEFINE b == order[o].basket
<1>1. order \in [Order -> OrderRow] /\ order' \in [Order -> OrderRow]
  BY DEF Rows
<1>2. \A p \in Product : HeldIn(order, p) = HeldIn(order', p) + b[p]
  BY <1>1, HeldMore
<1>3. \A p \in Product : b[p] \in Nat /\ HeldIn(order', p) \in Nat /\ Packed(p) \in Nat
  BY <1>1, BasketNat, HeldNat, PackedNat
<1>4. \A p \in Product : Packed(p)' = Packed(p) /\ HeldIn(order, p)' = HeldIn(order', p)
  BY DEF Packed, HeldIn
<1>5. \A p \in Product : reserved'[p] = reserved[p] - b[p] /\ reserved[p] >= b[p]
  BY DEF Minus, Releasable
<1>6. \A p \in Product : /\ reserved[p] \in Nat /\ onHand[p] \in 0 .. MaxStock
                         /\ \/ onHand'[p] = onHand[p]
                            \/ onHand[p] >= b[p] /\ onHand'[p] = onHand[p] - b[p]
  BY DEF StockInv, Shelf
<1>7. Shelves'
  BY DEF StockInv, Shelves, Minus
<1> HIDE DEF b
<1>8. ASSUME NEW p \in Product PROVE Shelf(p)'
  <2>1. Shelf(p)
    BY DEF StockInv
  <2>2. onHand'[p] \in 0 .. MaxStock
    BY <1>3, <1>6, SizeAssumption
  <2> QED BY <1>2, <1>3, <1>4, <1>5, <1>6, <2>1, <2>2 DEF Shelf
<1> QED BY <1>7, <1>8 DEF StockInv

(* Lines lost by hand leave too much reserved, never too little.           *)
LEMMA ShelvesDamaged ==
  ASSUME StockInv, Rows, Rows', NEW o \in Order, LoseLines(o)
  PROVE  StockInv'
<1>0. order \in [Order -> OrderRow] /\ order' \in [Order -> OrderRow]
  BY DEF Rows
<1>1. /\ UNCHANGED <<onHand, reserved, package, booking>> /\ Damaged # {}
      /\ order'[o].held = order[o].held /\ order'[o].basket = NoLines
      /\ \A x \in Order : x # o => order'[x] = order[x]
  BY <1>0 DEF LoseLines, stock, packages, OrderRow
<1>2. CASE ~ order[o].held
  <2>1. \A x \in Order : /\ order'[x].held = order[x].held
                         /\ order[x].held => order'[x].basket = order[x].basket
    BY <1>1, <1>2
  <2> QED BY <1>1, <2>1, ShelvesStay
<1>3. CASE order[o].held
  <2> DEFINE t == [order EXCEPT ![o].held = FALSE]
  <2>1. t \in [Order -> OrderRow]
    BY <1>0, OrderFields
  <2>2. ~ t[o].held /\ \A x \in Order : x # o => t[x] = order[x]
    BY <1>0 DEF OrderRow
  <2> HIDE DEF t
  <2>3. \A p \in Product : HeldIn(order, p) = HeldIn(t, p) + order[o].basket[p]
    BY <1>0, <1>3, <2>1, <2>2, HeldMore
  <2>a. /\ order'[o].held
        /\ \A x \in Order : x # o => order'[x].held = t[x].held /\ order'[x].basket = t[x].basket
    BY <1>1, <1>3, <2>2
  <2>4. \A p \in Product : HeldIn(order', p) = HeldIn(t, p) + order'[o].basket[p]
    BY <1>0, <2>1, <2>2, <2>a, HeldMore
  <2>5. \A p \in Product : order'[o].basket[p] = 0 /\ order[o].basket[p] \in Nat
    BY <1>0, <1>1, BasketNat DEF NoLines
  <2>6. \A p \in Product : HeldIn(t, p) \in Nat /\ Packed(p) \in Nat
    BY <2>1, HeldNat, PackedNat
  <2>7. \A p \in Product : Packed(p)' = Packed(p) /\ HeldIn(order, p)' = HeldIn(order', p)
    BY <1>1 DEF Packed, HeldIn
  <2>8. ASSUME NEW p \in Product PROVE Shelf(p)'
    <3>1. Shelf(p)
      BY DEF StockInv
    <3>2. HeldIn(order', p) <= HeldIn(order, p) /\ HeldIn(order', p) \in Nat /\ HeldIn(order, p) \in Nat
      BY <2>3, <2>4, <2>5, <2>6
    <3> QED BY <1>1, <2>6, <2>7, <3>1, <3>2 DEF Shelf
  <2> QED BY <1>1, <2>8 DEF StockInv, Shelves
<1> QED BY <1>2, <1>3

(* Goods received or written off: what is reserved is never written off.   *)
LEMMA ShelvesMoved ==
  ASSUME StockInv, Rows, NEW q \in Product, NEW delta \in {-1, 1}, MoveStock(q, delta)
  PROVE  StockInv'
<1>1. UNCHANGED <<reserved, order, package, booking>>
  BY DEF MoveStock, packages
<1>2. \A p \in Product : Packed(p)' = Packed(p) /\ HeldIn(order, p)' = HeldIn(order, p)
  BY <1>1 DEF Packed, HeldIn
<1>3. onHand' = [onHand EXCEPT ![q] = @ + delta] /\ onHand[q] + delta \in 0 .. MaxStock
  BY DEF MoveStock
<1>4. Shelves'
  BY <1>1, <1>3 DEF StockInv, Shelves
<1>6. \A p \in Product : HeldIn(order, p) \in Nat /\ Packed(p) \in Nat
  BY HeldNat, PackedNat DEF Rows
<1>5. ASSUME NEW p \in Product PROVE Shelf(p)'
  <2>1. Shelf(p) /\ DOMAIN onHand = Product
    BY DEF StockInv, Shelves
  <2>2. CASE p # q
    <3>1. onHand'[p] = onHand[p]
      BY <1>3, <2>1, <2>2
    <3> QED BY <1>1, <1>2, <2>1, <3>1 DEF Shelf
  <2>3. CASE p = q
    <3>1. onHand'[p] = onHand[p] + delta /\ onHand'[p] \in 0 .. MaxStock
      BY <1>3, <2>1, <2>3
    <3>2. delta < 0 => onHand[p] + delta >= reserved[p]
      BY <2>3 DEF MoveStock
    <3>3. HeldIn(order, p) <= onHand'[p]
      BY <1>6, <2>1, <3>1, <3>2 DEF Shelf
    <3> QED BY <1>1, <1>2, <2>1, <3>1, <3>3 DEF Shelf
  <2> QED BY <2>2, <2>3
<1> QED BY <1>4, <1>5 DEF StockInv

(* What a booking does: it takes its package, even when there is too little*)
(* by then, and gives it back once.                                        *)
LEMMA ShelvesPacked ==
  ASSUME StockInv, Rows, NEW k \in Package, UNCHANGED <<onHand, order>>,
         \/ /\ package[k] # "RESERVED" /\ reserved' = Plus(PackageLines)
            /\ package' = [package EXCEPT ![k] = "RESERVED"]
         \/ /\ package[k] = "RESERVED" /\ reserved' = Minus(PackageLines)
            /\ package' = [package EXCEPT ![k] = "RELEASED"],
         booking' \subseteq booking, k \notin booking'
  PROVE  StockInv'
<1> DEFINE Status == {"NONE", "RESERVED", "RELEASED"}
<1>1. /\ package \in [Package -> Status] /\ package' \in [Package -> Status]
      /\ \A i \in Package : i # k => package'[i] = package[i]
  BY DEF StockInv, Shelves
<1>2. \A p \in Product : /\ HeldIn(order, p) \in Nat /\ Packed(p) \in Nat
                         /\ PackageLines[p] \in Nat /\ HeldIn(order, p)' = HeldIn(order, p)
  BY HeldNat, PackedNat, BasketAssumption DEF Rows, HeldIn
<1>3. Shelves'
  BY <1>1 DEF StockInv, Shelves, Plus, Minus
<1>4. CASE package[k] # "RESERVED"
  <2>1. package'[k] = "RESERVED" /\ \A p \in Product : reserved'[p] = reserved[p] + PackageLines[p]
    BY <1>1, <1>4 DEF Plus
  <2>2. ASSUME NEW p \in Product PROVE Packed(p)' = Packed(p) + PackageLines[p]
    BY <1>1, <1>4, <2>1, PackMore DEF Packed
  <2>3. ASSUME NEW p \in Product PROVE Shelf(p)'
    <3>1. Shelf(p)
      BY DEF StockInv
    <3> QED BY <1>2, <2>1, <2>2, <3>1 DEF Shelf
  <2> QED BY <1>3, <2>3 DEF StockInv
<1>5. CASE package[k] = "RESERVED"
  <2>1. package'[k] # "RESERVED" /\ \A p \in Product : reserved'[p] = reserved[p] - PackageLines[p]
    BY <1>1, <1>5 DEF Minus
  <2>2. ASSUME NEW p \in Product PROVE Packed(p) = Packed(p)' + PackageLines[p]
    BY <1>1, <1>5, <2>1, PackMore DEF Packed
  <2>3. ASSUME NEW p \in Product PROVE Packed(p)' \in Nat
    <3>1. IsFiniteSet({i \in Package : package'[i] = "RESERVED"})
      BY PackageAssumption, FS_Subset
    <3>2. Cardinality({i \in Package : package'[i] = "RESERVED"}) \in Nat
      BY <3>1, FS_CardinalityType
    <3>3. \A m, n \in Nat : m * n \in Nat
      OBVIOUS
    <3> QED BY <1>2, <3>2, <3>3 DEF Packed
  <2>4. ASSUME NEW p \in Product PROVE Shelf(p)'
    <3>1. Shelf(p)
      BY DEF StockInv
    <3> QED BY <1>2, <2>1, <2>2, <2>3, <3>1 DEF Shelf
  <2> QED BY <1>3, <2>4 DEF StockInv
<1> QED BY <1>4, <1>5

-----------------------------------------------------------------------------
(* The empty shop has nothing reserved. *)
LEMMA StockInit == Init => StockInv
<1> SUFFICES ASSUME Init PROVE StockInv
  OBVIOUS
<1>1. Shelves
  BY DEF Init, Shelves
<1>2. ASSUME NEW p \in Product PROVE Shelf(p)
  <2>1. {x \in Order : order[x].held} = {} /\ {k \in Package : package[k] = "RESERVED"} = {}
    BY DEF Init, NoOrder
  <2>2. HeldIn(order, p) = 0
    BY <2>1, SumEmpty DEF HeldIn
  <2>3. Packed(p) = 0
    <3>1. PackageLines[p] \in Nat
      BY BasketAssumption
    <3>2. \A m \in Nat : m * 0 = 0
      OBVIOUS
    <3> QED BY <2>1, <3>1, <3>2, FS_EmptySet DEF Packed
  <2> QED BY <2>2, <2>3, SizeAssumption DEF Init, Shelf
<1> QED BY <1>1, <1>2 DEF StockInv

(* What a step does to the shelves: it leaves the goods of every order     *)
(* alone, an order takes hold of free stock, or an order lets go.          *)
GoodsStay ==
  /\ UNCHANGED <<onHand, reserved, package, booking>>
  /\ \A o \in Order : /\ order'[o].held = order[o].held
                      /\ order[o].held => order'[o].basket = order[o].basket

GoodsTaken(o) ==
  /\ UNCHANGED <<onHand, package, booking>> /\ \A x \in Order : x # o => order'[x] = order[x]
  /\ ~ order[o].held /\ order'[o].held /\ Available(order'[o].basket)
  /\ reserved' = Plus(order'[o].basket)

GoodsReleased(o) ==
  /\ UNCHANGED <<package, booking>> /\ \A x \in Order : x # o => order'[x] = order[x]
  /\ order[o].held /\ ~ order'[o].held /\ Releasable(order[o].basket)
  /\ reserved' = Minus(order[o].basket)
  /\ \/ onHand' = onHand
     \/ /\ \A p \in Product : onHand[p] >= order[o].basket[p]
        /\ onHand' = [p \in Product |-> onHand[p] - order[o].basket[p]]

(* An order that is closed lets its goods go if it has any. *)
LEMMA Closing ==
  ASSUME Rows, NEW o \in Order, NEW s, NEW m,
         order' = [order EXCEPT ![o].payment = m, ![o].status = s, ![o].held = FALSE],
         order[o].held => Releasable(order[o].basket),
         reserved' = IF order[o].held THEN Minus(order[o].basket) ELSE reserved,
         UNCHANGED <<onHand, package, booking>>
  PROVE  GoodsStay \/ GoodsReleased(o)
<1>1. order \in [Order -> OrderRow]
  BY DEF Rows
<1>2. /\ order'[o].held = FALSE /\ order'[o].basket = order[o].basket
      /\ \A x \in Order : x # o => order'[x] = order[x]
  BY <1>1 DEF OrderRow
<1>3. order[o].held \in BOOLEAN
  BY <1>1 DEF OrderRow
<1> QED BY <1>2, <1>3 DEF GoodsStay, GoodsReleased

(* The operations on orders do one of these, but for a hand that loses     *)
(* lines and for goods received or written off.                            *)
LEMMA OrdersGoods ==
  ASSUME SettlementInv, Orders,
         ~ \E o \in Order : LoseLines(o),
         ~ \E p \in Product, delta \in {-1, 1} : MoveStock(p, delta)
  PROVE  GoodsStay \/ \E o \in Order : GoodsTaken(o) \/ GoodsReleased(o)
<1>r. Rows /\ order \in [Order -> OrderRow] /\ \A x \in Order : OrderSound(x)
  BY DEF SettlementInv, Rows
<1>1. ASSUME NEW o \in Order, NEW b \in Baskets, NEW test \in BOOLEAN, HoldOrder(o, b, test)
      PROVE  GoodsTaken(o)
  <2>1. ~ order[o].held
    BY <1>1, <1>r DEF HoldOrder, OrderSound
  <2>2. order'[o].held /\ order'[o].basket = b /\ \A x \in Order : x # o => order'[x] = order[x]
    BY <1>1, <1>r DEF HoldOrder
  <2> QED BY <1>1, <2>1, <2>2 DEF HoldOrder, GoodsTaken, packages
<1>2. ASSUME NEW o \in Order, CancelOrder(o) \/ ExpireElsewhere(o)
      PROVE  GoodsStay \/ GoodsReleased(o)
  <2>1. \E s \in {"CANCELLED", "EXPIRED"} :
           order' = [order EXCEPT ![o].status = s, ![o].held = FALSE]
    BY <1>2 DEF CancelOrder, ExpireElsewhere, Expire
  <2>2. /\ order'[o].held = FALSE /\ order'[o].basket = order[o].basket
        /\ \A x \in Order : x # o => order'[x] = order[x]
    BY <2>1, <1>r DEF OrderRow
  <2>3. /\ order[o].held => Releasable(order[o].basket)
        /\ reserved' = IF order[o].held THEN Minus(order[o].basket) ELSE reserved
        /\ UNCHANGED <<onHand, package, booking>>
    BY <1>2 DEF CancelOrder, ExpireElsewhere, Expire, Inconsistent, packages
  <2>4. order[o].held \in BOOLEAN
    BY <1>r DEF OrderRow
  <2> QED BY <2>2, <2>3, <2>4 DEF GoodsStay, GoodsReleased
<1>3. ASSUME NEW o \in Order, StartCheckout(o) \/ CustomerPays(o)
      PROVE  GoodsStay
  BY <1>3, <1>r DEF StartCheckout, CustomerPays, GoodsStay, OrderRow, stock, packages
<1>4. ASSUME NEW o \in Order, FulfilOrder(o)
      PROVE  GoodsReleased(o)
  <2>1. /\ order'[o].held = FALSE /\ \A x \in Order : x # o => order'[x] = order[x]
    BY <1>4, <1>r DEF FulfilOrder, OrderRow
  <2> QED BY <1>4, <2>1 DEF FulfilOrder, GoodsReleased, packages
<1> QED BY <1>1, <1>2, <1>3, <1>4 DEF Orders

(* Notifications only close test orders. *)
LEMMA HooksGoods ==
  ASSUME SettlementInv, Hooks
  PROVE  GoodsStay \/ \E o \in Order : GoodsReleased(o)
<1>r. Rows /\ order \in [Order -> OrderRow]
  BY DEF SettlementInv, Rows
<1> PICK o \in Order, d \in Delivery :
       \/ Notify(o, d) \/ CheckStatus(o, d) \/ Settle(o, d) \/ Acknowledge(o, d)
       \/ HookFails(o, d) \/ HookLost(o, d)
  BY DEF Hooks
<1>1. CASE ~ Settle(o, d)
  BY <1>1 DEF Notify, CheckStatus, Acknowledge, HookFails, HookLost, GoodsStay, stock, packages
<1>2. CASE Settle(o, d)
  <2>1. UNCHANGED <<onHand, package, booking>>
    BY <1>2 DEF Settle, packages
  <2>2. CASE order' = order /\ reserved' = reserved
    BY <2>1, <2>2 DEF GoodsStay
  <2>3. CASE PostPayment(o) /\ reserved' = reserved
    <3>1. \A x \in Order : order'[x].held = order[x].held /\ order'[x].basket = order[x].basket
      BY <1>r, <2>3 DEF PostPayment, OrderRow
    <3> QED BY <2>1, <2>3, <3>1 DEF GoodsStay
  <2>4. CASE (order[o].held => Releasable(order[o].basket)) /\ VerifyTest(o)
    BY <1>r, <2>1, <2>4, Closing DEF VerifyTest
  <2> QED BY <1>2, <2>2, <2>3, <2>4 DEF Settle
<1> QED BY <1>1, <1>2

(* A booking takes its package while nothing is reserved for it, and every *)
(* other step leaves packages and bookings alone.                          *)
LEMMA PackagesStock ==
  ASSUME SettlementInv, StockInv, Packages
  PROVE  StockInv'
<1>r. Rows
  BY DEF SettlementInv
<1>1. ASSUME NEW k \in Package, PackageCheck(k) PROVE StockInv'
  <2>1. UNCHANGED <<onHand, reserved, order, package>> /\ booking' = {k} /\ package[k] = "NONE"
    BY <1>1 DEF PackageCheck, stock
  <2>2. \A p \in Product : HeldIn(order, p)' = HeldIn(order, p) /\ Packed(p)' = Packed(p)
    BY <2>1 DEF HeldIn, Packed
  <2> QED BY <2>1, <2>2 DEF StockInv, Shelves, Shelf
<1>2. ASSUME NEW k \in Package, PackageReserve(k) PROVE StockInv'
  <2>1. package[k] # "RESERVED"
    BY <1>2 DEF StockInv, Shelves, PackageReserve
  <2> QED BY <1>2, <1>r, <2>1, ShelvesPacked DEF PackageReserve
<1>3. ASSUME NEW k \in Package, PackageRelease(k) \/ PackageRenew(k) PROVE StockInv'
  <2>1. booking' = booking /\ k \notin booking
    BY <1>3 DEF StockInv, Shelves, PackageRelease, PackageRenew
  <2> QED BY <1>3, <1>r, <2>1, ShelvesPacked DEF PackageRelease, PackageRenew
<1>4. ASSUME PackageAbandon PROVE StockInv'
  <2>1. UNCHANGED <<onHand, reserved, order, package>> /\ booking' = {}
    BY <1>4 DEF PackageAbandon, stock
  <2>2. \A p \in Product : HeldIn(order, p)' = HeldIn(order, p) /\ Packed(p)' = Packed(p)
    BY <2>1 DEF HeldIn, Packed
  <2> QED BY <2>1, <2>2 DEF StockInv, Shelves, Shelf
<1> QED BY <1>1, <1>2, <1>3, <1>4 DEF Packages

(* The worker lets overdue orders go, one at a time. *)
LEMMA WorkerGoods ==
  ASSUME SettlementInv, WorkerSteps \/ WorkerFaults \/ Tick \/ UNCHANGED vars
  PROVE  GoodsStay \/ \E o \in Order : GoodsReleased(o)
<1>r. Rows /\ order \in [Order -> OrderRow]
  BY DEF SettlementInv, Rows
<1>1. CASE WorkerExpire
  <2>1. UNCHANGED <<onHand, package, booking>>
    BY <1>1 DEF WorkerExpire, packages
  <2>2. CASE order' = order /\ reserved' = reserved
    BY <2>1, <2>2 DEF GoodsStay
  <2>3. ASSUME NEW o \in Order, ~ Inconsistent(o), Expire(o) PROVE GoodsStay \/ GoodsReleased(o)
    <3>1. /\ order'[o].held = FALSE /\ \A x \in Order : x # o => order'[x] = order[x]
          /\ order'[o].basket = order[o].basket /\ order[o].held \in BOOLEAN
      BY <1>r, <2>3 DEF Expire, OrderRow
    <3> QED BY <2>1, <2>3, <3>1 DEF Expire, Inconsistent, GoodsStay, GoodsReleased
  <2> QED BY <1>1, <2>2, <2>3 DEF WorkerExpire
<1>2. CASE ~ WorkerExpire
  BY <1>2 DEF WorkerSteps, WorkerTick, WorkerList, WorkerBatchDone, WorkerFaults, WorkerSkips,
              WorkerTickFails, WorkerRestarts, Tick, vars, stock, packages, GoodsStay
<1> QED BY <1>1, <1>2

(* Every step keeps the shelves. *)
LEMMA StockStep == SettlementInv /\ StockInv /\ [Next]_vars => StockInv'
<1> SUFFICES ASSUME SettlementInv, StockInv, [Next]_vars PROVE StockInv'
  OBVIOUS
<1>r. Rows /\ Rows'
  BY SettlementStep DEF SettlementInv, StepGoal
<1>1. CASE GoodsStay
  BY <1>1, ShelvesStay DEF GoodsStay
<1>2. ASSUME NEW o \in Order, GoodsTaken(o) PROVE StockInv'
  BY <1>r, <1>2, ShelvesTaken DEF GoodsTaken
<1>3. ASSUME NEW o \in Order, GoodsReleased(o) PROVE StockInv'
  BY <1>r, <1>3, ShelvesReleased DEF GoodsReleased
<1>4. ASSUME NEW o \in Order, LoseLines(o) PROVE StockInv'
  BY <1>r, <1>4, ShelvesDamaged
<1>5. ASSUME NEW p \in Product, NEW delta \in {-1, 1}, MoveStock(p, delta) PROVE StockInv'
  BY <1>r, <1>5, ShelvesMoved
<1>6. CASE Orders
  BY <1>1, <1>2, <1>3, <1>4, <1>5, <1>6, OrdersGoods
<1>7. CASE Hooks
  BY <1>1, <1>3, <1>7, HooksGoods
<1>8. CASE Packages
  BY <1>8, PackagesStock
<1>9. CASE WorkerSteps \/ WorkerFaults \/ Tick \/ UNCHANGED vars
  BY <1>1, <1>3, <1>9, WorkerGoods
<1> QED BY <1>6, <1>7, <1>8, <1>9 DEF Next

(* The shelves hold what the orders and packages say at all times. *)
LEMMA StockHolds == Spec => [](SettlementInv /\ StockInv)
<1>1. SettlementInv /\ StockInv /\ [Next]_vars => SettlementInv' /\ StockInv'
  BY SettlementStep, StockStep DEF StepGoal
<1> QED BY SettlementInit, StockInit, <1>1, PTL DEF Spec

(* Goods on hold for a tenant, who may have paid for them, are in stock,   *)
(* whatever bookings reserve beyond what there is.                         *)
THEOREM HeldGoodsAreThere == Spec => []HeldInStock
<1>1. StockInv => HeldInStock
  BY DEF StockInv, Shelf, HeldInStock, HeldFor, HeldIn, Holders
<1> QED BY <1>1, StockHolds, PTL

(* While no lines are lost by hand the reserved quantity is what orders    *)
(* and packages hold, to the item.                                         *)
THEOREM ReservedToTheItem == Damaged = {} => (Spec => []StockAccounted)
<1> SUFFICES ASSUME Damaged = {} PROVE Spec => []StockAccounted
  OBVIOUS
<1>1. StockInv => StockAccounted
  BY DEF StockInv, Shelf, StockAccounted, HeldFor, HeldIn, Holders
<1> QED BY <1>1, StockHolds, PTL

-----------------------------------------------------------------------------
(* The worker's record is well formed, and it lists a batch only while the *)
(* tick has batches left.                                                  *)
WorkerInv ==
  /\ worker \in WorkerRow /\ faults \in 0 .. MaxFaults
  /\ worker.pc = "list" => worker.round < PerTick

(* Setting one column of the worker's record leaves it well formed. *)
LEMMA WorkerFields ==
  ASSUME NEW w \in WorkerRow
  PROVE  /\ \A x \in {"idle", "list", "batch"} : [w EXCEPT !.pc = x] \in WorkerRow
         /\ \A x \in Instant \X (Order \cup {0}) : [w EXCEPT !.cursor = x] \in WorkerRow
         /\ \A x \in SUBSET Order : [w EXCEPT !.todo = x] \in WorkerRow
         /\ \A x \in 0 .. PerTick : [w EXCEPT !.round = x] \in WorkerRow
         /\ \A x \in BOOLEAN : /\ [w EXCEPT !.full = x] \in WorkerRow
                               /\ [w EXCEPT !.sweepFailures = x] \in WorkerRow
                               /\ [w EXCEPT !.failed = x] \in WorkerRow
                               /\ [w EXCEPT !.completed = x] \in WorkerRow
BY DEF WorkerRow

(* Every step keeps the worker's record. *)
LEMMA WorkerStep == WorkerInv /\ [Next]_vars => WorkerInv'
<1> SUFFICES ASSUME WorkerInv, [Next]_vars PROVE WorkerInv'
  OBVIOUS
<1>w. /\ worker \in WorkerRow /\ faults \in 0 .. MaxFaults /\ MaxFaults \in Nat
      /\ PerTick \in Nat \ {0} /\ MaxNow \in Nat
      /\ Start \in Instant \X (Order \cup {0})
  BY WorkerAssumption, SizeAssumption DEF WorkerInv, Start, Instant
<1>f. Fault => faults' \in 0 .. MaxFaults
  BY <1>w DEF Fault
<1>1. CASE UNCHANGED worker /\ (UNCHANGED faults \/ Fault)
  BY <1>1, <1>f DEF WorkerInv
<1>2. CASE WorkerTick
  <2>1. /\ worker.pc = "idle"
        /\ worker' = [[worker EXCEPT !.pc = "list"] EXCEPT !.round = 0]
        /\ faults' = faults
    BY <1>2 DEF WorkerTick
  <2>2. PICK w \in WorkerRow : w = [worker EXCEPT !.pc = "list"]
    BY <1>w, WorkerFields
  <2>3. 0 \in 0 .. PerTick /\ worker' = [w EXCEPT !.round = 0]
    BY <1>w, <2>1, <2>2
  <2>4. worker' \in WorkerRow
    BY <2>3, WorkerFields
  <2> QED BY <1>w, <2>1, <2>3, <2>4 DEF WorkerInv, WorkerRow
<1>3. CASE WorkerList
  <2>1. /\ worker.pc = "list" /\ faults' = faults
        /\ Listed \in SUBSET Order /\ worker.round + 1 \in 0 .. PerTick
    BY <1>w, <1>3 DEF WorkerList, WorkerInv, WorkerRow, Listed
  <2> DEFINE full == Cardinality(Listed) = Batch
  <2>2. PICK to \in Instant \X (Order \cup {0}) :
           worker' = [worker EXCEPT !.pc = "batch", !.todo = Listed, !.full = full,
                                    !.cursor = to, !.round = @ + 1]
    BY <1>3 DEF WorkerList
  <2>3. full \in BOOLEAN
    OBVIOUS
  <2> HIDE DEF full
  <2>4. PICK w \in WorkerRow : w = [worker EXCEPT !.pc = "batch"]
    BY <1>w, WorkerFields
  <2>5. PICK x \in WorkerRow : x = [w EXCEPT !.todo = Listed]
    BY <2>1, WorkerFields
  <2>6. PICK y \in WorkerRow : y = [x EXCEPT !.full = full]
    BY <2>3, WorkerFields
  <2>7. PICK z \in WorkerRow : z = [y EXCEPT !.cursor = to]
    BY WorkerFields
  <2>8. worker' = [z EXCEPT !.round = worker.round + 1]
    BY <1>w, <2>2, <2>4, <2>5, <2>6, <2>7 DEF WorkerRow
  <2>9. worker' \in WorkerRow
    BY <2>1, <2>8, WorkerFields
  <2>10. worker'.pc = "batch"
    BY <1>w, <2>2 DEF WorkerRow
  <2> QED BY <1>w, <2>1, <2>9, <2>10 DEF WorkerInv
<1>4. CASE WorkerExpire \/ WorkerSkips
  <2>1. PICK o \in Order, x \in BOOLEAN, y \in BOOLEAN :
           /\ worker' = [worker EXCEPT !.todo = @ \ {o}, !.failed = x, !.sweepFailures = y]
           /\ worker.pc = "batch"
    BY <1>w, <1>4 DEF WorkerExpire, WorkerSkips, WorkerRow, Overdue, Inconsistent, Posted,
                      Releasable
  <2>2. worker.todo \ {o} \in SUBSET Order
    BY <1>w DEF WorkerRow
  <2>3. worker' \in WorkerRow /\ worker'.pc = "batch"
    BY <1>w, <2>1, <2>2 DEF WorkerRow
  <2>4. faults' \in 0 .. MaxFaults
    BY <1>w, <1>f, <1>4 DEF WorkerExpire, WorkerSkips
  <2> QED BY <2>3, <2>4 DEF WorkerInv
<1>5. CASE WorkerBatchDone
  <2>1. \E c \in {worker.cursor, Start}, q \in {"idle", "list"}, x \in BOOLEAN, y \in BOOLEAN,
           z \in BOOLEAN :
           /\ worker' = [worker EXCEPT !.cursor = c, !.pc = q, !.failed = x,
                                       !.sweepFailures = y, !.completed = z]
           /\ q = "list" => worker.round # PerTick
    BY <1>w, <1>5 DEF WorkerBatchDone, WorkerRow
  <2>2. PICK c \in {worker.cursor, Start}, q \in {"idle", "list"}, x \in BOOLEAN,
             y \in BOOLEAN, z \in BOOLEAN :
           /\ worker' = [worker EXCEPT !.cursor = c, !.pc = q, !.failed = x,
                                       !.sweepFailures = y, !.completed = z]
           /\ q = "list" => worker.round # PerTick
    BY <2>1
  <2>3. c \in Instant \X (Order \cup {0}) /\ worker.round \in 0 .. PerTick
    BY <1>w DEF WorkerRow
  <2>4. PICK t \in WorkerRow : t = [worker EXCEPT !.cursor = c]
    BY <1>w, <2>3, WorkerFields
  <2>5. PICK u \in WorkerRow : u = [t EXCEPT !.pc = q]
    BY WorkerFields
  <2>6. PICK v \in WorkerRow : v = [u EXCEPT !.failed = x]
    BY WorkerFields
  <2>7. PICK w \in WorkerRow : w = [v EXCEPT !.sweepFailures = y]
    BY WorkerFields
  <2>8. worker' = [w EXCEPT !.completed = z]
    BY <1>w, <2>2, <2>4, <2>5, <2>6, <2>7 DEF WorkerRow
  <2>9. worker' \in WorkerRow
    BY <2>8, WorkerFields
  <2>10. worker'.pc = q /\ worker'.round = worker.round
    BY <1>w, <2>2 DEF WorkerRow
  <2>11. worker'.pc = "list" => worker'.round < PerTick
    BY <1>w, <2>2, <2>3, <2>10
  <2> QED BY <1>w, <1>5, <2>9, <2>11 DEF WorkerInv, WorkerBatchDone
<1>6. CASE WorkerTickFails
  <2>1. worker' = [[worker EXCEPT !.pc = "idle"] EXCEPT !.failed = TRUE]
    BY <1>6 DEF WorkerTickFails
  <2>2. PICK w \in WorkerRow : w = [worker EXCEPT !.pc = "idle"]
    BY <1>w, WorkerFields
  <2>3. worker' \in WorkerRow
    BY <2>1, <2>2, WorkerFields
  <2>4. worker'.pc = "idle"
    BY <1>w, <2>1 DEF WorkerRow
  <2> QED BY <1>f, <1>6, <2>3, <2>4 DEF WorkerInv, WorkerTickFails
<1>7. CASE WorkerRestarts
  <2>1. FreshWorker \in WorkerRow
    BY <1>w DEF FreshWorker, WorkerRow
  <2> QED BY <1>f, <1>7, <2>1 DEF WorkerInv, WorkerRestarts, FreshWorker
<1>8. ASSUME Orders \/ Hooks \/ Packages \/ Tick \/ UNCHANGED vars
      PROVE  UNCHANGED worker /\ (UNCHANGED faults \/ Fault)
  <2>1. Orders => UNCHANGED <<worker, faults>>
    BY DEF Orders, HoldOrder, CancelOrder, StartCheckout, CustomerPays, FulfilOrder,
           ExpireElsewhere, LoseLines, MoveStock
  <2>2. Hooks => UNCHANGED worker /\ (UNCHANGED faults \/ Fault)
    BY DEF Hooks, Notify, CheckStatus, Settle, Acknowledge, HookFails, HookLost
  <2>3. Packages \/ Tick \/ UNCHANGED vars => UNCHANGED <<worker, faults>>
    BY DEF Packages, PackageCheck, PackageReserve, PackageRelease, PackageRenew,
           PackageAbandon, Tick, vars
  <2> QED BY <1>8, <2>1, <2>2, <2>3
<1> QED BY <1>1, <1>2, <1>3, <1>4, <1>5, <1>6, <1>7, <1>8 DEF Next, WorkerSteps, WorkerFaults

(* The shop's state keeps its type; stock counts never leave their range. *)
THEOREM ShopTyped == Spec => []TypeOK
<1>1. Init => WorkerInv
  <2> SUFFICES ASSUME Init PROVE WorkerInv
    OBVIOUS
  <2>1. Start \in Instant \X (Order \cup {0}) /\ 0 \in 0 .. PerTick
    BY WorkerAssumption, SizeAssumption DEF Start, Instant
  <2>2. FreshWorker \in WorkerRow
    BY <2>1 DEF FreshWorker, WorkerRow
  <2> QED BY <2>2, SizeAssumption DEF Init, WorkerInv, FreshWorker
<1>2. SettlementInv /\ StockInv /\ WorkerInv => TypeOK
  BY DEF SettlementInv, Rows, StockInv, Shelves, Shelf, WorkerInv, TypeOK
<1> QED BY <1>1, <1>2, StockHolds, WorkerStep, PTL DEF Spec
=============================================================================
