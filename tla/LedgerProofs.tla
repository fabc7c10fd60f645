---------------------------- MODULE LedgerProofs ----------------------------
(***************************************************************************)
(* The books of every account: the balance is what the ledger adds up to,  *)
(* a payment is booked once, and no more of it is given back than came in. *)
(***************************************************************************)
EXTENDS FinanceProofs, SumProofs

-----------------------------------------------------------------------------
(* A new entry adds to the total what it moves the balance by. *)
LEMMA TotalAdds ==
  ASSUME NEW L, L \subseteq Entry, IsFiniteSet(L), NEW e \in Entry, e \notin L
  PROVE  /\ Total(L \cup {e}) = Total(L) + Delta(e.type, e.amount)
         /\ Total(L) \in Int
<1> DEFINE M == L \cup {e}
           f == [x \in M |-> Delta(x.type, x.amount)]
           g == [x \in L |-> Delta(x.type, x.amount)]
<1>1. \A x \in Entry : Delta(x.type, x.amount) \in Int
  BY DeltaInt DEF Entry
<1>2. f \in [L \cup {e} -> Int] /\ g \in [L -> Int] /\ \A x \in L : f[x] = g[x]
  BY <1>1
<1>3. f[e] = Delta(e.type, e.amount)
  OBVIOUS
<1>4. Total(M) = SumFunction(f) /\ Total(L) = SumFunction(g)
  BY DEF Total
<1> HIDE DEF f, g
<1>5. SumFunction(f) = f[e] + SumFunction(g) /\ SumFunction(g) \in Int
  BY <1>2, SumAdds
<1>6. f[e] \in Int
  BY <1>1, <1>3
<1> QED BY <1>3, <1>4, <1>5, <1>6

(* Nothing booked is nothing owed. *)
LEMMA TotalEmpty == Total({}) = 0
BY SumEmpty DEF Total

-----------------------------------------------------------------------------
(* The receipts of payment p in the ledger of account a. *)
Receipts(a, p) == {e \in ledger[a] : e.ref = <<"PAY", p>>}

(* The ledgers are finite and add up; what an entry refers to has been     *)
(* decided, and only receipts refer to a payment ...                       *)
LedgerInv ==
  \A a \in Account :
     /\ IsFiniteSet(ledger[a]) /\ Reconciled(a)
     /\ \A e \in ledger[a] :
           /\ e.type = "PAYMENT" <=> e.ref \in {"PAY"} \X Pay
           /\ \A j \in Adj : e.ref = <<"ADJ", j>> => adj[j].status = "POSTED"

(* ... and a payment's receipt is in its own account, once it is received. *)
ReceiptOf(p) ==
  /\ pay[p].acc = None <=> pay[p].status = "NONE"
  /\ \A a \in Account :
        pay[p].acc = a /\ pay[p].status # "PENDING" =>
           \E e \in Receipts(a, p) : Receipts(a, p) = {e} /\ e.amount = pay[p].amount
  /\ \A a \in Account :
        pay[p].acc # a \/ pay[p].status = "PENDING" => Receipts(a, p) = {}

ReceiptInv == \A p \in Pay : ReceiptOf(p)

(* New accounts have nothing in their books. *)
LEMMA BooksInit == Init => LedgerInv /\ ReceiptInv
<1> SUFFICES ASSUME Init PROVE LedgerInv /\ ReceiptInv
  OBVIOUS
<1>1. \A a \in Account : ledger[a] = {} /\ balance[a] = 0
  BY DEF Init
<1>2. \A p \in Pay : pay[p].acc = None /\ pay[p].status = "NONE"
  BY DEF Init, NoPayment
<1>3. LedgerInv
  BY <1>1, TotalEmpty, FS_EmptySet DEF LedgerInv, Reconciled
<1>4. ReceiptInv
  BY <1>1, <1>2, NoneAssumption DEF ReceiptInv, ReceiptOf, Receipts
<1> QED BY <1>3, <1>4

(* Posting a new entry keeps the ledgers in order. *)
LEMMA PostKeepsLedger ==
  ASSUME TypeOK, LedgerInv, NEW a \in Account, NEW e \in Entry, PostEntry(a, e), Unposted(a, e.ref),
         e.type = "PAYMENT" <=> e.ref \in {"PAY"} \X Pay,
         \A j \in Adj : e.ref = <<"ADJ", j>> => adj'[j].status = "POSTED",
         \A j \in Adj : adj[j].status = "POSTED" => adj'[j].status = "POSTED"
  PROVE  LedgerInv'
<1>1. /\ ledger'[a] = ledger[a] \cup {e}
      /\ balance'[a] = balance[a] + Delta(e.type, e.amount)
      /\ \A b \in Account : b # a => ledger'[b] = ledger[b] /\ balance'[b] = balance[b]
  BY DEF PostEntry, TypeOK
<1>2. e \notin ledger[a] /\ ledger[a] \subseteq Entry
  BY DEF Unposted, TypeOK
<1>3. Total(ledger'[a]) = balance'[a]
  <2>1. IsFiniteSet(ledger[a]) /\ balance[a] = Total(ledger[a])
    BY DEF LedgerInv, Reconciled
  <2> QED BY <1>1, <1>2, <2>1, TotalAdds
<1>4. IsFiniteSet(ledger'[a])
  <2>1. IsFiniteSet(ledger[a])
    BY DEF LedgerInv
  <2>2. IsFiniteSet(ledger[a] \cup {e})
    BY <2>1, FS_AddElement
  <2> QED BY <1>1, <2>2
<1>5. \A b \in Account : IsFiniteSet(ledger'[b]) /\ Reconciled(b)'
  BY <1>1, <1>3, <1>4 DEF LedgerInv, Reconciled
<1>6. \A b \in Account : \A x \in ledger'[b] :
         /\ x.type = "PAYMENT" <=> x.ref \in {"PAY"} \X Pay
         /\ \A j \in Adj : x.ref = <<"ADJ", j>> => adj'[j].status = "POSTED"
  BY <1>1 DEF LedgerInv
<1> QED BY <1>5, <1>6 DEF LedgerInv

(* A payment that is not touched keeps its receipts, when the entry posted *)
(* is not one of them.                                                     *)
LEMMA OtherReceipts ==
  ASSUME TypeOK, NEW a \in Account, NEW e \in Entry, PostEntry(a, e), NEW p \in Pay,
         e.ref # <<"PAY", p>>
  PROVE  \A b \in Account : Receipts(b, p)' = Receipts(b, p)
BY DEF PostEntry, Receipts, TypeOK

(* A payment's new receipt is its only one. *)
LEMMA NewReceipt ==
  ASSUME TypeOK, NEW a \in Account, NEW p \in Pay, NEW e \in Entry, PostEntry(a, e),
         e.ref = <<"PAY", p>>, \A b \in Account : Receipts(b, p) = {}
  PROVE  /\ Receipts(a, p)' = {e}
         /\ \A b \in Account : b # a => Receipts(b, p)' = {}
BY DEF PostEntry, Receipts, TypeOK

(* A payment whose receipts and standing are the same is booked as before. *)
LEMMA ReceiptKept ==
  ASSUME NEW p \in Pay, ReceiptOf(p),
         pay'[p].acc = pay[p].acc, pay'[p].amount = pay[p].amount,
         pay'[p].status = "PENDING" <=> pay[p].status = "PENDING",
         pay'[p].status = "NONE" <=> pay[p].status = "NONE",
         \A b \in Account : Receipts(b, p)' = Receipts(b, p)
  PROVE  ReceiptOf(p)'
BY DEF ReceiptOf

(* Books nobody writes in stay in order. *)
LEMMA BooksUntouched ==
  ASSUME LedgerInv, ReceiptInv, UNCHANGED <<ledger, balance, pay>>,
         \A j \in Adj : adj[j].status = "POSTED" => adj'[j].status = "POSTED"
  PROVE  LedgerInv' /\ ReceiptInv'
<1>1. LedgerInv'
  BY DEF LedgerInv, Reconciled
<1>2. ReceiptInv'
  BY DEF ReceiptInv, ReceiptOf, Receipts
<1> QED BY <1>1, <1>2

(* A month's rent, charged once. *)
LEMMA RentPosted ==
  ASSUME TypeOK, LedgerInv, ReceiptInv, NEW a \in Account, NEW m \in Month,
         PostEntry(a, RentEntry(m)), Unposted(a, <<"RENT", m>>), UNCHANGED <<pay, adj>>
  PROVE  LedgerInv' /\ ReceiptInv'
<1> DEFINE e == RentEntry(m)
<1>1. e \in Entry
  BY EntriesTyped
<1>2. e.ref = <<"RENT", m>> /\ e.type = "CHARGE"
  BY DEF RentEntry, EntryOf
<1>3. e.ref \notin {"PAY"} \X Pay /\ \A j \in Adj : e.ref # <<"ADJ", j>>
  BY <1>2
<1> HIDE DEF e
<1>4. LedgerInv'
  BY <1>1, <1>2, <1>3, PostKeepsLedger DEF e
<1>5. ASSUME NEW p \in Pay PROVE ReceiptOf(p)'
  <2>1. e.ref # <<"PAY", p>>
    BY <1>3
  <2>2. \A b \in Account : Receipts(b, p)' = Receipts(b, p)
    BY <1>1, <2>1, OtherReceipts DEF e
  <2> QED BY <2>2, ReceiptKept DEF ReceiptInv
<1> QED BY <1>4, <1>5 DEF ReceiptInv

(* A receipt, of a payment that has none. *)
LEMMA ReceiptPosted ==
  ASSUME TypeOK, LedgerInv, ReceiptInv, NEW a \in Account, NEW p \in Pay, NEW n \in Amount,
         PostEntry(a, EntryOf(<<"PAY", p>>, "PAYMENT", n)), UNCHANGED adj,
         \A b \in Account : Receipts(b, p) = {},
         pay'[p].acc = a, pay'[p].amount = n, pay'[p].status = "SUCCEEDED",
         \A q \in Pay : q # p => pay'[q] = pay[q]
  PROVE  LedgerInv' /\ ReceiptInv'
<1> DEFINE e == EntryOf(<<"PAY", p>>, "PAYMENT", n)
<1>1. e \in Entry
  <2>1. <<"PAY", p>> \in Refs
    BY DEF Refs
  <2> QED BY <2>1, EntriesTyped
<1>2. e.ref = <<"PAY", p>> /\ e.type = "PAYMENT" /\ e.amount = n
  BY DEF EntryOf
<1> HIDE DEF e
<1>3. Unposted(a, e.ref)
  BY <1>2 DEF Unposted, Receipts
<1>4. LedgerInv'
  <2>1. \A j \in Adj : e.ref # <<"ADJ", j>>
    BY <1>2
  <2> QED BY <1>1, <1>2, <1>3, <2>1, PostKeepsLedger DEF e
<1>5. ReceiptOf(p)'
  <2>1. Receipts(a, p)' = {e} /\ \A b \in Account : b # a => Receipts(b, p)' = {}
    BY <1>1, <1>2, NewReceipt DEF e
  <2> QED BY <1>2, <2>1, NoneAssumption DEF ReceiptOf
<1>6. ASSUME NEW q \in Pay, q # p PROVE ReceiptOf(q)'
  <2>1. e.ref # <<"PAY", q>>
    BY <1>2, <1>6
  <2>2. \A b \in Account : Receipts(b, q)' = Receipts(b, q)
    BY <1>1, <2>1, OtherReceipts DEF e
  <2>3. pay'[q] = pay[q]
    BY <1>6
  <2> QED BY <2>2, <2>3, ReceiptKept DEF ReceiptInv
<1> QED BY <1>4, <1>5, <1>6 DEF ReceiptInv

(* An entry for no account is none. *)
LEMMA NoBooks ==
  ASSUME TypeOK, NEW e, PostEntry(None, e)
  PROVE  UNCHANGED <<ledger, balance>>
BY NoneAssumption DEF PostEntry, TypeOK

(* Whoever bills or settles an account keeps its books. *)
LEMMA BillingBooks ==
  ASSUME TypeOK, LedgerInv, ReceiptInv, Billing
  PROVE  LedgerInv' /\ ReceiptInv'
<1>1. ASSUME NEW a \in Account, SavePlan(a)
      PROVE  LedgerInv' /\ ReceiptInv'
  BY <1>1, BooksUntouched DEF SavePlan, books
<1>2. ASSUME NEW s \in Screen, NEW a \in Account, NEW m \in Month, PreviewBill(s, a, m)
      PROVE  LedgerInv' /\ ReceiptInv'
  BY <1>2, BooksUntouched DEF PreviewBill, books
<1>3. ASSUME NEW s \in Screen, PostBill(s)
      PROVE  LedgerInv' /\ ReceiptInv'
  <2>1. sheet[s].acc \in Account /\ sheet[s].month \in Month
    BY <1>3 DEF PostBill, TypeOK, BillRow
  <2>2. /\ PostEntry(sheet[s].acc, RentEntry(sheet[s].month))
        /\ Unposted(sheet[s].acc, <<"RENT", sheet[s].month>>)
        /\ UNCHANGED <<pay, adj>>
    BY <1>3 DEF PostBill, Billable
  <2> QED BY <2>1, <2>2, RentPosted
<1>4. ASSUME NEW w \in Worker, NEW a \in Account, NEW m \in Month, LegacyCheck(w, a, m)
      PROVE  LedgerInv' /\ ReceiptInv'
  BY <1>4, BooksUntouched DEF LegacyCheck, books
<1>5. ASSUME NEW w \in Worker, LegacyPost(w)
      PROVE  LedgerInv' /\ ReceiptInv'
  <2>1. job[w].acc \in Account \cup {None} /\ job[w].month \in Month
    BY DEF TypeOK, JobRow
  <2>2. /\ PostEntry(job[w].acc, RentEntry(job[w].month))
        /\ Unposted(job[w].acc, <<"RENT", job[w].month>>)
        /\ UNCHANGED <<pay, adj>>
    BY <1>5 DEF LegacyPost
  <2>3. CASE job[w].acc \in Account
    BY <2>1, <2>2, <2>3, RentPosted
  <2>4. CASE job[w].acc = None
    <3>1. UNCHANGED <<ledger, balance>>
      BY <2>2, <2>4, NoBooks
    <3> QED BY <2>2, <3>1, BooksUntouched
  <2> QED BY <2>1, <2>3, <2>4
<1>6. ASSUME NEW w \in Worker, LegacySkip(w)
      PROVE  LedgerInv' /\ ReceiptInv'
  BY <1>6, BooksUntouched DEF LegacySkip, books
<1>7. ASSUME NEW a \in Account, NEW p \in Pay, NEW n \in Amount, ManualReceipt(a, p, n)
      PROVE  LedgerInv' /\ ReceiptInv'
  <2>1. pay[p].status = "NONE"
    BY <1>7 DEF ManualReceipt, NextRow
  <2>2. \A b \in Account : Receipts(b, p) = {}
    BY <2>1, NoneAssumption DEF ReceiptInv, ReceiptOf
  <2>3. /\ pay'[p].acc = a /\ pay'[p].amount = n /\ pay'[p].status = "SUCCEEDED"
        /\ \A q \in Pay : q # p => pay'[q] = pay[q]
    BY <1>7 DEF ManualReceipt, TypeOK
  <2>4. PostEntry(a, EntryOf(<<"PAY", p>>, "PAYMENT", n)) /\ UNCHANGED adj
    BY <1>7 DEF ManualReceipt
  <2> QED BY <2>2, <2>3, <2>4, ReceiptPosted
<1>8. ASSUME NEW a \in Account, NEW p \in Pay, NEW n \in Amount, Checkout(a, p, n)
      PROVE  LedgerInv' /\ ReceiptInv'
  <2>1. pay[p].status = "NONE" /\ UNCHANGED <<ledger, balance, adj>>
    BY <1>8 DEF Checkout, NextRow, books
  <2>2. \A b \in Account : Receipts(b, p) = {}
    BY <2>1, NoneAssumption DEF ReceiptInv, ReceiptOf
  <2>3. /\ pay'[p].acc = a /\ pay'[p].status = "PENDING"
        /\ \A q \in Pay : q # p => pay'[q] = pay[q]
    BY <1>8 DEF Checkout, TypeOK
  <2>4. \A q \in Pay, b \in Account : Receipts(b, q)' = Receipts(b, q)
    BY <2>1 DEF Receipts
  <2>5. ReceiptOf(p)'
    BY <2>2, <2>3, <2>4, NoneAssumption DEF ReceiptOf
  <2>6. ASSUME NEW q \in Pay, q # p PROVE ReceiptOf(q)'
    <3>1. pay'[q] = pay[q]
      BY <2>3, <2>6
    <3> QED BY <2>4, <3>1, ReceiptKept DEF ReceiptInv
  <2>7. LedgerInv'
    BY <2>1 DEF LedgerInv, Reconciled
  <2> QED BY <2>5, <2>6, <2>7 DEF ReceiptInv
<1>9. ASSUME NEW p \in Pay, Settle(p)
      PROVE  LedgerInv' /\ ReceiptInv'
  <2>1. pay[p].status = "PENDING"
    BY <1>9 DEF Settle
  <2>2. \A b \in Account : Receipts(b, p) = {}
    BY <2>1 DEF ReceiptInv, ReceiptOf
  <2>3. pay[p].acc \in Account /\ pay[p].amount \in Amount
    BY <2>1 DEF ReceiptInv, ReceiptOf, TypeOK, PaymentRow
  <2>4. /\ pay'[p].acc = pay[p].acc /\ pay'[p].amount = pay[p].amount /\ pay'[p].status = "SUCCEEDED"
        /\ \A q \in Pay : q # p => pay'[q] = pay[q]
    BY <1>9 DEF Settle, TypeOK, PaymentRow
  <2>5. PostEntry(pay[p].acc, EntryOf(<<"PAY", p>>, "PAYMENT", pay[p].amount)) /\ UNCHANGED adj
    BY <1>9 DEF Settle
  <2> QED BY <2>2, <2>3, <2>4, <2>5, ReceiptPosted
<1> QED BY <1>1, <1>2, <1>3, <1>4, <1>5, <1>6, <1>7, <1>8, <1>9 DEF Billing

-----------------------------------------------------------------------------
(* What a row asks to correct: an account there is; and a payment, which   *)
(* has been received by that account, only by a reversal or a refund.      *)
GivenOf(j) ==
  adj[j].status # "NONE" =>
     /\ adj[j].acc \in Account
     /\ \A p \in Pay : adj[j].source = <<"PAY", p>> =>
           /\ adj[j].kind \in {"REVERSAL", "REFUND"} /\ adj[j].acc = pay[p].acc
           /\ pay[p].status \notin {"NONE", "PENDING"}

GivenInv == \A j \in Adj : GivenOf(j)

(* An adjustment that fits its source corrects a payment of its account    *)
(* that has been received, or none at all.                                 *)
LEMMA FitsGiven ==
  ASSUME TypeOK, LedgerInv, ReceiptInv, NEW a \in Account, NEW kind \in Kinds, NEW n \in Amount,
         NEW src \in Refs \cup {NoRef}, SourceFits(a, kind, n, src)
  PROVE  /\ \A p \in Pay : src = <<"PAY", p>> =>
               /\ kind \in {"REVERSAL", "REFUND"} /\ pay[p].acc = a /\ pay[p].status \in Refundable
               /\ n <= pay[p].amount - Used(a, src)
               /\ kind = "REVERSAL" => Used(a, src) = 0 /\ n = pay[p].amount
         /\ kind \in {"REVERSAL", "REFUND"} => src \in {"PAY"} \X Pay
<1>1. CASE kind = "CHARGE"
  BY <1>1 DEF SourceFits, NoRef
<1>2. CASE kind # "CHARGE"
  <2>1. PICK e \in ledger[a] :
           /\ e.ref = src
           /\ n <= e.amount - Used(a, src)
           /\ kind \in {"CREDIT", "WRITE_OFF"} => e.type = "CHARGE"
           /\ kind \in {"REVERSAL", "REFUND"} =>
                 /\ e.type = "PAYMENT" /\ pay[src[2]].status \in Refundable
                 /\ kind = "REVERSAL" => Used(a, src) = 0 /\ n = e.amount
    BY <1>2 DEF SourceFits
  <2>2. e.type = "PAYMENT" <=> src \in {"PAY"} \X Pay
    BY <2>1 DEF LedgerInv
  <2>3. kind \in {"CREDIT", "WRITE_OFF", "REVERSAL", "REFUND"}
    BY <1>2 DEF Kinds
  <2>4. CASE kind \in {"CREDIT", "WRITE_OFF"}
    <3>1. src \notin {"PAY"} \X Pay
      BY <2>1, <2>2, <2>4
    <3> QED BY <2>4, <3>1
  <2>5. CASE kind \in {"REVERSAL", "REFUND"}
    <3>1. src \in {"PAY"} \X Pay
      BY <2>1, <2>2, <2>5
    <3>2. ASSUME NEW p \in Pay, src = <<"PAY", p>>
          PROVE  pay[p].acc = a /\ e.amount = pay[p].amount /\ pay[p].status \in Refundable
      <4>1. e \in Receipts(a, p)
        BY <2>1, <3>2 DEF Receipts
      <4>2. pay[p].acc = a /\ pay[p].status # "PENDING"
        BY <4>1 DEF ReceiptInv, ReceiptOf
      <4>3. e.amount = pay[p].amount
        BY <4>1, <4>2 DEF ReceiptInv, ReceiptOf
      <4>4. src[2] = p
        BY <3>2
      <4> QED BY <2>1, <2>5, <4>2, <4>3, <4>4
    <3> QED BY <2>1, <2>5, <3>1, <3>2
  <2> QED BY <2>3, <2>4, <2>5
<1> QED BY <1>1, <1>2

(* The same of an adjustment that is decided on. *)
LEMMA ReviewedGiven ==
  ASSUME TypeOK, LedgerInv, ReceiptInv, GivenInv, NEW j \in Adj, adj[j].status # "NONE",
         StillReviewed(j)
  PROVE  /\ adj[j].acc \in Account
         /\ \A p \in Pay : adj[j].source = <<"PAY", p>> =>
               /\ adj[j].kind \in {"REVERSAL", "REFUND"}
               /\ pay[p].acc = adj[j].acc /\ pay[p].status \in Refundable
               /\ adj[j].amount <= pay[p].amount - Used(adj[j].acc, adj[j].source)
               /\ adj[j].kind = "REVERSAL" =>
                     Used(adj[j].acc, adj[j].source) = 0 /\ adj[j].amount = pay[p].amount
         /\ adj[j].kind \in {"REVERSAL", "REFUND"} => adj[j].source \in {"PAY"} \X Pay
<1> DEFINE a == adj[j].acc
           kind == adj[j].kind
           n == adj[j].amount
           src == adj[j].source
<1>1. a \in Account
  BY DEF GivenInv, GivenOf
<1>2. kind \in Kinds /\ n \in Amount /\ src \in Refs \cup {NoRef}
  BY DEF TypeOK, AdjustmentRow
<1>3. SourceFits(a, kind, n, src)
  BY DEF StillReviewed, Review
<1> HIDE DEF a, kind, n, src
<1>4. /\ \A p \in Pay : src = <<"PAY", p>> =>
            /\ kind \in {"REVERSAL", "REFUND"} /\ pay[p].acc = a /\ pay[p].status \in Refundable
            /\ n <= pay[p].amount - Used(a, src)
            /\ kind = "REVERSAL" => Used(a, src) = 0 /\ n = pay[p].amount
      /\ kind \in {"REVERSAL", "REFUND"} => src \in {"PAY"} \X Pay
  BY <1>1, <1>2, <1>3, FitsGiven
<1> QED BY <1>1, <1>4 DEF a, kind, n, src

(* What posting does to the payments: the one it corrects is received, and *)
(* stays so.                                                               *)
LEMMA PaymentsAfter ==
  ASSUME TypeOK, NEW j \in Adj,
         adj[j].kind \in {"REVERSAL", "REFUND"} => adj[j].source \in {"PAY"} \X Pay
  PROVE  \A p \in Pay :
           LET given == IF Used(adj[j].acc, adj[j].source) + adj[j].amount >= pay[p].amount
                        THEN "REFUNDED" ELSE "PARTIALLY_REFUNDED"
           IN  /\ PaymentAfter(j)[p].acc = pay[p].acc
               /\ PaymentAfter(j)[p].amount = pay[p].amount
               /\ PaymentAfter(j)[p].status =
                     IF adj[j].source # <<"PAY", p>> THEN pay[p].status
                     ELSE IF adj[j].kind = "REVERSAL" THEN "REVERSED"
                     ELSE IF adj[j].kind = "REFUND" THEN given
                     ELSE pay[p].status
<1> DEFINE given(p) == IF Used(adj[j].acc, adj[j].source) + adj[j].amount >= pay[p].amount
                       THEN "REFUNDED" ELSE "PARTIALLY_REFUNDED"
           o == adj[j].source[2]
<1>1. PaymentAfter(j) = IF adj[j].kind = "REVERSAL" THEN [pay EXCEPT ![o].status = "REVERSED"]
                        ELSE IF adj[j].kind = "REFUND" THEN [pay EXCEPT ![o].status = given(o)]
                        ELSE pay
  BY DEF PaymentAfter
<1> HIDE DEF given
<1>2. ASSUME NEW x, o \in Pay, NEW p \in Pay
      PROVE  /\ [pay EXCEPT ![o].status = x][p].acc = pay[p].acc
             /\ [pay EXCEPT ![o].status = x][p].amount = pay[p].amount
             /\ [pay EXCEPT ![o].status = x][p].status = IF p = o THEN x ELSE pay[p].status
  <2> HIDE DEF o
  <2> QED BY <1>2 DEF TypeOK, PaymentRow
<1>3. ASSUME NEW p \in Pay
      PROVE  /\ PaymentAfter(j)[p].acc = pay[p].acc
             /\ PaymentAfter(j)[p].amount = pay[p].amount
             /\ PaymentAfter(j)[p].status =
                     IF adj[j].source # <<"PAY", p>> THEN pay[p].status
                     ELSE IF adj[j].kind = "REVERSAL" THEN "REVERSED"
                     ELSE IF adj[j].kind = "REFUND" THEN given(p)
                     ELSE pay[p].status
  <2>1. CASE adj[j].kind \notin {"REVERSAL", "REFUND"}
    BY <1>1, <2>1
  <2>2. CASE adj[j].kind \in {"REVERSAL", "REFUND"}
    <3>1. o \in Pay /\ (adj[j].source = <<"PAY", p>> <=> p = o)
      BY <2>2
    <3> HIDE DEF o
    <3>2. CASE adj[j].kind = "REVERSAL"
      BY <1>1, <1>2, <3>1, <3>2
    <3>3. CASE adj[j].kind = "REFUND"
      BY <1>1, <1>2, <3>1, <3>3
    <3> QED BY <2>2, <3>2, <3>3
  <2> QED BY <2>1, <2>2
<1> QED BY <1>3 DEF given

(* An adjustment is posted once, and leaves every receipt where it is. *)
LEMMA AdjustmentPosted ==
  ASSUME TypeOK, LedgerInv, ReceiptInv, GivenInv, NEW j \in Adj, adj[j].status \in Open,
         StillReviewed(j), PostAdjustment(j)
  PROVE  LedgerInv' /\ ReceiptInv'
<1> DEFINE a == adj[j].acc
           e == EntryOf(<<"ADJ", j>>, adj[j].kind, adj[j].amount)
<1>1. adj[j].status \notin {"NONE", "POSTED"} /\ a \in Account
  BY ReviewedGiven DEF Open
<1>2. adj[j].kind \in Kinds /\ adj[j].amount \in Amount
  BY DEF TypeOK, AdjustmentRow
<1>3. e \in Entry
  <2>1. <<"ADJ", j>> \in Refs
    BY DEF Refs
  <2> QED BY <1>2, <2>1, EntriesTyped
<1>4. e.ref = <<"ADJ", j>> /\ e.type # "PAYMENT"
  BY <1>2 DEF EntryOf, Kinds
<1>5. \A i \in Adj : e.ref = <<"ADJ", i>> => i = j
  BY <1>4
<1>6. PostEntry(a, e)
  BY DEF PostAdjustment
<1>7. /\ adj'[j].status = "POSTED"
      /\ \A i \in Adj : i # j => adj'[i] = adj[i]
  <2>1. adj' = [adj EXCEPT ![j] = Closed(j, "POSTED")] /\ adj \in [Adj -> AdjustmentRow]
    BY DEF PostAdjustment, TypeOK
  <2>2. Closed(j, "POSTED").status = "POSTED"
    BY ClosedKeeps DEF AdjustmentStatus
  <2> QED BY <2>1, <2>2
<1> HIDE DEF e
<1>8. LedgerInv'
  <2>1. Unposted(a, e.ref)
    BY <1>1, <1>4 DEF Unposted, LedgerInv
  <2>2. e.type = "PAYMENT" <=> e.ref \in {"PAY"} \X Pay
    BY <1>4
  <2> HIDE DEF a
  <2> QED BY <1>1, <1>3, <1>5, <1>6, <1>7, <2>1, <2>2, PostKeepsLedger
<1>9. ASSUME NEW p \in Pay PROVE ReceiptOf(p)'
  <2>1. e.ref # <<"PAY", p>>
    BY <1>4
  <2>2. \A b \in Account : Receipts(b, p)' = Receipts(b, p)
    BY <1>1, <1>3, <1>6, <2>1, OtherReceipts
  <2>3. /\ pay'[p].acc = pay[p].acc /\ pay'[p].amount = pay[p].amount
        /\ \/ pay'[p].status = pay[p].status
           \/ /\ pay[p].status \in Refundable
              /\ pay'[p].status \in {"REVERSED", "REFUNDED", "PARTIALLY_REFUNDED"}
    BY <1>1, ReviewedGiven, PaymentsAfter DEF PostAdjustment
  <2>4. /\ pay'[p].status = "PENDING" <=> pay[p].status = "PENDING"
        /\ pay'[p].status = "NONE" <=> pay[p].status = "NONE"
    BY <2>3 DEF Refundable
  <2> QED BY <2>2, <2>3, <2>4, ReceiptKept DEF ReceiptInv
<1> QED BY <1>8, <1>9 DEF ReceiptInv

(* A decision posts its adjustment, still on the reviewed figures, or      *)
(* leaves books and payments alone.                                        *)
LEMMA Posting ==
  ASSUME TypeOK, NEW c \in Clerk, NEW j \in Adj,
         Approve(c, j) \/ Reject(c, j) \/ Cancel(c, j) \/ RecordPayout(c, j)
  PROVE  \/ StillReviewed(j) /\ PostAdjustment(j)
         \/ adj'[j].status # "POSTED" /\ UNCHANGED <<ledger, balance, pay>>
<1>0. adj[j] \in AdjustmentRow /\ adj \in [Adj -> AdjustmentRow]
  BY DEF TypeOK
<1>1. CASE Approve(c, j)
  <2>1. CASE adj[j].kind = "REFUND"
    <3>1. adj'[j].status = "APPROVED"
      BY <1>0, <1>1, <2>1 DEF Approve, AdjustmentRow
    <3> QED BY <1>1, <2>1, <3>1 DEF Approve, books
  <2>2. CASE adj[j].kind # "REFUND"
    BY <1>1, <2>2 DEF Approve
  <2> QED BY <2>1, <2>2
<1>2. CASE Reject(c, j)
  <2>1. adj'[j] = Closed(j, "REJECTED") /\ UNCHANGED <<ledger, balance, pay>>
    BY <1>0, <1>2 DEF Reject, books
  <2> QED BY <2>1, ClosedKeeps DEF AdjustmentStatus
<1>3. CASE Cancel(c, j)
  <2>1. adj'[j] = Closed(j, "CANCELLED") /\ UNCHANGED <<ledger, balance, pay>>
    BY <1>0, <1>3 DEF Cancel, books
  <2> QED BY <2>1, ClosedKeeps DEF AdjustmentStatus
<1>4. CASE RecordPayout(c, j)
  BY <1>4 DEF RecordPayout
<1> QED BY <1>1, <1>2, <1>3, <1>4

(* Whoever corrects an account keeps its books. *)
LEMMA AdjustmentBooks ==
  ASSUME TypeOK, LedgerInv, ReceiptInv, GivenInv, Adjustments
  PROVE  LedgerInv' /\ ReceiptInv'
<1>1. ASSUME NEW c \in Clerk, NEW a \in Account, NEW j \in Adj, NEW kind \in Kinds, NEW n \in Amount,
             NEW src \in Refs \cup {NoRef}, RequestAdjustment(c, a, j, kind, n, src)
      PROVE  LedgerInv' /\ ReceiptInv'
  <2>1. \A i \in Adj : adj[i].status = "POSTED" => adj'[i].status = "POSTED"
    BY <1>1 DEF RequestAdjustment, NextRow, TypeOK
  <2> QED BY <1>1, <2>1, BooksUntouched DEF RequestAdjustment, books
<1>2. ASSUME NEW c \in Clerk, NEW j \in Adj,
             Approve(c, j) \/ Reject(c, j) \/ Cancel(c, j) \/ RecordPayout(c, j)
      PROVE  LedgerInv' /\ ReceiptInv'
  <2>1. Decides(j)
    BY <1>2, Deciding
  <2>2. adj[j].status \in Open
    BY <2>1 DEF Decides
  <2>3. CASE StillReviewed(j) /\ PostAdjustment(j)
    BY <2>2, <2>3, AdjustmentPosted
  <2>4. CASE UNCHANGED <<ledger, balance, pay>>
    <3>1. \A i \in Adj : adj[i].status = "POSTED" => adj'[i].status = "POSTED"
      BY <2>1, <2>2 DEF Decides, Open, TypeOK
    <3> QED BY <2>4, <3>1, BooksUntouched
  <2> QED BY <1>2, <2>3, <2>4, Posting
<1>3. CASE RecordStep
  BY <1>3, RecordStepKeeps, BooksUntouched
<1> QED BY <1>1, <1>2, <1>3, AdjustmentSteps

-----------------------------------------------------------------------------
(* A request that is kept stands on a payment that is as it was: received, *)
(* by the same account.                                                    *)
LEMMA GivenKept ==
  ASSUME NEW j \in Adj, GivenOf(j),
         adj'[j].status # "NONE" => SameRequest(adj'[j], j) /\ adj[j].status # "NONE",
         \A p \in Pay : pay[p].status \notin {"NONE", "PENDING"} =>
            pay'[p].acc = pay[p].acc /\ pay'[p].status \notin {"NONE", "PENDING"}
  PROVE  GivenOf(j)'
BY DEF GivenOf, SameRequest

(* A payment that has been received stays received. *)
LEMMA ReceivedStays ==
  ASSUME TypeOK, LedgerInv, ReceiptInv, GivenInv, [Next]_vars,
         NEW p \in Pay, pay[p].status \notin {"NONE", "PENDING"}
  PROVE  pay'[p].acc = pay[p].acc /\ pay'[p].status \notin {"NONE", "PENDING"}
<1>1. CASE Billing
  <2>1. ASSUME NEW a \in Account, NEW q \in Pay, NEW n \in Amount,
               ManualReceipt(a, q, n) \/ Checkout(a, q, n)
        PROVE  pay'[p] = pay[p]
    <3>1. pay[q].status = "NONE"
      BY <2>1 DEF ManualReceipt, Checkout, NextRow
    <3> QED BY <2>1, <3>1 DEF ManualReceipt, Checkout, TypeOK
  <2>2. ASSUME NEW q \in Pay, Settle(q)
        PROVE  pay'[p] = pay[p]
    BY <2>2 DEF Settle, TypeOK
  <2>3. \/ \E a \in Account, q \in Pay, n \in Amount : ManualReceipt(a, q, n) \/ Checkout(a, q, n)
        \/ \E q \in Pay : Settle(q)
        \/ UNCHANGED pay
    BY <1>1 DEF Billing, SavePlan, PreviewBill, PostBill, LegacyCheck, LegacyPost, LegacySkip
  <2>4. pay'[p] = pay[p]
    BY <2>1, <2>2, <2>3
  <2> QED BY <2>4
<1>2. CASE Adjustments
  <2>1. ASSUME NEW c \in Clerk, NEW j \in Adj,
               Approve(c, j) \/ Reject(c, j) \/ Cancel(c, j) \/ RecordPayout(c, j)
        PROVE  pay'[p].acc = pay[p].acc /\ pay'[p].status \notin {"NONE", "PENDING"}
    <3>1. adj[j].status # "NONE"
      BY <2>1, Deciding DEF Decides, Open
    <3>2. CASE StillReviewed(j) /\ PostAdjustment(j)
      BY <3>1, <3>2, ReviewedGiven, PaymentsAfter DEF PostAdjustment
    <3>3. CASE UNCHANGED pay
      BY <3>3
    <3> QED BY <2>1, <3>2, <3>3, Posting
  <2>2. ASSUME NEW c \in Clerk, NEW a \in Account, NEW j \in Adj, NEW kind \in Kinds,
               NEW n \in Amount, NEW src \in Refs \cup {NoRef},
               RequestAdjustment(c, a, j, kind, n, src)
        PROVE  UNCHANGED pay
    BY <2>2 DEF RequestAdjustment
  <2> QED BY <1>2, <2>1, <2>2, AdjustmentSteps, RecordStepKeeps
<1>3. CASE DebitRuns \/ UNCHANGED vars
  BY <1>3, DebitRunsKeep DEF vars
<1> QED BY <1>1, <1>2, <1>3 DEF Next

(* Requests stay about received payments. *)
LEMMA GivenStep ==
  ASSUME TypeOK, LedgerInv, ReceiptInv, GivenInv, [Next]_vars
  PROVE  GivenInv'
<1> SUFFICES ASSUME NEW j \in Adj PROVE GivenOf(j)'
  BY DEF GivenInv
<1>0. GivenOf(j)
  BY DEF GivenInv
<1>1. \A p \in Pay : pay[p].status \notin {"NONE", "PENDING"} =>
         pay'[p].acc = pay[p].acc /\ pay'[p].status \notin {"NONE", "PENDING"}
  BY ReceivedStays
<1>2. ASSUME adj'[j] = adj[j] PROVE GivenOf(j)'
  BY <1>0, <1>1, <1>2 DEF GivenOf
<1>3. ASSUME NEW c \in Clerk, NEW i \in Adj,
             Approve(c, i) \/ Reject(c, i) \/ Cancel(c, i) \/ RecordPayout(c, i)
      PROVE  GivenOf(j)'
  <2>1. Decides(i)
    BY <1>3, Deciding
  <2>2. CASE i = j
    <3>1. SameRequest(adj'[j], j) /\ adj[j].status # "NONE"
      BY <2>1, <2>2 DEF Decides, Open, TypeOK
    <3> QED BY <1>0, <1>1, <3>1, GivenKept
  <2>3. CASE i # j
    <3>1. adj'[j] = adj[j]
      BY <2>1, <2>3 DEF Decides, TypeOK
    <3> QED BY <1>2, <3>1
  <2> QED BY <2>2, <2>3
<1>4. ASSUME NEW c \in Clerk, NEW a \in Account, NEW i \in Adj, NEW kind \in Kinds, NEW n \in Amount,
             NEW src \in Refs \cup {NoRef}, RequestAdjustment(c, a, i, kind, n, src)
      PROVE  GivenOf(j)'
  <2>1. CASE i = j
    <3>1. adj'[j].acc = a /\ adj'[j].kind = kind /\ adj'[j].source = src
      BY <1>4, <2>1 DEF RequestAdjustment, TypeOK
    <3>2. SourceFits(a, kind, n, src) /\ UNCHANGED pay
      BY <1>4 DEF RequestAdjustment, Review
    <3>3. \A p \in Pay : src = <<"PAY", p>> =>
             kind \in {"REVERSAL", "REFUND"} /\ pay[p].acc = a /\ pay[p].status \in Refundable
      BY <3>2, FitsGiven
    <3> QED BY <3>1, <3>2, <3>3 DEF GivenOf, Refundable
  <2>2. CASE i # j
    <3>1. adj'[j] = adj[j]
      BY <1>4, <2>2 DEF RequestAdjustment, TypeOK
    <3> QED BY <1>2, <3>1
  <2> QED BY <2>1, <2>2
<1>5. CASE Billing \/ DebitRuns \/ RecordStep \/ UNCHANGED vars
  <2>1. adj' = adj
    BY <1>5, BillingKeepsDecisions, DebitRunsKeep, RecordStepKeeps DEF vars
  <2> QED BY <1>2, <2>1
<1> QED BY <1>3, <1>4, <1>5, AdjustmentSteps DEF Next

(* Every step keeps the books. *)
BooksInv == LedgerInv /\ ReceiptInv /\ GivenInv

(* The steps of the three parts together. *)
LEMMA BooksStep == TypeOK /\ BooksInv /\ [Next]_vars => BooksInv'
<1> SUFFICES ASSUME TypeOK, BooksInv, [Next]_vars PROVE BooksInv'
  OBVIOUS
<1>1. LedgerInv /\ ReceiptInv /\ GivenInv
  BY DEF BooksInv
<1>2. GivenInv'
  BY <1>1, GivenStep
<1>3. CASE Billing
  BY <1>1, <1>2, <1>3, BillingBooks DEF BooksInv
<1>4. CASE Adjustments
  BY <1>1, <1>2, <1>4, AdjustmentBooks DEF BooksInv
<1>5. CASE DebitRuns \/ UNCHANGED vars
  <2>1. UNCHANGED <<ledger, balance, pay, adj>>
    BY <1>5, DebitRunsKeep DEF vars
  <2> QED BY <1>1, <1>2, <2>1, BooksUntouched DEF BooksInv
<1> QED BY <1>3, <1>4, <1>5 DEF Next

(* Nothing has been corrected of a new account. *)
LEMMA BooksStart == Init => BooksInv
<1>1. Init => GivenInv
  BY DEF Init, GivenInv, GivenOf, NoAdjustment
<1> QED BY <1>1, BooksInit DEF BooksInv

(* Every balance is what its ledger adds up to, and a payment is in the    *)
(* ledger exactly when it has been received.                               *)
THEOREM BooksKept == Spec => []BooksAgree
<1>1. Init => BooksInv
  BY BooksStart
<1>2. TypeOK /\ BooksInv /\ [Next]_vars => BooksInv'
  BY BooksStep
<1>3. TypeOK /\ BooksInv => BooksAgree
  <2> SUFFICES ASSUME TypeOK, LedgerInv, ReceiptInv PROVE BooksAgree
    BY DEF BooksInv
  <2>1. \A a \in Account : Reconciled(a)
    BY DEF LedgerInv
  <2>2. ASSUME NEW p \in Pay, pay[p].acc # None
        PROVE  IF pay[p].status = "PENDING" THEN Receipts(pay[p].acc, p) = {}
               ELSE \E e \in Receipts(pay[p].acc, p) :
                       Receipts(pay[p].acc, p) = {e} /\ e.amount = pay[p].amount
    <3>1. pay[p].acc \in Account
      BY <2>2 DEF TypeOK, PaymentRow
    <3> QED BY <3>1 DEF ReceiptInv, ReceiptOf
  <2>3. PaymentsBooked
    BY <2>2 DEF PaymentsBooked, Receipts
  <2> QED BY <2>1, <2>3 DEF BooksAgree
<1> QED BY <1>1, <1>2, <1>3, FinanceTyped, PTL DEF Spec

-----------------------------------------------------------------------------
(* What has been used of an entry that nothing corrects is nothing. *)
LEMMA UsedNothing ==
  ASSUME NEW a, NEW src, Uses(a, src) = {}
  PROVE  Used(a, src) = 0
<1>1. DOMAIN [j \in Uses(a, src) |-> adj[j].amount] = {}
  OBVIOUS
<1> QED BY <1>1, SumEmpty DEF Used

(* What has been used of an entry stays while nothing is posted. *)
LEMMA UsedStays ==
  ASSUME \A i \in Adj : /\ adj'[i].status = "POSTED" <=> adj[i].status = "POSTED"
                        /\ adj[i].status = "POSTED" => adj'[i] = adj[i],
         NEW a, NEW src
  PROVE  Used(a, src)' = Used(a, src)
<1>1. Uses(a, src)' = Uses(a, src)
  BY DEF Uses
<1>2. \A i \in Uses(a, src) : adj'[i].amount = adj[i].amount
  BY DEF Uses
<1>3. [i \in Uses(a, src)' |-> adj'[i].amount] = [i \in Uses(a, src) |-> adj[i].amount]
  BY <1>1, <1>2
<1> QED BY <1>3 DEF Used

(* Posting an adjustment uses its amount of its source, and of no other.   *)
LEMMA UsedPosted ==
  ASSUME TypeOK, TypeOK', NEW j \in Adj, adj[j].status # "POSTED", adj'[j].status = "POSTED",
         adj'[j].acc = adj[j].acc, adj'[j].source = adj[j].source, adj'[j].amount = adj[j].amount,
         \A i \in Adj : i # j => adj'[i] = adj[i],
         NEW a, NEW src
  PROVE  /\ Used(a, src) \in Int
         /\ a = adj[j].acc /\ src = adj[j].source =>
               Used(a, src)' = Used(a, src) + adj[j].amount
         /\ ~ (a = adj[j].acc /\ src = adj[j].source) => Used(a, src)' = Used(a, src)
<1> DEFINE U == Uses(a, src)
           T == U \cup {j}
           f == [i \in T |-> adj'[i].amount]
           g == [i \in U |-> adj[i].amount]
<1>1. U \subseteq Adj /\ j \notin U /\ T \subseteq Adj
  BY DEF Uses
<1>2. IsFiniteSet(Adj)
  BY BoundsAssumption, FS_Interval DEF Adj
<1>3. IsFiniteSet(U)
  BY <1>1, <1>2, FS_Subset
<1>4. \A i \in Adj : adj[i].amount \in Int /\ adj'[i].amount \in Int
  BY DEF TypeOK, AdjustmentRow, Amount
<1>5. g \in [U -> Int] /\ f \in [U \cup {j} -> Int]
  BY <1>1, <1>4
<1>6. \A i \in U : f[i] = g[i]
  BY <1>1
<1>7. f[j] = adj[j].amount
  OBVIOUS
<1>8. Used(a, src) = SumFunction(g)
  BY DEF Used
<1>9. a = adj[j].acc /\ src = adj[j].source => Used(a, src)' = SumFunction(f)
  <2> SUFFICES ASSUME a = adj[j].acc, src = adj[j].source PROVE Used(a, src)' = SumFunction(f)
    OBVIOUS
  <2>1. Uses(a, src)' = T
    BY DEF Uses
  <2> QED BY <2>1 DEF Used
<1>10. ~ (a = adj[j].acc /\ src = adj[j].source) => Used(a, src)' = SumFunction(g)
  <2> SUFFICES ASSUME ~ (a = adj[j].acc /\ src = adj[j].source) PROVE Used(a, src)' = SumFunction(g)
    OBVIOUS
  <2>1. Uses(a, src)' = U
    BY DEF Uses
  <2>2. [i \in U |-> adj'[i].amount] = g
    BY <1>1
  <2> QED BY <2>1, <2>2 DEF Used
<1> HIDE DEF f, g, T, U
<1>11. SumFunction(f) = f[j] + SumFunction(g) /\ SumFunction(g) \in Int
  BY <1>1, <1>3, <1>5, <1>6, SumAdds
<1>12. adj[j].amount \in Int
  BY <1>4
<1> QED BY <1>7, <1>8, <1>9, <1>10, <1>11, <1>12

(* How much of a payment has been given back, and that its status says it. *)
WithinOf(p) ==
  LET used == Used(pay[p].acc, <<"PAY", p>>)
  IN  /\ pay[p].status \in {"PENDING", "SUCCEEDED"} => used = 0
      /\ pay[p].status = "PARTIALLY_REFUNDED" => used \in 1 .. pay[p].amount - 1
      /\ pay[p].status \in {"REFUNDED", "REVERSED"} => used = pay[p].amount

WithinInv == \A p \in Pay : WithinOf(p)

(* A payment that is as it was, and of which nothing is posted. *)
LEMMA WithinKept ==
  ASSUME WithinInv, NEW p \in Pay, pay'[p] = pay[p],
         \A a : Used(a, <<"PAY", p>>)' = Used(a, <<"PAY", p>>)
  PROVE  WithinOf(p)'
<1>1. WithinOf(p)
  BY DEF WithinInv
<1>2. PICK a : a = pay[p].acc
  OBVIOUS
<1>3. pay'[p].acc = a
  BY <1>2
<1>4. Used(a, <<"PAY", p>>)' = Used(a, <<"PAY", p>>)
  OBVIOUS
<1> QED BY <1>1, <1>2, <1>3, <1>4 DEF WithinOf

(* Nothing has been given back of a payment that has not been received.    *)
LEMMA NothingGiven ==
  ASSUME GivenInv, NEW p \in Pay, pay[p].status \in {"NONE", "PENDING"}
  PROVE  \A a : Used(a, <<"PAY", p>>) = 0
<1> TAKE a
<1>1. Uses(a, <<"PAY", p>>) = {}
  BY DEF GivenInv, GivenOf, Uses
<1> QED BY <1>1, UsedNothing

(* Billing and receipts give nothing back. *)
LEMMA BillingWithin ==
  ASSUME TypeOK, GivenInv, WithinInv, Billing
  PROVE  WithinInv'
<1> SUFFICES ASSUME NEW p \in Pay PROVE WithinOf(p)'
  BY DEF WithinInv
<1>1. adj' = adj
  BY BillingKeepsDecisions
<1>2. \A src : \A a : Used(a, src)' = Used(a, src)
  BY <1>1, UsedStays
<1>3. ASSUME pay'[p] = pay[p] PROVE WithinOf(p)'
  BY <1>2, <1>3, WithinKept
<1>4. ASSUME pay[p].status \in {"NONE", "PENDING"}, pay'[p].status \in {"PENDING", "SUCCEEDED"}
      PROVE  WithinOf(p)'
  <2>1. \A a : Used(a, <<"PAY", p>>)' = 0
    BY <1>2, <1>4, NothingGiven
  <2>2. PICK a : a = pay'[p].acc
    OBVIOUS
  <2>3. Used(a, <<"PAY", p>>)' = 0
    BY <2>1
  <2> QED BY <1>4, <2>2, <2>3 DEF WithinOf
<1>5. ASSUME NEW a \in Account, NEW q \in Pay, NEW n \in Amount,
             ManualReceipt(a, q, n) \/ Checkout(a, q, n)
      PROVE  WithinOf(p)'
  <2>1. CASE q = p
    <3>1. pay[p].status = "NONE"
      BY <1>5, <2>1 DEF ManualReceipt, Checkout, NextRow
    <3>2. pay'[p].status \in {"PENDING", "SUCCEEDED"}
      BY <1>5, <2>1 DEF ManualReceipt, Checkout, TypeOK
    <3> QED BY <1>4, <3>1, <3>2
  <2>2. CASE q # p
    <3>1. pay'[p] = pay[p]
      BY <1>5, <2>2 DEF ManualReceipt, Checkout, TypeOK
    <3> QED BY <1>3, <3>1
  <2> QED BY <2>1, <2>2
<1>6. ASSUME NEW q \in Pay, Settle(q)
      PROVE  WithinOf(p)'
  <2>1. CASE q = p
    <3>1. pay[p].status = "PENDING" /\ pay'[p].status = "SUCCEEDED"
      BY <1>6, <2>1 DEF Settle, TypeOK, PaymentRow
    <3> QED BY <1>4, <3>1
  <2>2. CASE q # p
    <3>1. pay'[p] = pay[p]
      BY <1>6, <2>2 DEF Settle, TypeOK
    <3> QED BY <1>3, <3>1
  <2> QED BY <2>1, <2>2
<1>7. \/ \E a \in Account, q \in Pay, n \in Amount : ManualReceipt(a, q, n) \/ Checkout(a, q, n)
      \/ \E q \in Pay : Settle(q)
      \/ pay' = pay
  BY DEF Billing, SavePlan, PreviewBill, PostBill, LegacyCheck, LegacyPost, LegacySkip
<1> QED BY <1>3, <1>5, <1>6, <1>7

(* Neither does a decision that does not post. *)
LEMMA UnpostedWithin ==
  ASSUME WithinInv, UNCHANGED pay,
         \A i \in Adj : /\ adj'[i].status = "POSTED" <=> adj[i].status = "POSTED"
                        /\ adj[i].status = "POSTED" => adj'[i] = adj[i]
  PROVE  WithinInv'
<1>1. \A src : \A a : Used(a, src)' = Used(a, src)
  BY UsedStays
<1> QED BY <1>1, WithinKept DEF WithinInv

(* A posted adjustment takes what is left of its payment, or less.         *)
LEMMA PostedWithin ==
  ASSUME TypeOK, TypeOK', LedgerInv, ReceiptInv, GivenInv, WithinInv, NEW j \in Adj,
         adj[j].status \in Open, StillReviewed(j), PostAdjustment(j)
  PROVE  WithinInv'
<1> SUFFICES ASSUME NEW p \in Pay PROVE WithinOf(p)'
  BY DEF WithinInv
<1>1. adj[j].status \notin {"NONE", "POSTED"} /\ adj[j].amount \in Amount
  BY DEF Open, TypeOK, AdjustmentRow
<1>2. /\ adj'[j].status = "POSTED" /\ adj'[j].acc = adj[j].acc
      /\ adj'[j].source = adj[j].source /\ adj'[j].amount = adj[j].amount
      /\ \A i \in Adj : i # j => adj'[i] = adj[i]
  <2>1. adj' = [adj EXCEPT ![j] = Closed(j, "POSTED")] /\ adj \in [Adj -> AdjustmentRow]
    BY DEF PostAdjustment, TypeOK
  <2>2. "POSTED" \in AdjustmentStatus
    BY DEF AdjustmentStatus
  <2> QED BY <2>1, <2>2, ClosedKeeps
<1>3. \A a, src : /\ Used(a, src) \in Int
                  /\ a = adj[j].acc /\ src = adj[j].source =>
                        Used(a, src)' = Used(a, src) + adj[j].amount
                  /\ ~ (a = adj[j].acc /\ src = adj[j].source) => Used(a, src)' = Used(a, src)
  BY <1>1, <1>2, UsedPosted
<1>4. pay' = PaymentAfter(j)
  BY DEF PostAdjustment
<1>5. adj[j].kind \in {"REVERSAL", "REFUND"} => adj[j].source \in {"PAY"} \X Pay
  BY <1>1, ReviewedGiven
<1>6. CASE adj[j].source # <<"PAY", p>>
  <2>1. /\ pay'[p].acc = pay[p].acc /\ pay'[p].amount = pay[p].amount
        /\ pay'[p].status = pay[p].status
    BY <1>4, <1>5, <1>6, PaymentsAfter
  <2>2. \A a : Used(a, <<"PAY", p>>)' = Used(a, <<"PAY", p>>)
    BY <1>3, <1>6
  <2>3. PICK a : a = pay[p].acc
    OBVIOUS
  <2>4. pay'[p].acc = a /\ Used(a, <<"PAY", p>>)' = Used(a, <<"PAY", p>>) /\ WithinOf(p)
    BY <2>1, <2>2, <2>3 DEF WithinInv
  <2> QED BY <2>1, <2>3, <2>4 DEF WithinOf
<1>7. CASE adj[j].source = <<"PAY", p>>
  <2>1. /\ adj[j].kind \in {"REVERSAL", "REFUND"} /\ pay[p].acc = adj[j].acc
        /\ pay[p].status \in Refundable
        /\ adj[j].amount <= pay[p].amount - Used(adj[j].acc, adj[j].source)
        /\ adj[j].kind = "REVERSAL" =>
              Used(adj[j].acc, adj[j].source) = 0 /\ adj[j].amount = pay[p].amount
    BY <1>1, <1>7, ReviewedGiven
  <2>2. PICK a : a = adj[j].acc
    OBVIOUS
  <2>3. PICK used : used = Used(a, <<"PAY", p>>)
    OBVIOUS
  <2>4. PICK n : n = adj[j].amount
    OBVIOUS
  <2>5. /\ pay'[p].acc = a /\ pay'[p].amount = pay[p].amount
        /\ pay'[p].status = IF adj[j].kind = "REVERSAL" THEN "REVERSED"
                            ELSE IF used + n >= pay[p].amount THEN "REFUNDED"
                            ELSE "PARTIALLY_REFUNDED"
    BY <1>4, <1>5, <1>7, <2>1, <2>2, <2>3, <2>4, PaymentsAfter
  <2>6. Used(a, <<"PAY", p>>)' = used + n /\ used \in Int
    BY <1>3, <1>7, <2>2, <2>3, <2>4
  <2>7. n \in Int /\ n >= 1 /\ pay[p].amount \in Int /\ n <= pay[p].amount - used
        /\ (adj[j].kind = "REVERSAL" => used = 0 /\ n = pay[p].amount)
    BY <1>1, <1>7, <2>1, <2>2, <2>3, <2>4 DEF Amount, TypeOK, PaymentRow
  <2>8. used >= 0
    <3>1. WithinOf(p) /\ pay[p].acc = a
      BY <2>1, <2>2 DEF WithinInv
    <3>2. pay[p].status = "SUCCEEDED" => used = 0
      BY <2>3, <3>1 DEF WithinOf
    <3>3. pay[p].status = "PARTIALLY_REFUNDED" => used \in 1 .. pay[p].amount - 1
      BY <2>3, <3>1 DEF WithinOf
    <3> QED BY <2>1, <2>6, <2>7, <3>2, <3>3 DEF Refundable
  <2>9. CASE pay'[p].status = "PARTIALLY_REFUNDED"
    <3>1. used + n \in 1 .. pay[p].amount - 1
      BY <2>5, <2>6, <2>7, <2>8, <2>9
    <3> QED BY <2>5, <2>6, <2>9, <3>1 DEF WithinOf
  <2>10. CASE pay'[p].status \in {"REVERSED", "REFUNDED"}
    <3>1. used + n = pay[p].amount
      BY <2>1, <2>5, <2>6, <2>7, <2>10
    <3> QED BY <2>5, <2>6, <2>10, <3>1 DEF WithinOf
  <2> QED BY <2>5, <2>9, <2>10
<1> QED BY <1>6, <1>7

(* Every step keeps what is given back within what came in. *)
LEMMA WithinStep ==
  ASSUME TypeOK, BooksInv, WithinInv, [Next]_vars
  PROVE  WithinInv'
<1>0. LedgerInv /\ ReceiptInv /\ GivenInv
  BY DEF BooksInv
<1>1. ASSUME NEW c \in Clerk, NEW a \in Account, NEW j \in Adj, NEW kind \in Kinds, NEW n \in Amount,
             NEW src \in Refs \cup {NoRef}, RequestAdjustment(c, a, j, kind, n, src)
      PROVE  WithinInv'
  <2>1. \A i \in Adj : /\ adj'[i].status = "POSTED" <=> adj[i].status = "POSTED"
                       /\ adj[i].status = "POSTED" => adj'[i] = adj[i]
    BY <1>1 DEF RequestAdjustment, NextRow, TypeOK
  <2> QED BY <1>1, <2>1, UnpostedWithin DEF RequestAdjustment
<1>2. ASSUME NEW c \in Clerk, NEW j \in Adj,
             Approve(c, j) \/ Reject(c, j) \/ Cancel(c, j) \/ RecordPayout(c, j)
      PROVE  WithinInv'
  <2>1. Decides(j) /\ adj[j].status \in Open
    BY <1>2, Deciding DEF Decides
  <2>2. CASE StillReviewed(j) /\ PostAdjustment(j)
    <3>1. TypeOK'
      BY <2>2, PostAdjustmentTyped
    <3> QED BY <1>0, <2>1, <2>2, <3>1, PostedWithin
  <2>3. CASE adj'[j].status # "POSTED" /\ UNCHANGED pay
    <3>1. \A i \in Adj : i # j => adj'[i] = adj[i]
      BY <2>1 DEF Decides, TypeOK
    <3>2. adj[j].status # "POSTED"
      BY <2>1 DEF Open
    <3> QED BY <2>3, <3>1, <3>2, UnpostedWithin
  <2> QED BY <1>2, <2>2, <2>3, Posting
<1>3. CASE RecordStep \/ DebitRuns \/ UNCHANGED vars
  <2>1. UNCHANGED <<pay, adj>>
    BY <1>3, RecordStepKeeps, DebitRunsKeep DEF vars
  <2> QED BY <2>1, UnpostedWithin
<1>4. CASE Billing
  BY <1>0, <1>4, BillingWithin
<1> QED BY <1>1, <1>2, <1>3, <1>4, AdjustmentSteps DEF Next

(* No more of a payment is given back than it brought in, and its status   *)
(* says how much has been.                                                 *)
THEOREM RefundsWithinPayments == Spec => []RefundWithinPayment
<1>1. Init => WithinInv
  <2> SUFFICES ASSUME Init, NEW p \in Pay PROVE WithinOf(p)
    BY DEF WithinInv
  <2>1. pay[p].status = "NONE"
    BY DEF Init, NoPayment
  <2> QED BY <2>1 DEF WithinOf
<1>2. TypeOK /\ BooksInv /\ WithinInv /\ [Next]_vars => WithinInv'
  BY WithinStep
<1>3. TypeOK /\ BooksInv /\ [Next]_vars => BooksInv'
  BY BooksStep
<1>4. TypeOK /\ BooksInv /\ WithinInv => RefundWithinPayment
  <2> SUFFICES ASSUME TypeOK, BooksInv, WithinInv PROVE RefundWithinPayment
    OBVIOUS
  <2> DEFINE used(p) == Used(pay[p].acc, <<"PAY", p>>)
  <2>1. ASSUME NEW p \in Pay, pay[p].acc # None
        PROVE  /\ pay[p].status \in PaymentStatus \ {"NONE"}
               /\ pay[p].status \in {"PENDING", "SUCCEEDED"} => used(p) = 0
               /\ pay[p].status = "PARTIALLY_REFUNDED" => used(p) \in 1 .. pay[p].amount - 1
               /\ pay[p].status \in {"REFUNDED", "REVERSED"} => used(p) = pay[p].amount
    <3>1. pay[p].status \in PaymentStatus
      BY DEF TypeOK, PaymentRow
    <3>2. pay[p].status # "NONE"
      BY <2>1 DEF BooksInv, ReceiptInv, ReceiptOf
    <3> QED BY <3>1, <3>2 DEF WithinInv, WithinOf
  <2>2. ASSUME NEW p \in Pay, pay[p].acc # None
        PROVE  CASE pay[p].status \in {"PENDING", "SUCCEEDED"}  -> used(p) = 0
                 [] pay[p].status = "PARTIALLY_REFUNDED"        -> used(p) \in 1 .. pay[p].amount - 1
                 [] pay[p].status \in {"REFUNDED", "REVERSED"}  -> used(p) = pay[p].amount
    <3> HIDE DEF used
    <3>1. \/ pay[p].status \in {"PENDING", "SUCCEEDED"}
          \/ pay[p].status = "PARTIALLY_REFUNDED"
          \/ pay[p].status \in {"REFUNDED", "REVERSED"}
      BY <2>1, <2>2 DEF PaymentStatus
    <3> QED BY <2>1, <2>2, <3>1
  <2> QED BY <2>2 DEF RefundWithinPayment
<1> QED BY <1>1, <1>2, <1>3, <1>4, BooksStart, FinanceTyped, PTL DEF Spec
=============================================================================
