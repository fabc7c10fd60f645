--------------------------- MODULE FinanceProofs ----------------------------
(***************************************************************************)
(* What holds of the money side for any number of accounts, clerks,        *)
(* screens, jobs, payments, adjustments and debit runs, and of any amounts *)
(* and periods.                                                            *)
(***************************************************************************)
EXTENDS Finance, TLAPS

-----------------------------------------------------------------------------
(* Replacing one row of a table by a well-formed one. *)
LEMMA RowSet ==
  ASSUME NEW D, NEW R, NEW f \in [D -> R], NEW i, NEW q, i \in D => q \in R
  PROVE  [f EXCEPT ![i] = q] \in [D -> R]
OBVIOUS

(* Setting one column of a well-formed row leaves it so: a payment's       *)
(* status, ...                                                             *)
LEMMA PaymentFields ==
  ASSUME NEW q \in PaymentRow, NEW x \in PaymentStatus
  PROVE  [q EXCEPT !.status = x] \in PaymentRow
BY DEF PaymentRow

(* ... a column of an adjustment, ... *)
LEMMA AdjustmentFields ==
  ASSUME NEW q \in AdjustmentRow
  PROVE  /\ \A x \in AdjustmentStatus : [q EXCEPT !.status = x] \in AdjustmentRow
         /\ \A x \in Clerk \cup {None} : [q EXCEPT !.by = x] \in AdjustmentRow
         /\ \A x \in Clerk \cup {None} : [q EXCEPT !.reviewer = x] \in AdjustmentRow
         /\ \A x \in Sheet : [q EXCEPT !.seen = x] \in AdjustmentRow
<1>1. \A x \in AdjustmentStatus : [q EXCEPT !.status = x] \in AdjustmentRow
  BY DEF AdjustmentRow
<1>2. \A x \in Clerk \cup {None} : [q EXCEPT !.by = x] \in AdjustmentRow
  BY DEF AdjustmentRow
<1>3. \A x \in Clerk \cup {None} : [q EXCEPT !.reviewer = x] \in AdjustmentRow
  BY DEF AdjustmentRow
<1>4. \A x \in Sheet : [q EXCEPT !.seen = x] \in AdjustmentRow
  BY DEF AdjustmentRow
<1> QED BY <1>1, <1>2, <1>3, <1>4

(* ... a column of a refund record, ... *)
LEMMA RecordFields ==
  ASSUME NEW q \in RefundRecord
  PROVE  /\ \A x \in RecordState : [q EXCEPT !.state = x] \in RefundRecord
         /\ \A x \in Clerk \cup {None} : [q EXCEPT !.releaser = x] \in RefundRecord
BY DEF RefundRecord

(* ... a column of a debit run, ... *)
LEMMA RunFields ==
  ASSUME NEW q \in RunRow
  PROVE  /\ \A x \in RunStatus : [q EXCEPT !.status = x] \in RunRow
         /\ \A x \in BOOLEAN : [q EXCEPT !.token = x] \in RunRow
         /\ \A x \in BOOLEAN : [q EXCEPT !.cooling = x] \in RunRow
         /\ \A x \in [Account -> ReviewedRow] : [q EXCEPT !.rows = x] \in RunRow
<1>1. \A x \in RunStatus : [q EXCEPT !.status = x] \in RunRow
  BY DEF RunRow
<1>2. \A x \in BOOLEAN : [q EXCEPT !.token = x] \in RunRow
  BY DEF RunRow
<1>3. \A x \in BOOLEAN : [q EXCEPT !.cooling = x] \in RunRow
  BY DEF RunRow
<1>4. \A x \in [Account -> ReviewedRow] : [q EXCEPT !.rows = x] \in RunRow
  BY DEF RunRow
<1> QED BY <1>1, <1>2, <1>3, <1>4

(* ... a debit plan and its mandate, and a report in progress. *)
LEMMA DebitFields ==
  /\ \A q \in DebitRow, x \in {"NONE", "ACTIVE", "PAUSED"} : [q EXCEPT !.plan = x] \in DebitRow
  /\ \A q \in DebitRow, x \in BOOLEAN : [q EXCEPT !.mandate = x] \in DebitRow
  /\ \A q \in CheckRow, x \in {"NONE", "SUBMITTED", "ACCEPTED", "REVIEW_REQUIRED"} :
        [q EXCEPT !.report = x] \in CheckRow
BY DEF DebitRow, CheckRow

(* The rows of a table nothing is written in are well formed. *)
LEMMA EmptyRowsTyped ==
  /\ Rent \in Amount /\ 1 \in Month /\ MaxMonth \in Month
  /\ NoPayment \in PaymentRow /\ NoSheet \in Sheet /\ NoAdjustment \in AdjustmentRow
  /\ NoRecord \in RefundRecord /\ NoRows \in [Account -> ReviewedRow] /\ Blocked \in ReviewedRow
  /\ NoRun \in RunRow /\ NoBill \in BillRow /\ NoJob \in JobRow /\ NoCheck \in CheckRow
<1>1. Rent \in Amount /\ 1 \in Month /\ MaxMonth \in Month
  BY BoundsAssumption DEF Rent, Amount, Month
<1>2. NoPayment \in PaymentRow
  BY <1>1 DEF NoPayment, PaymentRow, PaymentStatus
<1>3. NoSheet \in Sheet
  <2>1. 0 \in 0 .. MaxPlan /\ 0 \in Int
    BY BoundsAssumption
  <2>2. [p \in Pay |-> NoPayment] \in [Pay -> PaymentRow]
    BY <1>2
  <2> QED BY <2>1, <2>2 DEF NoSheet, Sheet
<1>4. NoAdjustment \in AdjustmentRow
  BY <1>1, <1>3 DEF NoAdjustment, AdjustmentRow, AdjustmentStatus, Kinds, NoRef
<1>5. NoRecord \in RefundRecord
  BY DEF NoRecord, RefundRecord, RecordState
<1>6. Blocked \in ReviewedRow
  BY <1>3 DEF Blocked, ReviewedRow
<1>7. NoRows \in [Account -> ReviewedRow]
  BY <1>6 DEF NoRows
<1>8. NoRun \in RunRow
  BY <1>1, <1>7 DEF NoRun, RunRow, RunStatus
<1>9. NoBill \in BillRow /\ NoJob \in JobRow /\ NoCheck \in CheckRow
  BY <1>1, <1>3 DEF NoBill, BillRow, NoJob, JobRow, NoCheck, CheckRow
<1> QED BY <1>1, <1>2, <1>3, <1>4, <1>5, <1>6, <1>7, <1>8, <1>9

(* An entry moves the balance by a whole amount. *)
LEMMA DeltaInt ==
  ASSUME NEW type, NEW n \in Amount
  PROVE  Delta(type, n) \in Int
BY BoundsAssumption DEF Delta, Amount

(* What a person is shown of an account is well formed. *)
LEMMA FiguresTyped ==
  ASSUME TypeOK, NEW a \in Account
  PROVE  Figures(a) \in Sheet /\ BillFigures(a) \in Sheet
<1>1. PaysOf(a) \in [Pay -> PaymentRow]
  BY EmptyRowsTyped DEF TypeOK, PaysOf
<1>2. balance[a] \in Int /\ ledger[a] \in SUBSET Entry /\ 0 \in 0 .. MaxPlan
      /\ plan[a] \in 0 .. MaxPlan
  BY BoundsAssumption DEF TypeOK
<1>3. Figures(a) \in Sheet
  BY <1>1, <1>2 DEF Figures, Sheet
<1>4. BillFigures(a) \in Sheet
  BY <1>2, <1>3 DEF BillFigures, Sheet
<1> QED BY <1>3, <1>4

(* Posting a well-formed entry keeps the books well formed. *)
LEMMA PostTyped ==
  ASSUME TypeOK, NEW a, NEW e, a \in Account => e \in Entry, PostEntry(a, e)
  PROVE  ledger' \in [Account -> SUBSET Entry] /\ balance' \in [Account -> Int]
<1>1. a \in Account => ledger[a] \cup {e} \in SUBSET Entry
  BY DEF TypeOK
<1>2. a \in Account => balance[a] + Delta(e.type, e.amount) \in Int
  <2> HAVE a \in Account
  <2>1. balance[a] \in Int /\ e.amount \in Amount
    BY DEF TypeOK, Entry
  <2>2. Delta(e.type, e.amount) \in Int
    BY <2>1, DeltaInt
  <2> QED BY <2>1, <2>2
<1> QED BY <1>1, <1>2, RowSet DEF TypeOK, PostEntry

(* The entries that are posted are well formed. *)
LEMMA EntriesTyped ==
  /\ \A ref \in Refs, type \in Kinds \cup {"PAYMENT"}, n \in Amount : EntryOf(ref, type, n) \in Entry
  /\ \A m \in Month : RentEntry(m) \in Entry
<1>1. \A ref \in Refs, type \in Kinds \cup {"PAYMENT"}, n \in Amount : EntryOf(ref, type, n) \in Entry
  BY EmptyRowsTyped DEF EntryOf, Entry
<1>2. ASSUME NEW m \in Month
      PROVE  RentEntry(m) \in Entry
  <2>1. <<"RENT", m>> \in Refs /\ "CHARGE" \in Kinds
    BY DEF Refs, Kinds
  <2>2. EntryOf(<<"RENT", m>>, "CHARGE", Rent) \in Entry
    BY <2>1, <1>1, EmptyRowsTyped
  <2> QED BY <2>2 DEF RentEntry, Entry
<1> QED BY <1>1, <1>2

-----------------------------------------------------------------------------
(* New accounts are well typed. *)
LEMMA TypeInit == Init => TypeOK
<1> SUFFICES ASSUME Init PROVE TypeOK
  OBVIOUS
<1>1. plan \in [Account -> 0 .. MaxPlan] /\ balance \in [Account -> Int]
  BY BoundsAssumption DEF Init
<1>2. ledger \in [Account -> SUBSET Entry] /\ invoice \in [Account \X Month -> SUBSET Entry]
  BY DEF Init
<1>3. sheet \in [Screen -> BillRow] /\ job \in [Worker -> JobRow] /\ check \in [Refresher -> CheckRow]
  BY EmptyRowsTyped DEF Init
<1>4. pay \in [Pay -> PaymentRow] /\ adj \in [Adj -> AdjustmentRow] /\ rec \in [Pay -> RefundRecord]
  BY EmptyRowsTyped DEF Init
<1>5. debit \in [Account -> DebitRow]
  BY DEF Init, DebitRow
<1>6. run \in [Run -> RunRow]
  BY EmptyRowsTyped DEF Init
<1>7. instr \in [Account \X Month -> Run \cup {NoRow}] /\ sent \in [Account \X Month -> Nat]
  BY DEF Init
<1>8. /\ upload \in [Run -> {"none", "claimed", "token", "rejected", "unknown"}]
      /\ bank \in [Run -> {"none", "received", "refused", "loaded", "partial"}]
  BY DEF Init
<1> QED BY <1>1, <1>2, <1>3, <1>4, <1>5, <1>6, <1>7, <1>8 DEF TypeOK

-----------------------------------------------------------------------------
(* Bills and receipts keep the state well typed. *)
LEMMA BillingTyped == TypeOK /\ Billing => TypeOK'
<1> SUFFICES ASSUME TypeOK, Billing PROVE TypeOK'
  OBVIOUS
<1>1. ASSUME NEW a \in Account, SavePlan(a)
      PROVE  TypeOK'
  <2>1. plan[a] + 1 \in 0 .. MaxPlan
    BY <1>1, BoundsAssumption DEF SavePlan, TypeOK
  <2>2. plan' \in [Account -> 0 .. MaxPlan]
    BY <1>1, <2>1 DEF SavePlan, TypeOK
  <2> QED BY <1>1, <2>2 DEF SavePlan, TypeOK, books, collection
<1>2. ASSUME NEW s \in Screen, NEW a \in Account, NEW m \in Month, PreviewBill(s, a, m)
      PROVE  TypeOK'
  <2>1. [acc |-> a, month |-> m, seen |-> BillFigures(a)] \in BillRow
    BY FiguresTyped DEF BillRow
  <2>2. sheet' \in [Screen -> BillRow]
    BY <1>2, <2>1, RowSet DEF PreviewBill, TypeOK
  <2> QED BY <1>2, <2>2 DEF PreviewBill, TypeOK, books, collection
<1>3. ASSUME NEW s \in Screen, PostBill(s)
      PROVE  TypeOK'
  <2> DEFINE a == sheet[s].acc
             m == sheet[s].month
             e == RentEntry(m)
  <2>1. a \in Account /\ m \in Month
    BY <1>3 DEF PostBill, TypeOK, BillRow
  <2>2. e \in Entry
    BY <2>1, EntriesTyped
  <2>3. PostEntry(a, e)
    BY <1>3 DEF PostBill
  <2>4. ledger' \in [Account -> SUBSET Entry] /\ balance' \in [Account -> Int]
    BY <2>2, <2>3, PostTyped
  <2>5. ledger[a] \cup {e} \in SUBSET Entry
    BY <2>1, <2>2 DEF TypeOK
  <2>6. invoice' = [invoice EXCEPT ![<<a, m>>] = ledger[a] \cup {e}]
    BY <1>3 DEF PostBill
  <2>7. invoice' \in [Account \X Month -> SUBSET Entry]
    <3> HIDE DEF a, m, e
    <3> QED BY <2>5, <2>6, RowSet DEF TypeOK
  <2>8. sheet' \in [Screen -> BillRow]
    BY <1>3, EmptyRowsTyped, RowSet DEF PostBill, TypeOK
  <2> QED BY <1>3, <2>4, <2>7, <2>8 DEF PostBill, TypeOK, collection
<1>4. ASSUME NEW w \in Worker, NEW a \in Account, NEW m \in Month, LegacyCheck(w, a, m)
      PROVE  TypeOK'
  <2>1. [acc |-> a, month |-> m] \in JobRow
    BY DEF JobRow
  <2>2. job' \in [Worker -> JobRow]
    BY <1>4, <2>1, RowSet DEF LegacyCheck, TypeOK
  <2> QED BY <1>4, <2>2 DEF LegacyCheck, TypeOK, books, collection
<1>5. ASSUME NEW w \in Worker, LegacyPost(w)
      PROVE  TypeOK'
  <2>1. job[w].month \in Month
    BY DEF TypeOK, JobRow
  <2>2. ledger' \in [Account -> SUBSET Entry] /\ balance' \in [Account -> Int]
    BY <1>5, <2>1, EntriesTyped, PostTyped DEF LegacyPost
  <2>3. job' \in [Worker -> JobRow]
    BY <1>5, EmptyRowsTyped, RowSet DEF LegacyPost, TypeOK
  <2> QED BY <1>5, <2>2, <2>3 DEF LegacyPost, TypeOK, collection
<1>6. ASSUME NEW w \in Worker, LegacySkip(w)
      PROVE  TypeOK'
  <2>1. job' \in [Worker -> JobRow]
    BY <1>6, EmptyRowsTyped, RowSet DEF LegacySkip, TypeOK
  <2> QED BY <1>6, <2>1 DEF LegacySkip, TypeOK, books, collection
<1>7. ASSUME NEW a \in Account, NEW p \in Pay, NEW n \in Amount, ManualReceipt(a, p, n)
      PROVE  TypeOK'
  <2>1. [acc |-> a, amount |-> n, online |-> FALSE, status |-> "SUCCEEDED"] \in PaymentRow
    BY DEF PaymentRow, PaymentStatus
  <2>2. pay' \in [Pay -> PaymentRow]
    BY <1>7, <2>1, RowSet DEF ManualReceipt, TypeOK
  <2>3. <<"PAY", p>> \in Refs
    BY DEF Refs
  <2>4. EntryOf(<<"PAY", p>>, "PAYMENT", n) \in Entry
    BY <2>3, EntriesTyped
  <2>5. ledger' \in [Account -> SUBSET Entry] /\ balance' \in [Account -> Int]
    BY <1>7, <2>4, PostTyped DEF ManualReceipt
  <2> QED BY <1>7, <2>2, <2>5 DEF ManualReceipt, TypeOK, billing, collection
<1>8. ASSUME NEW a \in Account, NEW p \in Pay, NEW n \in Amount, Checkout(a, p, n)
      PROVE  TypeOK'
  <2>1. [acc |-> a, amount |-> n, online |-> TRUE, status |-> "PENDING"] \in PaymentRow
    BY DEF PaymentRow, PaymentStatus
  <2>2. pay' \in [Pay -> PaymentRow]
    BY <1>8, <2>1, RowSet DEF Checkout, TypeOK
  <2> QED BY <1>8, <2>2 DEF Checkout, TypeOK, billing, books, collection
<1>9. ASSUME NEW p \in Pay, Settle(p)
      PROVE  TypeOK'
  <2>1. pay[p] \in PaymentRow /\ pay[p].amount \in Amount
    BY DEF TypeOK, PaymentRow
  <2>2. [pay[p] EXCEPT !.status = "SUCCEEDED"] \in PaymentRow
    BY <2>1, PaymentFields DEF PaymentStatus
  <2>3. pay' \in [Pay -> PaymentRow]
    BY <1>9, <2>2, RowSet DEF Settle, TypeOK
  <2>4. <<"PAY", p>> \in Refs
    BY DEF Refs
  <2>5. EntryOf(<<"PAY", p>>, "PAYMENT", pay[p].amount) \in Entry
    BY <2>1, <2>4, EntriesTyped
  <2>6. ledger' \in [Account -> SUBSET Entry] /\ balance' \in [Account -> Int]
    BY <1>9, <2>5, PostTyped DEF Settle
  <2> QED BY <1>9, <2>3, <2>6 DEF Settle, TypeOK, billing, collection
<1> QED BY <1>1, <1>2, <1>3, <1>4, <1>5, <1>6, <1>7, <1>8, <1>9 DEF Billing

-----------------------------------------------------------------------------
(* Closing an adjustment leaves its row well formed, ... *)
LEMMA ClosedTyped ==
  ASSUME TypeOK, NEW j \in Adj, NEW x \in AdjustmentStatus
  PROVE  [adj EXCEPT ![j] = Closed(j, x)] \in [Adj -> AdjustmentRow]
<1>1. adj[j] \in AdjustmentRow
  BY DEF TypeOK
<1>2. [adj[j] EXCEPT !.status = x] \in AdjustmentRow
  BY <1>1, AdjustmentFields
<1>3. [[adj[j] EXCEPT !.status = x] EXCEPT !.by = None] \in AdjustmentRow
  BY <1>2, AdjustmentFields
<1>4. [[[adj[j] EXCEPT !.status = x] EXCEPT !.by = None] EXCEPT !.reviewer = None] \in AdjustmentRow
  BY <1>3, AdjustmentFields
<1>5. [[[[adj[j] EXCEPT !.status = x] EXCEPT !.by = None] EXCEPT !.reviewer = None]
          EXCEPT !.seen = NoSheet] \in AdjustmentRow
  BY <1>4, AdjustmentFields, EmptyRowsTyped
<1>6. Closed(j, x) \in AdjustmentRow
  BY <1>5 DEF Closed
<1> QED BY <1>6, RowSet DEF TypeOK

(* ... and so does posting it, of the payment it corrects. *)
LEMMA AfterTyped ==
  ASSUME TypeOK, NEW j \in Adj
  PROVE  PaymentAfter(j) \in [Pay -> PaymentRow]
<1> DEFINE p == adj[j].source[2]
<1>1. \A x \in PaymentStatus : [pay EXCEPT ![p].status = x] \in [Pay -> PaymentRow]
  <2> TAKE x \in PaymentStatus
  <2> HIDE DEF p
  <2>1. p \in Pay => [pay[p] EXCEPT !.status = x] \in PaymentRow
    BY PaymentFields DEF TypeOK
  <2>2. pay \in [Pay -> PaymentRow]
    BY DEF TypeOK
  <2> QED BY <2>1, <2>2, RowSet
<1>2. {"REVERSED", "REFUNDED", "PARTIALLY_REFUNDED"} \subseteq PaymentStatus
  BY DEF PaymentStatus
<1> DEFINE given == IF Used(adj[j].acc, adj[j].source) + adj[j].amount >= pay[p].amount
                    THEN "REFUNDED" ELSE "PARTIALLY_REFUNDED"
<1>3. given \in PaymentStatus
  BY <1>2
<1>4. PaymentAfter(j) = IF adj[j].kind = "REVERSAL" THEN [pay EXCEPT ![p].status = "REVERSED"]
                        ELSE IF adj[j].kind = "REFUND" THEN [pay EXCEPT ![p].status = given]
                        ELSE pay
  BY DEF PaymentAfter
<1> HIDE DEF p, given
<1> QED BY <1>1, <1>2, <1>3, <1>4 DEF TypeOK

(* Posting an adjustment keeps the state well typed. *)
LEMMA PostAdjustmentTyped ==
  ASSUME TypeOK, NEW j \in Adj, PostAdjustment(j)
  PROVE  TypeOK'
<1>1. <<"ADJ", j>> \in Refs
  BY DEF Refs
<1>2. adj[j].kind \in Kinds /\ adj[j].amount \in Amount
  BY DEF TypeOK, AdjustmentRow
<1>3. EntryOf(<<"ADJ", j>>, adj[j].kind, adj[j].amount) \in Entry
  BY <1>1, <1>2, EntriesTyped
<1>4. ledger' \in [Account -> SUBSET Entry] /\ balance' \in [Account -> Int]
  BY <1>3, PostTyped DEF PostAdjustment
<1>5. pay' \in [Pay -> PaymentRow]
  BY AfterTyped DEF PostAdjustment
<1>6. adj' \in [Adj -> AdjustmentRow]
  BY ClosedTyped DEF PostAdjustment, AdjustmentStatus
<1> QED BY <1>4, <1>5, <1>6 DEF PostAdjustment, TypeOK, billing, collection

(* Changing the state of a refund record keeps the state well typed. *)
LEMMA SetRecordTyped ==
  ASSUME TypeOK, NEW p \in Pay, NEW x \in RecordState, SetRecord(p, x)
  PROVE  TypeOK'
<1>1. [rec[p] EXCEPT !.state = x] \in RefundRecord
  BY RecordFields DEF TypeOK
<1>2. rec' \in [Pay -> RefundRecord]
  BY <1>1, RowSet DEF SetRecord, TypeOK
<1> QED BY <1>2 DEF SetRecord, TypeOK, billing, books, collection

(* Corrections and refunds keep the state well typed. *)
LEMMA AdjustmentsTyped == TypeOK /\ Adjustments => TypeOK'
<1> SUFFICES ASSUME TypeOK, Adjustments PROVE TypeOK'
  OBVIOUS
<1>0. {"PREPARED", "REVIEWED", "REJECTED", "WITHDRAWN", "RESERVED", "RELEASE_REQUESTED", "RELEASED"}
         \subseteq RecordState
  BY DEF RecordState
<1>1. ASSUME NEW c \in Clerk, NEW a \in Account, NEW j \in Adj, NEW kind \in Kinds, NEW n \in Amount,
             NEW src \in Refs \cup {NoRef}, RequestAdjustment(c, a, j, kind, n, src)
      PROVE  TypeOK'
  <2> DEFINE q == [acc |-> a, kind |-> kind, amount |-> n, source |-> src,
                   status |-> "PENDING_APPROVAL", by |-> c, reviewer |-> None, seen |-> Figures(a)]
  <2>1. q \in AdjustmentRow
    BY FiguresTyped DEF AdjustmentRow, AdjustmentStatus
  <2>2. adj' = [adj EXCEPT ![j] = q]
    BY <1>1 DEF RequestAdjustment
  <2>3. adj' \in [Adj -> AdjustmentRow]
    <3> HIDE DEF q
    <3> QED BY <2>1, <2>2, RowSet DEF TypeOK
  <2> QED BY <1>1, <2>3 DEF RequestAdjustment, TypeOK, billing, books, collection
<1>2. ASSUME NEW c \in Clerk, NEW j \in Adj, Approve(c, j)
      PROVE  TypeOK'
  <2>1. CASE adj[j].kind = "REFUND"
    <3>1. [adj[j] EXCEPT !.status = "APPROVED"] \in AdjustmentRow
      BY AdjustmentFields DEF TypeOK, AdjustmentStatus
    <3>2. [[adj[j] EXCEPT !.status = "APPROVED"] EXCEPT !.reviewer = c] \in AdjustmentRow
      BY <3>1, AdjustmentFields
    <3>3. adj' = [adj EXCEPT ![j] = [[adj[j] EXCEPT !.status = "APPROVED"] EXCEPT !.reviewer = c]]
      BY <1>2, <2>1 DEF Approve, TypeOK
    <3>4. adj' \in [Adj -> AdjustmentRow]
      BY <3>2, <3>3, RowSet DEF TypeOK
    <3> QED BY <1>2, <2>1, <3>4 DEF Approve, TypeOK, billing, books, collection
  <2>2. CASE adj[j].kind # "REFUND"
    BY <1>2, <2>2, PostAdjustmentTyped DEF Approve
  <2> QED BY <2>1, <2>2
<1>3. ASSUME NEW c \in Clerk, NEW j \in Adj, Reject(c, j)
      PROVE  TypeOK'
  <2>1. adj' \in [Adj -> AdjustmentRow]
    BY <1>3, ClosedTyped DEF Reject, AdjustmentStatus
  <2> QED BY <1>3, <2>1 DEF Reject, TypeOK, billing, books, collection
<1>4. ASSUME NEW c \in Clerk, NEW j \in Adj, Cancel(c, j)
      PROVE  TypeOK'
  <2>1. adj' \in [Adj -> AdjustmentRow]
    BY <1>4, ClosedTyped DEF Cancel, AdjustmentStatus
  <2> QED BY <1>4, <2>1 DEF Cancel, TypeOK, billing, books, collection
<1>5. ASSUME NEW c \in Clerk, NEW j \in Adj, RecordPayout(c, j)
      PROVE  TypeOK'
  BY <1>5, PostAdjustmentTyped DEF RecordPayout
<1>6. ASSUME NEW c \in Clerk, NEW j \in Adj, NEW p \in Pay, PrepareRefund(c, j, p)
      PROVE  TypeOK'
  <2>1. [state |-> "PREPARED", adj |-> j, by |-> c, releaser |-> None] \in RefundRecord
    BY DEF RefundRecord, RecordState
  <2>2. rec' \in [Pay -> RefundRecord]
    BY <1>6, <2>1, RowSet DEF PrepareRefund, TypeOK
  <2> QED BY <1>6, <2>2 DEF PrepareRefund, TypeOK, billing, books, collection
<1>7. ASSUME NEW c \in Clerk, NEW p \in Pay,
             ReviewRefund(c, p) \/ WithdrawRefund(c, p) \/ ReserveRefund(c, p) \/ ApproveRelease(c, p)
      PROVE  TypeOK'
  BY <1>0, <1>7, SetRecordTyped DEF ReviewRefund, WithdrawRefund, ReserveRefund, ApproveRelease
<1>8. ASSUME NEW c \in Clerk, NEW p \in Pay, RequestRelease(c, p)
      PROVE  TypeOK'
  <2>1. [rec[p] EXCEPT !.state = "RELEASE_REQUESTED"] \in RefundRecord
    BY <1>0, RecordFields DEF TypeOK
  <2>2. [[rec[p] EXCEPT !.state = "RELEASE_REQUESTED"] EXCEPT !.releaser = c] \in RefundRecord
    BY <2>1, RecordFields
  <2>3. rec' = [rec EXCEPT ![p] = [[rec[p] EXCEPT !.state = "RELEASE_REQUESTED"] EXCEPT !.releaser = c]]
    BY <1>8 DEF RequestRelease, TypeOK
  <2>4. rec' \in [Pay -> RefundRecord]
    BY <2>2, <2>3, RowSet DEF TypeOK
  <2> QED BY <1>8, <2>4 DEF RequestRelease, TypeOK, billing, books, collection
<1> QED BY <1>1, <1>2, <1>3, <1>4, <1>5, <1>6, <1>7, <1>8 DEF Adjustments

-----------------------------------------------------------------------------
(* The rows a run is reviewed on are well formed. *)
LEMMA RowsTyped ==
  ASSUME TypeOK, NEW m, NEW own
  PROVE  Rows(m, own) \in [Account -> ReviewedRow]
<1>1. \A a \in Account : [blocker |-> FALSE, seen |-> Figures(a)] \in ReviewedRow
  BY FiguresTyped DEF ReviewedRow
<1> QED BY <1>1, EmptyRowsTyped DEF Rows

(* A run's status changes, with or without its token or its rows. *)
LEMMA RunsTyped ==
  ASSUME TypeOK, NEW r
  PROVE  /\ \A x \in RunStatus : [run EXCEPT ![r].status = x] \in [Run -> RunRow]
         /\ \A x \in RunStatus : [run EXCEPT ![r].status = x, ![r].token = TRUE] \in [Run -> RunRow]
         /\ \A x \in RunStatus : [run EXCEPT ![r].status = x, ![r].rows = NoRows] \in [Run -> RunRow]
         /\ \A x \in BOOLEAN : [run EXCEPT ![r].cooling = x] \in [Run -> RunRow]
<1>1. run \in [Run -> RunRow] /\ (r \in Run => run[r] \in RunRow)
  BY DEF TypeOK
<1>2. \A x \in RunStatus : r \in Run => [run[r] EXCEPT !.status = x] \in RunRow
  BY <1>1, RunFields
<1>3. ASSUME NEW x \in RunStatus
      PROVE  [run EXCEPT ![r].status = x] \in [Run -> RunRow]
  BY <1>1, <1>2, RowSet
<1>4. ASSUME NEW x \in RunStatus
      PROVE  [run EXCEPT ![r].status = x, ![r].token = TRUE] \in [Run -> RunRow]
  <2>1. r \in Run => [[run[r] EXCEPT !.status = x] EXCEPT !.token = TRUE] \in RunRow
    BY <1>2, RunFields
  <2>2. [run EXCEPT ![r] = [[run[r] EXCEPT !.status = x] EXCEPT !.token = TRUE]] \in [Run -> RunRow]
    BY <1>1, <2>1, RowSet
  <2>3. [run EXCEPT ![r].status = x, ![r].token = TRUE]
          = [run EXCEPT ![r] = [[run[r] EXCEPT !.status = x] EXCEPT !.token = TRUE]]
    BY <1>1
  <2> QED BY <2>2, <2>3
<1>5. ASSUME NEW x \in RunStatus
      PROVE  [run EXCEPT ![r].status = x, ![r].rows = NoRows] \in [Run -> RunRow]
  <2>1. r \in Run => [[run[r] EXCEPT !.status = x] EXCEPT !.rows = NoRows] \in RunRow
    BY <1>2, RunFields, EmptyRowsTyped
  <2>2. [run EXCEPT ![r] = [[run[r] EXCEPT !.status = x] EXCEPT !.rows = NoRows]] \in [Run -> RunRow]
    BY <1>1, <2>1, RowSet
  <2>3. [run EXCEPT ![r].status = x, ![r].rows = NoRows]
          = [run EXCEPT ![r] = [[run[r] EXCEPT !.status = x] EXCEPT !.rows = NoRows]]
    BY <1>1
  <2> QED BY <2>2, <2>3
<1>6. ASSUME NEW x \in BOOLEAN
      PROVE  [run EXCEPT ![r].cooling = x] \in [Run -> RunRow]
  <2>1. r \in Run => [run[r] EXCEPT !.cooling = x] \in RunRow
    BY <1>1, RunFields
  <2> QED BY <1>1, <2>1, RowSet
<1> QED BY <1>3, <1>4, <1>5, <1>6

(* Debit order runs keep the state well typed. *)
LEMMA DebitRunsTyped == TypeOK /\ DebitRuns => TypeOK'
<1> SUFFICES ASSUME TypeOK, DebitRuns PROVE TypeOK'
  OBVIOUS
<1>0. {"PREPARED", "CANCELLED", "SUBMITTING", "SUBMITTED", "REJECTED", "REVIEW_REQUIRED", "ACCEPTED"}
        \subseteq RunStatus
  BY DEF RunStatus
<1>1. ASSUME NEW a \in Account, MandateLapses(a)
      PROVE  TypeOK'
  <2>1. [debit[a] EXCEPT !.mandate = FALSE] \in DebitRow
    BY DebitFields DEF TypeOK
  <2>2. debit' \in [Account -> DebitRow]
    BY <1>1, <2>1, RowSet DEF MandateLapses, TypeOK
  <2> QED BY <1>1, <2>2 DEF MandateLapses, TypeOK, billing, books
<1>2. ASSUME NEW a \in Account, NEW to \in {"ACTIVE", "PAUSED"}, SaveDebitPlan(a, to)
      PROVE  TypeOK'
  <2>1. [debit[a] EXCEPT !.plan = to] \in DebitRow
    BY DebitFields DEF TypeOK
  <2>2. debit' \in [Account -> DebitRow]
    BY <1>2, <2>1, RowSet DEF SaveDebitPlan, TypeOK
  <2> QED BY <1>2, <2>2 DEF SaveDebitPlan, TypeOK, billing, books
<1>3. ASSUME NEW r \in Run, NEW m \in Month, PrepareRun(r, m)
      PROVE  TypeOK'
  <2> DEFINE q == [status |-> "PREPARED", month |-> m, token |-> FALSE,
                   cooling |-> FALSE, rows |-> Rows(m, NoRow)]
  <2>1. q \in RunRow
    BY <1>0, RowsTyped DEF RunRow
  <2>2. run' = [run EXCEPT ![r] = q]
    BY <1>3 DEF PrepareRun
  <2>3. run' \in [Run -> RunRow]
    <3> HIDE DEF q
    <3> QED BY <2>1, <2>2, RowSet DEF TypeOK
  <2>4. instr' \in [Account \X Month -> Run \cup {NoRow}]
    BY <1>3 DEF PrepareRun, TypeOK
  <2> QED BY <1>3, <2>3, <2>4 DEF PrepareRun, TypeOK, billing, books
<1>4. ASSUME NEW r \in Run, CancelRun(r)
      PROVE  TypeOK'
  <2>1. run' \in [Run -> RunRow]
    BY <1>0, <1>4, RunsTyped DEF CancelRun
  <2>2. instr' \in [Account \X Month -> Run \cup {NoRow}]
    BY <1>4 DEF CancelRun, TypeOK
  <2> QED BY <1>4, <2>1, <2>2 DEF CancelRun, TypeOK, billing, books
<1>5. ASSUME NEW r \in Run, ClaimRun(r)
      PROVE  TypeOK'
  <2>1. run' \in [Run -> RunRow]
    BY <1>0, <1>5, RunsTyped DEF ClaimRun
  <2>2. upload' \in [Run -> {"none", "claimed", "token", "rejected", "unknown"}]
    BY <1>5 DEF ClaimRun, TypeOK
  <2> QED BY <1>5, <2>1, <2>2 DEF ClaimRun, TypeOK, billing, books
<1>6. ASSUME NEW r \in Run, Upload(r)
      PROVE  TypeOK'
  <2>1. upload' \in [Run -> {"none", "claimed", "token", "rejected", "unknown"}]
    BY <1>6 DEF Upload, TypeOK
  <2>2. bank' \in [Run -> {"none", "received", "refused", "loaded", "partial"}]
    BY <1>6 DEF Upload, TypeOK
  <2>3. sent' \in [Account \X Month -> Nat]
    BY <1>6 DEF Upload, TypeOK
  <2> QED BY <1>6, <2>1, <2>2, <2>3 DEF Upload, TypeOK, billing, books
<1>7. ASSUME NEW r \in Run, RecordAnswer(r)
      PROVE  TypeOK'
  <2>1. run' \in [Run -> RunRow]
    <3>1. \/ run' = [run EXCEPT ![r].status = "SUBMITTED", ![r].token = TRUE]
          \/ run' = [run EXCEPT ![r].status = "REJECTED"]
          \/ run' = [run EXCEPT ![r].status = "REVIEW_REQUIRED"]
      BY <1>7 DEF RecordAnswer
    <3>2. [run EXCEPT ![r].status = "SUBMITTED", ![r].token = TRUE] \in [Run -> RunRow]
      BY <1>0, RunsTyped
    <3>3. /\ [run EXCEPT ![r].status = "REJECTED"] \in [Run -> RunRow]
          /\ [run EXCEPT ![r].status = "REVIEW_REQUIRED"] \in [Run -> RunRow]
      BY <1>0, RunsTyped
    <3> QED BY <3>1, <3>2, <3>3
  <2>2. upload' \in [Run -> {"none", "claimed", "token", "rejected", "unknown"}]
    BY <1>7 DEF RecordAnswer, TypeOK
  <2> QED BY <1>7, <2>1, <2>2 DEF RecordAnswer, TypeOK, billing, books
<1>8. ASSUME NEW r \in Run, SubmitterStops(r)
      PROVE  TypeOK'
  BY <1>8 DEF SubmitterStops, TypeOK, billing, books
<1>9. ASSUME NEW r \in Run, BankLoads(r)
      PROVE  TypeOK'
  BY <1>9 DEF BankLoads, TypeOK, billing, books
<1>10. ASSUME NEW r \in Run, CooledDown(r)
       PROVE  TypeOK'
  <2>1. run' \in [Run -> RunRow]
    BY <1>10, RunsTyped DEF CooledDown
  <2> QED BY <1>10, <2>1 DEF CooledDown, TypeOK, billing, books
<1>11. ASSUME NEW r \in Run, NEW k \in Refresher, RefreshClaim(k, r)
       PROVE  TypeOK'
  <2>1. run' \in [Run -> RunRow]
    BY <1>11, RunsTyped DEF RefreshClaim
  <2>2. [run |-> r, report |-> "NONE"] \in CheckRow
    BY DEF CheckRow
  <2>3. check' \in [Refresher -> CheckRow]
    BY <1>11, <2>2, RowSet DEF RefreshClaim, TypeOK
  <2> QED BY <1>11, <2>1, <2>3 DEF RefreshClaim, TypeOK, billing, books
<1>12. ASSUME NEW k \in Refresher, RefreshFetch(k)
       PROVE  TypeOK'
  <2>1. Report(check[k].run) \in {"NONE", "SUBMITTED", "ACCEPTED", "REVIEW_REQUIRED"}
    BY DEF Report
  <2>2. [check[k] EXCEPT !.report = Report(check[k].run)] \in CheckRow
    BY <2>1, DebitFields DEF TypeOK
  <2>3. check' \in [Refresher -> CheckRow]
    BY <1>12, <2>2, RowSet DEF RefreshFetch, TypeOK
  <2> QED BY <1>12, <2>3 DEF RefreshFetch, TypeOK, billing, books
<1>13. ASSUME NEW k \in Refresher, RefreshWrite(k)
       PROVE  TypeOK'
  <2>1. check[k].report \in RunStatus
    BY <1>13 DEF RefreshWrite, TypeOK, CheckRow, RunStatus
  <2>2. run' \in [Run -> RunRow]
    BY <1>13, <2>1, RunsTyped DEF RefreshWrite
  <2>3. check' \in [Refresher -> CheckRow]
    BY <1>13, EmptyRowsTyped, RowSet DEF RefreshWrite, TypeOK
  <2> QED BY <1>13, <2>2, <2>3 DEF RefreshWrite, TypeOK, billing, books
<1>14. ASSUME NEW k \in Refresher, RefreshFails(k)
       PROVE  TypeOK'
  <2>1. check' \in [Refresher -> CheckRow]
    BY <1>14, EmptyRowsTyped, RowSet DEF RefreshFails, TypeOK
  <2> QED BY <1>14, <2>1 DEF RefreshFails, TypeOK, billing, books
<1> QED
  BY <1>1, <1>2, <1>3, <1>4, <1>5, <1>6, <1>7, <1>8, <1>9, <1>10, <1>11, <1>12, <1>13, <1>14
  DEF DebitRuns

(* A step that changes nothing keeps the state well typed. *)
LEMMA TypeStutter == TypeOK /\ UNCHANGED vars => TypeOK'
BY DEF TypeOK, vars

(* Every reachable state of the money side is well typed. *)
THEOREM FinanceTyped == Spec => []TypeOK
<1>1. Init => TypeOK
  BY TypeInit
<1>2. TypeOK /\ [Next]_vars => TypeOK'
  BY BillingTyped, AdjustmentsTyped, DebitRunsTyped, TypeStutter DEF Next
<1> QED BY <1>1, <1>2, PTL DEF Spec

-----------------------------------------------------------------------------
(* What an adjustment in its row is about does not change when it closes.  *)
LEMMA ClosedKeeps ==
  ASSUME TypeOK, NEW j \in Adj, NEW x \in AdjustmentStatus
  PROVE  /\ Closed(j, x).acc = adj[j].acc
         /\ Closed(j, x).source = adj[j].source
         /\ Closed(j, x).kind = adj[j].kind
         /\ Closed(j, x).amount = adj[j].amount
         /\ Closed(j, x).status = x
<1>1. adj[j] \in AdjustmentRow
  BY DEF TypeOK
<1> QED BY <1>1 DEF Closed, AdjustmentRow

(* A row that asks for the same correction. *)
SameRequest(q, j) ==
  /\ q.acc = adj[j].acc /\ q.source = adj[j].source
  /\ q.kind = adj[j].kind /\ q.amount = adj[j].amount
  /\ q.status # "NONE"

(* A decision changes the row of one open adjustment, but not what was     *)
(* asked for; it reserves nothing.                                         *)
Decides(j) ==
  /\ adj[j].status \in Open
  /\ \E q : adj' = [adj EXCEPT ![j] = q] /\ SameRequest(q, j)
  /\ UNCHANGED <<rec, instr>>

(* The four ways to decide on an adjustment are decisions. *)
LEMMA Deciding ==
  ASSUME TypeOK, NEW c \in Clerk, NEW j \in Adj,
         Approve(c, j) \/ Reject(c, j) \/ Cancel(c, j) \/ RecordPayout(c, j)
  PROVE  Decides(j)
<1>1. {"POSTED", "REJECTED", "CANCELLED"} \subseteq AdjustmentStatus
  BY DEF AdjustmentStatus
<1>2. ASSUME PostAdjustment(j), adj[j].status \in Open
      PROVE  Decides(j)
  <2>1. adj' = [adj EXCEPT ![j] = Closed(j, "POSTED")] /\ UNCHANGED <<rec, instr>>
    BY <1>2 DEF PostAdjustment, collection
  <2>2. SameRequest(Closed(j, "POSTED"), j)
    BY <1>1, ClosedKeeps DEF SameRequest
  <2> QED BY <1>2, <2>1, <2>2 DEF Decides
<1>3. CASE Approve(c, j)
  <2>1. CASE adj[j].kind = "REFUND"
    <3> DEFINE q == [adj[j] EXCEPT !.status = "APPROVED", !.reviewer = c]
    <3>1. adj' = [adj EXCEPT ![j] = q]
      BY <1>3, <2>1 DEF Approve, TypeOK
    <3>2. SameRequest(q, j)
      BY DEF TypeOK, AdjustmentRow, SameRequest
    <3>3. adj[j].status \in Open /\ UNCHANGED <<rec, instr>>
      BY <1>3, <2>1 DEF Approve, Open, collection
    <3> HIDE DEF q
    <3> QED BY <3>1, <3>2, <3>3 DEF Decides
  <2>2. CASE adj[j].kind # "REFUND"
    BY <1>2, <1>3, <2>2 DEF Approve, Open
  <2> QED BY <2>1, <2>2
<1>4. CASE Reject(c, j)
  <2>1. adj' = [adj EXCEPT ![j] = Closed(j, "REJECTED")] /\ UNCHANGED <<rec, instr>>
    BY <1>4 DEF Reject, collection
  <2>2. adj[j].status \in Open
    BY <1>4 DEF Reject, Open
  <2>3. SameRequest(Closed(j, "REJECTED"), j)
    BY <1>1, ClosedKeeps DEF SameRequest
  <2> QED BY <2>1, <2>2, <2>3 DEF Decides
<1>5. CASE Cancel(c, j)
  <2>1. adj' = [adj EXCEPT ![j] = Closed(j, "CANCELLED")] /\ UNCHANGED <<rec, instr>>
    BY <1>5 DEF Cancel, collection
  <2>2. adj[j].status \in Open
    BY <1>5 DEF Cancel
  <2>3. SameRequest(Closed(j, "CANCELLED"), j)
    BY <1>1, ClosedKeeps DEF SameRequest
  <2> QED BY <2>1, <2>2, <2>3 DEF Decides
<1>6. CASE RecordPayout(c, j)
  BY <1>2, <1>6 DEF RecordPayout, Open
<1> QED BY <1>3, <1>4, <1>5, <1>6

(* Steps that touch neither adjustments nor what debit runs have reserved. *)
LEMMA BillingKeepsDecisions ==
  Billing => UNCHANGED <<adj, rec, instr, debit, run, upload, bank, sent, check>>
BY DEF Billing, SavePlan, PreviewBill, PostBill, LegacyCheck, LegacyPost, LegacySkip, ManualReceipt,
       Checkout, Settle, collection

(* Steps on refund records alone. *)
RecordStep ==
  \E c \in Clerk, p \in Pay :
     \/ \E j \in Adj : PrepareRefund(c, j, p)
     \/ ReviewRefund(c, p) \/ WithdrawRefund(c, p) \/ ReserveRefund(c, p)
     \/ RequestRelease(c, p) \/ ApproveRelease(c, p)

(* They leave the adjustments and the collections alone. *)
LEMMA RecordStepKeeps ==
  RecordStep => UNCHANGED <<plan, ledger, balance, invoice, sheet, job, pay, adj,
                            debit, instr, run, upload, bank, sent, check>>
BY DEF RecordStep, PrepareRefund, ReviewRefund, WithdrawRefund, ReserveRefund, RequestRelease,
       ApproveRelease, SetRecord, billing, books, collection

(* A correction is a request, a decision or a step on a refund record. *)
LEMMA AdjustmentSteps ==
  Adjustments =>
     \/ \E c \in Clerk, a \in Account, j \in Adj, kind \in Kinds, n \in Amount,
           src \in Refs \cup {NoRef} : RequestAdjustment(c, a, j, kind, n, src)
     \/ \E c \in Clerk, j \in Adj :
           Approve(c, j) \/ Reject(c, j) \/ Cancel(c, j) \/ RecordPayout(c, j)
     \/ RecordStep
BY DEF Adjustments, RecordStep

(* Debit runs leave adjustments, payments and the books alone. *)
LEMMA DebitRunsKeep ==
  DebitRuns => UNCHANGED <<plan, ledger, balance, invoice, sheet, job, pay, adj, rec>>
BY DEF DebitRuns, MandateLapses, SaveDebitPlan, PrepareRun, CancelRun, ClaimRun, Upload, RecordAnswer,
       SubmitterStops, BankLoads, CooledDown, RefreshClaim, RefreshFetch, RefreshWrite, RefreshFails,
       billing, books

(* Only preparing and cancelling a run change what is reserved. *)
LEMMA DebitRunsReserve ==
  DebitRuns => \/ \E r \in Run, m \in Month : PrepareRun(r, m)
               \/ \E r \in Run : CancelRun(r)
               \/ UNCHANGED instr
BY DEF DebitRuns, MandateLapses, SaveDebitPlan, ClaimRun, Upload, RecordAnswer, SubmitterStops,
       BankLoads, CooledDown, RefreshClaim, RefreshFetch, RefreshWrite, RefreshFails

-----------------------------------------------------------------------------
(* New accounts have nothing to decide. *)
LEMMA DecisionInit == Init => OneDecision
BY DEF Init, OneDecision, OpenOn, Open, NoAdjustment

(* A request comes to an account with nothing open and nothing reserved.   *)
LEMMA RequestOneDecision ==
  ASSUME TypeOK, OneDecision, NEW c \in Clerk, NEW a \in Account, NEW j \in Adj, NEW kind \in Kinds,
         NEW n \in Amount, NEW src \in Refs \cup {NoRef}, RequestAdjustment(c, a, j, kind, n, src)
  PROVE  OneDecision'
<1>1. OpenOn(a) = {} /\ ~ Collected(a) /\ instr' = instr
  BY DEF RequestAdjustment, Review, collection
<1>2. adj[j].status \notin Open
  BY DEF RequestAdjustment, NextRow, Open
<1>3. adj'[j].acc = a /\ \A i \in Adj : i # j => adj'[i] = adj[i]
  BY DEF RequestAdjustment, TypeOK
<1>4. OpenOn(a)' \subseteq {j}
  BY <1>1, <1>3 DEF OpenOn
<1>5. \A b \in Account : b # a => OpenOn(b)' \subseteq OpenOn(b)
  BY <1>3 DEF OpenOn
<1>6. \A b \in Account : Collected(b)' = Collected(b)
  BY <1>1 DEF Collected
<1> QED BY <1>1, <1>4, <1>5, <1>6 DEF OneDecision

(* A decision opens nothing. *)
LEMMA DecideOneDecision ==
  ASSUME TypeOK, OneDecision, NEW j \in Adj, Decides(j)
  PROVE  OneDecision'
<1>1. \A b \in Account : OpenOn(b)' \subseteq OpenOn(b)
  BY DEF Decides, SameRequest, OpenOn, TypeOK
<1>2. \A b \in Account : Collected(b)' = Collected(b)
  BY DEF Decides, Collected
<1> QED BY <1>1, <1>2 DEF OneDecision

(* A run reserves accounts with nothing open, and cancelled it holds none. *)
LEMMA RunsOneDecision ==
  ASSUME TypeOK, OneDecision, DebitRuns
  PROVE  OneDecision'
<1>1. \A b \in Account : OpenOn(b)' = OpenOn(b)
  BY DebitRunsKeep DEF OpenOn
<1>2. \A b \in Account : Collected(b)' => Collected(b) \/ OpenOn(b) = {}
  <2>1. ASSUME NEW r \in Run, NEW m \in Month, PrepareRun(r, m), NEW b \in Account, Collected(b)'
        PROVE  Collected(b) \/ OpenOn(b) = {}
    <3>1. PICK e \in Month : instr'[<<b, e>>] # NoRow
      BY <2>1 DEF Collected
    <3>2. CASE Rows(m, NoRow)[b].blocker
      <4>1. instr'[<<b, e>>] = instr[<<b, e>>]
        BY <2>1, <3>2 DEF PrepareRun
      <4> QED BY <3>1, <4>1 DEF Collected
    <3>3. CASE ~ Rows(m, NoRow)[b].blocker
      <4>1. Collectable(b, m, NoRow)
        BY <3>3 DEF Rows, Blocked
      <4> QED BY <4>1 DEF Collectable
    <3> QED BY <3>2, <3>3
  <2>2. ASSUME NEW r \in Run, CancelRun(r), NEW b \in Account, Collected(b)'
        PROVE  Collected(b)
    BY <2>2 DEF CancelRun, Collected
  <2>3. ASSUME UNCHANGED instr, NEW b \in Account, Collected(b)'
        PROVE  Collected(b)
    BY <2>3 DEF Collected
  <2> QED BY <2>1, <2>2, <2>3, DebitRunsReserve
<1> QED BY <1>1, <1>2 DEF OneDecision

(* Every step keeps decisions one at a time. *)
LEMMA DecisionStep == TypeOK /\ OneDecision /\ [Next]_vars => OneDecision'
<1> SUFFICES ASSUME TypeOK, OneDecision, [Next]_vars PROVE OneDecision'
  OBVIOUS
<1>1. ASSUME UNCHANGED <<adj, instr>> PROVE OneDecision'
  BY <1>1 DEF OneDecision, OpenOn, Collected
<1>2. CASE Billing
  BY <1>1, <1>2, BillingKeepsDecisions
<1>3. CASE Adjustments
  BY <1>1, <1>3, AdjustmentSteps, RequestOneDecision, Deciding, DecideOneDecision, RecordStepKeeps
<1>4. CASE DebitRuns
  BY <1>4, RunsOneDecision
<1>5. CASE UNCHANGED vars
  BY <1>1, <1>5 DEF vars
<1> QED BY <1>2, <1>3, <1>4, <1>5 DEF Next

(* Two open adjustments never count on the same balance, and an account a  *)
(* debit run has reserved is not being corrected.                          *)
THEOREM OneAtATime == Spec => []OneDecision
<1>1. Init => OneDecision
  BY DecisionInit
<1>2. TypeOK /\ OneDecision /\ [Next]_vars => OneDecision'
  BY DecisionStep
<1> QED BY <1>1, <1>2, FinanceTyped, PTL DEF Spec

-----------------------------------------------------------------------------
(* No refund record holds anything at first. *)
LEMMA HoldInit == Init => HoldBacksRefund
BY DEF Init, HoldBacksRefund, Holding, NoRecord

(* Where a page does not offer to reject an approved refund, a decision    *)
(* leaves the refund of a reservation alone.                               *)
LEMMA DecideHeld ==
  ASSUME "lateReject" \notin Ops, TypeOK, HoldBacksRefund, NEW c \in Clerk, NEW j \in Adj,
         Approve(c, j) \/ Reject(c, j) \/ Cancel(c, j) \/ RecordPayout(c, j), NEW p \in Holding
  PROVE  rec[p].adj # j
<1> SUFFICES ASSUME rec[p].adj = j PROVE FALSE
  OBVIOUS
<1>1. adj[j].status = "APPROVED" /\ adj[j].source = <<"PAY", p>>
  BY DEF HoldBacksRefund
<1>2. Held(j)
  BY <1>1 DEF Held
<1> QED BY <1>1, <1>2 DEF Approve, Reject, Cancel, RecordPayout

(* What a request or a decision does to the refund of a reservation. *)
LEMMA AdjustmentsHold ==
  ASSUME "lateReject" \notin Ops, TypeOK, HoldBacksRefund, Adjustments
  PROVE  HoldBacksRefund'
<1>1. ASSUME rec' = rec,
             \A p \in Holding : adj'[rec[p].adj] = adj[rec[p].adj]
      PROVE  HoldBacksRefund'
  BY <1>1 DEF HoldBacksRefund, Holding
<1>2. ASSUME NEW c \in Clerk, NEW a \in Account, NEW j \in Adj, NEW kind \in Kinds, NEW n \in Amount,
             NEW src \in Refs \cup {NoRef}, RequestAdjustment(c, a, j, kind, n, src)
      PROVE  HoldBacksRefund'
  <2>1. rec' = rec /\ adj[j].status = "NONE"
    BY <1>2 DEF RequestAdjustment, NextRow
  <2>2. \A p \in Holding : rec[p].adj # j
    BY <2>1 DEF HoldBacksRefund
  <2>3. \A i : i # j => adj'[i] = adj[i]
    BY <1>2 DEF RequestAdjustment, TypeOK
  <2> QED BY <1>1, <2>1, <2>2, <2>3
<1>3. ASSUME NEW c \in Clerk, NEW j \in Adj,
             Approve(c, j) \/ Reject(c, j) \/ Cancel(c, j) \/ RecordPayout(c, j)
      PROVE  HoldBacksRefund'
  <2>1. Decides(j)
    BY <1>3, Deciding
  <2>2. \A p \in Holding : rec[p].adj # j
    BY <1>3, DecideHeld
  <2>3. rec' = rec /\ \A i : i # j => adj'[i] = adj[i]
    BY <2>1 DEF Decides, TypeOK
  <2> QED BY <1>1, <2>2, <2>3
<1>4. ASSUME RecordStep
      PROVE  HoldBacksRefund'
  <2>1. adj' = adj
    BY <1>4, RecordStepKeeps
  <2>2. ASSUME NEW c \in Clerk, NEW q \in Pay,
               \/ \E j \in Adj : PrepareRefund(c, j, q)
               \/ ReviewRefund(c, q) \/ WithdrawRefund(c, q) \/ ApproveRelease(c, q),
               NEW p \in Holding'
        PROVE  p \in Holding /\ rec'[p] = rec[p]
    BY <2>2 DEF PrepareRefund, ReviewRefund, WithdrawRefund, ApproveRelease, SetRecord, Holding,
                TypeOK, RefundRecord
  <2>3. ASSUME NEW c \in Clerk, NEW q \in Pay, RequestRelease(c, q), NEW p \in Holding'
        PROVE  p \in Holding /\ rec'[p].adj = rec[p].adj
    BY <2>3 DEF RequestRelease, Holding, TypeOK, RefundRecord
  <2>4. ASSUME NEW c \in Clerk, NEW q \in Pay, ReserveRefund(c, q), NEW p \in Holding'
        PROVE  /\ adj[rec'[p].adj].status = "APPROVED"
               /\ adj[rec'[p].adj].source = <<"PAY", p>>
    <3>1. p # q => p \in Holding /\ rec'[p] = rec[p]
      BY <2>4 DEF ReserveRefund, SetRecord, Holding, TypeOK, RefundRecord
    <3>2. p = q => rec'[p].adj = rec[p].adj
      BY <2>4 DEF ReserveRefund, SetRecord, TypeOK, RefundRecord
    <3>3. adj[rec[q].adj].status = "APPROVED" /\ adj[rec[q].adj].source = <<"PAY", q>>
      BY <2>4 DEF ReserveRefund, RefundSource
    <3> QED BY <3>1, <3>2, <3>3 DEF HoldBacksRefund
  <2>5. \A p \in Holding' : /\ adj[rec'[p].adj].status = "APPROVED"
                            /\ adj[rec'[p].adj].source = <<"PAY", p>>
    BY <1>4, <2>2, <2>3, <2>4 DEF RecordStep, HoldBacksRefund
  <2> QED BY <2>1, <2>5 DEF HoldBacksRefund
<1> QED BY <1>2, <1>3, <1>4, AdjustmentSteps

(* A reservation at Netcash stands for a refund that is approved and       *)
(* unpaid, in a portal whose pages reject only what is not yet approved.   *)
(* (Without that assumption the run refund_reject shows the exception.)    *)
THEOREM ReservationStands ==
  ASSUME "lateReject" \notin Ops
  PROVE  Spec => []HoldBacksRefund
<1>1. Init => HoldBacksRefund
  BY HoldInit
<1>2. TypeOK /\ HoldBacksRefund /\ [Next]_vars => HoldBacksRefund'
  <2> SUFFICES ASSUME TypeOK, HoldBacksRefund, [Next]_vars PROVE HoldBacksRefund'
    OBVIOUS
  <2>1. ASSUME UNCHANGED <<adj, rec>> PROVE HoldBacksRefund'
    BY <2>1 DEF HoldBacksRefund, Holding
  <2>2. CASE Billing
    BY <2>1, <2>2, BillingKeepsDecisions
  <2>3. CASE Adjustments
    BY <2>3, AdjustmentsHold
  <2>4. CASE DebitRuns
    BY <2>1, <2>4, DebitRunsKeep
  <2>5. CASE UNCHANGED vars
    BY <2>1, <2>5 DEF vars
  <2> QED BY <2>2, <2>3, <2>4, <2>5 DEF Next
<1> QED BY <1>1, <1>2, FinanceTyped, PTL DEF Spec

-----------------------------------------------------------------------------
(* An invoice is written only from a bill on somebody's screen, on figures *)
(* that are still those of the account.                                    *)
LEMMA InvoicesReviewed ==
  ASSUME TypeOK, [Next]_vars, NEW a \in Account, NEW m \in Month,
         invoice'[<<a, m>>] # invoice[<<a, m>>]
  PROVE  \E s \in Screen : sheet[s] = [acc |-> a, month |-> m, seen |-> BillFigures(a)]
<1>1. invoice' = invoice \/ \E s \in Screen : PostBill(s)
  <2>1. Billing => invoice' = invoice \/ \E s \in Screen : PostBill(s)
    BY DEF Billing, SavePlan, PreviewBill, LegacyCheck, LegacyPost, LegacySkip, ManualReceipt,
           Checkout, Settle, billing
  <2>2. Adjustments => invoice' = invoice
    BY DEF Adjustments, RequestAdjustment, Approve, Reject, Cancel, RecordPayout, PostAdjustment,
           PrepareRefund, ReviewRefund, WithdrawRefund, ReserveRefund, RequestRelease,
           ApproveRelease, SetRecord, billing
  <2> QED BY <2>1, <2>2, DebitRunsKeep DEF Next, vars
<1>2. PICK s \in Screen : PostBill(s)
  BY <1>1
<1>3. sheet[s].acc = a /\ sheet[s].month = m
  <2>1. invoice' = [invoice EXCEPT ![<<sheet[s].acc, sheet[s].month>>]
                      = ledger[sheet[s].acc] \cup {RentEntry(sheet[s].month)}]
    BY <1>2 DEF PostBill
  <2>2. <<a, m>> = <<sheet[s].acc, sheet[s].month>>
    BY <2>1 DEF TypeOK
  <2> QED BY <2>2
<1>4. sheet[s].seen = BillFigures(a)
  BY <1>2, <1>3 DEF PostBill
<1>5. sheet[s] = [acc |-> sheet[s].acc, month |-> sheet[s].month, seen |-> sheet[s].seen]
  BY DEF TypeOK, BillRow
<1> QED BY <1>3, <1>4, <1>5

(* An adjustment is posted only by a decision that compares the figures    *)
(* with those it was requested on.                                         *)
LEMMA PostingsReviewed ==
  ASSUME TypeOK, [Next]_vars, NEW j \in Adj, adj'[j].status = "POSTED", adj[j].status # "POSTED"
  PROVE  Figures(adj[j].acc) = adj[j].seen
<1>1. adj' # adj
  OBVIOUS
<1>2. Adjustments
  BY <1>1, BillingKeepsDecisions, DebitRunsKeep DEF Next, vars
<1>3. ASSUME NEW c \in Clerk, NEW a \in Account, NEW i \in Adj, NEW kind \in Kinds, NEW n \in Amount,
             NEW src \in Refs \cup {NoRef}, RequestAdjustment(c, a, i, kind, n, src)
      PROVE  FALSE
  BY <1>3 DEF RequestAdjustment, TypeOK
<1>4. ASSUME NEW c \in Clerk, NEW i \in Adj,
             Approve(c, i) \/ Reject(c, i) \/ Cancel(c, i) \/ RecordPayout(c, i)
      PROVE  Figures(adj[j].acc) = adj[j].seen
  <2>1. i = j
    BY <1>4, Deciding DEF Decides, TypeOK
  <2>2. CASE Approve(c, i)
    BY <2>1, <2>2 DEF Approve, StillReviewed
  <2>3. CASE RecordPayout(c, i)
    BY <2>1, <2>3 DEF RecordPayout, StillReviewed
  <2>4. {"REJECTED", "CANCELLED"} \subseteq AdjustmentStatus
    BY DEF AdjustmentStatus
  <2>5. CASE Reject(c, i)
    <3>1. adj'[j] = Closed(j, "REJECTED")
      BY <2>1, <2>5 DEF Reject, TypeOK
    <3> QED BY <2>4, <3>1, ClosedKeeps
  <2>6. CASE Cancel(c, i)
    <3>1. adj'[j] = Closed(j, "CANCELLED")
      BY <2>1, <2>6 DEF Cancel, TypeOK
    <3> QED BY <2>4, <3>1, ClosedKeeps
  <2> QED BY <1>4, <2>2, <2>3, <2>5, <2>6
<1>5. ~ RecordStep
  BY <1>1, RecordStepKeeps
<1> QED BY <1>2, <1>3, <1>4, <1>5, AdjustmentSteps

(* A month is billed, and an adjustment posted, on the very figures a      *)
(* person reviewed.                                                        *)
THEOREM OnReviewedFigures == Spec => ReviewedFigures
<1> DEFINE Reviewed ==
      /\ \A a \in Account, m \in Month :
            invoice'[<<a, m>>] # invoice[<<a, m>>] =>
               \E s \in Screen : sheet[s] = [acc |-> a, month |-> m, seen |-> BillFigures(a)]
      /\ \A j \in Adj :
            adj'[j].status = "POSTED" /\ adj[j].status # "POSTED" =>
               Figures(adj[j].acc) = adj[j].seen
<1>1. TypeOK /\ [Next]_vars => [Reviewed]_vars
  BY InvoicesReviewed, PostingsReviewed
<1> QED BY <1>1, FinanceTyped, PTL DEF Spec, ReviewedFigures

-----------------------------------------------------------------------------
(* What the bank can have made of a file it took. *)
Taken == {"received", "loaded", "partial"}

(* What the portal knows of a run agrees with what the bank did: while it  *)
(* is being submitted nothing is recorded yet, an answer that came is the  *)
(* bank's own, only a run the bank took has a token, ...                   *)
RunKnown(r) ==
  /\ upload[r] # "none" => run[r].status = "SUBMITTING"
  /\ upload[r] = "claimed" => bank[r] = "none"
  /\ upload[r] = "token" => bank[r] \in Taken
  /\ upload[r] = "rejected" => bank[r] = "refused"
  /\ run[r].status \in {"NONE", "PREPARED", "CANCELLED"} => bank[r] = "none"
  /\ run[r].token =>
        bank[r] \in Taken /\ run[r].status \notin {"NONE", "PREPARED", "CANCELLED", "SUBMITTING"}
  /\ run[r].status = "REJECTED" => bank[r] = "refused"
  /\ run[r].status = "ACCEPTED" => bank[r] = "loaded"
  /\ run[r].status = "SUBMITTED" => bank[r] \in Taken

(* ... and a report on its way, however old, tells what is true for good.  *)
CheckKnown(k) ==
  /\ check[k].run # NoRow => run[check[k].run].token
  /\ check[k].report # "NONE" => check[k].run # NoRow
  /\ check[k].report = "ACCEPTED" => bank[check[k].run] = "loaded"

BankInv ==
  /\ \A r \in Run : RunKnown(r)
  /\ \A k \in Refresher : CheckKnown(k)

(* No file has been made at first. *)
LEMMA BankInit == Init => BankInv
<1> SUFFICES ASSUME Init PROVE BankInv
  OBVIOUS
<1>1. ASSUME NEW r \in Run PROVE RunKnown(r)
  BY DEF Init, RunKnown, NoRun
<1>2. ASSUME NEW k \in Refresher PROVE CheckKnown(k)
  BY DEF Init, CheckKnown, NoCheck
<1> QED BY <1>1, <1>2 DEF BankInv

(* A run's row is written, and all but its status, its token, its answer   *)
(* and its file are of no account here.                                    *)
LEMMA RunsKnown ==
  ASSUME TypeOK, BankInv, DebitRuns
  PROVE  \A r \in Run : RunKnown(r)'
<1>1. ASSUME NEW s \in Run,
             UNCHANGED <<upload, bank>>,
             run'[s].status = run[s].status, run'[s].token = run[s].token
      PROVE  RunKnown(s)'
  BY <1>1 DEF BankInv, RunKnown
<1>2. ASSUME UNCHANGED <<run, upload, bank>>, NEW s \in Run
      PROVE  RunKnown(s)'
  BY <1>1, <1>2
<1>3. ASSUME NEW r \in Run, NEW m \in Month, PrepareRun(r, m), NEW s \in Run
      PROVE  RunKnown(s)'
  <2>1. run[r].status = "NONE"
    BY <1>3 DEF PrepareRun, NextRow
  <2>2. CASE s = r
    <3>1. run'[r].status = "PREPARED" /\ run'[r].token = FALSE
      BY <1>3 DEF PrepareRun, TypeOK
    <3> QED BY <1>3, <2>1, <2>2, <3>1 DEF PrepareRun, BankInv, RunKnown
  <2>3. CASE s # r
    <3>1. run'[s] = run[s]
      BY <1>3, <2>3 DEF PrepareRun, TypeOK
    <3> QED BY <1>1, <1>3, <3>1 DEF PrepareRun
  <2> QED BY <2>2, <2>3
<1>4. ASSUME NEW r \in Run, CancelRun(r), NEW s \in Run
      PROVE  RunKnown(s)'
  <2>1. CASE s = r
    <3>1. run'[r].status = "CANCELLED" /\ run'[r].token = run[r].token
      BY <1>4 DEF CancelRun, TypeOK, RunRow
    <3> QED BY <1>4, <2>1, <3>1 DEF CancelRun, BankInv, RunKnown
  <2>2. CASE s # r
    <3>1. run'[s] = run[s]
      BY <1>4, <2>2 DEF CancelRun, TypeOK
    <3> QED BY <1>1, <1>4, <3>1 DEF CancelRun
  <2> QED BY <2>1, <2>2
<1>5. ASSUME NEW r \in Run, ClaimRun(r), NEW s \in Run
      PROVE  RunKnown(s)'
  <2>1. CASE s = r
    <3>1. run'[r].status = "SUBMITTING" /\ run'[r].token = run[r].token /\ upload'[r] = "claimed"
      BY <1>5 DEF ClaimRun, TypeOK, RunRow
    <3> QED BY <1>5, <2>1, <3>1 DEF ClaimRun, BankInv, RunKnown
  <2>2. CASE s # r
    <3>1. run'[s] = run[s] /\ upload'[s] = upload[s] /\ bank'[s] = bank[s]
      BY <1>5, <2>2 DEF ClaimRun, TypeOK
    <3> QED BY <3>1 DEF BankInv, RunKnown
  <2> QED BY <2>1, <2>2
<1>6. ASSUME NEW r \in Run, Upload(r), NEW s \in Run
      PROVE  RunKnown(s)'
  <2>1. CASE s = r
    <3>1. run[r].status = "SUBMITTING" /\ ~ run[r].token
      BY <1>6 DEF Upload, BankInv, RunKnown
    <3>2. /\ upload'[r] \in {"token", "rejected", "unknown"}
          /\ upload'[r] = "token" => bank'[r] \in Taken
          /\ upload'[r] = "rejected" => bank'[r] = "refused"
      BY <1>6 DEF Upload, TypeOK, Taken
    <3> QED BY <1>6, <2>1, <3>1, <3>2 DEF Upload, RunKnown
  <2>2. CASE s # r
    <3>1. run'[s] = run[s] /\ upload'[s] = upload[s] /\ bank'[s] = bank[s]
      BY <1>6, <2>2 DEF Upload, TypeOK
    <3> QED BY <3>1 DEF BankInv, RunKnown
  <2> QED BY <2>1, <2>2
<1>7. ASSUME NEW r \in Run, RecordAnswer(r), NEW s \in Run
      PROVE  RunKnown(s)'
  <2>1. CASE s = r
    <3>1. upload'[r] = "none" /\ bank' = bank /\ ~ run[r].token
      BY <1>7 DEF RecordAnswer, TypeOK, BankInv, RunKnown
    <3>2. \/ upload[r] = "token" /\ run'[r].status = "SUBMITTED" /\ run'[r].token
          \/ upload[r] = "rejected" /\ run'[r].status = "REJECTED" /\ run'[r].token = run[r].token
          \/ run'[r].status = "REVIEW_REQUIRED" /\ run'[r].token = run[r].token
      BY <1>7 DEF RecordAnswer, TypeOK, RunRow
    <3> QED BY <2>1, <3>1, <3>2 DEF BankInv, RunKnown
  <2>2. CASE s # r
    <3>1. run'[s] = run[s] /\ upload'[s] = upload[s] /\ bank'[s] = bank[s]
      BY <1>7, <2>2 DEF RecordAnswer, TypeOK
    <3> QED BY <3>1 DEF BankInv, RunKnown
  <2> QED BY <2>1, <2>2
<1>8. ASSUME NEW r \in Run, SubmitterStops(r), NEW s \in Run
      PROVE  RunKnown(s)'
  <2>1. run' = run /\ bank' = bank /\ (upload'[s] = upload[s] \/ upload'[s] = "none")
    BY <1>8 DEF SubmitterStops, TypeOK
  <2> QED BY <2>1 DEF BankInv, RunKnown
<1>9. ASSUME NEW r \in Run, BankLoads(r), NEW s \in Run
      PROVE  RunKnown(s)'
  <2>1. run' = run /\ upload' = upload /\ bank[r] = "received"
    BY <1>9 DEF BankLoads
  <2>2. bank'[s] = bank[s] \/ (bank[s] = "received" /\ bank'[s] \in {"loaded", "partial"})
    BY <1>9 DEF BankLoads, TypeOK
  <2> QED BY <2>1, <2>2 DEF BankInv, RunKnown, Taken
<1>10. ASSUME NEW r \in Run, CooledDown(r) \/ \E k \in Refresher : RefreshClaim(k, r), NEW s \in Run
       PROVE  RunKnown(s)'
  <2>1. run'[s].status = run[s].status /\ run'[s].token = run[s].token
    BY <1>10 DEF CooledDown, RefreshClaim, TypeOK, RunRow
  <2> QED BY <1>1, <1>10, <2>1 DEF CooledDown, RefreshClaim
<1>11. ASSUME NEW k \in Refresher, RefreshWrite(k), NEW s \in Run
       PROVE  RunKnown(s)'
  <2> DEFINE r == check[k].run
  <2>1. /\ check[k].report \in {"SUBMITTED", "ACCEPTED", "REVIEW_REQUIRED"}
        /\ r # NoRow /\ run[r].token /\ r \in Run
        /\ check[k].report = "ACCEPTED" => bank[r] = "loaded"
    BY <1>11 DEF RefreshWrite, TypeOK, CheckRow, BankInv, CheckKnown
  <2>2. CASE s = r
    <3>1. run'[s].status = check[k].report /\ run'[s].token = run[s].token
      BY <1>11, <2>1, <2>2 DEF RefreshWrite, TypeOK, RunRow
    <3>2. upload[s] = "none" /\ bank[s] \in Taken
      BY <2>1, <2>2 DEF BankInv, RunKnown
    <3>3. upload' = upload /\ bank' = bank
      BY <1>11 DEF RefreshWrite
    <3> HIDE DEF r
    <3> QED BY <2>1, <2>2, <3>1, <3>2, <3>3 DEF RunKnown
  <2>3. CASE s # r
    <3>1. run'[s] = run[s]
      BY <1>11, <2>3 DEF RefreshWrite, TypeOK
    <3> QED BY <1>1, <1>11, <3>1 DEF RefreshWrite
  <2> QED BY <2>2, <2>3
<1>12. ASSUME NEW s \in Run,
              \/ \E a \in Account : MandateLapses(a) \/ \E to \in {"ACTIVE", "PAUSED"} : SaveDebitPlan(a, to)
              \/ \E k \in Refresher : RefreshFetch(k) \/ RefreshFails(k)
       PROVE  RunKnown(s)'
  BY <1>2, <1>12 DEF MandateLapses, SaveDebitPlan, RefreshFetch, RefreshFails
<1> QED BY <1>3, <1>4, <1>5, <1>6, <1>7, <1>8, <1>9, <1>10, <1>11, <1>12 DEF DebitRuns

(* A token stays with its run, and what the bank has loaded stays loaded.  *)
LEMMA WhatStays ==
  ASSUME TypeOK, BankInv, DebitRuns
  PROVE  \A r \in Run : /\ run[r].token => run'[r].token
                        /\ bank[r] = "loaded" => bank'[r] = "loaded"
<1>1. ASSUME NEW r \in Run, NEW m \in Month, PrepareRun(r, m), NEW s \in Run
      PROVE  /\ run[s].token => run'[s].token
             /\ bank[s] = "loaded" => bank'[s] = "loaded"
  <2>1. ~ run[r].token
    BY <1>1 DEF PrepareRun, NextRow, BankInv, RunKnown
  <2>2. s # r => run'[s] = run[s]
    BY <1>1 DEF PrepareRun, TypeOK
  <2> QED BY <1>1, <2>1, <2>2 DEF PrepareRun
<1>2. ASSUME NEW r \in Run, NEW s \in Run, CancelRun(r) \/ ClaimRun(r) \/ CooledDown(r) \/ RecordAnswer(r)
      PROVE  /\ run[s].token => run'[s].token
             /\ bank[s] = "loaded" => bank'[s] = "loaded"
  <2>1. run[s].token => run'[s].token
    <3>1. CASE CancelRun(r)
      BY <3>1 DEF CancelRun, TypeOK, RunRow
    <3>2. CASE ClaimRun(r)
      BY <3>2 DEF ClaimRun, TypeOK, RunRow
    <3>3. CASE CooledDown(r)
      BY <3>3 DEF CooledDown, TypeOK, RunRow
    <3>4. CASE RecordAnswer(r)
      <4>1. s # r => run'[s] = run[s]
        BY <3>4 DEF RecordAnswer, TypeOK
      <4>2. ~ run[r].token
        BY <3>4 DEF RecordAnswer, BankInv, RunKnown
      <4> QED BY <4>1, <4>2
    <3> QED BY <1>2, <3>1, <3>2, <3>3, <3>4
  <2> QED BY <1>2, <2>1 DEF CancelRun, ClaimRun, CooledDown, RecordAnswer
<1>3. ASSUME NEW r \in Run, NEW s \in Run, Upload(r)
      PROVE  /\ run[s].token => run'[s].token
             /\ bank[s] = "loaded" => bank'[s] = "loaded"
  <2>1. bank[r] = "none" /\ run' = run
    BY <1>3 DEF Upload, BankInv, RunKnown
  <2>2. s # r => bank'[s] = bank[s]
    BY <1>3 DEF Upload, TypeOK
  <2> QED BY <2>1, <2>2
<1>4. ASSUME NEW r \in Run, NEW s \in Run, SubmitterStops(r) \/ BankLoads(r)
      PROVE  /\ run[s].token => run'[s].token
             /\ bank[s] = "loaded" => bank'[s] = "loaded"
  BY <1>4 DEF SubmitterStops, BankLoads, TypeOK
<1>5. ASSUME NEW s \in Run, NEW k \in Refresher,
             RefreshFetch(k) \/ RefreshWrite(k) \/ RefreshFails(k) \/ \E r \in Run : RefreshClaim(k, r)
      PROVE  /\ run[s].token => run'[s].token
             /\ bank[s] = "loaded" => bank'[s] = "loaded"
  <2>1. run[s].token => run'[s].token
    <3>1. CASE RefreshFetch(k) \/ RefreshFails(k)
      BY <3>1 DEF RefreshFetch, RefreshFails
    <3>2. CASE RefreshWrite(k)
      BY <3>2 DEF RefreshWrite, TypeOK, RunRow
    <3>3. ASSUME NEW r \in Run, RefreshClaim(k, r)
          PROVE  run[s].token => run'[s].token
      BY <3>3 DEF RefreshClaim, TypeOK, RunRow
    <3> QED BY <1>5, <3>1, <3>2, <3>3
  <2> QED BY <1>5, <2>1 DEF RefreshFetch, RefreshWrite, RefreshFails, RefreshClaim
<1>6. ASSUME NEW s \in Run,
             \E a \in Account : MandateLapses(a) \/ \E to \in {"ACTIVE", "PAUSED"} : SaveDebitPlan(a, to)
      PROVE  /\ run[s].token => run'[s].token
             /\ bank[s] = "loaded" => bank'[s] = "loaded"
  BY <1>6 DEF MandateLapses, SaveDebitPlan
<1> QED BY <1>1, <1>2, <1>3, <1>4, <1>5, <1>6 DEF DebitRuns

(* A report is claimed for a run with a token and read off the bank. *)
LEMMA ChecksKnown ==
  ASSUME TypeOK, BankInv, DebitRuns
  PROVE  \A k \in Refresher : CheckKnown(k)'
<1>1. ASSUME NEW k \in Refresher, check'[k] = check[k]
      PROVE  CheckKnown(k)'
  <2>1. check[k].run \in Run \cup {NoRow} /\ CheckKnown(k)
    BY DEF TypeOK, CheckRow, BankInv
  <2> QED BY <1>1, <2>1, WhatStays DEF CheckKnown
<1>2. ASSUME NEW k \in Refresher, check'[k] = NoCheck
      PROVE  CheckKnown(k)'
  BY <1>2 DEF CheckKnown, NoCheck
<1>3. ASSUME NEW k \in Refresher, NEW r \in Run, RefreshClaim(k, r)
      PROVE  CheckKnown(k)'
  <2>1. check'[k] = [run |-> r, report |-> "NONE"] /\ run[r].token
    BY <1>3 DEF RefreshClaim, TypeOK
  <2> QED BY <2>1, WhatStays DEF CheckKnown
<1>4. ASSUME NEW k \in Refresher, RefreshFetch(k)
      PROVE  CheckKnown(k)'
  <2>1. /\ check'[k].run = check[k].run /\ check[k].run # NoRow
        /\ check'[k].report = Report(check[k].run)
        /\ run' = run /\ bank' = bank
    BY <1>4 DEF RefreshFetch, TypeOK, CheckRow
  <2>2. run[check[k].run].token
    BY <2>1 DEF BankInv, CheckKnown
  <2>3. Report(check[k].run) = "ACCEPTED" => bank[check[k].run] = "loaded"
    BY DEF Report
  <2> QED BY <2>1, <2>2, <2>3 DEF CheckKnown
<1>5. ASSUME NEW k \in Refresher, RefreshWrite(k) \/ RefreshFails(k)
      PROVE  check'[k] = NoCheck
  BY <1>5 DEF RefreshWrite, RefreshFails, TypeOK
<1>6. \/ \E k \in Refresher : RefreshFetch(k) \/ RefreshWrite(k) \/ RefreshFails(k)
                               \/ \E r \in Run : RefreshClaim(k, r)
      \/ check' = check
  BY DEF DebitRuns, MandateLapses, SaveDebitPlan, PrepareRun, CancelRun, ClaimRun, Upload, RecordAnswer,
         SubmitterStops, BankLoads, CooledDown
<1>7. ASSUME NEW k \in Refresher, NEW i \in Refresher, i # k,
             RefreshFetch(i) \/ RefreshWrite(i) \/ RefreshFails(i) \/ \E r \in Run : RefreshClaim(i, r)
      PROVE  check'[k] = check[k]
  BY <1>7 DEF RefreshClaim, RefreshFetch, RefreshWrite, RefreshFails, TypeOK
<1> QED BY <1>1, <1>2, <1>3, <1>4, <1>5, <1>6, <1>7

(* Nothing but debit runs touches what is known of them. *)
LEMMA OthersKeepRuns ==
  Billing \/ Adjustments => UNCHANGED <<debit, instr, run, upload, bank, sent, check>>
<1>1. Billing => UNCHANGED <<debit, instr, run, upload, bank, sent, check>>
  BY BillingKeepsDecisions
<1>2. \A j \in Adj : PostAdjustment(j) => UNCHANGED <<debit, instr, run, upload, bank, sent, check>>
  BY DEF PostAdjustment, collection
<1>3. ASSUME NEW c \in Clerk, NEW j \in Adj,
             Approve(c, j) \/ Reject(c, j) \/ Cancel(c, j) \/ RecordPayout(c, j)
      PROVE  UNCHANGED <<debit, instr, run, upload, bank, sent, check>>
  <2>1. CASE Approve(c, j)
    BY <1>2, <2>1 DEF Approve, collection
  <2>2. CASE Reject(c, j) \/ Cancel(c, j)
    BY <2>2 DEF Reject, Cancel, collection
  <2>3. CASE RecordPayout(c, j)
    BY <1>2, <2>3 DEF RecordPayout
  <2> QED BY <1>3, <2>1, <2>2, <2>3
<1>4. ASSUME NEW c \in Clerk, NEW a \in Account, NEW j \in Adj, NEW kind \in Kinds, NEW n \in Amount,
             NEW src \in Refs \cup {NoRef}, RequestAdjustment(c, a, j, kind, n, src)
      PROVE  UNCHANGED <<debit, instr, run, upload, bank, sent, check>>
  BY <1>4 DEF RequestAdjustment, collection
<1>5. Adjustments => UNCHANGED <<debit, instr, run, upload, bank, sent, check>>
  BY <1>3, <1>4, AdjustmentSteps, RecordStepKeeps
<1> QED BY <1>1, <1>5

(* Every step keeps what is known of a run true. *)
LEMMA BankStep == TypeOK /\ BankInv /\ [Next]_vars => BankInv'
<1> SUFFICES ASSUME TypeOK, BankInv, [Next]_vars PROVE BankInv'
  OBVIOUS
<1>1. CASE DebitRuns
  BY <1>1, RunsKnown, ChecksKnown DEF BankInv
<1>2. CASE Billing \/ Adjustments \/ UNCHANGED vars
  <2>1. UNCHANGED <<run, upload, bank, check>>
    BY <1>2, OthersKeepRuns DEF vars
  <2> QED BY <2>1 DEF BankInv, RunKnown, CheckKnown
<1> QED BY <1>1, <1>2 DEF Next

(* What the portal says of a run is what the bank did. *)
THEOREM HonestOutcome == Spec => []OutcomeHonest
<1>1. Init => BankInv
  BY BankInit
<1>2. TypeOK /\ BankInv /\ [Next]_vars => BankInv'
  BY BankStep
<1>3. BankInv => OutcomeHonest
  BY DEF BankInv, RunKnown, OutcomeHonest, Taken
<1> QED BY <1>1, <1>2, <1>3, FinanceTyped, PTL DEF Spec

-----------------------------------------------------------------------------
(* An account's month in a run: a run that still stands, whose rows have   *)
(* the account unblocked and whose month it is while it is prepared; the   *)
(* bank has been asked for it once at most, and only in that run's file.   *)
ReservedInv ==
  \A k \in Account \X Month :
     /\ instr[k] # NoRow => run[instr[k]].status \notin {"NONE", "CANCELLED"}
     /\ instr[k] # NoRow /\ run[instr[k]].status = "PREPARED" =>
           k[2] = run[instr[k]].month /\ ~ run[instr[k]].rows[k[1]].blocker
     /\ sent[k] \in {0, 1}
     /\ sent[k] = 1 => instr[k] # NoRow /\ bank[instr[k]] # "none"

(* Nothing is reserved at first. *)
LEMMA ReservedInit == Init => ReservedInv
BY DEF Init, ReservedInv

(* An account's month a step leaves in its run, which only moves on. *)
LEMMA ReservedStays ==
  ASSUME TypeOK, ReservedInv, NEW k \in Account \X Month, instr'[k] = instr[k], sent'[k] = sent[k],
         instr[k] # NoRow =>
            /\ run'[instr[k]] = run[instr[k]] \/ run'[instr[k]].status \notin {"NONE", "PREPARED", "CANCELLED"}
            /\ bank[instr[k]] # "none" => bank'[instr[k]] # "none"
  PROVE  /\ instr'[k] # NoRow => run'[instr'[k]].status \notin {"NONE", "CANCELLED"}
         /\ instr'[k] # NoRow /\ run'[instr'[k]].status = "PREPARED" =>
               k[2] = run'[instr'[k]].month /\ ~ run'[instr'[k]].rows[k[1]].blocker
         /\ sent'[k] \in {0, 1}
         /\ sent'[k] = 1 => instr'[k] # NoRow /\ bank'[instr'[k]] # "none"
BY DEF ReservedInv

(* Preparing a run reserves accounts that can be collected ... *)
LEMMA PrepareReserves ==
  ASSUME TypeOK, BankInv, ReservedInv, NEW r \in Run, NEW m \in Month, PrepareRun(r, m)
  PROVE  ReservedInv'
<1> DEFINE rows == Rows(m, NoRow)
           eligible == {a \in Account : ~ rows[a].blocker}
<1>1. /\ run[r].status = "NONE"
      /\ instr' = [k \in Account \X Month |-> IF k[2] = m /\ k[1] \in eligible THEN r ELSE instr[k]]
      /\ sent' = sent /\ bank' = bank
  BY DEF PrepareRun, NextRow
<1>2. /\ run'[r].status = "PREPARED" /\ run'[r].month = m /\ run'[r].rows = rows
      /\ \A s \in Run : s # r => run'[s] = run[s]
  BY DEF PrepareRun, TypeOK
<1>3. r # NoRow
  BY DEF Run, NoRow
<1>4. ASSUME NEW k \in Account \X Month, k[2] = m, k[1] \in eligible
      PROVE  instr[k] = NoRow
  <2>1. Collectable(k[1], m, NoRow)
    BY <1>4 DEF Rows, Blocked
  <2>2. k = <<k[1], m>>
    BY <1>4
  <2> QED BY <2>1, <2>2 DEF Collectable
<1> HIDE DEF rows
<1> SUFFICES ASSUME NEW k \in Account \X Month
             PROVE  /\ instr'[k] # NoRow => run'[instr'[k]].status \notin {"NONE", "CANCELLED"}
                    /\ instr'[k] # NoRow /\ run'[instr'[k]].status = "PREPARED" =>
                          k[2] = run'[instr'[k]].month /\ ~ run'[instr'[k]].rows[k[1]].blocker
                    /\ sent'[k] \in {0, 1}
                    /\ sent'[k] = 1 => instr'[k] # NoRow /\ bank'[instr'[k]] # "none"
  BY DEF ReservedInv
<1>5. CASE k[2] = m /\ k[1] \in eligible
  <2>1. instr'[k] = r /\ sent'[k] = 0
    BY <1>1, <1>4, <1>5 DEF ReservedInv
  <2> QED BY <1>2, <1>5, <2>1
<1>6. CASE ~ (k[2] = m /\ k[1] \in eligible)
  <2>1. instr'[k] = instr[k] /\ sent'[k] = sent[k]
    BY <1>1, <1>6
  <2>2. instr[k] # NoRow => instr[k] \in Run /\ instr[k] # r
    BY <1>1 DEF TypeOK, ReservedInv
  <2> QED BY <1>1, <1>2, <2>1, <2>2, ReservedStays
<1> QED BY <1>5, <1>6

(* ... cancelling it lets them go ... *)
LEMMA CancelLetsGo ==
  ASSUME TypeOK, BankInv, ReservedInv, NEW r \in Run, CancelRun(r)
  PROVE  ReservedInv'
<1>1. /\ run[r].status = "PREPARED" /\ bank[r] = "none"
      /\ instr' = [k \in Account \X Month |-> IF instr[k] = r THEN NoRow ELSE instr[k]]
      /\ sent' = sent /\ bank' = bank
      /\ \A s \in Run : s # r => run'[s] = run[s]
  BY DEF CancelRun, TypeOK, BankInv, RunKnown
<1> SUFFICES ASSUME NEW k \in Account \X Month
             PROVE  /\ instr'[k] # NoRow => run'[instr'[k]].status \notin {"NONE", "CANCELLED"}
                    /\ instr'[k] # NoRow /\ run'[instr'[k]].status = "PREPARED" =>
                          k[2] = run'[instr'[k]].month /\ ~ run'[instr'[k]].rows[k[1]].blocker
                    /\ sent'[k] \in {0, 1}
                    /\ sent'[k] = 1 => instr'[k] # NoRow /\ bank'[instr'[k]] # "none"
  BY DEF ReservedInv
<1>2. CASE instr[k] = r
  <2>1. instr'[k] = NoRow /\ sent'[k] = 0
    BY <1>1, <1>2 DEF ReservedInv
  <2> QED BY <2>1
<1>3. CASE instr[k] # r
  <2>1. instr'[k] = instr[k] /\ sent'[k] = sent[k] /\ (instr[k] # NoRow => instr[k] \in Run)
    BY <1>1, <1>3 DEF TypeOK
  <2> QED BY <1>1, <1>3, <2>1, ReservedStays
<1> QED BY <1>2, <1>3

(* ... and the file puts each of them to the bank, where it had not been.  *)
LEMMA UploadAsks ==
  ASSUME TypeOK, BankInv, ReservedInv, NEW r \in Run, Upload(r)
  PROVE  /\ ReservedInv'
         /\ run[r].status = "SUBMITTING" /\ run' = run /\ instr' = instr
         /\ \/ sent' = sent
            \/ /\ \A k \in Account \X Month : instr[k] = r => sent[k] = 0
               /\ sent' = [k \in Account \X Month |-> IF instr[k] = r THEN 1 ELSE sent[k]]
<1>1. bank[r] = "none" /\ run[r].status = "SUBMITTING" /\ run' = run /\ instr' = instr
  BY DEF Upload, BankInv, RunKnown
<1>2. \A s \in Run : s # r => bank'[s] = bank[s]
  BY DEF Upload, TypeOK
<1>3. \A k \in Account \X Month : instr[k] = r => sent[k] = 0
  BY <1>1 DEF ReservedInv
<1>4. sent' = [k \in Account \X Month |->
                 IF instr[k] = r /\ bank'[r] # "none" THEN sent[k] + 1 ELSE sent[k]]
  BY DEF Upload
<1>5. \/ bank'[r] = "none" /\ sent' = sent
      \/ bank'[r] # "none" /\ sent' = [k \in Account \X Month |-> IF instr[k] = r THEN 1 ELSE sent[k]]
  <2>1. CASE bank'[r] = "none"
    <3>1. sent = [k \in Account \X Month |-> sent[k]]
      BY DEF TypeOK
    <3> QED BY <1>4, <2>1, <3>1
  <2>2. CASE bank'[r] # "none"
    BY <1>3, <1>4, <2>2
  <2> QED BY <2>1, <2>2
<1>6. ASSUME NEW k \in Account \X Month
      PROVE  /\ instr'[k] # NoRow => run'[instr'[k]].status \notin {"NONE", "CANCELLED"}
             /\ instr'[k] # NoRow /\ run'[instr'[k]].status = "PREPARED" =>
                   k[2] = run'[instr'[k]].month /\ ~ run'[instr'[k]].rows[k[1]].blocker
             /\ sent'[k] \in {0, 1}
             /\ sent'[k] = 1 => instr'[k] # NoRow /\ bank'[instr'[k]] # "none"
  <2>1. CASE instr[k] = r
    <3>1. r # NoRow
      BY DEF Run, NoRow
    <3> QED BY <1>1, <1>3, <1>5, <2>1, <3>1
  <2>2. CASE instr[k] # r
    <3>1. sent'[k] = sent[k] /\ (instr[k] # NoRow => bank'[instr[k]] = bank[instr[k]])
      BY <1>2, <1>5, <2>2 DEF TypeOK
    <3> QED BY <1>1, <2>2, <3>1, ReservedStays
  <2> QED BY <2>1, <2>2
<1> QED BY <1>1, <1>3, <1>5, <1>6 DEF ReservedInv

(* The time of the last check is no part of what a run is about. *)
LEMMA Cooling ==
  ASSUME TypeOK, NEW r \in Run, NEW x \in BOOLEAN, run' = [run EXCEPT ![r].cooling = x]
  PROVE  \A s \in Run : /\ run'[s].status = run[s].status
                        /\ run'[s].month = run[s].month /\ run'[s].rows = run[s].rows
<1> TAKE s \in Run
<1>1. s # r => run'[s] = run[s]
  BY DEF TypeOK
<1>2. run'[r] = [run[r] EXCEPT !.cooling = x] /\ run[r] \in RunRow
  BY DEF TypeOK
<1> QED BY <1>1, <1>2 DEF RunRow

(* What a step on a run does to the accounts it has reserved. *)
LEMMA RunsReserve ==
  ASSUME TypeOK, BankInv, ReservedInv, DebitRuns
  PROVE  ReservedInv'
<1>1. ASSUME instr' = instr, sent' = sent,
             \A r \in Run :
                \/ run'[r] = run[r]
                \/ run'[r].status \notin {"NONE", "PREPARED", "CANCELLED"}
                \/ /\ run'[r].status = run[r].status
                   /\ run'[r].month = run[r].month /\ run'[r].rows = run[r].rows,
             \A r \in Run : bank[r] # "none" => bank'[r] # "none"
      PROVE  ReservedInv'
  <2>1. \A k \in Account \X Month : instr[k] # NoRow => instr[k] \in Run
    BY DEF TypeOK
  <2> QED BY <1>1, <2>1 DEF ReservedInv
<1>2. ASSUME NEW r \in Run, ClaimRun(r) \/ RecordAnswer(r)
      PROVE  ReservedInv'
  <2>1. instr' = instr /\ sent' = sent /\ bank' = bank
    BY <1>2 DEF ClaimRun, RecordAnswer
  <2>2. \A s \in Run : s # r => run'[s] = run[s]
    BY <1>2 DEF ClaimRun, RecordAnswer, TypeOK
  <2>3. run'[r].status \in {"SUBMITTING", "SUBMITTED", "REJECTED", "REVIEW_REQUIRED"}
    <3>1. CASE ClaimRun(r)
      BY <3>1 DEF ClaimRun, TypeOK, RunRow
    <3>2. CASE RecordAnswer(r)
      BY <3>2 DEF RecordAnswer, TypeOK, RunRow
    <3> QED BY <1>2, <3>1, <3>2
  <2> QED BY <1>1, <2>1, <2>2, <2>3
<1>3. ASSUME NEW r \in Run, CooledDown(r) \/ \E k \in Refresher : RefreshClaim(k, r)
      PROVE  ReservedInv'
  <2>1. instr' = instr /\ sent' = sent /\ bank' = bank
    BY <1>3 DEF CooledDown, RefreshClaim
  <2>2. run' = [run EXCEPT ![r].cooling = FALSE] \/ run' = [run EXCEPT ![r].cooling = TRUE]
    BY <1>3 DEF CooledDown, RefreshClaim
  <2>3. \A s \in Run : /\ run'[s].status = run[s].status
                       /\ run'[s].month = run[s].month /\ run'[s].rows = run[s].rows
    BY <2>2, Cooling
  <2> QED BY <1>1, <2>1, <2>3
<1>4. ASSUME NEW k \in Refresher, RefreshWrite(k)
      PROVE  ReservedInv'
  <2>1. instr' = instr /\ sent' = sent /\ bank' = bank
    BY <1>4 DEF RefreshWrite
  <2>2. check[k].report \in {"SUBMITTED", "ACCEPTED", "REVIEW_REQUIRED"}
    BY <1>4 DEF RefreshWrite, TypeOK, CheckRow
  <2>3. \A s \in Run : run'[s] = run[s] \/ run'[s].status = check[k].report
    BY <1>4 DEF RefreshWrite, TypeOK, RunRow
  <2> QED BY <1>1, <2>1, <2>2, <2>3
<1>5. ASSUME NEW r \in Run, SubmitterStops(r) \/ BankLoads(r)
      PROVE  ReservedInv'
  <2>1. instr' = instr /\ sent' = sent /\ run' = run
    BY <1>5 DEF SubmitterStops, BankLoads
  <2>2. \A s \in Run : bank[s] # "none" => bank'[s] # "none"
    BY <1>5 DEF SubmitterStops, BankLoads, TypeOK
  <2> QED BY <1>1, <2>1, <2>2
<1>6. ASSUME \/ \E a \in Account : MandateLapses(a) \/ \E to \in {"ACTIVE", "PAUSED"} : SaveDebitPlan(a, to)
             \/ \E k \in Refresher : RefreshFetch(k) \/ RefreshFails(k)
      PROVE  ReservedInv'
  <2>1. instr' = instr /\ sent' = sent /\ run' = run /\ bank' = bank
    BY <1>6 DEF MandateLapses, SaveDebitPlan, RefreshFetch, RefreshFails
  <2> QED BY <1>1, <2>1
<1> QED
  BY <1>2, <1>3, <1>4, <1>5, <1>6, PrepareReserves, CancelLetsGo, UploadAsks DEF DebitRuns

(* Every step keeps what is reserved in order. *)
LEMMA ReservedStep == TypeOK /\ BankInv /\ ReservedInv /\ [Next]_vars => ReservedInv'
<1> SUFFICES ASSUME TypeOK, BankInv, ReservedInv, [Next]_vars PROVE ReservedInv'
  OBVIOUS
<1>1. CASE DebitRuns
  BY <1>1, RunsReserve
<1>2. CASE Billing \/ Adjustments \/ UNCHANGED vars
  <2>1. UNCHANGED <<instr, run, bank, sent>>
    BY <1>2, OthersKeepRuns DEF vars
  <2> QED BY <2>1 DEF ReservedInv
<1> QED BY <1>1, <1>2 DEF Next

-----------------------------------------------------------------------------
(* Only the claim of a submission brings an upload about. *)
LEMMA ClaimsStart ==
  ASSUME TypeOK, [Next]_vars, NEW r \in Run, upload[r] = "none", upload'[r] = "claimed"
  PROVE  ClaimRun(r)
<1>1. DebitRuns
  BY OthersKeepRuns DEF Next, vars
<1>2. upload' # upload
  OBVIOUS
<1>3. \E s \in Run : ClaimRun(s) \/ Upload(s) \/ RecordAnswer(s) \/ SubmitterStops(s)
  BY <1>1, <1>2
  DEF DebitRuns, MandateLapses, SaveDebitPlan, PrepareRun, CancelRun, BankLoads, CooledDown,
      RefreshClaim, RefreshFetch, RefreshWrite, RefreshFails
<1>4. ASSUME NEW s \in Run, Upload(s) \/ RecordAnswer(s) \/ SubmitterStops(s)
      PROVE  upload'[r] # "claimed"
  BY <1>4 DEF Upload, RecordAnswer, SubmitterStops, TypeOK
<1>5. ASSUME NEW s \in Run, ClaimRun(s)
      PROVE  s = r
  BY <1>5 DEF ClaimRun, TypeOK
<1> QED BY <1>3, <1>4, <1>5

(* The bank is asked for what is owed when it is asked. *)
THEOREM AskedWhatIsOwed == Spec => AskedIsOwed
<1> DEFINE Owed ==
      \A r \in Run, a \in Account, m \in Month :
         upload[r] = "none" /\ upload'[r] = "claimed" /\ instr[<<a, m>>] = r =>
            /\ balance[a] = Rent
            /\ debit[a] = [plan |-> "ACTIVE", mandate |-> TRUE]
            /\ OpenOn(a) = {}
            /\ \A p \in Pay : pay[p].acc = a => pay[p].status # "PENDING"
<1>1. TypeOK /\ ReservedInv /\ [Next]_vars => [Owed]_vars
  <2> SUFFICES ASSUME TypeOK, ReservedInv, [Next]_vars, NEW r \in Run, NEW a \in Account, NEW m \in Month,
                      upload[r] = "none", upload'[r] = "claimed", instr[<<a, m>>] = r
               PROVE  /\ balance[a] = Rent
                      /\ debit[a] = [plan |-> "ACTIVE", mandate |-> TRUE]
                      /\ OpenOn(a) = {}
                      /\ \A p \in Pay : pay[p].acc = a => pay[p].status # "PENDING"
    OBVIOUS
  <2>1. ClaimRun(r)
    BY ClaimsStart
  <2>2. run[r].status = "PREPARED" /\ Rows(run[r].month, r) = run[r].rows
    BY <2>1 DEF ClaimRun
  <2>3. m = run[r].month /\ ~ run[r].rows[a].blocker
    <3>1. r # NoRow
      BY DEF Run, NoRow
    <3>2. <<a, m>> \in Account \X Month /\ <<a, m>>[1] = a /\ <<a, m>>[2] = m
      OBVIOUS
    <3> QED BY <2>2, <3>1, <3>2 DEF ReservedInv
  <2>4. ~ Rows(m, r)[a].blocker
    BY <2>2, <2>3
  <2>5. Collectable(a, m, r)
    BY <2>4 DEF Rows, Blocked
  <2> QED BY <2>5 DEF Collectable
<1>2. Init => BankInv /\ ReservedInv
  BY BankInit, ReservedInit
<1>3. TypeOK /\ BankInv /\ ReservedInv /\ [Next]_vars => (BankInv /\ ReservedInv)'
  BY BankStep, ReservedStep
<1> QED BY <1>1, <1>2, <1>3, FinanceTyped, PTL DEF Spec, AskedIsOwed

-----------------------------------------------------------------------------
(* At first every account's month is open, and none has been asked for. *)
LEMMA BankStarts == Init => Bank!Init
BY DEF Init, Bank!Init, Stage

(* A step that moves the months in K of a run on together, or none. *)
LEMMA StageMoves ==
  ASSUME NEW K \in SUBSET (Account \X Month), NEW from, NEW to, \A k \in K : Stage[k] = from,
         \A k \in Account \X Month : Stage'[k] = IF k \in K THEN to ELSE Stage[k], sent' = sent
  PROVE  Bank!Advance(K, from, to)
<1>1. Stage' = [k \in Account \X Month |-> Stage'[k]]
  BY DEF Stage
<1> HIDE DEF Stage
<1> QED BY <1>1 DEF Bank!Advance

(* The stage of an account's month, spelled out. *)
LEMMA StageOf ==
  /\ \A k \in Account \X Month :
        Stage[k] = IF instr[k] = NoRow THEN "open"
                   ELSE IF run[instr[k]].status = "PREPARED" THEN "reserved" ELSE "committed"
  /\ \A k \in Account \X Month :
        Stage'[k] = IF instr'[k] = NoRow THEN "open"
                    ELSE IF run'[instr'[k]].status = "PREPARED" THEN "reserved" ELSE "committed"
BY DEF Stage

(* A step of a run moves its months as the contract with the bank allows.  *)
LEMMA RunsMapped ==
  ASSUME TypeOK, BankInv, ReservedInv, DebitRuns
  PROVE  [Bank!Next]_<<Stage, sent>>
<1>0. \A k \in Account \X Month : instr[k] # NoRow => instr[k] \in Run
  BY DEF TypeOK
<1>1. ASSUME instr' = instr, sent' = sent,
             \A r \in Run : run'[r].status = "PREPARED" <=> run[r].status = "PREPARED"
      PROVE  UNCHANGED <<Stage, sent>>
  <2>1. \A k \in Account \X Month : Stage'[k] = Stage[k]
    BY <1>0, <1>1, StageOf
  <2> QED BY <1>1, <2>1 DEF Stage
<1>2. ASSUME NEW r \in Run, NEW m \in Month, PrepareRun(r, m)
      PROVE  Bank!Next
  <2> DEFINE rows == Rows(m, NoRow)
             K == {k \in Account \X Month : k[2] = m /\ ~ rows[k[1]].blocker}
  <2>1. /\ run[r].status = "NONE" /\ run'[r].status = "PREPARED" /\ r # NoRow
        /\ \A s \in Run : s # r => run'[s] = run[s]
        /\ \A k \in Account \X Month : instr'[k] = IF k \in K THEN r ELSE instr[k]
        /\ sent' = sent
    BY <1>2 DEF PrepareRun, NextRow, TypeOK, Run, NoRow
  <2>2. ASSUME NEW k \in K PROVE instr[k] = NoRow
    <3>1. Collectable(k[1], m, NoRow)
      BY DEF Rows, Blocked
    <3> QED BY <3>1 DEF Collectable
  <2> HIDE DEF rows
  <2>3. \A k \in Account \X Month : instr[k] # r
    BY <2>1 DEF ReservedInv
  <2>4. \A k \in K : Stage[k] = "open"
    BY <2>2, StageOf
  <2>5. \A k \in Account \X Month : Stage'[k] = IF k \in K THEN "reserved" ELSE Stage[k]
    BY <1>0, <2>1, <2>3, StageOf
  <2> HIDE DEF K
  <2>6. K \in SUBSET (Account \X Month)
    BY DEF K
  <2>7. Bank!Advance(K, "open", "reserved")
    BY <2>1, <2>4, <2>5, <2>6, StageMoves
  <2> QED BY <2>6, <2>7 DEF Bank!Next, Bank!Reserve
<1>3. ASSUME NEW r \in Run, CancelRun(r)
      PROVE  Bank!Next
  <2> DEFINE K == {k \in Account \X Month : instr[k] = r}
  <2>1. /\ run[r].status = "PREPARED" /\ r # NoRow
        /\ \A s \in Run : s # r => run'[s] = run[s]
        /\ \A k \in Account \X Month : instr'[k] = IF k \in K THEN NoRow ELSE instr[k]
        /\ sent' = sent
    BY <1>3 DEF CancelRun, TypeOK, Run, NoRow
  <2>2. \A k \in K : Stage[k] = "reserved"
    BY <2>1, StageOf
  <2>3. \A k \in Account \X Month : Stage'[k] = IF k \in K THEN "open" ELSE Stage[k]
    BY <1>0, <2>1, StageOf
  <2>4. K \in SUBSET (Account \X Month)
    OBVIOUS
  <2> HIDE DEF K
  <2>5. Bank!Advance(K, "reserved", "open")
    BY <2>1, <2>2, <2>3, <2>4, StageMoves
  <2> QED BY <2>4, <2>5 DEF Bank!Next, Bank!LetGo
<1>4. ASSUME NEW r \in Run, ClaimRun(r)
      PROVE  Bank!Next
  <2> DEFINE K == {k \in Account \X Month : instr[k] = r}
  <2>1. /\ run[r].status = "PREPARED" /\ run'[r].status = "SUBMITTING" /\ r # NoRow
        /\ \A s \in Run : s # r => run'[s] = run[s]
        /\ instr' = instr /\ sent' = sent
    BY <1>4 DEF ClaimRun, TypeOK, RunRow, Run, NoRow
  <2>2. \A k \in K : Stage[k] = "reserved"
    BY <2>1, StageOf
  <2>3. \A k \in Account \X Month : Stage'[k] = IF k \in K THEN "committed" ELSE Stage[k]
    BY <1>0, <2>1, StageOf
  <2>4. K \in SUBSET (Account \X Month)
    OBVIOUS
  <2> HIDE DEF K
  <2>5. Bank!Advance(K, "reserved", "committed")
    BY <2>1, <2>2, <2>3, <2>4, StageMoves
  <2> QED BY <2>4, <2>5 DEF Bank!Next, Bank!Commit
<1>5. ASSUME NEW r \in Run, Upload(r)
      PROVE  [Bank!Next]_<<Stage, sent>>
  <2> DEFINE K == {k \in Account \X Month : instr[k] = r}
  <2>1. run[r].status = "SUBMITTING" /\ run' = run /\ instr' = instr /\ r # NoRow
    BY <1>5, UploadAsks DEF Run, NoRow
  <2>2. Stage' = Stage
    BY <2>1 DEF Stage
  <2>3. CASE sent' = sent
    BY <2>2, <2>3
  <2>4. CASE /\ \A k \in Account \X Month : instr[k] = r => sent[k] = 0
             /\ sent' = [k \in Account \X Month |-> IF instr[k] = r THEN 1 ELSE sent[k]]
    <3>1. \A k \in K : Stage[k] = "committed" /\ sent[k] = 0
      BY <2>1, <2>4, StageOf
    <3>2. sent' = [k \in Account \X Month |-> IF k \in K THEN 1 ELSE sent[k]]
      BY <2>4
    <3>3. K \in SUBSET (Account \X Month)
      OBVIOUS
    <3> HIDE DEF K
    <3>4. Bank!Ask(K)
      BY <2>2, <3>1, <3>2 DEF Bank!Ask
    <3> QED BY <3>3, <3>4 DEF Bank!Next
  <2> QED BY <1>5, <2>3, <2>4, UploadAsks
<1>6. ASSUME NEW r \in Run, RecordAnswer(r)
      PROVE  UNCHANGED <<Stage, sent>>
  <2>1. run[r].status = "SUBMITTING"
    BY <1>6 DEF RecordAnswer, BankInv, RunKnown
  <2>2. run'[r].status \in {"SUBMITTED", "REJECTED", "REVIEW_REQUIRED"}
    BY <1>6 DEF RecordAnswer, TypeOK, RunRow
  <2>3. instr' = instr /\ sent' = sent /\ \A s \in Run : s # r => run'[s] = run[s]
    BY <1>6 DEF RecordAnswer, TypeOK
  <2> QED BY <1>1, <2>1, <2>2, <2>3
<1>7. ASSUME NEW r \in Run, CooledDown(r) \/ \E k \in Refresher : RefreshClaim(k, r)
      PROVE  UNCHANGED <<Stage, sent>>
  <2>1. instr' = instr /\ sent' = sent
    BY <1>7 DEF CooledDown, RefreshClaim
  <2>2. run' = [run EXCEPT ![r].cooling = FALSE] \/ run' = [run EXCEPT ![r].cooling = TRUE]
    BY <1>7 DEF CooledDown, RefreshClaim
  <2>3. \A s \in Run : run'[s].status = run[s].status
    BY <2>2, Cooling
  <2> QED BY <1>1, <2>1, <2>3
<1>8. ASSUME NEW k \in Refresher, RefreshWrite(k)
      PROVE  UNCHANGED <<Stage, sent>>
  <2>1. instr' = instr /\ sent' = sent
    BY <1>8 DEF RefreshWrite
  <2>2. /\ check[k].report \in {"SUBMITTED", "ACCEPTED", "REVIEW_REQUIRED"}
        /\ check[k].run \in Run /\ run[check[k].run].token
    BY <1>8 DEF RefreshWrite, TypeOK, CheckRow, BankInv, CheckKnown
  <2>3. run[check[k].run].status # "PREPARED"
    BY <2>2 DEF BankInv, RunKnown
  <2>4. \A s \in Run : s # check[k].run => run'[s] = run[s]
    BY <1>8 DEF RefreshWrite, TypeOK
  <2>5. run'[check[k].run].status = check[k].report
    BY <1>8, <2>2 DEF RefreshWrite, TypeOK, RunRow
  <2> QED BY <1>1, <2>1, <2>2, <2>3, <2>4, <2>5
<1>9. ASSUME \/ \E r \in Run : SubmitterStops(r) \/ BankLoads(r)
             \/ \E a \in Account : MandateLapses(a) \/ \E to \in {"ACTIVE", "PAUSED"} : SaveDebitPlan(a, to)
             \/ \E k \in Refresher : RefreshFetch(k) \/ RefreshFails(k)
      PROVE  UNCHANGED <<Stage, sent>>
  <2>1. instr' = instr /\ sent' = sent /\ run' = run
    BY <1>9 DEF SubmitterStops, BankLoads, MandateLapses, SaveDebitPlan, RefreshFetch, RefreshFails
  <2> QED BY <1>1, <2>1
<1> QED BY <1>2, <1>3, <1>4, <1>5, <1>6, <1>7, <1>8, <1>9 DEF DebitRuns

(* Debit order runs implement the contract with the bank: an account's     *)
(* month is put to it at most once, whatever runs and lost answers.        *)
THEOREM BankKept == Spec => BankSpec
<1>1. Init => BankInv /\ ReservedInv /\ Bank!Init
  BY BankInit, ReservedInit, BankStarts
<1>2. TypeOK /\ BankInv /\ ReservedInv /\ [Next]_vars => (BankInv /\ ReservedInv)'
  BY BankStep, ReservedStep
<1>3. TypeOK /\ BankInv /\ ReservedInv /\ [Next]_vars => [Bank!Next]_<<Stage, sent>>
  <2> SUFFICES ASSUME TypeOK, BankInv, ReservedInv, [Next]_vars PROVE [Bank!Next]_<<Stage, sent>>
    OBVIOUS
  <2>1. CASE DebitRuns
    BY <2>1, RunsMapped
  <2>2. CASE Billing \/ Adjustments \/ UNCHANGED vars
    <3>1. UNCHANGED <<instr, run, sent>>
      BY <2>2, OthersKeepRuns DEF vars
    <3> QED BY <3>1 DEF Stage
  <2> QED BY <2>1, <2>2 DEF Next
<1> QED BY <1>1, <1>2, <1>3, FinanceTyped, PTL DEF Spec, BankSpec, Bank!Spec
=============================================================================
