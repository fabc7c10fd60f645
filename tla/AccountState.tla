---------------------------- MODULE AccountState ----------------------------
(***************************************************************************)
(* The tables the money side shares: accounts with their ledger, payments, *)
(* adjustments, Netcash refund records and debit order runs.               *)
(*                                                                         *)
(* Every writing transaction takes the Account row lock first, or is       *)
(* SERIALIZABLE, or both, so it is one step.  What spans several steps is  *)
(* what a person or a process carries from one transaction to another: a   *)
(* bill on a clerk's screen, the figures an adjustment or a debit run was  *)
(* reviewed on (the code keeps a hash of them), a check made before a      *)
(* transaction, a call to the bank.                                        *)
(***************************************************************************)
EXTENDS Integers, FiniteSets, Functions

CONSTANTS Account,     \* the accounts of one facility
          Clerk,       \* staff with the permissions for accounts
          Screen,      \* pages with a bill on them, or automated jobs posting bills
          Worker,      \* runs of the monthly billing job at the same time
          Refresher,   \* requests for the bank's report at the same time
          MaxMonth,    \* bounds: the current billing period, the versions of a
          MaxPlan,     \*   plan, payments, adjustments and debit runs ever
          MaxPay,      \*   created, and the largest amount of either
          MaxAdj,
          MaxRun,
          MaxAmount,
          Ops,         \* the operations this instance exercises
          None         \* no account, no clerk

NoRow == 0
Month == 1 .. MaxMonth \* the periods that may be billed; today is in the last
Pay == 1 .. MaxPay
Adj == 1 .. MaxAdj
Run == 1 .. MaxRun
Amount == 1 .. MaxAmount
Rent == 1              \* one month of rent, the unit amounts are counted in

ASSUME BoundsAssumption ==
    /\ MaxMonth \in Nat \ {0} /\ MaxPlan \in Nat /\ MaxPay \in Nat
    /\ MaxAdj \in Nat /\ MaxRun \in Nat /\ MaxAmount \in Nat \ {0}
ASSUME NoneAssumption == None \notin Account /\ None \notin Clerk

VARIABLES plan,      \* version of the approved billing plan, 0 without one
          ledger,    \* LedgerEntry, at most one for each external reference
          balance,   \* Account.balance
          invoice,   \* the monthly invoice Document: the entries there are with it
          sheet,     \* the bill a page shows
          job,       \* the account and period a billing job found unbilled
          pay,       \* Payment
          adj,       \* FinancialAdjustment
          rec,       \* the refund record a payment has, NETCASH_PROVIDER_REFUND
          debit,     \* the debit plan and the mandate of an account
          instr,     \* DebitOrderInstruction: the run an account's month is in
          run,       \* DebitOrderRun
          upload,    \* the submission of a run in progress
          bank,      \* what the bank made of a run's file
          sent,      \* how often the bank was handed an account's month
          check      \* requests for a report in progress

books == <<ledger, balance>>
billing == <<plan, invoice, sheet, job>>
collection == <<debit, instr, run, upload, bank, sent, check>>
vars == <<plan, ledger, balance, invoice, sheet, job, pay, adj, rec,
          debit, instr, run, upload, bank, sent, check>>

Kinds == {"CHARGE", "CREDIT", "WRITE_OFF", "REVERSAL", "REFUND"}
Refs == ({"RENT"} \X Month) \cup ({"PAY"} \X Pay) \cup ({"ADJ"} \X Adj)
NoRef == <<"NONE", NoRow>>
Entry == [ref : Refs, type : Kinds \cup {"PAYMENT"}, amount : Amount, month : Month]

PaymentStatus == {"NONE", "PENDING", "SUCCEEDED", "PARTIALLY_REFUNDED", "REFUNDED", "REVERSED"}
PaymentRow ==
    [acc : Account \cup {None}, amount : Amount, online : BOOLEAN, status : PaymentStatus]

(* What a person is shown of an account, and what the fingerprints hash. *)
Sheet == [plan : 0 .. MaxPlan, balance : Int, entries : SUBSET Entry, pays : [Pay -> PaymentRow]]

AdjustmentStatus == {"NONE", "PENDING_APPROVAL", "APPROVED", "POSTED", "REJECTED", "CANCELLED"}
AdjustmentRow ==
    [acc : Account \cup {None}, kind : Kinds, amount : Amount, source : Refs \cup {NoRef},
     status : AdjustmentStatus,
     by : Clerk \cup {None}, reviewer : Clerk \cup {None}, seen : Sheet]

RecordState == {"NONE", "PREPARED", "REVIEWED", "REJECTED", "WITHDRAWN", "RESERVED",
                "RELEASE_REQUESTED", "RELEASED"}
RefundRecord ==
    [state : RecordState,
     adj : Adj \cup {NoRow}, by : Clerk \cup {None}, releaser : Clerk \cup {None}]

(* An account in a run: blocked, or with the figures it was reviewed on. *)
ReviewedRow == [blocker : BOOLEAN, seen : Sheet]

RunStatus == {"NONE", "PREPARED", "CANCELLED", "SUBMITTING", "SUBMITTED", "REJECTED",
              "REVIEW_REQUIRED", "ACCEPTED"}
RunRow == [status : RunStatus, month : Month, token : BOOLEAN, cooling : BOOLEAN,
           rows : [Account -> ReviewedRow]]

BillRow == [acc : Account \cup {None}, month : Month, seen : Sheet]
JobRow == [acc : Account \cup {None}, month : Month]
DebitRow == [plan : {"NONE", "ACTIVE", "PAUSED"}, mandate : BOOLEAN]
CheckRow == [run : Run \cup {NoRow}, report : {"NONE", "SUBMITTED", "ACCEPTED", "REVIEW_REQUIRED"}]

NoPayment == [acc |-> None, amount |-> Rent, online |-> FALSE, status |-> "NONE"]
NoSheet == [plan |-> 0, balance |-> 0, entries |-> {}, pays |-> [p \in Pay |-> NoPayment]]
NoAdjustment == [acc |-> None, kind |-> "CHARGE", amount |-> Rent, source |-> NoRef,
                 status |-> "NONE", by |-> None, reviewer |-> None, seen |-> NoSheet]
NoRecord == [state |-> "NONE", adj |-> NoRow, by |-> None, releaser |-> None]
Blocked == [blocker |-> TRUE, seen |-> NoSheet]
NoRows == [a \in Account |-> Blocked]
NoRun == [status |-> "NONE", month |-> 1, token |-> FALSE, cooling |-> FALSE, rows |-> NoRows]
NoBill == [acc |-> None, month |-> 1, seen |-> NoSheet]
NoJob == [acc |-> None, month |-> 1]
NoCheck == [run |-> NoRow, report |-> "NONE"]

(* The type of the state, every row of it well formed. *)
TypeOK ==
    /\ plan \in [Account -> 0 .. MaxPlan]
    /\ ledger \in [Account -> SUBSET Entry]
    /\ balance \in [Account -> Int]
    /\ invoice \in [Account \X Month -> SUBSET Entry]
    /\ sheet \in [Screen -> BillRow]
    /\ job \in [Worker -> JobRow]
    /\ pay \in [Pay -> PaymentRow]
    /\ adj \in [Adj -> AdjustmentRow]
    /\ rec \in [Pay -> RefundRecord]
    /\ debit \in [Account -> DebitRow]
    /\ instr \in [Account \X Month -> Run \cup {NoRow}]
    /\ run \in [Run -> RunRow]
    /\ upload \in [Run -> {"none", "claimed", "token", "rejected", "unknown"}]
    /\ bank \in [Run -> {"none", "received", "refused", "loaded", "partial"}]
    /\ sent \in [Account \X Month -> Nat]
    /\ check \in [Refresher -> CheckRow]

(* New accounts with a signed mandate, and nothing planned or booked. *)
Init ==
    /\ plan = [a \in Account |-> 0]
    /\ ledger = [a \in Account |-> {}]
    /\ balance = [a \in Account |-> 0]
    /\ invoice = [k \in Account \X Month |-> {}]
    /\ sheet = [s \in Screen |-> NoBill]
    /\ job = [w \in Worker |-> NoJob]
    /\ pay = [p \in Pay |-> NoPayment]
    /\ adj = [j \in Adj |-> NoAdjustment]
    /\ rec = [p \in Pay |-> NoRecord]
    /\ debit = [a \in Account |-> [plan |-> "NONE", mandate |-> TRUE]]
    /\ instr = [k \in Account \X Month |-> NoRow]
    /\ run = [r \in Run |-> NoRun]
    /\ upload = [r \in Run |-> "none"]
    /\ bank = [r \in Run |-> "none"]
    /\ sent = [k \in Account \X Month |-> 0]
    /\ check = [k \in Refresher |-> NoCheck]

-----------------------------------------------------------------------------
(* i is the row the next INSERT into the table creates. *)
NextRow(table, i) ==
    /\ table[i].status = "NONE"
    /\ \A j \in DOMAIN table : j < i => table[j].status # "NONE"

(* What an entry adds to what the customer owes. *)
Delta(type, amount) == IF type \in {"PAYMENT", "CREDIT", "WRITE_OFF"} THEN -amount ELSE amount

Total(entries) == SumFunction([e \in entries |-> Delta(e.type, e.amount)])

(* The closing balance of the statement is the stored balance. *)
Reconciled(a) == balance[a] = Total(ledger[a])

EntryOf(ref, type, amount) == [ref |-> ref, type |-> type, amount |-> amount, month |-> MaxMonth]
Unposted(a, ref) == \A e \in ledger[a] : e.ref # ref

(* An entry and the balance it moves, in one transaction. *)
PostEntry(a, e) ==
    /\ ledger' = [ledger EXCEPT ![a] = ledger[a] \cup {e}]
    /\ balance' = [balance EXCEPT ![a] = balance[a] + Delta(e.type, e.amount)]

(* The figures of an account as they are now.                              *)
PaysOf(a) == [p \in Pay |-> IF pay[p].acc = a THEN pay[p] ELSE NoPayment]
Figures(a) == [plan |-> 0, balance |-> balance[a], entries |-> ledger[a], pays |-> PaysOf(a)]

Open == {"PENDING_APPROVAL", "APPROVED"}
OpenOn(a) == {j \in Adj : adj[j].acc = a /\ adj[j].status \in Open}
Collected(a) == \E m \in Month : instr[<<a, m>>] # NoRow
=============================================================================
