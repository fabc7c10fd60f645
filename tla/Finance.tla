------------------------------ MODULE Finance -------------------------------
(***************************************************************************)
(* The money of a facility's accounts: bills, receipts, corrections,       *)
(* refunds and debit order runs, worked on by several clerks and jobs.     *)
(***************************************************************************)
EXTENDS Billing, Adjustments, DebitRuns

Next == Billing \/ Adjustments \/ DebitRuns

Spec == Init /\ [][Next]_vars

-----------------------------------------------------------------------------
(* A payment is in the ledger of its account once it has been received,    *)
(* once only and for its amount.                                           *)
PaymentsBooked ==
    \A p \in Pay : pay[p].acc # None =>
       LET booked == {e \in ledger[pay[p].acc] : e.ref = <<"PAY", p>>}
       IN  IF pay[p].status = "PENDING" THEN booked = {}
           ELSE \E e \in booked : booked = {e} /\ e.amount = pay[p].amount

(* The stored balance is what the ledger adds up to, and a payment is in   *)
(* the ledger exactly when it has been received: whoever bills, settles or *)
(* corrects the account, and however often.                                *)
BooksAgree ==
    /\ \A a \in Account : Reconciled(a)
    /\ PaymentsBooked

(* A payment is never corrected by more than it brought in, whatever       *)
(* refunds and reversals are requested of it, and its status says how much *)
(* of it has been given back.                                              *)
RefundWithinPayment ==
    \A p \in Pay : pay[p].acc # None =>
       LET used == Used(pay[p].acc, <<"PAY", p>>)
       IN  CASE pay[p].status \in {"PENDING", "SUCCEEDED"}  -> used = 0
             [] pay[p].status = "PARTIALLY_REFUNDED"        -> used \in 1 .. pay[p].amount - 1
             [] pay[p].status \in {"REFUNDED", "REVERSED"}  -> used = pay[p].amount

(* A reservation at Netcash stands for a refund that is approved and       *)
(* unpaid: while it holds, the refund is neither paid out by hand nor      *)
(* withdrawn, so it can be let go.                                         *)
HoldBacksRefund ==
    \A p \in Holding :
       /\ adj[rec[p].adj].status = "APPROVED"
       /\ adj[rec[p].adj].source = <<"PAY", p>>

(* One decision about an account at a time: two open adjustments never     *)
(* count on the same balance, and an account that a debit run has reserved *)
(* is not being corrected.                                                 *)
OneDecision ==
    \A a \in Account :
       /\ \A i, j \in OpenOn(a) : i = j
       /\ Collected(a) => OpenOn(a) = {}

(* What the portal says of a run is what the bank did: a run is rejected   *)
(* only when the bank took nothing, and accepted only when it loaded all.  *)
OutcomeHonest ==
    \A r \in Run :
       /\ run[r].status = "REJECTED" => bank[r] = "refused"
       /\ run[r].status = "ACCEPTED" => bank[r] = "loaded"
       /\ run[r].status = "SUBMITTED" => bank[r] \in {"received", "loaded", "partial"}

(* A month is billed, and an adjustment posted, on the very figures a      *)
(* person reviewed: nothing was billed, paid or corrected in between.      *)
ReviewedFigures ==
    [][/\ \A a \in Account, m \in Month :
             invoice'[<<a, m>>] # invoice[<<a, m>>] =>
                \E s \in Screen : sheet[s] = [acc |-> a, month |-> m, seen |-> BillFigures(a)]
       /\ \A j \in Adj :
             adj'[j].status = "POSTED" /\ adj[j].status # "POSTED" =>
                Figures(adj[j].acc) = adj[j].seen]_vars

(* The bank is asked for what is owed when it is asked: each account of a  *)
(* run whose submission begins owes its rent and nothing else, has its     *)
(* plan and its mandate, and no receipt or correction on the way.          *)
AskedIsOwed ==
    [][\A r \in Run, a \in Account, m \in Month :
          upload[r] = "none" /\ upload'[r] = "claimed" /\ instr[<<a, m>>] = r =>
             /\ balance[a] = Rent
             /\ debit[a] = [plan |-> "ACTIVE", mandate |-> TRUE]
             /\ OpenOn(a) = {}
             /\ \A p \in Pay : pay[p].acc = a => pay[p].status # "PENDING"]_vars

-----------------------------------------------------------------------------
(* The stage of an account's month, as the bank's side of the contract     *)
(* sees it.                                                                *)
Stage == [k \in Account \X Month |->
             IF instr[k] = NoRow THEN "open"
             ELSE IF run[instr[k]].status = "PREPARED" THEN "reserved" ELSE "committed"]

Bank == INSTANCE BankRequests WITH Request <- Account \X Month, stage <- Stage, asked <- sent

(* Debit order runs put an account's month to the bank at most once.       *)
BankSpec == Bank!Spec
=============================================================================
