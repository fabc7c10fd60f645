------------------------------ MODULE Billing -------------------------------
(***************************************************************************)
(* What an account owes and what it pays: approved billing plans, monthly  *)
(* bills posted by staff from a preview, the older monthly job that runs   *)
(* until the cut-over, and receipts, recorded by staff or settled online.  *)
(*                                                                         *)
(* An operator whose name says how it goes wrong (a dropped comparison, an *)
(* ignored constraint) is a slip to test a property with, and takes no     *)
(* part in the specification.                                              *)
(***************************************************************************)
EXTENDS AccountState

(* A new version of the plan; one that changes nothing is not saved. *)
SavePlan(a) ==
    /\ "plan" \in Ops
    /\ plan[a] < MaxPlan
    /\ plan' = [plan EXCEPT ![a] = plan[a] + 1]
    /\ UNCHANGED <<books, invoice, sheet, job, pay, adj, rec, collection>>

BillFigures(a) == [Figures(a) EXCEPT !.plan = plan[a]]

(* The reasons a month cannot be billed: no plan, a month already billed   *)
(* or charged, books that do not agree.  (A period to come is no Month.)   *)
Billable(a, m) ==
    /\ plan[a] > 0
    /\ Unposted(a, <<"RENT", m>>)
    /\ ~ \E e \in ledger[a] :
            e.type \in {"CHARGE", "CREDIT", "REVERSAL", "WRITE_OFF"} /\ e.month = m
    /\ Reconciled(a)

PreviewBill(s, a, m) ==
    /\ "bill" \in Ops
    /\ Billable(a, m)
    /\ sheet' = [sheet EXCEPT ![s] = [acc |-> a, month |-> m, seen |-> BillFigures(a)]]
    /\ UNCHANGED <<plan, books, invoice, job, pay, adj, rec, collection>>

RentEntry(m) == [EntryOf(<<"RENT", m>>, "CHARGE", Rent) EXCEPT !.month = m]

(* The rent charge and the invoice, on figures that are still current. *)
PostBillUnseen(s) ==
    LET a == sheet[s].acc
        m == sheet[s].month
    IN  /\ a # None
        /\ Billable(a, m)
        /\ PostEntry(a, RentEntry(m))
        /\ invoice' = [invoice EXCEPT ![<<a, m>>] = ledger[a] \cup {RentEntry(m)}]
        /\ sheet' = [sheet EXCEPT ![s] = NoBill]
        /\ UNCHANGED <<plan, job, pay, adj, rec, collection>>

PostBill(s) ==
    LET a == sheet[s].acc
        m == sheet[s].month
    IN  /\ a # None
        /\ Billable(a, m)
        /\ BillFigures(a) = sheet[s].seen
        /\ PostEntry(a, RentEntry(m))
        /\ invoice' = [invoice EXCEPT ![<<a, m>>] = ledger[a] \cup {RentEntry(m)}]
        /\ sheet' = [sheet EXCEPT ![s] = NoBill]
        /\ UNCHANGED <<plan, job, pay, adj, rec, collection>>

-----------------------------------------------------------------------------
(* The monthly job of before the plans: the check comes first, then a      *)
(* transaction without a lock, which the unique reference of the entry     *)
(* refuses when somebody has charged the month in between.                 *)
LegacyCheck(w, a, m) ==
    /\ "legacy" \in Ops
    /\ job[w] = NoJob
    /\ Unposted(a, <<"RENT", m>>)
    /\ job' = [job EXCEPT ![w] = [acc |-> a, month |-> m]]
    /\ UNCHANGED <<plan, books, invoice, sheet, pay, adj, rec, collection>>

LegacyPostBlind(w) ==
    /\ job[w] # NoJob
    /\ PostEntry(job[w].acc, RentEntry(job[w].month))
    /\ job' = [job EXCEPT ![w] = NoJob]
    /\ UNCHANGED <<plan, invoice, sheet, pay, adj, rec, collection>>

LegacyPost(w) ==
    /\ job[w] # NoJob
    /\ Unposted(job[w].acc, <<"RENT", job[w].month>>)
    /\ PostEntry(job[w].acc, RentEntry(job[w].month))
    /\ job' = [job EXCEPT ![w] = NoJob]
    /\ UNCHANGED <<plan, invoice, sheet, pay, adj, rec, collection>>

(* The month is charged already, or the job stops. *)
LegacySkip(w) ==
    /\ job[w] # NoJob
    /\ job' = [job EXCEPT ![w] = NoJob]
    /\ UNCHANGED <<plan, books, invoice, sheet, pay, adj, rec, collection>>

-----------------------------------------------------------------------------
(* A receipt staff record is paid and booked at once. *)
ManualReceipt(a, p, n) ==
    /\ "receipt" \in Ops
    /\ NextRow(pay, p)
    /\ pay' = [pay EXCEPT ![p] = [acc |-> a, amount |-> n, online |-> FALSE,
                                  status |-> "SUCCEEDED"]]
    /\ PostEntry(a, EntryOf(<<"PAY", p>>, "PAYMENT", n))
    /\ UNCHANGED <<billing, adj, rec, collection>>

(* A Pay Now checkout waits for the provider's confirmation ... *)
Checkout(a, p, n) ==
    /\ "online" \in Ops
    /\ NextRow(pay, p)
    /\ pay' = [pay EXCEPT ![p] = [acc |-> a, amount |-> n, online |-> TRUE,
                                  status |-> "PENDING"]]
    /\ UNCHANGED <<billing, books, adj, rec, collection>>

(* ... which books the receipt the first time it arrives, and never takes  *)
(* back a later reversal or refund.                                        *)
Settle(p) ==
    LET a == pay[p].acc
    IN  /\ pay[p].status = "PENDING"
        /\ Unposted(a, <<"PAY", p>>)
        /\ pay' = [pay EXCEPT ![p].status = "SUCCEEDED"]
        /\ PostEntry(a, EntryOf(<<"PAY", p>>, "PAYMENT", pay[p].amount))
        /\ UNCHANGED <<billing, adj, rec, collection>>

Billing ==
    \/ \E a \in Account : SavePlan(a)
    \/ \E s \in Screen, a \in Account, m \in Month : PreviewBill(s, a, m)
    \/ \E s \in Screen : PostBill(s)
    \/ \E w \in Worker, a \in Account, m \in Month : LegacyCheck(w, a, m)
    \/ \E w \in Worker : LegacyPost(w) \/ LegacySkip(w)
    \/ \E a \in Account, p \in Pay, n \in Amount : ManualReceipt(a, p, n) \/ Checkout(a, p, n)
    \/ \E p \in Pay : Settle(p)
=============================================================================
