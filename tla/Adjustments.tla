---------------------------- MODULE Adjustments -----------------------------
(***************************************************************************)
(* Corrections of an account, which two members of staff agree on, and the *)
(* record that reserves a payment for a refund through Netcash.  Nothing   *)
(* is ever sent to Netcash: a reservation only holds back manual payouts.  *)
(*                                                                         *)
(* The Account row lock orders all of them, so each decision is one step.  *)
(* A request is compared with the figures it was reviewed on each time it  *)
(* is used; a preview gone stale before the request is refused there, and  *)
(* so is not modelled.  What nothing reads of a closed row is forgotten.   *)
(*                                                                         *)
(* An operator that goes wrong by its name or comment (PayoutUnheld) is a  *)
(* slip of the one after it; the specification does not use it.            *)
(***************************************************************************)
EXTENDS AccountState

(* What posted adjustments have already used of an entry. *)
Uses(a, src) == {j \in Adj : adj[j].acc = a /\ adj[j].status = "POSTED" /\ adj[j].source = src}
Used(a, src) == SumFunction([j \in Uses(a, src) |-> adj[j].amount])

Refundable == {"SUCCEEDED", "PARTIALLY_REFUNDED"}

(* Each kind of adjustment corrects an entry of its own type, and by no    *)
(* more than is left of it.                                                *)
SourceFits(a, kind, n, src) ==
    IF kind = "CHARGE" THEN src = NoRef
    ELSE \E e \in ledger[a] :
            /\ e.ref = src
            /\ n <= e.amount - Used(a, src)
            /\ kind \in {"CREDIT", "WRITE_OFF"} =>
                  e.type = "CHARGE" /\ (kind = "WRITE_OFF" => n <= balance[a])
            /\ kind \in {"REVERSAL", "REFUND"} =>
                  /\ e.type = "PAYMENT" /\ pay[src[2]].status \in Refundable
                  /\ kind = "REVERSAL" => Used(a, src) = 0 /\ n = e.amount
                  /\ kind = "REFUND" => n <= -balance[a]

(* One that does not ask whether a debit run has reserved the account. *)
ReviewUncollected(a, kind, n, src, own) ==
    /\ Reconciled(a)
    /\ OpenOn(a) \subseteq own
    /\ SourceFits(a, kind, n, src)

(* An adjustment is in order while the books agree, nothing else is open   *)
(* on the account and no debit run has reserved it.                        *)
Review(a, kind, n, src, own) ==
    /\ Reconciled(a)
    /\ OpenOn(a) \subseteq own
    /\ ~ Collected(a)
    /\ SourceFits(a, kind, n, src)

StillReviewed(j) ==
    /\ Review(adj[j].acc, adj[j].kind, adj[j].amount, adj[j].source, {j})
    /\ Figures(adj[j].acc) = adj[j].seen

RequestAdjustment(c, a, j, kind, n, src) ==
    /\ kind \in Ops
    /\ NextRow(adj, j)
    /\ Review(a, kind, n, src, {})
    /\ adj' = [adj EXCEPT ![j] = [acc |-> a, kind |-> kind, amount |-> n, source |-> src,
                                  status |-> "PENDING_APPROVAL", by |-> c, reviewer |-> None,
                                  seen |-> Figures(a)]]
    /\ UNCHANGED <<billing, books, pay, rec, collection>>

Closed(j, status) == [adj[j] EXCEPT !.status = status, !.by = None, !.reviewer = None,
                                    !.seen = NoSheet]

(* The payment after a refund, earlier refunds forgotten. *)
PaymentAfterAlone(j) ==
    LET p == adj[j].source[2]
    IN  IF adj[j].kind = "REVERSAL" THEN [pay EXCEPT ![p].status = "REVERSED"]
        ELSE IF adj[j].kind = "REFUND"
        THEN [pay EXCEPT ![p].status = IF adj[j].amount >= pay[p].amount
                                       THEN "REFUNDED" ELSE "PARTIALLY_REFUNDED"]
        ELSE pay

(* The payment once adjustment j is posted against it. *)
PaymentAfter(j) ==
    LET p == adj[j].source[2]
    IN  IF adj[j].kind = "REVERSAL" THEN [pay EXCEPT ![p].status = "REVERSED"]
        ELSE IF adj[j].kind = "REFUND"
        THEN [pay EXCEPT ![p].status = IF Used(adj[j].acc, adj[j].source) + adj[j].amount
                                          >= pay[p].amount
                                       THEN "REFUNDED" ELSE "PARTIALLY_REFUNDED"]
        ELSE pay

PostAdjustment(j) ==
    /\ PostEntry(adj[j].acc, EntryOf(<<"ADJ", j>>, adj[j].kind, adj[j].amount))
    /\ pay' = PaymentAfter(j)
    /\ adj' = [adj EXCEPT ![j] = Closed(j, "POSTED")]
    /\ UNCHANGED <<billing, rec, collection>>

(* The second pair of eyes.  A refund waits for its payout, everything     *)
(* else is posted at once.                                                 *)
Approve(c, j) ==
    /\ adj[j].status = "PENDING_APPROVAL"
    /\ c # adj[j].by
    /\ StillReviewed(j)
    /\ IF adj[j].kind = "REFUND"
       THEN /\ adj' = [adj EXCEPT ![j].status = "APPROVED", ![j].reviewer = c]
            /\ UNCHANGED <<billing, books, pay, rec, collection>>
       ELSE PostAdjustment(j)

(* The pages offer a rejection of requests that are not yet approved; the  *)
(* service takes one of an approved refund as well, from a page that is    *)
(* out of date.                                                            *)
Reject(c, j) ==
    /\ adj[j].status \in IF "lateReject" \in Ops THEN Open ELSE {"PENDING_APPROVAL"}
    /\ c # adj[j].by
    /\ adj' = [adj EXCEPT ![j] = Closed(j, "REJECTED")]
    /\ UNCHANGED <<billing, books, pay, rec, collection>>

(* A reservation holds back every refund of its account and its payment.   *)
Holding == {p \in Pay : rec[p].state \in {"RESERVED", "RELEASE_REQUESTED"}}
Held(j) == \E p \in Holding : pay[p].acc = adj[j].acc \/ adj[j].source = <<"PAY", p>>

(* Either of the two withdraws it, while no reservation holds it. *)
Cancel(c, j) ==
    /\ adj[j].status \in Open
    /\ c \in {adj[j].by, adj[j].reviewer}
    /\ adj[j].status = "APPROVED" => ~ Held(j)
    /\ adj' = [adj EXCEPT ![j] = Closed(j, "CANCELLED")]
    /\ UNCHANGED <<billing, books, pay, rec, collection>>

(* Money paid out by hand is recorded against the approved refund. *)
PayoutUnheld(c, j) ==
    /\ adj[j].kind = "REFUND" /\ adj[j].status = "APPROVED"
    /\ c # adj[j].by
    /\ StillReviewed(j)
    /\ PostAdjustment(j)

RecordPayout(c, j) ==
    /\ adj[j].kind = "REFUND" /\ adj[j].status = "APPROVED"
    /\ c # adj[j].by
    /\ ~ Held(j)
    /\ StillReviewed(j)
    /\ PostAdjustment(j)

-----------------------------------------------------------------------------
(* A refund through Netcash stands on an approved, unpaid refund of a live *)
(* online payment, on figures nobody has changed.                          *)
RefundSource(j, p) ==
    /\ adj[j].kind = "REFUND" /\ adj[j].status = "APPROVED" /\ adj[j].source = <<"PAY", p>>
    /\ pay[p].online
    /\ StillReviewed(j)

SetRecord(p, state) ==
    /\ rec' = [rec EXCEPT ![p].state = state]
    /\ UNCHANGED <<billing, books, pay, adj, collection>>

(* One record for a payment, ever. *)
PrepareRefund(c, j, p) ==
    /\ "record" \in Ops
    /\ rec[p].state = "NONE"
    /\ RefundSource(j, p)
    /\ rec' = [rec EXCEPT ![p] = [state |-> "PREPARED", adj |-> j, by |-> c, releaser |-> None]]
    /\ UNCHANGED <<billing, books, pay, adj, collection>>

ReviewRefund(c, p) ==
    /\ rec[p].state = "PREPARED" /\ c # rec[p].by
    /\ \/ RefundSource(rec[p].adj, p) /\ SetRecord(p, "REVIEWED")
       \/ SetRecord(p, "REJECTED")

WithdrawRefund(c, p) ==
    /\ rec[p].state \in {"PREPARED", "REVIEWED"} /\ c = rec[p].by
    /\ SetRecord(p, "WITHDRAWN")

ReserveRefund(c, p) ==
    /\ rec[p].state = "REVIEWED" /\ c # rec[p].by
    /\ RefundSource(rec[p].adj, p)
    /\ SetRecord(p, "RESERVED")

(* A reservation is let go by two people, while its refund is unpaid. *)
Unpaid(p) == adj[rec[p].adj].kind = "REFUND" /\ adj[rec[p].adj].status = "APPROVED"

RequestRelease(c, p) ==
    /\ rec[p].state = "RESERVED"
    /\ Unpaid(p)
    /\ rec' = [rec EXCEPT ![p].state = "RELEASE_REQUESTED", ![p].releaser = c]
    /\ UNCHANGED <<billing, books, pay, adj, collection>>

ApproveRelease(c, p) ==
    /\ rec[p].state = "RELEASE_REQUESTED" /\ c # rec[p].releaser
    /\ Unpaid(p)
    /\ SetRecord(p, "RELEASED")

Adjustments ==
    \/ \E c \in Clerk, a \in Account, j \in Adj, kind \in Kinds, n \in Amount,
          src \in Refs \cup {NoRef} : RequestAdjustment(c, a, j, kind, n, src)
    \/ \E c \in Clerk, j \in Adj :
          Approve(c, j) \/ Reject(c, j) \/ Cancel(c, j) \/ RecordPayout(c, j)
    \/ \E c \in Clerk, j \in Adj, p \in Pay : PrepareRefund(c, j, p)
    \/ \E c \in Clerk, p \in Pay :
          \/ ReviewRefund(c, p) \/ WithdrawRefund(c, p) \/ ReserveRefund(c, p)
          \/ RequestRelease(c, p) \/ ApproveRelease(c, p)
=============================================================================
