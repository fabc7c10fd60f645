------------------------- MODULE CollectionNotices --------------------------
(***************************************************************************)
(* Reminders of arrears: an account has one notice a day, prepared by a    *)
(* member of staff or by the day's run of a schedule, approved by somebody *)
(* who had no part in it, and sent by hand or by the run's worker.         *)
(*                                                                         *)
(* A command carries the revision its screen showed and is refused when    *)
(* that is not the current one: the commands here are those with the       *)
(* current one.  The window of a schedule is the day.                      *)
(***************************************************************************)
EXTENDS DeliveryState

UNCERTAIN == {"SENDING", "REVIEW_REQUIRED"}

(* What the notice says is what the account says today. *)
Current(a) == a \in owing /\ notice[<<a, day>>].text = source[a]

AccountChanges(a) ==
    /\ channel = "notice" /\ source[a] < MaxText
    /\ source' = [source EXCEPT ![a] = @ + 1]
    /\ \E still \in BOOLEAN : owing' = IF still THEN owing \cup {a} ELSE owing \ {a}
    /\ UNCHANGED <<channel, logVars, mailVars, notice, plan, run, day, sender, wire>>

NewDay ==
    /\ channel = "notice" /\ day < MaxDay
    /\ day' = day + 1
    /\ UNCHANGED <<channel, logVars, mailVars, notice, plan, run, source, owing, sender, wire>>

(* A fresh draft of what an account says, and whose hand was in it. *)
Draft(a, hands, bound) ==
    [status |-> "DRAFT", text |-> source[a], bound |-> bound,
     contributors |-> notice[<<a, day>>].contributors \cup hands]

(* One account, or several reviewed together; a draft that still says what *)
(* the account says stays as it is.                                        *)
PrepareNotices(s, A) ==
    LET fresh == {a \in A : ~ (notice[<<a, day>>].status = "DRAFT" /\ Current(a))} IN
    /\ channel = "notice"
    /\ A \subseteq owing
    /\ \A a \in A : notice[<<a, day>>].status \in {"NONE", "DRAFT"} /\ ~ notice[<<a, day>>].bound
    /\ notice' = [k \in Notice |-> IF k[2] = day /\ k[1] \in fresh
                                   THEN Draft(k[1], {s}, FALSE) ELSE notice[k]]
    /\ UNCHANGED <<channel, logVars, mailVars, plan, run, day, source, owing, sender, wire>>

(* A notice may be approved by somebody with no hand in it, while it says  *)
(* what the account says.                                                  *)
Approvable(s, a) ==
    /\ notice[<<a, day>>].status = "DRAFT"
    /\ s \notin notice[<<a, day>>].contributors
    /\ Current(a)

Approved(A) ==
    [k \in Notice |-> IF k[2] = day /\ k[1] \in A
                      THEN [notice[k] EXCEPT !.status = "APPROVED"] ELSE notice[k]]

ApproveNotices(s, A) ==
    /\ A # {} /\ \A a \in A : Approvable(s, a) /\ ~ notice[<<a, day>>].bound
    /\ notice' = Approved(A)
    /\ UNCHANGED <<channel, logVars, mailVars, plan, run, day, source, owing, sender, wire>>

(* Reopened or cancelled before it is sent. *)
WithdrawNotice(k, to) ==
    /\ notice[k].status \in {"DRAFT", "APPROVED"} /\ ~ notice[k].bound
    /\ to \in {"DRAFT", "CANCELLED"}
    /\ notice' = [notice EXCEPT ![k].status = to]
    /\ UNCHANGED <<channel, logVars, mailVars, plan, run, day, source, owing, sender, wire>>

-----------------------------------------------------------------------------
(* The schedule: a plan, and one run of it a day, reviewed by another. *)
CreatePlan(s) ==
    /\ channel = "notice" /\ plan.status = "NONE"
    /\ plan' = [status |-> "ACTIVE", creator |-> s]
    /\ UNCHANGED <<channel, logVars, mailVars, notice, run, day, source, owing, sender, wire>>

CancelPlan ==
    /\ plan.status = "ACTIVE"
    /\ plan' = [plan EXCEPT !.status = "CANCELLED"]
    /\ UNCHANGED <<channel, logVars, mailVars, notice, run, day, source, owing, sender, wire>>

(* What a run would take without a look at earlier days. *)
DueNoPrior(a) ==
    /\ a \in owing
    /\ notice[<<a, day>>].status \in {"NONE", "DRAFT"} /\ ~ notice[<<a, day>>].bound

(* An account is held back while an earlier send of it is uncertain, or    *)
(* today's notice is no draft any more.                                    *)
Due(a) ==
    /\ a \in owing
    /\ \A d \in Day : notice[<<a, d>>].status \notin UNCERTAIN
    /\ notice[<<a, day>>].status \in {"NONE", "DRAFT"} /\ ~ notice[<<a, day>>].bound

(* By a member of staff, or by the worker, whose hands are nobody's. *)
EvaluateRun(hands) ==
    LET items == {a \in Account : Due(a)} IN
    /\ plan.status = "ACTIVE" /\ run[day].status = "NONE"
    /\ notice' = [k \in Notice |-> IF k[2] = day /\ k[1] \in items
                                   THEN Draft(k[1], hands \cup {plan.creator}, TRUE)
                                   ELSE notice[k]]
    /\ run' = [run EXCEPT ![day] = [status |-> "PENDING_REVIEW", items |-> items]]
    /\ UNCHANGED <<channel, logVars, mailVars, plan, day, source, owing, sender, wire>>

(* All its notices, or none. *)
ApproveRun(s) ==
    /\ plan.status = "ACTIVE" /\ s # plan.creator
    /\ run[day].status = "PENDING_REVIEW" /\ run[day].items # {}
    /\ \A a \in run[day].items : Approvable(s, a)
    /\ notice' = Approved(run[day].items)
    /\ run' = [run EXCEPT ![day].status = "APPROVED"]
    /\ UNCHANGED <<channel, logVars, mailVars, plan, day, source, owing, sender, wire>>

CancelRun(d) ==
    /\ run[d].status \in {"PENDING_REVIEW", "APPROVED"}
    /\ run' = [run EXCEPT ![d].status = "CANCELLED"]
    /\ UNCHANGED <<channel, logVars, mailVars, notice, plan, day, source, owing, sender, wire>>

-----------------------------------------------------------------------------
ScheduleTick(p) ==
    /\ sender[p] = Idle
    /\ plan.status = "ACTIVE" /\ run[day].status = "APPROVED"
    /\ sender' = [sender EXCEPT ![p] = Onwards(run[day].items \X {day}, day)]
    /\ UNCHANGED <<channel, logVars, mailVars, noticeVars, source, wire>>

(* What a scheduled send rests on: its plan, its run of today, its account. *)
Guard(k) ==
    /\ plan.status = "ACTIVE" /\ run[k[2]].status = "APPROVED"
    /\ k[2] = day /\ notice[k].bound
    /\ notice[k].status \in {"APPROVED", "ACCEPTED"} \cup UNCERTAIN
    /\ Current(k[1])

(* The worker passes over a notice that no longer stands, or that was      *)
(* claimed before.                                                         *)
ScheduledClaim(p, k) ==
    LET me == sender[p] IN
    /\ me.step = "idle" /\ k \in me.work /\ k \in Notice
    /\ \/ /\ Guard(k) => notice[k].status # "APPROVED"
          /\ sender' = [sender EXCEPT ![p] = Onwards(me.work \ {k}, me.tick)]
          /\ UNCHANGED notice
       \/ /\ Guard(k) /\ notice[k].status = "APPROVED"
          /\ notice' = [notice EXCEPT ![k].status = "SENDING"]
          /\ sender' = [sender EXCEPT ![p] = [me EXCEPT !.step = "claimed", !.key = k,
                                                        !.work = @ \ {k}]]
    /\ UNCHANGED <<channel, logVars, mailVars, plan, run, day, source, owing, wire>>

(* Looked at once more before the provider is called. *)
ScheduledCheck(p) ==
    /\ sender[p].step = "claimed" /\ sender[p].key \in Notice
    /\ sender' = [sender EXCEPT ![p].step = IF Guard(sender[p].key) THEN "checked" ELSE "unknown"]
    /\ UNCHANGED <<channel, logVars, mailVars, noticeVars, source, wire>>

(* A member of staff sends an approved notice that no run is bound to. *)
ManualClaim(p, a) ==
    LET k == <<a, day>> IN
    /\ sender[p] = Idle
    /\ notice[k].status = "APPROVED" /\ ~ notice[k].bound /\ Current(a)
    /\ notice' = [notice EXCEPT ![k].status = "SENDING"]
    /\ sender' = [sender EXCEPT ![p] = [Idle EXCEPT !.step = "checked", !.key = k]]
    /\ UNCHANGED <<channel, logVars, mailVars, plan, run, day, source, owing, wire>>

(* A failure to record an acceptance is recorded as one to be reviewed,    *)
(* and a failure to record that leaves the notice claimed.                 *)
NoticeOutcome(p) ==
    LET me == sender[p] IN
    /\ me.key \in Notice /\ me.step \in ANSWER
    /\ \/ /\ me.step = "accepted"
          /\ notice' = [notice EXCEPT ![me.key].status = "ACCEPTED"]
       \/ notice' = [notice EXCEPT ![me.key].status = "REVIEW_REQUIRED"]
       \/ UNCHANGED notice
    /\ sender' = [sender EXCEPT ![p] = Onwards(me.work, me.tick)]
    /\ UNCHANGED <<channel, logVars, mailVars, plan, run, day, source, owing, wire>>

CollectionNotices ==
    \/ \E a \in Account : AccountChanges(a) \/ \E p \in Proc : ManualClaim(p, a)
    \/ \E s \in Staff : \/ CreatePlan(s) \/ ApproveRun(s)
                        \/ \E A \in SUBSET Account : PrepareNotices(s, A) \/ ApproveNotices(s, A)
    \/ \E hands \in {{}} \cup {{s} : s \in Staff} : EvaluateRun(hands)
    \/ \E d \in Day : CancelRun(d)
    \/ \E k \in Notice : \/ \E to \in {"DRAFT", "CANCELLED"} : WithdrawNotice(k, to)
                         \/ \E p \in Proc : ScheduledClaim(p, k)
    \/ \E p \in Proc : ScheduleTick(p) \/ ScheduledCheck(p) \/ NoticeOutcome(p)
    \/ NewDay \/ CancelPlan
=============================================================================
