---------------------------- MODULE StaffEmails -----------------------------
(***************************************************************************)
(* Staff event e-mails: a reviewed policy says which events are mailed to  *)
(* whom; an evaluation keeps one row per event and recipient, whatever the *)
(* policy, and a worker whose process is activated for the policy sends    *)
(* what is held.  A process is activated when it starts, so a tick may be  *)
(* of any policy.                                                          *)
(***************************************************************************)
EXTENDS DeliveryState

PreparePolicy(g) ==
    /\ channel = "mail" /\ policy[g].status = "NONE"
    /\ policy' = [policy EXCEPT ![g].status = "PENDING_REVIEW"]
    /\ UNCHANGED <<channel, logVars, mail, noticeVars, source, sender, wire>>

(* By another than its author, while it is as it was prepared. *)
ReviewPolicy(g, to) ==
    /\ policy[g] = [status |-> "PENDING_REVIEW", sound |-> TRUE]
    /\ to \in {"APPROVED", "REJECTED"}
    /\ policy' = [policy EXCEPT ![g].status = to]
    /\ UNCHANGED <<channel, logVars, mail, noticeVars, source, sender, wire>>

CancelPolicy(g) ==
    /\ policy[g].status \in {"PENDING_REVIEW", "APPROVED"}
    /\ policy' = [policy EXCEPT ![g].status = "CANCELLED"]
    /\ UNCHANGED <<channel, logVars, mail, noticeVars, source, sender, wire>>

(* Its window ends, or the people, the store or the sender change. *)
PolicyLapses(g) ==
    /\ policy[g].status # "NONE" /\ policy[g].sound
    /\ policy' = [policy EXCEPT ![g].sound = FALSE]
    /\ UNCHANGED <<channel, logVars, mail, noticeVars, source, sender, wire>>

EventChanges(e) ==
    /\ channel = "mail" /\ source[e] < MaxText
    /\ source' = [source EXCEPT ![e] = @ + 1]
    /\ UNCHANGED <<channel, logVars, mailVars, noticeVars, sender, wire>>

InForce(g) == policy[g] = [status |-> "APPROVED", sound |-> TRUE]

(* Every event without a row gets one, held. *)
Evaluated(g) ==
    [e \in Email |-> IF mail[e].status = "NONE"
                     THEN [status |-> "HELD_ACTIVATION", policy |-> g, text |-> source[e]]
                     ELSE mail[e]]

Evaluate(g) ==
    /\ InForce(g)
    /\ mail' = Evaluated(g)
    /\ UNCHANGED <<channel, logVars, policy, noticeVars, source, sender, wire>>

-----------------------------------------------------------------------------
(* A tick evaluates, lists what is held, and goes through the list. *)
TickStart(p, g) ==
    /\ sender[p] = Idle /\ InForce(g)
    /\ mail' = Evaluated(g)
    /\ sender' = [sender EXCEPT ![p] = [Idle EXCEPT !.step = "listing", !.tick = g]]
    /\ UNCHANGED <<channel, logVars, policy, noticeVars, source, wire>>

TickList(p) ==
    LET g == sender[p].tick IN
    /\ sender[p].step = "listing"
    /\ sender' = [sender EXCEPT ![p] =
          Onwards({e \in Email : mail[e].status = "HELD_ACTIVATION" /\ mail[e].policy = g}, g)]
    /\ UNCHANGED <<channel, logVars, mailVars, noticeVars, source, wire>>

(* What the list was made of, taken as still so. *)
AsListed(g, e) == mail[e].policy = g

(* The row, its policy and its event are as they were when it was held. *)
Inspect(g, e) ==
    /\ mail[e].policy = g
    /\ InForce(g)
    /\ mail[e].text = source[e]

(* A row somebody else has claimed is passed over; one that no longer      *)
(* stands ends the tick.                                                   *)
MailClaimStuck(p, e) ==
    LET me == sender[p] IN
    /\ me.step = "idle" /\ me.tick \in Policy /\ e \in me.work
    /\ mail[e].status \in {"HELD_ACTIVATION", "SENDING"} /\ Inspect(me.tick, e)
    /\ mail' = [mail EXCEPT ![e].status = "SENDING"]
    /\ sender' = [sender EXCEPT ![p] = [me EXCEPT !.step = "claimed", !.key = e,
                                                  !.work = @ \ {e}]]
    /\ UNCHANGED <<channel, logVars, policy, noticeVars, source, wire>>

MailClaim(p, e) ==
    LET me == sender[p] IN
    /\ me.step = "idle" /\ me.tick \in Policy /\ e \in me.work
    /\ \/ /\ mail[e].status # "HELD_ACTIVATION"
          /\ sender' = [sender EXCEPT ![p] = Onwards(me.work \ {e}, me.tick)]
          /\ UNCHANGED mail
       \/ /\ mail[e].status = "HELD_ACTIVATION" /\ Inspect(me.tick, e)
          /\ mail' = [mail EXCEPT ![e].status = "SENDING"]
          /\ sender' = [sender EXCEPT ![p] = [me EXCEPT !.step = "claimed", !.key = e,
                                                        !.work = @ \ {e}]]
       \/ /\ mail[e].status = "HELD_ACTIVATION" /\ ~ Inspect(me.tick, e)
          /\ sender' = [sender EXCEPT ![p] = Idle]
          /\ UNCHANGED mail
    /\ UNCHANGED <<channel, logVars, policy, noticeVars, source, wire>>

(* Looked at once more before the provider is called. *)
MailCheck(p) ==
    LET e == sender[p].key IN
    /\ sender[p].step = "claimed" /\ e \in Email
    /\ sender' = [sender EXCEPT ![p].step =
                     IF mail[e].status = "SENDING" /\ Inspect(sender[p].tick, e)
                     THEN "checked" ELSE "unknown"]
    /\ UNCHANGED <<channel, logVars, mailVars, noticeVars, source, wire>>

(* The row is closed, or stays claimed when that fails. *)
MailOutcome(p) ==
    LET me == sender[p] IN
    /\ me.key \in Email /\ me.step \in ANSWER
    /\ \/ /\ mail[me.key].status = "SENDING"
          /\ mail' = [mail EXCEPT ![me.key].status =
                         IF me.step = "accepted" THEN "ACCEPTED" ELSE "REVIEW_REQUIRED"]
       \/ UNCHANGED mail
    /\ sender' = [sender EXCEPT ![p] = Onwards(me.work, me.tick)]
    /\ UNCHANGED <<channel, logVars, policy, noticeVars, source, wire>>

StaffEmails ==
    \/ \E g \in Policy : \/ PreparePolicy(g) \/ CancelPolicy(g) \/ PolicyLapses(g) \/ Evaluate(g)
                         \/ \E to \in {"APPROVED", "REJECTED"} : ReviewPolicy(g, to)
                         \/ \E p \in Proc : TickStart(p, g)
    \/ \E e \in Email : EventChanges(e) \/ \E p \in Proc : MailClaim(p, e)
    \/ \E p \in Proc : TickList(p) \/ MailCheck(p) \/ MailOutcome(p)
=============================================================================
