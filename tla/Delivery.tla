------------------------------ MODULE Delivery ------------------------------
(***************************************************************************)
(* The three ways messages are sent, the provider they share, and          *)
(* processes that stop at any point.                                       *)
(***************************************************************************)
EXTENDS Notifications, StaffEmails, CollectionNotices

TextOf(k) ==
    CASE k \in Attempt -> log[k].text
      [] k \in Email   -> mail[k].text
      [] OTHER         -> notice[k].text

(* The provider takes or refuses the message, and its answer may be lost   *)
(* or cut off; or it is never reached.                                     *)
ProviderCall(p) ==
    LET k == sender[p].key IN
    /\ sender[p].step = "checked"
    /\ handed' = [handed EXCEPT ![k] = @ + 1]
    /\ \/ /\ taken' = [taken EXCEPT ![k] = @ \cup {TextOf(k)}]
          /\ \E answer \in {"accepted", "unknown"} : sender' = [sender EXCEPT ![p].step = answer]
       \/ /\ \E answer \in {"rejected", "unknown"} : sender' = [sender EXCEPT ![p].step = answer]
          /\ UNCHANGED taken
    /\ UNCHANGED <<channel, logVars, mailVars, noticeVars, source>>

SenderStops(p) ==
    /\ sender[p] # Idle
    /\ sender' = [sender EXCEPT ![p] = Idle]
    /\ UNCHANGED <<channel, logVars, mailVars, noticeVars, source, wire>>

Next ==
    \/ Notifications \/ StaffEmails \/ CollectionNotices
    \/ \E p \in Proc : ProviderCall(p) \/ SenderStops(p)

Spec == Init /\ [][Next]_vars

-----------------------------------------------------------------------------
(* Where a message's row is on its way, for each of the three ways. *)
LogStage(outcome) ==
    CASE outcome = "NONE"        -> "open"
      [] outcome = "IN_PROGRESS" -> "claimed"
      [] outcome = "ACCEPTED"    -> "accepted"
      [] OTHER                   -> "stopped"

RowStage(status) ==
    CASE status = "SENDING"         -> "claimed"
      [] status = "ACCEPTED"        -> "accepted"
      [] status = "REVIEW_REQUIRED" -> "stopped"
      [] OTHER                      -> "open"

Stage(k) ==
    CASE k \in Attempt -> LogStage(log[k].outcome)
      [] k \in Email   -> RowStage(mail[k].status)
      [] OTHER         -> RowStage(notice[k].status)

stage == [k \in Message |-> Stage(k)]

Ways == INSTANCE Outbox WITH Message <- Message, stage <- stage, handed <- handed

(* Repeated calls, overlapping ticks, lost answers, stopped processes and  *)
(* rows that could not be closed never put a message to the provider       *)
(* twice, nor change what was recorded of it: all three ways implement the *)
(* outbox (notification-delivery, staff-event-email-worker,                *)
(* collection-notice-service).                                             *)
OutboxSpec == Ways!Spec

(* What is recorded, and what a caller is told, is so: a message recorded  *)
(* as accepted, or reported to its caller as sent, was taken by the        *)
(* provider in that very text, and one recorded as rejected was not.  An   *)
(* answer that never came is neither (notification-delivery).              *)
TruthTold ==
    /\ \A k \in Message : Stage(k) = "accepted" => TextOf(k) \in taken[k]
    /\ \A k \in Attempt : /\ log[k].outcome = "REJECTED" => taken[k] = {}
                          /\ told[k] \subseteq taken[k]

(* The provider's reports arrive in any order, and a late one never erases *)
(* a confirmed delivery or failure: what the log says depends on which     *)
(* reports came, not on their order (the Twilio status webhook).           *)
ReportsInAnyOrder ==
    \A k \in Attempt : log[k].outcome = "ACCEPTED" =>
        LET seen == log[k].events IN
        /\ log[k].delivered = ("delivered" \in seen)
        /\ log[k].status = CASE "delivered" \in seen -> "SUCCEEDED"
                             [] "delivered" \notin seen /\ "failed" \in seen -> "FAILED"
                             [] seen = {"sent"} -> "PROCESSING"
                             [] OTHER -> Accepted(k)

(* Staff retry only a message the provider refused or reported as failed,  *)
(* never one whose outcome is unknown (the WhatsApp retry).                *)
RetriedOnlyFailed ==
    \A w \in WhatsApp : handed[<<w, "retry">>] > 0 =>
        LET first == log[<<w, "first">>]
        IN  first.outcome = "REJECTED" \/ "failed" \in first.events

(* A run never claims a reminder while an earlier one of the account is    *)
(* still being sent or its outcome is not known, whichever day and         *)
(* whoever's it was (collection-schedule-service).                         *)
UncertainHoldsSchedule ==
    [][\A a \in Account, d \in Day :
          /\ notice[<<a, d>>].bound
          /\ notice[<<a, d>>].status = "APPROVED" /\ notice'[<<a, d>>].status = "SENDING"
          => \A e \in Day : notice[<<a, e>>].status \notin UNCERTAIN]_vars

(* What a claim needs to rest on, at the moment it is made. *)
Sanctioned(k) ==
    IF k \in Email
    THEN InForce(mail[k].policy) /\ mail[k].text = source[k]
    ELSE /\ k[2] = day /\ Current(k[1])
         /\ notice[k].bound => plan.status = "ACTIVE" /\ run[day].status = "APPROVED"

(* A policy, plan or run cancelled, a notice's account or a mail's event   *)
(* changed, before a message is claimed, always stops it, however far its  *)
(* worker or sender has come (staff-event-email-worker,                    *)
(* collection-schedule-worker, collection-notice-service).                 *)
ClaimedAsSanctioned ==
    [][\A k \in Email \cup Notice :
          Stage(k) = "open" /\ Stage(k)' = "claimed" => Sanctioned(k)]_vars
=============================================================================
