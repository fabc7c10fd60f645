--------------------------- MODULE Notifications ----------------------------
(***************************************************************************)
(* Notifications of bookings: one row of the communication log per         *)
(* logical message is created before the provider is called, and a repeat  *)
(* of the call reads it instead.  The provider reports later, in any       *)
(* order, what became of a text; staff may retry a WhatsApp message that   *)
(* was refused or reported as failed.                                      *)
(***************************************************************************)
EXTENDS DeliveryState

(* The caller is told whether its message went out. *)
LogClaim(p, k, t) ==
    /\ channel = "log" /\ sender[p] = Idle
    /\ k[2] = "first" /\ log[k] = NoLog
    /\ log' = [log EXCEPT ![k] = [NoLog EXCEPT !.status = "PENDING", !.outcome = "IN_PROGRESS",
                                               !.text = t]]
    /\ sender' = [sender EXCEPT ![p] = [Idle EXCEPT !.step = "checked", !.key = k]]
    /\ UNCHANGED <<channel, told, mailVars, noticeVars, source, wire>>

(* A repeat of the call trusts any row that was closed well. *)
RepeatAnyText(k, t) == log[k].outcome = "ACCEPTED"

(* A repeat of the call is told so only of the same message, accepted, and *)
(* not reported as failed since.                                           *)
RepeatIsSent(k, t) ==
    /\ log[k].text = t /\ log[k].outcome = "ACCEPTED"
    /\ log[k].status \in IF k[1] \in WhatsApp THEN {"PROCESSING", "SUCCEEDED"} ELSE {"SUCCEEDED"}

LogRepeat(k, t) ==
    /\ log[k] # NoLog /\ RepeatIsSent(k, t)
    /\ told' = [told EXCEPT ![k] = @ \cup {t}]
    /\ UNCHANGED <<channel, log, mailVars, noticeVars, source, sender, wire>>

(* What an answer is taken to mean.  An accepted text without a reference  *)
(* of the provider's is as uncertain as an answer that never came.         *)
Outcomes(answer) ==
    CASE answer = "accepted" -> {"ACCEPTED", "UNCERTAIN"}
      [] answer = "rejected" -> {"REJECTED"}
      [] OTHER               -> {"UNCERTAIN"}

Accepted(k) == IF k[1] \in WhatsApp THEN "PROCESSING" ELSE "SUCCEEDED"

(* The row is closed, or stays pending when that fails; nobody is told of  *)
(* a message whose row could not be closed.                                *)
LogOutcome(p) ==
    LET k == sender[p].key IN
    /\ k \in Attempt /\ sender[p].step \in ANSWER
    /\ \/ \E o \in Outcomes(sender[p].step) :
            /\ log' = [log EXCEPT ![k].outcome = o, ![k].failed = o # "ACCEPTED",
                                  ![k].status = IF o = "ACCEPTED" THEN Accepted(k) ELSE "FAILED"]
            /\ told' = [told EXCEPT ![k] = IF o = "ACCEPTED" THEN @ \cup {log[k].text} ELSE @]
       \/ UNCHANGED <<log, told>>
    /\ sender' = [sender EXCEPT ![p] = Idle]
    /\ UNCHANGED <<channel, mailVars, noticeVars, source, wire>>

-----------------------------------------------------------------------------
(* What a report does to a row, an early one erasing a late one. *)
ReportedAsItComes(r, e) ==
    CASE e = "delivered" -> [r EXCEPT !.status = "SUCCEEDED", !.delivered = TRUE, !.failed = FALSE]
      [] e = "failed"    -> IF r.failed THEN r ELSE [r EXCEPT !.status = "FAILED", !.failed = TRUE]
      [] OTHER           -> IF r.failed THEN r ELSE [r EXCEPT !.status = "PROCESSING"]

(* What a report of the provider does to a row: an early or unknown one    *)
(* never erases a confirmed delivery or failure.                           *)
Reported(r, e) ==
    CASE e = "delivered" -> [r EXCEPT !.status = "SUCCEEDED", !.delivered = TRUE, !.failed = FALSE]
      [] e # "delivered" /\ (r.delivered \/ r.failed) -> r
      [] e = "failed" /\ ~ r.delivered /\ ~ r.failed ->
            [r EXCEPT !.status = "FAILED", !.failed = TRUE]
      [] e = "sent" /\ ~ r.delivered /\ ~ r.failed -> [r EXCEPT !.status = "PROCESSING"]

(* A report, kept once each, in any order.  Only a row with the provider's *)
(* reference is found.                                                     *)
StatusCallback(k, e) ==
    /\ log[k].outcome = "ACCEPTED" /\ e \notin log[k].events
    /\ log' = [log EXCEPT ![k] = [Reported(log[k], e) EXCEPT !.events = @ \cup {e}]]
    /\ UNCHANGED <<channel, told, mailVars, noticeVars, source, sender, wire>>

-----------------------------------------------------------------------------
(* Anything marked as failed, the uncertain among it. *)
CanRetryAnyFailure(r) == r.status = "FAILED" /\ ~ r.delivered

CanRetry(r) ==
    /\ r.status = "FAILED" /\ ~ r.delivered
    /\ \/ r.outcome = "REJECTED"
       \/ r.outcome = "ACCEPTED" /\ r.failed

(* Staff ask for a retry; the row is read, and not read again. *)
RetryRead(p, w) ==
    /\ sender[p] = Idle
    /\ CanRetry(log[<<w, "first">>])
    /\ sender' = [sender EXCEPT ![p] = [Idle EXCEPT !.step = "retrying", !.key = <<w, "retry">>]]
    /\ UNCHANGED <<channel, log, told, mailVars, noticeVars, source, wire>>

(* The retry has a row of its own, so that it happens once.  The log keeps *)
(* a hash of the variables and not the variables: the template is sent     *)
(* without them.                                                           *)
RetryClaim(p) ==
    LET k == sender[p].key IN
    /\ sender[p].step = "retrying"
    /\ \/ /\ log[k] = NoLog
          /\ log' = [log EXCEPT ![k] = [NoLog EXCEPT !.status = "PENDING",
                                                     !.outcome = "IN_PROGRESS"]]
          /\ sender' = [sender EXCEPT ![p].step = "checked"]
       \/ /\ log[k] # NoLog
          /\ sender' = [sender EXCEPT ![p] = Idle]
          /\ UNCHANGED log
    /\ UNCHANGED <<channel, told, mailVars, noticeVars, source, wire>>

Notifications ==
    \/ \E k \in Attempt :
          \/ \E t \in Text \ {Blank} : LogRepeat(k, t) \/ \E p \in Proc : LogClaim(p, k, t)
          \/ \E e \in Event : StatusCallback(k, e)
    \/ \E p \in Proc : \/ LogOutcome(p) \/ RetryClaim(p)
                       \/ \E w \in WhatsApp : RetryRead(p, w)
=============================================================================
