--------------------------- MODULE DeliveryProofs ---------------------------
(***************************************************************************)
(* What holds of the sending of messages for any number of messages,       *)
(* recipients, accounts, staff, processes and days: the types, the promise *)
(* of the outbox, what a claim rests on, and what the provider's reports   *)
(* leave.                                                                  *)
(***************************************************************************)
EXTENDS Delivery, TLAPS

-----------------------------------------------------------------------------
(* Setting one column of a well-formed row of the log leaves it so ...     *)
LEMMA LogFields ==
  ASSUME NEW q \in LogRow
  PROVE  /\ \A x \in LogStatus : [q EXCEPT !.status = x] \in LogRow
         /\ \A x \in Outcome : [q EXCEPT !.outcome = x] \in LogRow
         /\ \A x \in Text : [q EXCEPT !.text = x] \in LogRow
         /\ \A x \in BOOLEAN : [q EXCEPT !.delivered = x] \in LogRow
         /\ \A x \in BOOLEAN : [q EXCEPT !.failed = x] \in LogRow
         /\ \A x \in SUBSET Event : [q EXCEPT !.events = x] \in LogRow
BY DEF LogRow

(* ... and of a staff e-mail's or a notice's row its status, the one       *)
(* column that is rewritten ...                                            *)
LEMMA StatusFields ==
  /\ \A q \in MailRow, x \in MailStatus : [q EXCEPT !.status = x] \in MailRow
  /\ \A q \in NoticeRow, x \in NoticeStatus : [q EXCEPT !.status = x] \in NoticeRow
BY DEF MailRow, NoticeRow

(* ... and of what a process does.                                         *)
LEMMA SenderFields ==
  ASSUME NEW q \in Sender
  PROVE  /\ \A x \in {"idle", "listing", "retrying", "claimed", "checked",
                      "accepted", "rejected", "unknown"} : [q EXCEPT !.step = x] \in Sender
         /\ \A x \in Message \cup {None} : [q EXCEPT !.key = x] \in Sender
         /\ \A x \in SUBSET (Email \cup Notice) : [q EXCEPT !.work = x] \in Sender
         /\ \A x \in Policy \cup Day \cup {None} : [q EXCEPT !.tick = x] \in Sender
<1>1. \A x \in {"idle", "listing", "retrying", "claimed", "checked",
                "accepted", "rejected", "unknown"} : [q EXCEPT !.step = x] \in Sender
  <2> TAKE x \in {"idle", "listing", "retrying", "claimed", "checked",
                  "accepted", "rejected", "unknown"}
  <2> QED BY DEF Sender, ANSWER
<1>2. \A x \in Message \cup {None} : [q EXCEPT !.key = x] \in Sender
  BY DEF Sender
<1>3. \A x \in SUBSET (Email \cup Notice) : [q EXCEPT !.work = x] \in Sender
  BY DEF Sender
<1>4. \A x \in Policy \cup Day \cup {None} : [q EXCEPT !.tick = x] \in Sender
  BY DEF Sender
<1> QED BY <1>1, <1>2, <1>3, <1>4

(* Replacing one row of a table by a well-formed one. *)
LEMMA RowSet ==
  ASSUME NEW D, NEW R, NEW f \in [D -> R], NEW i, NEW q, i \in D => q \in R
  PROVE  [f EXCEPT ![i] = q] \in [D -> R]
OBVIOUS

(* Rows not yet written, and processes with nothing to do, are well        *)
(* formed; so is a worker that goes on with its list.                      *)
LEMMA EmptyRowsTyped ==
  /\ NoLog \in LogRow /\ NoMail \in MailRow /\ NoNotice \in NoticeRow
  /\ Idle \in Sender /\ Blank \in Text /\ 1 \in Text
  /\ \A w \in SUBSET (Email \cup Notice), t \in Policy \cup Day \cup {None} : Onwards(w, t) \in Sender
<1>1. /\ NoLog \in LogRow /\ NoMail \in MailRow /\ NoNotice \in NoticeRow
      /\ Blank \in Text /\ 1 \in Text
  BY BoundAssumption
  DEF NoLog, LogRow, LogStatus, Outcome, NoMail, MailRow, MailStatus, NoNotice, NoticeRow,
      NoticeStatus, Text, Blank
<1>2. Idle \in Sender
  BY DEF Idle, Sender
<1>3. ASSUME NEW w \in SUBSET (Email \cup Notice), NEW t \in Policy \cup Day \cup {None}
      PROVE  Onwards(w, t) \in Sender
  <2>1. [Idle EXCEPT !.work = w] \in Sender
    BY <1>2, SenderFields
  <2>2. [[Idle EXCEPT !.work = w] EXCEPT !.tick = t] \in Sender
    BY <2>1, SenderFields
  <2>3. [Idle EXCEPT !.work = w, !.tick = t] \in Sender
    BY <2>2
  <2> QED BY <1>2, <2>3 DEF Onwards
<1> QED BY <1>1, <1>2, <1>3

(* A process that starts, moves on or stops is well formed. *)
LEMMA Senders ==
  ASSUME TypeOK, NEW p
  PROVE  /\ \A q \in Sender : [sender EXCEPT ![p] = q] \in [Proc -> Sender]
         /\ \A x \in {"idle", "listing", "retrying", "claimed", "checked",
                      "accepted", "rejected", "unknown"} :
               [sender EXCEPT ![p].step = x] \in [Proc -> Sender]
         /\ p \in Proc => /\ sender[p] \in Sender
                          /\ sender[p].key \in Message \cup {None}
                          /\ sender[p].work \in SUBSET (Email \cup Notice)
                          /\ sender[p].tick \in Policy \cup Day \cup {None}
<1>1. \A q \in Sender : [sender EXCEPT ![p] = q] \in [Proc -> Sender]
  BY RowSet DEF TypeOK
<1>2. p \in Proc => /\ sender[p] \in Sender
                    /\ sender[p].key \in Message \cup {None}
                    /\ sender[p].work \in SUBSET (Email \cup Notice)
                    /\ sender[p].tick \in Policy \cup Day \cup {None}
  BY DEF TypeOK, Sender
<1>3. ASSUME NEW x \in {"idle", "listing", "retrying", "claimed", "checked",
                        "accepted", "rejected", "unknown"}
      PROVE  [sender EXCEPT ![p].step = x] \in [Proc -> Sender]
  <2>1. p \in Proc => [sender[p] EXCEPT !.step = x] \in Sender
    BY <1>2, SenderFields
  <2>2. sender \in [Proc -> Sender]
    BY DEF TypeOK
  <2> QED BY <2>1, <2>2, RowSet
<1> QED BY <1>1, <1>2, <1>3

(* A row of one of the three ways is of no other. *)
LEMMA WaysDisjoint ==
  /\ \A k \in Attempt : k \notin Email /\ k \notin Notice
  /\ \A k \in Email : k \notin Attempt /\ k \notin Notice
  /\ \A k \in Notice : k \notin Attempt /\ k \notin Email
BY ChannelAssumption, EmailAssumption DEF Attempt, Notice

-----------------------------------------------------------------------------
(* Well-typed states, in which the author of an active plan is known.      *)
TypeInv ==
  /\ TypeOK
  /\ plan.status = "ACTIVE" => plan.creator \in Staff

(* Nothing written yet is well typed. *)
LEMMA TypeInit == Init => TypeInv
<1> SUFFICES ASSUME Init PROVE TypeInv
  OBVIOUS
<1> USE DEF Init
<1>1. channel \in Channel /\ owing \in SUBSET Account /\ handed \in [Message -> Nat]
  OBVIOUS
<1>2. log \in [Attempt -> LogRow] /\ told \in [Attempt -> SUBSET Text]
  BY EmptyRowsTyped
<1>3. mail \in [Email -> MailRow] /\ notice \in [Notice -> NoticeRow] /\ sender \in [Proc -> Sender]
  BY EmptyRowsTyped
<1>4. source \in [Email \cup Account -> Text] /\ taken \in [Message -> SUBSET Text]
  BY EmptyRowsTyped
<1>5. policy \in [Policy -> [status : PolicyStatus, sound : BOOLEAN]]
  BY DEF PolicyStatus
<1>6. /\ plan \in [status : {"NONE", "ACTIVE", "CANCELLED"}, creator : Staff \cup {None}]
      /\ plan.status # "ACTIVE"
  OBVIOUS
<1>7. run \in [Day -> [status : PolicyStatus, items : SUBSET Account]]
  BY DEF PolicyStatus
<1>8. day \in Day
  BY BoundAssumption DEF Day
<1> QED BY <1>1, <1>2, <1>3, <1>4, <1>5, <1>6, <1>7, <1>8 DEF TypeInv, TypeOK

(* What a typed state holds, table by table.                               *)
LEMMA Rows ==
  ASSUME TypeInv
  PROVE  /\ log \in [Attempt -> LogRow] /\ mail \in [Email -> MailRow]
         /\ notice \in [Notice -> NoticeRow] /\ told \in [Attempt -> SUBSET Text]
         /\ \A k \in Attempt : log[k] \in LogRow /\ log[k].text \in Text
                               /\ log[k].events \in SUBSET Event
         /\ \A k \in Email : mail[k] \in MailRow /\ mail[k].text \in Text
         /\ \A k \in Notice : notice[k] \in NoticeRow /\ notice[k].text \in Text
                              /\ notice[k].contributors \in SUBSET Staff
         /\ source \in [Email \cup Account -> Text]
BY DEF TypeInv, TypeOK, LogRow, MailRow, NoticeRow

(* Every operation on notifications writes well-formed rows.               *)
LEMMA TypeNotifications ==
  ASSUME TypeInv, Notifications
  PROVE  TypeInv'
<1> USE DEF TypeInv, logVars, mailVars, noticeVars, wire
<1>1. ASSUME NEW p \in Proc, NEW k \in Attempt, NEW t \in Text, LogClaim(p, k, t)
      PROVE  TypeInv'
  <2>1. [[[NoLog EXCEPT !.status = "PENDING"] EXCEPT !.outcome = "IN_PROGRESS"] EXCEPT !.text = t]
           \in LogRow
    <3>1. [NoLog EXCEPT !.status = "PENDING"] \in LogRow
      BY EmptyRowsTyped, LogFields DEF LogStatus
    <3>2. [[NoLog EXCEPT !.status = "PENDING"] EXCEPT !.outcome = "IN_PROGRESS"] \in LogRow
      BY <3>1, LogFields DEF Outcome
    <3> QED BY <3>2, LogFields
  <2>2. [NoLog EXCEPT !.status = "PENDING", !.outcome = "IN_PROGRESS", !.text = t] \in LogRow
    BY <2>1
  <2>3. log' \in [Attempt -> LogRow]
    BY <1>1, <2>2, RowSet DEF LogClaim, TypeOK
  <2>4. [[Idle EXCEPT !.step = "checked"] EXCEPT !.key = k] \in Sender
    <3>1. [Idle EXCEPT !.step = "checked"] \in Sender
      BY EmptyRowsTyped, SenderFields
    <3> QED BY <3>1, SenderFields DEF Message
  <2>5. [Idle EXCEPT !.step = "checked", !.key = k] \in Sender
    BY <2>4
  <2>6. sender' \in [Proc -> Sender]
    BY <1>1, <2>5, Senders DEF LogClaim
  <2> QED BY <1>1, <2>3, <2>6 DEF LogClaim, TypeOK
<1>2. ASSUME NEW k \in Attempt, NEW t \in Text, LogRepeat(k, t)
      PROVE  TypeInv'
  <2>1. told' \in [Attempt -> SUBSET Text]
    BY <1>2 DEF LogRepeat, TypeOK
  <2> QED BY <1>2, <2>1 DEF LogRepeat, TypeOK
<1>3. ASSUME NEW p \in Proc, LogOutcome(p)
      PROVE  TypeInv'
  <2> DEFINE k == sender[p].key
  <2>1. k \in Attempt
    BY <1>3 DEF LogOutcome
  <2>2. sender' \in [Proc -> Sender]
    BY <1>3, Senders, EmptyRowsTyped DEF LogOutcome
  <2>3. ASSUME NEW o \in Outcomes(sender[p].step),
               log' = [log EXCEPT ![k].outcome = o, ![k].failed = o # "ACCEPTED",
                                  ![k].status = IF o = "ACCEPTED" THEN Accepted(k) ELSE "FAILED"]
        PROVE  log' \in [Attempt -> LogRow]
    <3>1. o \in Outcome
      BY DEF Outcomes, Outcome
    <3> DEFINE s == IF o = "ACCEPTED" THEN Accepted(k) ELSE "FAILED"
    <3>2. s \in LogStatus
      BY DEF Accepted, LogStatus
    <3> HIDE DEF s
    <3>3. [[[log[k] EXCEPT !.outcome = o] EXCEPT !.failed = (o # "ACCEPTED")] EXCEPT !.status = s]
             \in LogRow
      <4>1. [log[k] EXCEPT !.outcome = o] \in LogRow
        BY <2>1, <3>1, Rows, LogFields
      <4>2. [[log[k] EXCEPT !.outcome = o] EXCEPT !.failed = (o # "ACCEPTED")] \in LogRow
        BY <4>1, LogFields
      <4> QED BY <3>2, <4>2, LogFields
    <3> HIDE DEF k
    <3>4. log' = [log EXCEPT ![k] =
                    [[[log[k] EXCEPT !.outcome = o] EXCEPT !.failed = (o # "ACCEPTED")]
                        EXCEPT !.status = s]]
      BY <2>1, <2>3, Rows DEF s
    <3> QED BY <3>3, <3>4, RowSet, Rows
  <2>4. log' \in [Attempt -> LogRow]
    BY <1>3, <2>3, Rows DEF LogOutcome
  <2>5. told' \in [Attempt -> SUBSET Text]
    <3> HIDE DEF k
    <3>1. log[k].text \in Text /\ told \in [Attempt -> SUBSET Text]
      BY <2>1, Rows
    <3>2. \/ told' = told
          \/ \E o \in Outcomes(sender[p].step) :
                told' = [told EXCEPT ![k] = IF o = "ACCEPTED" THEN @ \cup {log[k].text} ELSE @]
      BY <1>3 DEF LogOutcome, k
    <3> QED BY <2>1, <3>1, <3>2
  <2> QED BY <1>3, <2>2, <2>4, <2>5 DEF LogOutcome, TypeOK
<1>4. ASSUME NEW k \in Attempt, NEW e \in Event, StatusCallback(k, e)
      PROVE  TypeInv'
  <2>1. Reported(log[k], e) \in LogRow
    <3>1. /\ [log[k] EXCEPT !.status = "SUCCEEDED"] \in LogRow
          /\ [log[k] EXCEPT !.status = "FAILED"] \in LogRow
          /\ [log[k] EXCEPT !.status = "PROCESSING"] \in LogRow
      BY Rows, LogFields DEF LogStatus
    <3>2. [log[k] EXCEPT !.status = "SUCCEEDED", !.delivered = TRUE, !.failed = FALSE] \in LogRow
      <4>1. [[log[k] EXCEPT !.status = "SUCCEEDED"] EXCEPT !.delivered = TRUE] \in LogRow
        BY <3>1, LogFields
      <4>2. [[[log[k] EXCEPT !.status = "SUCCEEDED"] EXCEPT !.delivered = TRUE]
                EXCEPT !.failed = FALSE] \in LogRow
        BY <4>1, LogFields
      <4> QED BY <4>2
    <3>3. [log[k] EXCEPT !.status = "FAILED", !.failed = TRUE] \in LogRow
      <4>1. [[log[k] EXCEPT !.status = "FAILED"] EXCEPT !.failed = TRUE] \in LogRow
        BY <3>1, LogFields
      <4> QED BY <4>1
    <3>4. log[k].delivered \in BOOLEAN /\ log[k].failed \in BOOLEAN
      BY Rows DEF LogRow
    <3>5. CASE e = "delivered"
      BY <3>2, <3>5 DEF Reported
    <3>6. CASE e # "delivered" /\ (log[k].delivered \/ log[k].failed)
      BY <3>6, Rows DEF Reported
    <3>7. CASE e = "failed" /\ ~ log[k].delivered /\ ~ log[k].failed
      BY <3>3, <3>7 DEF Reported
    <3>8. CASE e = "sent" /\ ~ log[k].delivered /\ ~ log[k].failed
      BY <3>1, <3>8 DEF Reported
    <3> QED BY <3>5, <3>6, <3>7, <3>8 DEF Event
  <2>2. log' = [log EXCEPT ![k] = [Reported(log[k], e) EXCEPT !.events = log[k].events \cup {e}]]
    <3>1. Reported(log[k], e).events = log[k].events
      BY Rows, Zenon DEF Reported, LogRow, Event
    <3> QED BY <1>4, <3>1, Rows DEF StatusCallback
  <2>3. [Reported(log[k], e) EXCEPT !.events = log[k].events \cup {e}] \in LogRow
    BY <2>1, Rows, LogFields
  <2>4. log' \in [Attempt -> LogRow]
    BY <2>2, <2>3, RowSet, Rows
  <2> QED BY <1>4, <2>4 DEF StatusCallback, TypeOK
<1>5. ASSUME NEW p \in Proc, NEW w \in WhatsApp, RetryRead(p, w)
      PROVE  TypeInv'
  <2>1. [Idle EXCEPT !.step = "retrying"] \in Sender
    BY EmptyRowsTyped, SenderFields
  <2>2. [[Idle EXCEPT !.step = "retrying"] EXCEPT !.key = <<w, "retry">>] \in Sender
    BY <2>1, SenderFields DEF Message, Attempt
  <2>3. [Idle EXCEPT !.step = "retrying", !.key = <<w, "retry">>] \in Sender
    BY <2>2
  <2>4. sender' \in [Proc -> Sender]
    BY <1>5, <2>3, Senders DEF RetryRead
  <2> QED BY <1>5, <2>4 DEF RetryRead, TypeOK
<1>6. ASSUME NEW p \in Proc, RetryClaim(p)
      PROVE  TypeInv'
  <2>1. [[NoLog EXCEPT !.status = "PENDING"] EXCEPT !.outcome = "IN_PROGRESS"] \in LogRow
    <3>1. [NoLog EXCEPT !.status = "PENDING"] \in LogRow
      BY EmptyRowsTyped, LogFields DEF LogStatus
    <3> QED BY <3>1, LogFields DEF Outcome
  <2>2. [NoLog EXCEPT !.status = "PENDING", !.outcome = "IN_PROGRESS"] \in LogRow
    BY <2>1
  <2>3. log' \in [Attempt -> LogRow]
    BY <1>6, <2>2, RowSet, Rows DEF RetryClaim
  <2>4. sender' \in [Proc -> Sender]
    <3>1. /\ [sender EXCEPT ![p].step = "checked"] \in [Proc -> Sender]
          /\ [sender EXCEPT ![p] = Idle] \in [Proc -> Sender]
      BY Senders, EmptyRowsTyped
    <3> QED BY <1>6, <3>1, Zenon DEF RetryClaim
  <2> QED BY <1>6, <2>3, <2>4 DEF RetryClaim, TypeOK
<1> QED BY <1>1, <1>2, <1>3, <1>4, <1>5, <1>6 DEF Notifications

(* The rows an evaluation leaves are well formed, its policy's and event's. *)
LEMMA EvaluatedTyped ==
  ASSUME TypeInv, NEW g \in Policy
  PROVE  Evaluated(g) \in [Email -> MailRow]
<1>1. \A e \in Email : [status |-> "HELD_ACTIVATION", policy |-> g, text |-> source[e]] \in MailRow
  BY Rows DEF MailRow, MailStatus
<1> QED BY <1>1, Rows DEF Evaluated

(* Every operation on staff e-mails writes well-formed rows.               *)
LEMMA TypeStaffEmails ==
  ASSUME TypeInv, StaffEmails
  PROVE  TypeInv'
<1> USE DEF TypeInv, logVars, mailVars, noticeVars, wire
<1>1. ASSUME NEW g \in Policy, PreparePolicy(g) PROVE TypeInv'
  <2>1. policy' \in [Policy -> [status : PolicyStatus, sound : BOOLEAN]]
    BY <1>1 DEF PreparePolicy, TypeOK, PolicyStatus
  <2> QED BY <1>1, <2>1 DEF PreparePolicy, TypeOK
<1>2. ASSUME NEW g \in Policy, CancelPolicy(g) PROVE TypeInv'
  <2>1. policy' \in [Policy -> [status : PolicyStatus, sound : BOOLEAN]]
    BY <1>2 DEF CancelPolicy, TypeOK, PolicyStatus
  <2> QED BY <1>2, <2>1 DEF CancelPolicy, TypeOK
<1>3. ASSUME NEW g \in Policy, PolicyLapses(g) PROVE TypeInv'
  <2>1. policy' \in [Policy -> [status : PolicyStatus, sound : BOOLEAN]]
    BY <1>3 DEF PolicyLapses, TypeOK
  <2> QED BY <1>3, <2>1 DEF PolicyLapses, TypeOK
<1>4. ASSUME NEW g \in Policy, NEW to \in {"APPROVED", "REJECTED"}, ReviewPolicy(g, to)
      PROVE  TypeInv'
  <2>1. policy' \in [Policy -> [status : PolicyStatus, sound : BOOLEAN]]
    BY <1>4 DEF ReviewPolicy, TypeOK, PolicyStatus
  <2> QED BY <1>4, <2>1 DEF ReviewPolicy, TypeOK
<1>5. ASSUME NEW g \in Policy, Evaluate(g) PROVE TypeInv'
  BY <1>5, EvaluatedTyped DEF Evaluate, TypeOK
<1>6. ASSUME NEW g \in Policy, NEW p \in Proc, TickStart(p, g) PROVE TypeInv'
  <2>1. [Idle EXCEPT !.step = "listing"] \in Sender
    BY EmptyRowsTyped, SenderFields
  <2>2. [[Idle EXCEPT !.step = "listing"] EXCEPT !.tick = g] \in Sender
    BY <2>1, SenderFields
  <2>3. [Idle EXCEPT !.step = "listing", !.tick = g] \in Sender
    BY <2>2
  <2>4. sender' \in [Proc -> Sender]
    BY <1>6, <2>3, Senders DEF TickStart
  <2> QED BY <1>6, <2>4, EvaluatedTyped DEF TickStart, TypeOK
<1>7. ASSUME NEW e \in Email, EventChanges(e) PROVE TypeInv'
  <2>1. source' \in [Email \cup Account -> Text]
    BY <1>7, BoundAssumption DEF EventChanges, TypeOK, Text
  <2> QED BY <1>7, <2>1 DEF EventChanges, TypeOK
<1>8. ASSUME NEW p \in Proc, TickList(p) PROVE TypeInv'
  <2> DEFINE w == {e \in Email : /\ mail[e].status = "HELD_ACTIVATION"
                                 /\ mail[e].policy = sender[p].tick}
  <2>1. Onwards(w, sender[p].tick) \in Sender
    <3>1. sender[p].tick \in Policy \cup Day \cup {None}
      BY Senders
    <3>2. w \in SUBSET (Email \cup Notice)
      OBVIOUS
    <3> HIDE DEF w
    <3> QED BY <3>1, <3>2, EmptyRowsTyped
  <2>2. sender' \in [Proc -> Sender]
    <3>1. sender' = [sender EXCEPT ![p] = Onwards(w, sender[p].tick)]
      BY <1>8 DEF TickList
    <3> HIDE DEF w
    <3> QED BY <2>1, <3>1, Senders
  <2> QED BY <1>8, <2>2 DEF TickList, TypeOK
<1>9. ASSUME NEW p \in Proc, NEW e \in Email, MailClaim(p, e) PROVE TypeInv'
  <2> DEFINE me == sender[p]
  <2>1. /\ me \in Sender
        /\ me.work \ {e} \in SUBSET (Email \cup Notice)
        /\ me.tick \in Policy \cup Day \cup {None}
    BY Senders
  <2>2. [me EXCEPT !.step = "claimed", !.key = e, !.work = me.work \ {e}] \in Sender
    <3> HIDE DEF me
    <3>1. [me EXCEPT !.step = "claimed"] \in Sender
      BY <2>1, SenderFields
    <3>2. [[me EXCEPT !.step = "claimed"] EXCEPT !.key = e] \in Sender
      BY <3>1, SenderFields DEF Message
    <3>3. [[[me EXCEPT !.step = "claimed"] EXCEPT !.key = e] EXCEPT !.work = me.work \ {e}]
             \in Sender
      BY <2>1, <3>2, SenderFields
    <3> QED BY <3>3
  <2>3. [mail EXCEPT ![e].status = "SENDING"] \in [Email -> MailRow]
    BY Rows, StatusFields DEF MailStatus
  <2>4. mail' \in [Email -> MailRow]
    BY <1>9, <2>3, Rows DEF MailClaim
  <2>5. Onwards(me.work \ {e}, me.tick) \in Sender /\ Idle \in Sender
    BY <2>1, EmptyRowsTyped
  <2>6. \/ sender' = [sender EXCEPT ![p] = Onwards(me.work \ {e}, me.tick)]
        \/ sender' = [sender EXCEPT ![p] = Idle]
        \/ sender' = [sender EXCEPT ![p] = [me EXCEPT !.step = "claimed", !.key = e,
                                                      !.work = me.work \ {e}]]
    BY <1>9, <2>1 DEF MailClaim, Sender
  <2>7. sender' \in [Proc -> Sender]
    <3> HIDE DEF me
    <3>1. \A q \in Sender : [sender EXCEPT ![p] = q] \in [Proc -> Sender]
      BY Senders
    <3>2. PICK q \in Sender : sender' = [sender EXCEPT ![p] = q]
      BY <2>2, <2>5, <2>6, Zenon
    <3> QED BY <3>1, <3>2
  <2> QED BY <1>9, <2>4, <2>7 DEF MailClaim, TypeOK
<1>10. ASSUME NEW p \in Proc, MailCheck(p) PROVE TypeInv'
  <2>1. /\ [sender EXCEPT ![p].step = "checked"] \in [Proc -> Sender]
        /\ [sender EXCEPT ![p].step = "unknown"] \in [Proc -> Sender]
    BY Senders
  <2>2. sender' \in [Proc -> Sender]
    BY <1>10, <2>1, Zenon DEF MailCheck
  <2> QED BY <1>10, <2>2 DEF MailCheck, TypeOK
<1>11. ASSUME NEW p \in Proc, MailOutcome(p) PROVE TypeInv'
  <2> DEFINE k == sender[p].key
  <2>1. k \in Email
    BY <1>11 DEF MailOutcome
  <2>2. Onwards(sender[p].work, sender[p].tick) \in Sender
    BY Senders, EmptyRowsTyped
  <2>3. sender' \in [Proc -> Sender]
    BY <1>11, <2>2, Senders DEF MailOutcome
  <2>4. /\ [mail EXCEPT ![k].status = "ACCEPTED"] \in [Email -> MailRow]
        /\ [mail EXCEPT ![k].status = "REVIEW_REQUIRED"] \in [Email -> MailRow]
    <3> HIDE DEF k
    <3> QED BY <2>1, Rows, StatusFields DEF MailStatus
  <2>5. mail' \in [Email -> MailRow]
    BY <1>11, <2>4, Rows DEF MailOutcome
  <2> QED BY <1>11, <2>3, <2>5 DEF MailOutcome, TypeOK
<1> QED BY <1>1, <1>2, <1>3, <1>4, <1>5, <1>6, <1>7, <1>8, <1>9, <1>10, <1>11 DEF StaffEmails

(* A draft, an approval or a new status leaves the notices well formed.    *)
LEMMA NoticesTyped ==
  ASSUME TypeInv
  PROVE  /\ \A k \in Notice : k[1] \in Account
         /\ \A a \in Account : <<a, day>> \in Notice
         /\ \A a \in Account, hands \in SUBSET Staff, bound \in BOOLEAN :
               Draft(a, hands, bound) \in NoticeRow
         /\ \A A : Approved(A) \in [Notice -> NoticeRow]
<1>1. /\ \A k \in Notice : k[1] \in Account
      /\ \A a \in Account : <<a, day>> \in Notice
  BY DEF TypeInv, TypeOK, Notice
<1>2. ASSUME NEW a \in Account, NEW hands \in SUBSET Staff, NEW bound \in BOOLEAN
      PROVE  Draft(a, hands, bound) \in NoticeRow
  <2>1. /\ source[a] \in Text
        /\ notice[<<a, day>>].contributors \in SUBSET Staff
    BY <1>1, Rows
  <2> QED BY <2>1 DEF Draft, NoticeRow, NoticeStatus
<1>3. ASSUME NEW A PROVE Approved(A) \in [Notice -> NoticeRow]
  <2>1. \A k \in Notice : [notice[k] EXCEPT !.status = "APPROVED"] \in NoticeRow
    BY Rows, StatusFields DEF NoticeStatus
  <2> QED BY <2>1, Rows DEF Approved
<1> QED BY <1>1, <1>2, <1>3

(* So does moving one of them to another status. *)
LEMMA NoticeMoved ==
  ASSUME TypeInv, NEW k, NEW x \in NoticeStatus, notice' = [notice EXCEPT ![k].status = x]
  PROVE  notice' \in [Notice -> NoticeRow]
<1>1. k \in Notice => [notice[k] EXCEPT !.status = x] \in NoticeRow
  BY Rows, StatusFields
<1>2. notice \in [Notice -> NoticeRow]
  BY Rows
<1> QED BY <1>1, <1>2, RowSet

(* Every operation on collection notices writes well-formed rows.          *)
LEMMA TypeCollectionNotices ==
  ASSUME TypeInv, CollectionNotices
  PROVE  TypeInv'
<1> USE DEF TypeInv, logVars, mailVars, noticeVars, wire
<1>0. /\ day \in Day /\ day \in Nat
      /\ run \in [Day -> [status : PolicyStatus, items : SUBSET Account]]
      /\ plan \in [status : {"NONE", "ACTIVE", "CANCELLED"}, creator : Staff \cup {None}]
  BY DEF TypeOK, Day
<1>1. ASSUME NEW a \in Account, AccountChanges(a) PROVE TypeInv'
  <2>1. source' \in [Email \cup Account -> Text]
    BY <1>1, BoundAssumption DEF AccountChanges, TypeOK, Text
  <2>2. owing' \in SUBSET Account
    BY <1>1 DEF AccountChanges, TypeOK
  <2> QED BY <1>1, <2>1, <2>2 DEF AccountChanges, TypeOK
<1>2. ASSUME NEW a \in Account, NEW p \in Proc, ManualClaim(p, a) PROVE TypeInv'
  <2> DEFINE k == <<a, day>>
  <2>1. k \in Message
    BY NoticesTyped DEF Message
  <2>2. [Idle EXCEPT !.step = "checked"] \in Sender
    BY EmptyRowsTyped, SenderFields
  <2>3. [[Idle EXCEPT !.step = "checked"] EXCEPT !.key = k] \in Sender
    <3> HIDE DEF k
    <3> QED BY <2>1, <2>2, SenderFields
  <2>4. [Idle EXCEPT !.step = "checked", !.key = k] \in Sender
    BY <2>3
  <2>5. sender' \in [Proc -> Sender]
    BY <1>2, <2>4, Senders DEF ManualClaim
  <2>6. notice' \in [Notice -> NoticeRow]
    BY <1>2, NoticeMoved DEF ManualClaim, NoticeStatus
  <2> QED BY <1>2, <2>5, <2>6 DEF ManualClaim, TypeOK
<1>3. ASSUME NEW s \in Staff, CreatePlan(s) PROVE TypeInv'
  BY <1>3 DEF CreatePlan, TypeOK
<1>4. ASSUME NEW s \in Staff, ApproveRun(s) PROVE TypeInv'
  <2>1. run' \in [Day -> [status : PolicyStatus, items : SUBSET Account]]
    BY <1>0, <1>4 DEF ApproveRun, PolicyStatus
  <2> QED BY <1>4, <2>1, NoticesTyped DEF ApproveRun, TypeOK
<1>5. ASSUME NEW s \in Staff, NEW A \in SUBSET Account, PrepareNotices(s, A) PROVE TypeInv'
  <2>1. \A a \in Account : Draft(a, {s}, FALSE) \in NoticeRow
    BY NoticesTyped
  <2>2. notice' \in [Notice -> NoticeRow]
    BY <1>5, <2>1, NoticesTyped, Rows DEF PrepareNotices
  <2> QED BY <1>5, <2>2 DEF PrepareNotices, TypeOK
<1>6. ASSUME NEW s \in Staff, NEW A \in SUBSET Account, ApproveNotices(s, A) PROVE TypeInv'
  BY <1>6, NoticesTyped DEF ApproveNotices, TypeOK
<1>7. ASSUME NEW hands \in {{}} \cup {{s} : s \in Staff}, EvaluateRun(hands) PROVE TypeInv'
  <2>1. hands \cup {plan.creator} \in SUBSET Staff
    BY <1>7 DEF EvaluateRun
  <2>2. \A a \in Account : Draft(a, hands \cup {plan.creator}, TRUE) \in NoticeRow
    BY <2>1, NoticesTyped
  <2>3. notice' \in [Notice -> NoticeRow]
    BY <1>7, <2>2, NoticesTyped, Rows DEF EvaluateRun
  <2>4. run' \in [Day -> [status : PolicyStatus, items : SUBSET Account]]
    <3> DEFINE items == {a \in Account : Due(a)}
    <3>1. items \in SUBSET Account
      OBVIOUS
    <3>2. run' = [run EXCEPT ![day] = [status |-> "PENDING_REVIEW", items |-> items]]
      BY <1>7 DEF EvaluateRun
    <3> HIDE DEF items
    <3> QED BY <1>0, <3>1, <3>2 DEF PolicyStatus
  <2> QED BY <1>7, <2>3, <2>4 DEF EvaluateRun, TypeOK
<1>8. ASSUME NEW d \in Day, CancelRun(d) PROVE TypeInv'
  <2>1. run' \in [Day -> [status : PolicyStatus, items : SUBSET Account]]
    BY <1>0, <1>8 DEF CancelRun, PolicyStatus
  <2> QED BY <1>8, <2>1 DEF CancelRun, TypeOK
<1>9. ASSUME NEW k \in Notice, NEW to \in {"DRAFT", "CANCELLED"}, WithdrawNotice(k, to)
      PROVE  TypeInv'
  <2>1. notice' \in [Notice -> NoticeRow]
    BY <1>9, NoticeMoved DEF WithdrawNotice, NoticeStatus
  <2> QED BY <1>9, <2>1 DEF WithdrawNotice, TypeOK
<1>10. ASSUME NEW k \in Notice, NEW p \in Proc, ScheduledClaim(p, k) PROVE TypeInv'
  <2> DEFINE me == sender[p]
  <2>1. /\ me \in Sender
        /\ me.work \ {k} \in SUBSET (Email \cup Notice)
        /\ me.tick \in Policy \cup Day \cup {None}
    <3>1. p \in Proc
      BY <1>10
    <3> QED BY <3>1, Senders
  <2>2. [me EXCEPT !.step = "claimed", !.key = k, !.work = me.work \ {k}] \in Sender
    <3> HIDE DEF me
    <3>1. [me EXCEPT !.step = "claimed"] \in Sender
      BY <2>1, SenderFields
    <3>2. [[me EXCEPT !.step = "claimed"] EXCEPT !.key = k] \in Sender
      BY <3>1, SenderFields DEF Message
    <3>3. [[[me EXCEPT !.step = "claimed"] EXCEPT !.key = k] EXCEPT !.work = me.work \ {k}]
             \in Sender
      BY <2>1, <3>2, SenderFields
    <3> QED BY <3>3
  <2>3. Onwards(me.work \ {k}, me.tick) \in Sender
    BY <2>1, EmptyRowsTyped
  <2>4. \/ sender' = [sender EXCEPT ![p] = Onwards(me.work \ {k}, me.tick)]
        \/ sender' = [sender EXCEPT ![p] = [me EXCEPT !.step = "claimed", !.key = k,
                                                      !.work = me.work \ {k}]]
    BY <1>10, <2>1 DEF ScheduledClaim, Sender
  <2>5. sender' \in [Proc -> Sender]
    <3> HIDE DEF me
    <3>1. \A q \in Sender : [sender EXCEPT ![p] = q] \in [Proc -> Sender]
      BY Senders
    <3>2. PICK q \in Sender : sender' = [sender EXCEPT ![p] = q]
      BY <2>2, <2>3, <2>4, Zenon
    <3> QED BY <3>1, <3>2
  <2>6. notice' \in [Notice -> NoticeRow]
    <3>1. CASE UNCHANGED notice
      BY <3>1, Rows
    <3>2. CASE notice' = [notice EXCEPT ![k].status = "SENDING"]
      BY <3>2, NoticeMoved DEF NoticeStatus
    <3> QED BY <1>10, <3>1, <3>2 DEF ScheduledClaim
  <2> QED BY <1>10, <2>5, <2>6 DEF ScheduledClaim, TypeOK
<1>11. ASSUME NEW p \in Proc, ScheduleTick(p) PROVE TypeInv'
  <2> DEFINE w == run[day].items \X {day}
  <2>1. w \in SUBSET (Email \cup Notice)
    BY <1>0 DEF Notice
  <2>2. Onwards(w, day) \in Sender
    <3> HIDE DEF w
    <3> QED BY <1>0, <2>1, EmptyRowsTyped
  <2>3. sender' = [sender EXCEPT ![p] = Onwards(w, day)]
    BY <1>11 DEF ScheduleTick
  <2>4. sender' \in [Proc -> Sender]
    <3> HIDE DEF w
    <3> QED BY <2>2, <2>3, Senders
  <2> QED BY <1>11, <2>4 DEF ScheduleTick, TypeOK
<1>12. ASSUME NEW p \in Proc, ScheduledCheck(p) PROVE TypeInv'
  <2>1. /\ [sender EXCEPT ![p].step = "checked"] \in [Proc -> Sender]
        /\ [sender EXCEPT ![p].step = "unknown"] \in [Proc -> Sender]
    BY Senders
  <2>2. sender' \in [Proc -> Sender]
    BY <1>12, <2>1, Zenon DEF ScheduledCheck
  <2> QED BY <1>12, <2>2 DEF ScheduledCheck, TypeOK
<1>13. ASSUME NEW p \in Proc, NoticeOutcome(p) PROVE TypeInv'
  <2>1. Onwards(sender[p].work, sender[p].tick) \in Sender
    BY Senders, EmptyRowsTyped
  <2>2. sender' \in [Proc -> Sender]
    BY <1>13, <2>1, Senders DEF NoticeOutcome
  <2>3. \/ notice' = [notice EXCEPT ![sender[p].key].status = "ACCEPTED"]
        \/ notice' = [notice EXCEPT ![sender[p].key].status = "REVIEW_REQUIRED"]
        \/ UNCHANGED notice
    BY <1>13 DEF NoticeOutcome
  <2>4. notice' \in [Notice -> NoticeRow]
    BY <2>3, NoticeMoved, Rows DEF NoticeStatus
  <2> QED BY <1>13, <2>2, <2>4 DEF NoticeOutcome, TypeOK
<1>14. ASSUME NewDay PROVE TypeInv'
  <2>1. day' \in Day
    BY <1>0, <1>14, BoundAssumption DEF NewDay, Day
  <2> QED BY <1>14, <2>1 DEF NewDay, TypeOK
<1>15. ASSUME CancelPlan PROVE TypeInv'
  BY <1>0, <1>15 DEF CancelPlan, TypeOK
<1> QED BY <1>1, <1>2, <1>3, <1>4, <1>5, <1>6, <1>7, <1>8, <1>9, <1>10, <1>11, <1>12, <1>13,
           <1>14, <1>15 DEF CollectionNotices

-----------------------------------------------------------------------------
(* What a message says is one of the versions of what it may say.          *)
LEMMA TextTyped ==
  ASSUME TypeInv, NEW k \in Message
  PROVE  TextOf(k) \in Text
BY Rows DEF TextOf, Message

(* The provider and processes that stop leave the state well typed.        *)
LEMMA TypeProvider ==
  ASSUME TypeInv, NEW p \in Proc, ProviderCall(p) \/ SenderStops(p)
  PROVE  TypeInv'
<1> USE DEF TypeInv, logVars, mailVars, noticeVars, wire
<1>1. ASSUME ProviderCall(p) PROVE TypeInv'
  <2> DEFINE k == sender[p].key
  <2>1. handed' \in [Message -> Nat]
    BY <1>1, RowSet DEF ProviderCall, TypeOK
  <2>2. taken' \in [Message -> SUBSET Text]
    <3> HIDE DEF k
    <3>1. taken \in [Message -> SUBSET Text]
      BY DEF TypeOK
    <3>2. k \in Message => taken[k] \cup {TextOf(k)} \in SUBSET Text
      BY <3>1, TextTyped
    <3>3. taken' = taken \/ taken' = [taken EXCEPT ![k] = taken[k] \cup {TextOf(k)}]
      BY <1>1 DEF ProviderCall, k
    <3> QED BY <3>1, <3>2, <3>3, RowSet
  <2>3. PICK x \in ANSWER : sender' = [sender EXCEPT ![p].step = x]
    BY <1>1 DEF ProviderCall, ANSWER
  <2>4. sender' \in [Proc -> Sender]
    BY <2>3, Senders DEF ANSWER
  <2> QED BY <1>1, <2>1, <2>2, <2>4 DEF ProviderCall, TypeOK
<1>2. ASSUME SenderStops(p) PROVE TypeInv'
  <2>1. sender' \in [Proc -> Sender]
    BY <1>2, Senders, EmptyRowsTyped DEF SenderStops
  <2> QED BY <1>2, <2>1 DEF SenderStops, TypeOK
<1> QED BY <1>1, <1>2

(* Well-typed states, the author of an active plan among them, stay so. *)
LEMMA Typed == Spec => []TypeInv
<1>1. TypeInv /\ [Next]_vars => TypeInv'
  <2> SUFFICES ASSUME TypeInv, [Next]_vars PROVE TypeInv'
    OBVIOUS
  <2>1. CASE Next
    BY <2>1, TypeNotifications, TypeStaffEmails, TypeCollectionNotices, TypeProvider DEF Next
  <2>2. CASE UNCHANGED vars
    BY <2>2 DEF TypeInv, TypeOK, vars
  <2> QED BY <2>1, <2>2
<1> QED BY <1>1, TypeInit, PTL DEF Spec

(* The communication log, the outbox, the notices and what processes do    *)
(* are well formed at all times.                                           *)
THEOREM DeliveryTyped == Spec => []TypeOK
<1>1. TypeInv => TypeOK
  BY DEF TypeInv
<1> QED BY <1>1, Typed, PTL

-----------------------------------------------------------------------------
(* What the rows of all messages say, next to where they are (stage). *)
says == [k \in Message |-> TextOf(k)]

(* A process that holds a claim: it has claimed a message and not yet      *)
(* recorded what became of it.                                             *)
Busy(p) == sender[p].step \in {"claimed", "checked"} \cup ANSWER

(* Whoever holds a claim holds one that is recorded, has not yet used it   *)
(* or knows what came of it.                                               *)
Held(p) ==
  /\ sender[p].key \in Message
  /\ stage[sender[p].key] = "claimed"
  /\ sender[p].step \in {"claimed", "checked"} => handed[sender[p].key] = 0
  /\ sender[p].step = "accepted" => /\ handed[sender[p].key] = 1
                                   /\ says[sender[p].key] \in taken[sender[p].key]
  /\ sender[p].step = "rejected" => taken[sender[p].key] = {}

Claims == \A p \in Proc : Busy(p) => Held(p)

(* A process about to retry a message is about its row for the retry. *)
RetryOf(q) == q.step = "retrying" => q.key \in WhatsApp \X {"retry"}

Retries == \A p \in Proc : RetryOf(sender[p])

(* No two processes hold a claim of one message. *)
Alone == \A p, q \in Proc : Busy(p) /\ Busy(q) /\ sender[p].key = sender[q].key => p = q

(* A message is put to the provider at most once, and never before it is   *)
(* claimed; what is recorded of it is so.                                  *)
Once ==
  /\ \A k \in Message :
        /\ handed[k] \in {0, 1}
        /\ handed[k] = 0 => taken[k] = {}
        /\ stage[k] = "open" => handed[k] = 0
        /\ stage[k] = "accepted" => says[k] \in taken[k]
  /\ \A k \in Attempt : /\ log[k].outcome = "REJECTED" => taken[k] = {}
                        /\ told[k] \subseteq taken[k]

(* The inductive invariant of the sending of messages. *)
SendInv == Claims /\ Retries /\ Alone /\ Once

-----------------------------------------------------------------------------
(* A message is of one of the three ways.                                  *)
LEMMA MessageCases == Message = Attempt \cup Email \cup Notice
BY DEF Message

(* Where a row stands and what it says, by the table it is in.             *)
LEMMA StageOf ==
  /\ \A k \in Attempt : stage[k] = LogStage(log[k].outcome) /\ says[k] = log[k].text
  /\ \A k \in Email : stage[k] = RowStage(mail[k].status) /\ says[k] = mail[k].text
  /\ \A k \in Notice : stage[k] = RowStage(notice[k].status) /\ says[k] = notice[k].text
BY WaysDisjoint DEF Stage, TextOf, stage, says, Message

(* The same after a step. *)
LEMMA StageOfNext ==
  /\ \A k \in Attempt : stage'[k] = LogStage(log'[k].outcome) /\ says'[k] = log'[k].text
  /\ \A k \in Email : stage'[k] = RowStage(mail'[k].status) /\ says'[k] = mail'[k].text
  /\ \A k \in Notice : stage'[k] = RowStage(notice'[k].status) /\ says'[k] = notice'[k].text
BY WaysDisjoint DEF Stage, TextOf, stage, says, Message

(* Two states whose messages are at the same stages have the same stage.   *)
LEMMA StageFunctions ==
  /\ DOMAIN stage = Message /\ stage = [k \in Message |-> stage[k]]
  /\ DOMAIN stage' = Message /\ stage' = [k \in Message |-> stage'[k]]
BY DEF stage

(* A table that is not written keeps its messages where they are.          *)
LEMMA Untouched ==
  /\ log' = log => \A k \in Attempt : stage'[k] = stage[k] /\ says'[k] = says[k]
  /\ mail' = mail => \A k \in Email : stage'[k] = stage[k] /\ says'[k] = says[k]
  /\ notice' = notice => \A k \in Notice : stage'[k] = stage[k] /\ says'[k] = says[k]
BY StageOf, StageOfNext

-----------------------------------------------------------------------------
(* Four kinds of steps.  In a quiet one no message moves on: rows not yet  *)
(* claimed are rewritten, reports recorded ...                             *)
RowsQuiet ==
  /\ UNCHANGED wire
  /\ \A k \in Message : /\ stage'[k] = stage[k]
                        /\ stage[k] # "open" => says'[k] = says[k]
  /\ \A k \in Attempt : /\ log'[k].outcome = log[k].outcome
                        /\ told'[k] \subseteq told[k] \cup taken[k]

(* ... and processes start, look at their claim once more, or stop.        *)
SendersQuiet ==
  \A p \in Proc :
     \/ sender'[p].step \in {"idle", "listing", "retrying"} /\ RetryOf(sender'[p])
     \/ sender'[p] = sender[p]
     \/ /\ sender'[p].key = sender[p].key
        /\ sender[p].step = "claimed" /\ sender'[p].step \in {"checked", "unknown"}

Quiet == RowsQuiet /\ SendersQuiet

(* One process claims one message nobody has claimed. *)
Claiming(p, k) ==
  /\ UNCHANGED wire
  /\ k \in Message /\ stage[k] = "open" /\ stage'[k] = "claimed"
  /\ \A j \in Message \ {k} : stage'[j] = stage[j] /\ says'[j] = says[j]
  /\ \A j \in Attempt : /\ j = k => log'[j].outcome = "IN_PROGRESS"
                        /\ j # k => log'[j].outcome = log[j].outcome
                        /\ told'[j] = told[j]
  /\ sender'[p].key = k /\ sender'[p].step \in {"claimed", "checked"}
  /\ \A q \in Proc \ {p} : sender'[q] = sender[q]

(* The provider is called for the claim of a process. *)
Handing(p, k) ==
  /\ sender[p].step = "checked" /\ sender[p].key = k
  /\ handed' = [handed EXCEPT ![k] = @ + 1]
  /\ sender'[p].key = k
  /\ \/ /\ taken' = [taken EXCEPT ![k] = @ \cup {says[k]}]
        /\ sender'[p].step \in {"accepted", "unknown"}
     \/ taken' = taken /\ sender'[p].step \in {"rejected", "unknown"}
  /\ stage' = stage /\ says' = says /\ log' = log /\ told' = told
  /\ \A q \in Proc \ {p} : sender'[q] = sender[q]

(* A process records what came of its claim, as accepted only when it was. *)
Recording(p, k) ==
  /\ UNCHANGED wire
  /\ sender[p].step \in ANSWER /\ sender[p].key = k
  /\ \/ stage'[k] \in {stage[k], "stopped"}
     \/ stage'[k] = "accepted" /\ sender[p].step = "accepted"
  /\ \A j \in Message : (j # k => stage'[j] = stage[j]) /\ says'[j] = says[j]
  /\ \A j \in Attempt :
        /\ \/ log'[j].outcome = log[j].outcome
           \/ j = k /\ (log'[j].outcome = "REJECTED" => sender[p].step = "rejected")
        /\ \/ told'[j] = told[j]
           \/ j = k /\ sender[p].step = "accepted" /\ told'[j] = told[j] \cup {says[j]}
  /\ sender'[p].step = "idle"
  /\ \A q \in Proc \ {p} : sender'[q] = sender[q]

(* A quiet step keeps the invariant, and is none of the outbox ...         *)
LEMMA QuietStep ==
  ASSUME SendInv, Quiet
  PROVE  SendInv' /\ UNCHANGED <<stage, handed>>
<1> USE DEF SendInv, wire
<1>1. ASSUME NEW p \in Proc, Busy(p)'
      PROVE  Busy(p) /\ sender'[p].key = sender[p].key /\ Held(p)'
  <2>1. Busy(p) /\ sender'[p].key = sender[p].key
    BY <1>1 DEF Busy, ANSWER, Quiet, SendersQuiet
  <2>2. Held(p)
    BY <2>1 DEF Claims
  <2> QED BY <1>1, <2>1, <2>2 DEF Held, Quiet, RowsQuiet, SendersQuiet, Busy, ANSWER
<1>2. Claims'
  BY <1>1 DEF Claims
<1>3. Alone'
  BY <1>1 DEF Alone
<1>4. Once'
  <2>1. handed' = handed /\ taken' = taken
    BY DEF Quiet, RowsQuiet
  <2>2. ASSUME NEW k \in Message
        PROVE  /\ handed[k] \in {0, 1} /\ (handed[k] = 0 => taken[k] = {})
               /\ stage'[k] = "open" => handed[k] = 0
               /\ stage'[k] = "accepted" => says'[k] \in taken[k]
    BY DEF Once, Quiet, RowsQuiet
  <2>3. ASSUME NEW k \in Attempt
        PROVE  /\ log'[k].outcome = "REJECTED" => taken[k] = {}
               /\ told'[k] \subseteq taken[k]
    BY DEF Once, Quiet, RowsQuiet
  <2> QED BY <2>1, <2>2, <2>3 DEF Once
<1>5. UNCHANGED <<stage, handed>>
  <2>1. stage' = [k \in Message |-> stage'[k]] /\ stage = [k \in Message |-> stage[k]]
    BY StageFunctions
  <2>2. \A k \in Message : stage'[k] = stage[k]
    BY DEF Quiet, RowsQuiet
  <2>3. stage' = stage
    BY <2>1, <2>2, Zenon
  <2> QED BY <2>3 DEF Quiet, RowsQuiet
<1>6. Retries'
  BY DEF Retries, RetryOf, Quiet, SendersQuiet
<1> QED BY <1>2, <1>3, <1>4, <1>5, <1>6

(* ... a claim keeps it, and is the outbox's claim ...                     *)
LEMMA ClaimStep ==
  ASSUME SendInv, NEW p \in Proc, NEW k, Claiming(p, k)
  PROVE  SendInv' /\ Ways!Claim(k)
<1> USE DEF SendInv, wire
<1>1. handed[k] = 0 /\ k \in Message
  BY DEF Once, Claiming
<1>2. ASSUME NEW q \in Proc, Busy(q), q # p
      PROVE  Busy(q)' /\ sender'[q] = sender[q] /\ sender[q].key # k /\ Held(q)'
  <2>1. Held(q) /\ sender'[q] = sender[q]
    BY <1>2 DEF Claims, Claiming
  <2>2. sender[q].key # k
    BY <2>1 DEF Held, Claiming
  <2> QED BY <1>2, <2>1, <2>2 DEF Held, Claiming, Busy
<1>3. \A q \in Proc : q # p => Busy(q)' = Busy(q)
  BY DEF Claiming, Busy
<1>4. Held(p)'
  BY <1>1 DEF Held, Claiming
<1>5. Claims'
  BY <1>2, <1>3, <1>4 DEF Claims
<1>6. Alone'
  BY <1>2, <1>3 DEF Alone, Claiming
<1>7. Once'
  <2>1. handed' = handed /\ taken' = taken
    BY DEF Claiming
  <2>2. ASSUME NEW j \in Message
        PROVE  /\ handed[j] \in {0, 1} /\ (handed[j] = 0 => taken[j] = {})
               /\ stage'[j] = "open" => handed[j] = 0
               /\ stage'[j] = "accepted" => says'[j] \in taken[j]
    BY DEF Once, Claiming
  <2>3. ASSUME NEW j \in Attempt
        PROVE  /\ log'[j].outcome = "REJECTED" => taken[j] = {}
               /\ told'[j] \subseteq taken[j]
    BY DEF Once, Claiming
  <2> QED BY <2>1, <2>2, <2>3 DEF Once
<1>8. stage' = [stage EXCEPT ![k] = "claimed"]
  BY StageFunctions DEF Claiming
<1>9. Retries'
  BY DEF Retries, RetryOf, Claiming
<1> QED BY <1>5, <1>6, <1>7, <1>8, <1>9 DEF Ways!Claim, Claiming

(* ... a call of the provider keeps it, and hands the message over ...     *)
LEMMA HandStep ==
  ASSUME SendInv, TypeInv, NEW p \in Proc, NEW k, Handing(p, k)
  PROVE  SendInv' /\ k \in Message /\ Ways!Hand(k)
<1> USE DEF SendInv
<1>1. /\ k \in Message /\ stage[k] = "claimed" /\ handed[k] = 0 /\ taken[k] = {}
      /\ Busy(p)
  <2>1. Busy(p)
    BY DEF Handing, Busy
  <2>2. Held(p)
    BY <2>1 DEF Claims
  <2> QED BY <2>1, <2>2 DEF Held, Handing, Once
<1>2. /\ handed' = [handed EXCEPT ![k] = 1]
      /\ handed'[k] = 1
      /\ \A j \in Message \ {k} : handed'[j] = handed[j]
  BY <1>1 DEF Handing, TypeInv, TypeOK
<1>3. /\ taken'[k] \in {{}, {says[k]}}
      /\ sender'[p].step = "accepted" => says[k] \in taken'[k]
      /\ sender'[p].step = "rejected" => taken'[k] = {}
      /\ taken[k] \subseteq taken'[k]
      /\ \A j \in Message \ {k} : taken'[j] = taken[j]
  BY <1>1 DEF Handing, TypeInv, TypeOK
<1>4. /\ stage' = stage /\ says' = says /\ log' = log /\ told' = told
      /\ sender'[p].key = k /\ sender'[p].step \in {"accepted", "rejected", "unknown"}
  BY DEF Handing
<1>5. ASSUME NEW q \in Proc, Busy(q), q # p
      PROVE  Busy(q)' /\ sender'[q] = sender[q] /\ sender[q].key # k /\ Held(q)'
  <2>1. Held(q) /\ sender'[q] = sender[q]
    BY <1>5 DEF Claims, Handing
  <2>2. sender[q].key # k
    BY <1>1, <1>5 DEF Alone, Handing
  <2> QED BY <1>2, <1>3, <1>4, <1>5, <2>1, <2>2 DEF Held, Busy
<1>6. \A q \in Proc : q # p => Busy(q)' = Busy(q)
  BY DEF Handing, Busy
<1>7. Held(p)'
  BY <1>1, <1>2, <1>3, <1>4 DEF Held
<1>8. Claims'
  BY <1>5, <1>6, <1>7 DEF Claims
<1>9. Alone'
  BY <1>4, <1>5, <1>6 DEF Alone
<1>10. Once'
  <2>1. ASSUME NEW j \in Message
        PROVE  /\ handed'[j] \in {0, 1} /\ (handed'[j] = 0 => taken'[j] = {})
               /\ stage[j] = "open" => handed'[j] = 0
               /\ stage[j] = "accepted" => says[j] \in taken'[j]
    BY <1>1, <1>2, <1>3 DEF Once
  <2>2. ASSUME NEW j \in Attempt
        PROVE  /\ log[j].outcome = "REJECTED" => taken'[j] = {}
               /\ told[j] \subseteq taken'[j]
    <3>1. CASE j = k
      <4>1. log[j].outcome # "REJECTED"
        BY <1>1, <3>1, StageOf DEF LogStage
      <4> QED BY <1>1, <1>3, <3>1, <4>1 DEF Once
    <3>2. CASE j # k
      BY <1>3, <3>2, MessageCases DEF Once
    <3> QED BY <3>1, <3>2
  <2> QED BY <1>4, <2>1, <2>2 DEF Once
<1>11. Retries'
  BY <1>4 DEF Retries, RetryOf, Handing
<1> QED BY <1>1, <1>2, <1>4, <1>8, <1>9, <1>10, <1>11 DEF Ways!Hand

(* ... and so does recording what came of it, as the outbox does or later. *)
LEMMA RecordStep ==
  ASSUME SendInv, NEW p \in Proc, NEW k, Recording(p, k)
  PROVE  SendInv' /\ k \in Message /\ (Ways!Accept(k) \/ Ways!Stop(k) \/ UNCHANGED <<stage, handed>>)
<1> USE DEF SendInv, wire
<1>1. /\ k \in Message /\ stage[k] = "claimed" /\ Busy(p)
      /\ sender[p].step = "accepted" => handed[k] = 1 /\ says[k] \in taken[k]
      /\ sender[p].step = "rejected" => taken[k] = {}
  <2>1. Busy(p)
    BY DEF Recording, Busy
  <2>2. Held(p)
    BY <2>1 DEF Claims
  <2> QED BY <2>1, <2>2 DEF Held, Recording
<1>2. /\ handed' = handed /\ taken' = taken /\ ~ Busy(p)' /\ sender'[p].step = "idle"
      /\ \A j \in Message : (j # k => stage'[j] = stage[j]) /\ says'[j] = says[j]
      /\ \/ stage'[k] \in {stage[k], "stopped"}
         \/ stage'[k] = "accepted" /\ sender[p].step = "accepted"
  BY DEF Recording, Busy, ANSWER
<1>3. ASSUME NEW q \in Proc, Busy(q), q # p
      PROVE  Busy(q)' /\ sender'[q] = sender[q] /\ Held(q)'
  <2>1. Held(q) /\ sender'[q] = sender[q]
    BY <1>3 DEF Claims, Recording
  <2>2. sender[q].key # k
    BY <1>1, <1>3 DEF Alone, Recording
  <2> QED BY <1>2, <1>3, <2>1, <2>2 DEF Held, Busy
<1>4. \A q \in Proc : q # p => Busy(q)' = Busy(q)
  BY DEF Recording, Busy
<1>5. Claims'
  BY <1>2, <1>3, <1>4 DEF Claims
<1>6. Alone'
  BY <1>2, <1>3, <1>4 DEF Alone
<1>7. Once'
  <2>1. ASSUME NEW j \in Message
        PROVE  /\ handed[j] \in {0, 1} /\ (handed[j] = 0 => taken[j] = {})
               /\ stage'[j] = "open" => handed[j] = 0
               /\ stage'[j] = "accepted" => says'[j] \in taken[j]
    BY <1>1, <1>2 DEF Once
  <2>2. ASSUME NEW j \in Attempt
        PROVE  /\ log'[j].outcome = "REJECTED" => taken[j] = {}
               /\ told'[j] \subseteq taken[j]
    BY <1>1 DEF Once, Recording
  <2> QED BY <1>2, <2>1, <2>2 DEF Once
<1>8. stage' = [stage EXCEPT ![k] = stage'[k]]
  <2>1. \A j \in Message : j # k => stage'[j] = stage[j]
    BY <1>2
  <2> QED BY <1>1, <2>1, StageFunctions
<1>12. Retries'
  BY <1>2 DEF Retries, RetryOf, Recording
<1>9. CASE stage'[k] = stage[k]
  <2>1. \A j \in Message : stage'[j] = stage[j]
    BY <1>2, <1>9
  <2>2. stage' = stage
    BY <2>1, StageFunctions, Zenon
  <2> QED BY <1>1, <1>2, <1>5, <1>6, <1>7, <1>12, <2>2
<1>10. CASE stage'[k] = "stopped"
  BY <1>1, <1>2, <1>5, <1>6, <1>7, <1>8, <1>10, <1>12 DEF Ways!Stop
<1>11. CASE stage'[k] = "accepted" /\ sender[p].step = "accepted"
  BY <1>1, <1>2, <1>5, <1>6, <1>7, <1>8, <1>11, <1>12 DEF Ways!Accept
<1> QED BY <1>1, <1>2, <1>9, <1>10, <1>11

(* A step that keeps the invariant and is one of the outbox, or of nobody. *)
OutboxStep == SendInv' /\ [Ways!Next]_<<stage, handed>>

(* Each of the four kinds is such a step. *)
LEMMA Kinds ==
  ASSUME TypeInv, SendInv
  PROVE  /\ Quiet => OutboxStep
         /\ \A p \in Proc : \A k :
               Claiming(p, k) \/ Handing(p, k) \/ Recording(p, k) => OutboxStep
<1>1. Quiet => OutboxStep
  BY QuietStep DEF OutboxStep
<1>2. ASSUME NEW p \in Proc, NEW k, Claiming(p, k) PROVE OutboxStep
  BY <1>2, ClaimStep DEF OutboxStep, Ways!Next, Claiming
<1>3. ASSUME NEW p \in Proc, NEW k, Handing(p, k) PROVE OutboxStep
  BY <1>3, HandStep DEF OutboxStep, Ways!Next
<1>4. ASSUME NEW p \in Proc, NEW k, Recording(p, k) PROVE OutboxStep
  BY <1>4, RecordStep DEF OutboxStep, Ways!Next
<1> QED BY <1>1, <1>2, <1>3, <1>4

(* Tables that are not written are quiet.                                  *)
LEMMA RowsKept ==
  ASSUME UNCHANGED <<log, told, mail, notice, wire>>
  PROVE  RowsQuiet
BY Untouched, MessageCases DEF RowsQuiet, wire

(* A process that holds no claim after the step is quiet, and so are the   *)
(* others; so is one that looks at its claim once more.                    *)
LEMMA SendersKept ==
  ASSUME TypeInv, NEW p
  PROVE  /\ UNCHANGED sender => SendersQuiet
         /\ \A q : q.step \in {"idle", "listing", "retrying"} /\ RetryOf(q)
                   /\ sender' = [sender EXCEPT ![p] = q] => SendersQuiet
         /\ \A x \in {"checked", "unknown"} :
               sender[p].step = "claimed" /\ sender' = [sender EXCEPT ![p].step = x]
               => SendersQuiet
<1>1. sender \in [Proc -> Sender]
  BY DEF TypeInv, TypeOK
<1>2. UNCHANGED sender => SendersQuiet
  BY DEF SendersQuiet
<1>3. ASSUME NEW q, q.step \in {"idle", "listing", "retrying"}, RetryOf(q),
             sender' = [sender EXCEPT ![p] = q]
      PROVE  SendersQuiet
  BY <1>1, <1>3 DEF SendersQuiet
<1>4. ASSUME NEW x \in {"checked", "unknown"}, sender[p].step = "claimed",
             sender' = [sender EXCEPT ![p].step = x]
      PROVE  SendersQuiet
  <2>1. ASSUME NEW r \in Proc
        PROVE  \/ sender'[r] = sender[r]
               \/ /\ sender'[r].key = sender[r].key
                  /\ sender[r].step = "claimed" /\ sender'[r].step \in {"checked", "unknown"}
    BY <1>1, <1>4 DEF Sender
  <2> QED BY <2>1 DEF SendersQuiet
<1> QED BY <1>2, <1>3, <1>4

(* A worker that starts or goes on holds no claim. *)
LEMMA NoClaim ==
  /\ Idle.step = "idle" /\ RetryOf(Idle)
  /\ \A w, t : Onwards(w, t).step = "idle" /\ RetryOf(Onwards(w, t))
BY DEF Idle, Onwards, RetryOf

-----------------------------------------------------------------------------
(* A report leaves the outcome and the text of a row as they are.          *)
LEMMA ReportKeeps ==
  ASSUME NEW r \in LogRow, NEW e \in Event, NEW evs
  PROVE  /\ [Reported(r, e) EXCEPT !.events = evs].outcome = r.outcome
         /\ [Reported(r, e) EXCEPT !.events = evs].text = r.text
<1>1. /\ [[r EXCEPT !.status = "SUCCEEDED", !.delivered = TRUE, !.failed = FALSE]
             EXCEPT !.events = evs].outcome = r.outcome
      /\ [[r EXCEPT !.status = "SUCCEEDED", !.delivered = TRUE, !.failed = FALSE]
             EXCEPT !.events = evs].text = r.text
  BY DEF LogRow
<1>2. /\ [[r EXCEPT !.status = "FAILED", !.failed = TRUE] EXCEPT !.events = evs].outcome = r.outcome
      /\ [[r EXCEPT !.status = "FAILED", !.failed = TRUE] EXCEPT !.events = evs].text = r.text
  BY DEF LogRow
<1>3. /\ [[r EXCEPT !.status = "PROCESSING"] EXCEPT !.events = evs].outcome = r.outcome
      /\ [[r EXCEPT !.status = "PROCESSING"] EXCEPT !.events = evs].text = r.text
      /\ [r EXCEPT !.events = evs].outcome = r.outcome
      /\ [r EXCEPT !.events = evs].text = r.text
  BY DEF LogRow
<1>4. r.delivered \in BOOLEAN /\ r.failed \in BOOLEAN
  BY DEF LogRow
<1>5. CASE e = "delivered"
  BY <1>1, <1>5 DEF Reported
<1>6. CASE e # "delivered" /\ (r.delivered \/ r.failed)
  BY <1>3, <1>6 DEF Reported
<1>7. CASE e = "failed" /\ ~ r.delivered /\ ~ r.failed
  BY <1>2, <1>7 DEF Reported
<1>8. CASE e = "sent" /\ ~ r.delivered /\ ~ r.failed
  BY <1>3, <1>8 DEF Reported
<1> QED BY <1>5, <1>6, <1>7, <1>8 DEF Event

(* Every operation on notifications is a step of the outbox, or of nobody. *)
LEMMA SendNotifications ==
  ASSUME TypeInv, SendInv, Notifications
  PROVE  OutboxStep
<1> USE DEF logVars, mailVars, noticeVars, wire
<1>0. /\ log \in [Attempt -> LogRow] /\ told \in [Attempt -> SUBSET Text]
      /\ sender \in [Proc -> Sender]
  BY DEF TypeInv, TypeOK
<1>1. ASSUME NEW p \in Proc, NEW k \in Attempt, NEW t \in Text, LogClaim(p, k, t)
      PROVE  OutboxStep
  <2>1. /\ log[k].outcome = "NONE" /\ log'[k].outcome = "IN_PROGRESS"
        /\ \A j \in Attempt \ {k} : log'[j] = log[j]
        /\ told' = told /\ mail' = mail /\ notice' = notice /\ UNCHANGED wire
    BY <1>0, <1>1 DEF LogClaim, NoLog
  <2>2. /\ sender'[p].key = k /\ sender'[p].step = "checked"
        /\ \A q \in Proc \ {p} : sender'[q] = sender[q]
    BY <1>0, <1>1 DEF LogClaim, Idle
  <2>3. stage[k] = "open" /\ stage'[k] = "claimed"
    BY <2>1, StageOf, StageOfNext DEF LogStage
  <2>4. \A j \in Message \ {k} : stage'[j] = stage[j] /\ says'[j] = says[j]
    BY <2>1, Untouched, StageOf, StageOfNext, MessageCases
  <2>5. Claiming(p, k)
    BY <2>1, <2>2, <2>3, <2>4, MessageCases DEF Claiming
  <2> QED BY <2>5, Kinds
<1>2. ASSUME NEW k \in Attempt, NEW t \in Text, LogRepeat(k, t)
      PROVE  OutboxStep
  <2>1. t = says[k] /\ stage[k] = "accepted"
    BY <1>2, StageOf DEF LogRepeat, RepeatIsSent, LogStage
  <2>2. t \in taken[k]
    BY <2>1, MessageCases DEF SendInv, Once
  <2>3. \A j \in Attempt : told'[j] \subseteq told[j] \cup taken[j]
    BY <1>0, <1>2, <2>2 DEF LogRepeat
  <2>4. RowsQuiet
    BY <1>2, <2>3, Untouched, MessageCases DEF LogRepeat, RowsQuiet
  <2> QED BY <1>2, <2>4, SendersKept, Kinds DEF LogRepeat, Quiet
<1>3. ASSUME NEW p \in Proc, LogOutcome(p)
      PROVE  OutboxStep
  <2> DEFINE k == sender[p].key
  <2>1. /\ k \in Attempt /\ sender[p].step \in ANSWER
        /\ mail' = mail /\ notice' = notice /\ UNCHANGED wire
        /\ sender' = [sender EXCEPT ![p] = Idle]
    BY <1>3 DEF LogOutcome
  <2>2. sender'[p].step = "idle" /\ \A q \in Proc \ {p} : sender'[q] = sender[q]
    BY <1>0, <2>1, NoClaim
  <2>3. CASE UNCHANGED <<log, told>>
    <3>1. \A j \in Message : stage'[j] = stage[j] /\ says'[j] = says[j]
      BY <2>1, <2>3, Untouched, MessageCases
    <3> DEFINE kept == stage'[k] \in {stage[k], "stopped"}
    <3>2. kept
      BY <2>1, <3>1, MessageCases
    <3> HIDE DEF kept
    <3>3. sender[p].key = k
      OBVIOUS
    <3> HIDE DEF k
    <3>4. Recording(p, k)
      BY <2>1, <2>2, <2>3, <3>1, <3>2, <3>3 DEF Recording, kept
    <3> QED BY <3>4, Kinds
  <2>4. CASE \E o \in Outcomes(sender[p].step) :
               /\ log' = [log EXCEPT ![k].outcome = o, ![k].failed = o # "ACCEPTED",
                            ![k].status = IF o = "ACCEPTED" THEN Accepted(k) ELSE "FAILED"]
               /\ told' = [told EXCEPT ![k] = IF o = "ACCEPTED" THEN @ \cup {log[k].text} ELSE @]
    <3>1. PICK o \in Outcomes(sender[p].step) :
               /\ log' = [log EXCEPT ![k].outcome = o, ![k].failed = o # "ACCEPTED",
                            ![k].status = IF o = "ACCEPTED" THEN Accepted(k) ELSE "FAILED"]
               /\ told' = [told EXCEPT ![k] = IF o = "ACCEPTED" THEN @ \cup {log[k].text} ELSE @]
      BY <2>4
    <3>2. /\ o \in {"ACCEPTED", "UNCERTAIN", "REJECTED"}
          /\ o = "ACCEPTED" => sender[p].step = "accepted"
          /\ o = "REJECTED" => sender[p].step = "rejected"
      BY <2>1, <3>1 DEF Outcomes, ANSWER
    <3> HIDE DEF k
    <3>3. /\ log'[k].outcome = o /\ log'[k].text = log[k].text
          /\ \A j \in Attempt \ {k} : log'[j] = log[j]
      <4> DEFINE s == IF o = "ACCEPTED" THEN Accepted(k) ELSE "FAILED"
                 f == o # "ACCEPTED"
      <4>1. log' = [log EXCEPT ![k].outcome = o, ![k].failed = f, ![k].status = s]
        BY <3>1
      <4> HIDE DEF s, f
      <4> QED BY <1>0, <2>1, <4>1 DEF LogRow
    <3>4. /\ told'[k] = IF o = "ACCEPTED" THEN told[k] \cup {says[k]} ELSE told[k]
          /\ \A j \in Attempt \ {k} : told'[j] = told[j]
      BY <1>0, <2>1, <3>1, StageOf
    <3>5. stage'[k] = LogStage(o) /\ says'[k] = says[k]
      BY <2>1, <3>3, StageOf, StageOfNext
    <3>6. \A j \in Message : (j # k => stage'[j] = stage[j]) /\ says'[j] = says[j]
      BY <2>1, <3>3, <3>5, Untouched, StageOf, StageOfNext, MessageCases
    <3>7. \/ stage'[k] = "stopped"
          \/ stage'[k] = "accepted" /\ sender[p].step = "accepted"
      BY <3>2, <3>5 DEF LogStage
    <3>8. ASSUME NEW j \in Attempt
          PROVE  /\ \/ log'[j].outcome = log[j].outcome
                    \/ j = k /\ (log'[j].outcome = "REJECTED" => sender[p].step = "rejected")
                 /\ \/ told'[j] = told[j]
                    \/ j = k /\ sender[p].step = "accepted" /\ told'[j] = told[j] \cup {says[j]}
      BY <3>2, <3>3, <3>4
    <3>9. sender[p].key = k
      BY DEF k
    <3>10. Recording(p, k)
      BY <2>1, <2>2, <3>6, <3>7, <3>8, <3>9 DEF Recording
    <3> QED BY <3>10, Kinds
  <2> QED BY <1>3, <2>3, <2>4 DEF LogOutcome
<1>4. ASSUME NEW k \in Attempt, NEW e \in Event, StatusCallback(k, e)
      PROVE  OutboxStep
  <2>1. /\ log'[k].outcome = log[k].outcome /\ log'[k].text = log[k].text
        /\ \A j \in Attempt \ {k} : log'[j] = log[j]
        /\ told' = told /\ mail' = mail /\ notice' = notice /\ UNCHANGED <<sender, wire>>
    <3> DEFINE row == [Reported(log[k], e) EXCEPT !.events = @ \cup {e}]
               evs == Reported(log[k], e).events \cup {e}
    <3>1. row.outcome = log[k].outcome /\ row.text = log[k].text
      <4>1. row = [Reported(log[k], e) EXCEPT !.events = evs]
        OBVIOUS
      <4> HIDE DEF row, evs
      <4> QED BY <1>0, <4>1, ReportKeeps
    <3>2. log' = [log EXCEPT ![k] = row]
      BY <1>4 DEF StatusCallback
    <3> HIDE DEF row
    <3> QED BY <1>0, <1>4, <3>1, <3>2 DEF StatusCallback
  <2>2. RowsQuiet
    BY <2>1, Untouched, StageOf, StageOfNext, MessageCases DEF RowsQuiet
  <2> QED BY <2>1, <2>2, SendersKept, Kinds DEF Quiet
<1>5. ASSUME NEW p \in Proc, NEW w \in WhatsApp, RetryRead(p, w)
      PROVE  OutboxStep
  <2>1. RowsQuiet
    BY <1>5, RowsKept DEF RetryRead
  <2>2. /\ [Idle EXCEPT !.step = "retrying", !.key = <<w, "retry">>].step = "retrying"
        /\ RetryOf([Idle EXCEPT !.step = "retrying", !.key = <<w, "retry">>])
    BY DEF Idle, RetryOf
  <2>3. SendersQuiet
    BY <1>5, <2>2, SendersKept DEF RetryRead
  <2> QED BY <2>1, <2>3, Kinds DEF Quiet
<1>6. ASSUME NEW p \in Proc, RetryClaim(p)
      PROVE  OutboxStep
  <2> DEFINE k == sender[p].key
  <2>1. told' = told /\ mail' = mail /\ notice' = notice /\ UNCHANGED wire
    BY <1>6 DEF RetryClaim
  <2>2. CASE UNCHANGED log /\ sender' = [sender EXCEPT ![p] = Idle]
    BY <2>1, <2>2, NoClaim, RowsKept, SendersKept, Kinds DEF Quiet
  <2>3. CASE /\ log[k] = NoLog
             /\ log' = [log EXCEPT ![k] = [NoLog EXCEPT !.status = "PENDING",
                                                        !.outcome = "IN_PROGRESS"]]
             /\ sender' = [sender EXCEPT ![p].step = "checked"]
    <3>0. k \in Attempt
      BY <1>6 DEF RetryClaim, SendInv, Retries, RetryOf, Attempt
    <3> HIDE DEF k
    <3>1. /\ log[k].outcome = "NONE" /\ log'[k].outcome = "IN_PROGRESS"
          /\ \A j \in Attempt \ {k} : log'[j] = log[j]
      BY <1>0, <2>3, <3>0 DEF NoLog
    <3>2. /\ sender'[p].key = k /\ sender'[p].step = "checked"
          /\ \A q \in Proc \ {p} : sender'[q] = sender[q]
      BY <1>0, <2>3 DEF Sender, k
    <3>3. stage[k] = "open" /\ stage'[k] = "claimed"
      BY <3>0, <3>1, StageOf, StageOfNext DEF LogStage
    <3>4. \A j \in Message \ {k} : stage'[j] = stage[j] /\ says'[j] = says[j]
      BY <2>1, <3>1, Untouched, StageOf, StageOfNext, MessageCases
    <3>5. Claiming(p, k)
      BY <2>1, <3>0, <3>1, <3>2, <3>3, <3>4, MessageCases DEF Claiming
    <3> QED BY <3>5, Kinds
  <2> QED BY <1>6, <2>2, <2>3 DEF RetryClaim
<1> QED BY <1>1, <1>2, <1>3, <1>4, <1>5, <1>6 DEF Notifications

(* Staff e-mails whose rows keep their stage, and their text once claimed, *)
(* are quiet ...                                                           *)
LEMMA MailQuiet ==
  ASSUME UNCHANGED <<log, told, notice, wire>>,
         \A e \in Email : \/ mail'[e] = mail[e]
                          \/ RowStage(mail[e].status) = "open" /\ RowStage(mail'[e].status) = "open"
  PROVE  RowsQuiet
BY Untouched, StageOf, StageOfNext, MessageCases DEF RowsQuiet, wire

(* ... and so are notices.                                                 *)
LEMMA NoticeQuiet ==
  ASSUME UNCHANGED <<log, told, mail, wire>>,
         \A k \in Notice : \/ notice'[k] = notice[k]
                           \/ /\ RowStage(notice[k].status) = "open"
                              /\ RowStage(notice'[k].status) = "open"
  PROVE  RowsQuiet
BY Untouched, StageOf, StageOfNext, MessageCases DEF RowsQuiet, wire

(* Every operation on staff e-mails is a step of the outbox, or of nobody. *)
LEMMA SendStaffEmails ==
  ASSUME TypeInv, SendInv, StaffEmails
  PROVE  OutboxStep
<1> USE DEF logVars, mailVars, noticeVars
<1>0. mail \in [Email -> MailRow] /\ sender \in [Proc -> Sender]
  BY DEF TypeInv, TypeOK
<1>1. ASSUME UNCHANGED <<log, told, mail, notice, wire>>, SendersQuiet PROVE OutboxStep
  BY <1>1, RowsKept, Kinds DEF Quiet
<1>2. ASSUME NEW g \in Policy,
             \/ PreparePolicy(g) \/ CancelPolicy(g) \/ PolicyLapses(g)
             \/ \E to \in {"APPROVED", "REJECTED"} : ReviewPolicy(g, to)
      PROVE  OutboxStep
  BY <1>1, <1>2, SendersKept DEF PreparePolicy, CancelPolicy, PolicyLapses, ReviewPolicy
<1>3. ASSUME NEW e \in Email, EventChanges(e) PROVE OutboxStep
  BY <1>1, <1>3, SendersKept DEF EventChanges
<1>4. ASSUME NEW g \in Policy, mail' = Evaluated(g), UNCHANGED <<log, told, notice, wire>>
      PROVE  RowsQuiet
  <2>1. \A e \in Email : \/ mail'[e] = mail[e]
                         \/ mail[e].status = "NONE" /\ mail'[e].status = "HELD_ACTIVATION"
    BY <1>0, <1>4 DEF Evaluated
  <2>2. \A e \in Email : \/ mail'[e] = mail[e]
                         \/ /\ RowStage(mail[e].status) = "open"
                            /\ RowStage(mail'[e].status) = "open"
    BY <2>1 DEF RowStage
  <2> QED BY <1>4, <2>2, MailQuiet
<1>5. ASSUME NEW g \in Policy, Evaluate(g) PROVE OutboxStep
  BY <1>4, <1>5, SendersKept, Kinds DEF Evaluate, Quiet
<1>6. ASSUME NEW g \in Policy, NEW p \in Proc, TickStart(p, g) PROVE OutboxStep
  <2>1. /\ [Idle EXCEPT !.step = "listing", !.tick = g].step = "listing"
        /\ RetryOf([Idle EXCEPT !.step = "listing", !.tick = g])
    BY DEF Idle, RetryOf
  <2>2. SendersQuiet
    BY <1>6, <2>1, SendersKept DEF TickStart
  <2> QED BY <1>4, <1>6, <2>2, Kinds DEF TickStart, Quiet
<1>7. ASSUME NEW p \in Proc, TickList(p) PROVE OutboxStep
  BY <1>1, <1>7, NoClaim, SendersKept DEF TickList
<1>8. ASSUME NEW p \in Proc, NEW e \in Email, MailClaim(p, e) PROVE OutboxStep
  <2> DEFINE me == sender[p]
  <2>1. UNCHANGED <<log, told, notice, wire>>
    BY <1>8 DEF MailClaim
  <2>2. CASE UNCHANGED mail /\ sender' = [sender EXCEPT ![p] = Onwards(me.work \ {e}, me.tick)]
    BY <1>1, <2>1, <2>2, NoClaim, SendersKept
  <2>3. CASE UNCHANGED mail /\ sender' = [sender EXCEPT ![p] = Idle]
    BY <1>1, <2>1, <2>3, NoClaim, SendersKept
  <2>4. CASE /\ mail[e].status = "HELD_ACTIVATION"
             /\ mail' = [mail EXCEPT ![e].status = "SENDING"]
             /\ sender' = [sender EXCEPT ![p] = [me EXCEPT !.step = "claimed", !.key = e,
                                                           !.work = me.work \ {e}]]
    <3>1. /\ mail'[e].status = "SENDING"
          /\ \A j \in Email \ {e} : mail'[j] = mail[j]
      BY <1>0, <2>4 DEF MailRow
    <3>2. /\ sender'[p].key = e /\ sender'[p].step = "claimed"
          /\ \A q \in Proc \ {p} : sender'[q] = sender[q]
      BY <1>0, <2>4 DEF Sender
    <3>3. stage[e] = "open" /\ stage'[e] = "claimed"
      BY <2>4, <3>1, StageOf, StageOfNext DEF RowStage
    <3>4. \A j \in Message \ {e} : stage'[j] = stage[j] /\ says'[j] = says[j]
      BY <2>1, <3>1, Untouched, StageOf, StageOfNext, MessageCases
    <3>5. e \in Message /\ e \notin Attempt
      BY WaysDisjoint, MessageCases
    <3>6. Claiming(p, e)
      BY <2>1, <3>2, <3>3, <3>4, <3>5 DEF Claiming
    <3> QED BY <3>6, Kinds
  <2>5. me \in Sender
    BY <1>0
  <2> QED BY <1>8, <2>2, <2>3, <2>4, <2>5 DEF MailClaim, Sender
<1>9. ASSUME NEW p \in Proc, MailCheck(p) PROVE OutboxStep
  <2>1. PICK x \in {"checked", "unknown"} : sender' = [sender EXCEPT ![p].step = x]
    BY <1>9 DEF MailCheck
  <2>2. SendersQuiet
    BY <1>9, <2>1, SendersKept DEF MailCheck
  <2> QED BY <1>1, <1>9, <2>2 DEF MailCheck
<1>10. ASSUME NEW p \in Proc, MailOutcome(p) PROVE OutboxStep
  <2> DEFINE k == sender[p].key
  <2>1. /\ k \in Email /\ sender[p].step \in ANSWER
        /\ UNCHANGED <<log, told, notice, wire>>
        /\ sender' = [sender EXCEPT ![p] = Onwards(sender[p].work, sender[p].tick)]
    BY <1>10 DEF MailOutcome
  <2>2. sender'[p].step = "idle" /\ \A q \in Proc \ {p} : sender'[q] = sender[q]
    BY <1>0, <2>1, NoClaim
  <2>3. sender[p].key = k
    OBVIOUS
  <2> HIDE DEF k
  <2>4. /\ \/ mail'[k] = mail[k]
           \/ /\ mail'[k].text = mail[k].text
              /\ \/ mail'[k].status = "REVIEW_REQUIRED"
                 \/ mail'[k].status = "ACCEPTED" /\ sender[p].step = "accepted"
        /\ \A j \in Email \ {k} : mail'[j] = mail[j]
    BY <1>0, <1>10, <2>1 DEF MailOutcome, MailRow, k
  <2>5. /\ \/ stage'[k] \in {stage[k], "stopped"}
           \/ stage'[k] = "accepted" /\ sender[p].step = "accepted"
        /\ says'[k] = says[k]
    BY <2>1, <2>4, StageOf, StageOfNext DEF RowStage
  <2>6. \A j \in Message : (j # k => stage'[j] = stage[j]) /\ says'[j] = says[j]
    BY <2>1, <2>4, <2>5, Untouched, StageOf, StageOfNext, MessageCases
  <2>7. Recording(p, k)
    BY <2>1, <2>2, <2>3, <2>5, <2>6 DEF Recording
  <2> QED BY <2>7, Kinds
<1> QED BY <1>2, <1>3, <1>5, <1>6, <1>7, <1>8, <1>9, <1>10 DEF StaffEmails

(* Every operation on collection notices is one too.                       *)
LEMMA SendCollectionNotices ==
  ASSUME TypeInv, SendInv, CollectionNotices
  PROVE  OutboxStep
<1> USE DEF logVars, mailVars, noticeVars
<1>0. /\ notice \in [Notice -> NoticeRow] /\ sender \in [Proc -> Sender]
      /\ \A a \in Account : <<a, day>> \in Notice
  BY NoticesTyped DEF TypeInv, TypeOK
<1>1. ASSUME UNCHANGED <<log, told, mail, notice, wire>>, SendersQuiet PROVE OutboxStep
  BY <1>1, RowsKept, Kinds DEF Quiet
<1>2. ASSUME UNCHANGED <<log, told, mail, sender, wire>>,
             \A k \in Notice :
                notice'[k] = notice[k] \/ {notice[k].status, notice'[k].status}
                                             \subseteq {"NONE", "DRAFT", "APPROVED", "CANCELLED"}
      PROVE  OutboxStep
  <2>1. \A k \in Notice : \/ notice'[k] = notice[k]
                          \/ /\ RowStage(notice[k].status) = "open"
                             /\ RowStage(notice'[k].status) = "open"
    BY <1>2 DEF RowStage
  <2> QED BY <1>2, <2>1, NoticeQuiet, SendersKept, Kinds DEF Quiet
<1>3. ASSUME NEW a \in Account, AccountChanges(a) PROVE OutboxStep
  BY <1>1, <1>3, SendersKept DEF AccountChanges
<1>4. ASSUME NEW s \in Staff, CreatePlan(s) PROVE OutboxStep
  BY <1>1, <1>4, SendersKept DEF CreatePlan
<1>5. ASSUME NEW A, \A a \in A : <<a, day>> \in Notice /\ notice[<<a, day>>].status = "DRAFT",
             notice' = Approved(A), UNCHANGED <<log, told, mail, sender, wire>>
      PROVE  OutboxStep
  <2>1. ASSUME NEW k \in Notice, k[2] = day, k[1] \in A
        PROVE  notice[k].status = "DRAFT"
    BY <1>5, <2>1 DEF Notice
  <2>2. ASSUME NEW k \in Notice
        PROVE  \/ notice'[k] = notice[k]
               \/ notice[k].status = "DRAFT" /\ notice'[k].status = "APPROVED"
    BY <1>0, <1>5, <2>1 DEF Approved, NoticeRow
  <2> QED BY <1>2, <1>5, <2>2
<1>6. ASSUME NEW s \in Staff, ApproveRun(s) PROVE OutboxStep
  <2>1. run[day].items \subseteq Account
    BY DEF TypeInv, TypeOK
  <2>2. \A a \in run[day].items : <<a, day>> \in Notice /\ notice[<<a, day>>].status = "DRAFT"
    BY <1>0, <1>6, <2>1 DEF ApproveRun, Approvable
  <2> QED BY <1>5, <1>6, <2>2 DEF ApproveRun
<1>7. ASSUME NEW s \in Staff, NEW A \in SUBSET Account, ApproveNotices(s, A) PROVE OutboxStep
  <2>1. \A a \in A : <<a, day>> \in Notice /\ notice[<<a, day>>].status = "DRAFT"
    BY <1>0, <1>7 DEF ApproveNotices, Approvable
  <2> QED BY <1>5, <1>7, <2>1 DEF ApproveNotices
<1>8. ASSUME NEW A, NEW hands, NEW bound,
             \A a \in A : notice[<<a, day>>].status \in {"NONE", "DRAFT"},
             notice' = [k \in Notice |-> IF k[2] = day /\ k[1] \in A
                                         THEN Draft(k[1], hands, bound) ELSE notice[k]],
             UNCHANGED <<log, told, mail, sender, wire>>
      PROVE  OutboxStep
  <2>1. ASSUME NEW k \in Notice, k[2] = day, k[1] \in A
        PROVE  notice[k].status \in {"NONE", "DRAFT"}
    BY <1>8, <2>1 DEF Notice
  <2>2. \A k \in Notice : \/ notice'[k] = notice[k]
                          \/ /\ notice[k].status \in {"NONE", "DRAFT"}
                             /\ notice'[k].status = "DRAFT"
    BY <1>8, <2>1 DEF Draft
  <2> QED BY <1>2, <1>8, <2>2
<1>9. ASSUME NEW s \in Staff, NEW A \in SUBSET Account, PrepareNotices(s, A) PROVE OutboxStep
  <2> DEFINE fresh == {a \in A : ~ (notice[<<a, day>>].status = "DRAFT" /\ Current(a))}
  <2>1. \A a \in fresh : notice[<<a, day>>].status \in {"NONE", "DRAFT"}
    BY <1>9 DEF PrepareNotices
  <2>2. notice' = [k \in Notice |-> IF k[2] = day /\ k[1] \in fresh
                                    THEN Draft(k[1], {s}, FALSE) ELSE notice[k]]
    BY <1>9 DEF PrepareNotices
  <2>3. UNCHANGED <<log, told, mail, sender, wire>>
    BY <1>9 DEF PrepareNotices
  <2> HIDE DEF fresh
  <2> QED BY <1>8, <2>1, <2>2, <2>3
<1>10. ASSUME NEW hands, EvaluateRun(hands) PROVE OutboxStep
  <2> DEFINE items == {a \in Account : Due(a)}
  <2>1. \A a \in items : notice[<<a, day>>].status \in {"NONE", "DRAFT"}
    BY DEF Due
  <2>2. notice' = [k \in Notice |-> IF k[2] = day /\ k[1] \in items
                                    THEN Draft(k[1], hands \cup {plan.creator}, TRUE)
                                    ELSE notice[k]]
    BY <1>10 DEF EvaluateRun
  <2>3. UNCHANGED <<log, told, mail, sender, wire>>
    BY <1>10 DEF EvaluateRun
  <2> HIDE DEF items
  <2> QED BY <1>8, <2>1, <2>2, <2>3
<1>11. ASSUME NEW d \in Day, CancelRun(d) PROVE OutboxStep
  BY <1>1, <1>11, SendersKept DEF CancelRun
<1>12. ASSUME NEW k \in Notice, NEW to \in {"DRAFT", "CANCELLED"}, WithdrawNotice(k, to)
       PROVE  OutboxStep
  <2>1. \A j \in Notice : \/ notice'[j] = notice[j]
                          \/ notice[j].status \in {"DRAFT", "APPROVED"} /\ notice'[j].status = to
    BY <1>0, <1>12 DEF WithdrawNotice, NoticeRow
  <2>2. UNCHANGED <<log, told, mail, sender, wire>>
    BY <1>12 DEF WithdrawNotice
  <2> QED BY <1>2, <2>1, <2>2
<1>13. ASSUME NEW p \in Proc, NEW k \in Notice, NEW step \in {"claimed", "checked"},
              notice[k].status = "APPROVED", notice' = [notice EXCEPT ![k].status = "SENDING"],
              sender'[p].key = k, sender'[p].step = step,
              \A q \in Proc \ {p} : sender'[q] = sender[q],
              UNCHANGED <<log, told, mail, wire>>
       PROVE  OutboxStep
  <2>1. /\ notice'[k].status = "SENDING"
        /\ \A j \in Notice \ {k} : notice'[j] = notice[j]
    BY <1>0, <1>13 DEF NoticeRow
  <2>2. stage[k] = "open" /\ stage'[k] = "claimed"
    BY <1>13, <2>1, StageOf, StageOfNext DEF RowStage
  <2>3. \A j \in Message \ {k} : stage'[j] = stage[j] /\ says'[j] = says[j]
    BY <1>13, <2>1, Untouched, StageOf, StageOfNext, MessageCases
  <2>4. k \in Message /\ k \notin Attempt
    BY WaysDisjoint, MessageCases
  <2>5. Claiming(p, k)
    BY <1>13, <2>2, <2>3, <2>4 DEF Claiming
  <2> QED BY <2>5, Kinds
<1>14. ASSUME NEW a \in Account, NEW p \in Proc, ManualClaim(p, a) PROVE OutboxStep
  <2> DEFINE k == <<a, day>>
  <2>1. k \in Notice
    BY <1>0
  <2>2. /\ notice[k].status = "APPROVED" /\ notice' = [notice EXCEPT ![k].status = "SENDING"]
        /\ sender' = [sender EXCEPT ![p] = [Idle EXCEPT !.step = "checked", !.key = k]]
        /\ UNCHANGED <<log, told, mail, wire>>
    BY <1>14 DEF ManualClaim
  <2> HIDE DEF k
  <2>3. /\ sender'[p].key = k /\ sender'[p].step = "checked"
        /\ \A q \in Proc \ {p} : sender'[q] = sender[q]
    BY <1>0, <2>2 DEF Idle
  <2> QED BY <1>13, <2>1, <2>2, <2>3
<1>15. ASSUME NEW k \in Notice, NEW p \in Proc, ScheduledClaim(p, k) PROVE OutboxStep
  <2> DEFINE me == sender[p]
  <2>1. UNCHANGED <<log, told, mail, wire>>
    BY <1>15 DEF ScheduledClaim
  <2>2. CASE UNCHANGED notice /\ sender' = [sender EXCEPT ![p] = Onwards(me.work \ {k}, me.tick)]
    BY <1>1, <2>1, <2>2, NoClaim, SendersKept
  <2>3. CASE /\ notice[k].status = "APPROVED"
             /\ notice' = [notice EXCEPT ![k].status = "SENDING"]
             /\ sender' = [sender EXCEPT ![p] = [me EXCEPT !.step = "claimed", !.key = k,
                                                           !.work = me.work \ {k}]]
    <3>1. /\ sender'[p].key = k /\ sender'[p].step = "claimed"
          /\ \A q \in Proc \ {p} : sender'[q] = sender[q]
      BY <1>0, <2>3 DEF Sender
    <3> QED BY <1>13, <2>1, <2>3, <3>1
  <2>4. me \in Sender
    BY <1>0
  <2> QED BY <1>15, <2>2, <2>3, <2>4 DEF ScheduledClaim, Sender
<1>16. ASSUME NEW p \in Proc, ScheduleTick(p) PROVE OutboxStep
  BY <1>1, <1>16, NoClaim, SendersKept DEF ScheduleTick
<1>17. ASSUME NEW p \in Proc, ScheduledCheck(p) PROVE OutboxStep
  <2>1. PICK x \in {"checked", "unknown"} : sender' = [sender EXCEPT ![p].step = x]
    BY <1>17 DEF ScheduledCheck
  <2>2. SendersQuiet
    BY <1>17, <2>1, SendersKept DEF ScheduledCheck
  <2> QED BY <1>1, <1>17, <2>2 DEF ScheduledCheck
<1>18. ASSUME NEW p \in Proc, NoticeOutcome(p) PROVE OutboxStep
  <2> DEFINE k == sender[p].key
  <2>1. /\ k \in Notice /\ sender[p].step \in ANSWER
        /\ UNCHANGED <<log, told, mail, wire>>
        /\ sender' = [sender EXCEPT ![p] = Onwards(sender[p].work, sender[p].tick)]
    BY <1>18 DEF NoticeOutcome
  <2>2. sender'[p].step = "idle" /\ \A q \in Proc \ {p} : sender'[q] = sender[q]
    BY <1>0, <2>1, NoClaim
  <2>3. sender[p].key = k
    OBVIOUS
  <2> HIDE DEF k
  <2>4. /\ \/ notice'[k] = notice[k]
           \/ /\ notice'[k].text = notice[k].text
              /\ \/ notice'[k].status = "REVIEW_REQUIRED"
                 \/ notice'[k].status = "ACCEPTED" /\ sender[p].step = "accepted"
        /\ \A j \in Notice \ {k} : notice'[j] = notice[j]
    BY <1>0, <1>18, <2>1 DEF NoticeOutcome, NoticeRow, k
  <2>5. /\ \/ stage'[k] \in {stage[k], "stopped"}
           \/ stage'[k] = "accepted" /\ sender[p].step = "accepted"
        /\ says'[k] = says[k]
    BY <2>1, <2>4, StageOf, StageOfNext DEF RowStage
  <2>6. \A j \in Message : (j # k => stage'[j] = stage[j]) /\ says'[j] = says[j]
    BY <2>1, <2>4, <2>5, Untouched, StageOf, StageOfNext, MessageCases
  <2>7. Recording(p, k)
    BY <2>1, <2>2, <2>3, <2>5, <2>6 DEF Recording
  <2> QED BY <2>7, Kinds
<1>19. ASSUME NewDay \/ CancelPlan PROVE OutboxStep
  BY <1>1, <1>19, SendersKept DEF NewDay, CancelPlan
<1> QED BY <1>3, <1>4, <1>6, <1>7, <1>9, <1>10, <1>11, <1>12, <1>14, <1>15, <1>16, <1>17, <1>18,
           <1>19 DEF CollectionNotices

(* So are the provider's calls and processes that stop.                    *)
LEMMA SendProvider ==
  ASSUME TypeInv, SendInv, NEW p \in Proc, ProviderCall(p) \/ SenderStops(p)
  PROVE  OutboxStep
<1> USE DEF logVars, mailVars, noticeVars
<1>0. sender \in [Proc -> Sender]
  BY DEF TypeInv, TypeOK
<1>1. ASSUME ProviderCall(p) PROVE OutboxStep
  <2> DEFINE k == sender[p].key
  <2>1. Held(p) /\ Busy(p)
    BY <1>1 DEF ProviderCall, SendInv, Claims, Busy
  <2>2. k \in Message
    BY <2>1 DEF Held
  <2>3. says[k] = TextOf(k)
    BY <2>2 DEF says
  <2>4. stage' = stage /\ says' = says /\ log' = log /\ told' = told
    BY <1>1 DEF ProviderCall, stage, says, Stage, TextOf
  <2>5. /\ sender[p].step = "checked" /\ sender[p].key = k
        /\ handed' = [handed EXCEPT ![k] = @ + 1]
    BY <1>1 DEF ProviderCall
  <2>6. \/ /\ taken' = [taken EXCEPT ![k] = @ \cup {TextOf(k)}]
           /\ \E answer \in {"accepted", "unknown"} : sender' = [sender EXCEPT ![p].step = answer]
        \/ /\ \E answer \in {"rejected", "unknown"} : sender' = [sender EXCEPT ![p].step = answer]
           /\ taken' = taken
    BY <1>1 DEF ProviderCall
  <2>7. /\ sender'[p].key = sender[p].key
        /\ \A q \in Proc \ {p} : sender'[q] = sender[q]
    BY <1>0, <2>6 DEF Sender
  <2>8. \/ /\ taken' = [taken EXCEPT ![k] = @ \cup {TextOf(k)}]
           /\ sender'[p].step \in {"accepted", "unknown"}
        \/ taken' = taken /\ sender'[p].step \in {"rejected", "unknown"}
    <3> HIDE DEF k
    <3> QED BY <1>0, <2>6 DEF Sender
  <2> HIDE DEF k
  <2>9. Handing(p, k)
    BY <2>3, <2>4, <2>5, <2>7, <2>8 DEF Handing
  <2> QED BY <2>9, Kinds
<1>2. ASSUME SenderStops(p) PROVE OutboxStep
  <2>1. RowsQuiet
    BY <1>2, RowsKept DEF SenderStops
  <2> QED BY <1>2, <2>1, NoClaim, SendersKept, Kinds DEF SenderStops, Quiet
<1> QED BY <1>1, <1>2

(* Nothing is claimed or sent to begin with. *)
LEMMA SendInit == Init => SendInv /\ Ways!Init
<1> SUFFICES ASSUME Init PROVE SendInv /\ Ways!Init
  OBVIOUS
<1>1. \A p \in Proc : sender[p].step = "idle"
  BY DEF Init, Idle
<1>2. Claims /\ Alone /\ Retries
  BY <1>1 DEF Claims, Alone, Retries, RetryOf, Busy, ANSWER
<1>3. \A k \in Message : handed[k] = 0 /\ taken[k] = {}
  BY DEF Init
<1>4. \A k \in Message : Stage(k) = "open"
  BY MessageCases DEF Init, Stage, LogStage, RowStage, NoLog, NoMail, NoNotice
<1>5. stage = [k \in Message |-> "open"]
  BY <1>4 DEF stage
<1>6. \A k \in Attempt : told[k] = {}
  BY DEF Init
<1>7. Once
  BY <1>3, <1>5, <1>6, MessageCases DEF Once
<1> QED BY <1>2, <1>5, <1>7 DEF SendInv, Ways!Init, Init

(* Every step of the specification is one of the outbox, or of nobody.     *)
LEMMA SendStep ==
  ASSUME TypeInv, SendInv, [Next]_vars
  PROVE  OutboxStep
<1>1. CASE Next
  BY <1>1, SendNotifications, SendStaffEmails, SendCollectionNotices, SendProvider DEF Next
<1>2. CASE UNCHANGED vars
  <2>1. RowsQuiet
    BY <1>2, RowsKept DEF vars, wire
  <2> QED BY <1>2, <2>1, SendersKept, Kinds DEF vars, Quiet
<1> QED BY <1>1, <1>2

(* Whoever holds a claim holds it alone, once, and knows what came of it.  *)
LEMMA Sent == Spec => []SendInv
<1>1. TypeInv /\ SendInv /\ [Next]_vars => SendInv'
  BY SendStep DEF OutboxStep
<1> QED BY <1>1, SendInit, Typed, PTL DEF Spec

(* All three ways of sending messages implement the outbox: whatever       *)
(* repeats a call, overlaps, stops or answers late, a message is put to    *)
(* the provider at most once, by its one claim, and what is recorded of it *)
(* in the end stays (notification-delivery, staff-event-email-worker,      *)
(* collection-notice-service).                                             *)
THEOREM OutboxKept == Spec => OutboxSpec
<1>1. Init => Ways!Init
  BY SendInit
<1>2. TypeInv /\ SendInv /\ [Next]_vars => [Ways!Next]_<<stage, handed>>
  BY SendStep DEF OutboxStep
<1> QED BY <1>1, <1>2, Typed, Sent, PTL DEF Spec, OutboxSpec, Ways!Spec

(* Whatever is recorded as accepted, or reported to a caller as sent, the  *)
(* provider took in that very text; what is recorded as rejected it did    *)
(* not (notification-delivery).                                            *)
THEOREM TruthKept == Spec => []TruthTold
<1>1. SendInv => TruthTold
  BY MessageCases DEF SendInv, Once, TruthTold, stage, says
<1> QED BY <1>1, Sent, PTL

-----------------------------------------------------------------------------
(* What a step does to a staff e-mail: only a claim that rests on what it  *)
(* should makes one of them SENDING.                                       *)
MailStep(e) ==
  mail[e].status # "SENDING" /\ mail'[e].status = "SENDING" => Sanctioned(e)

(* What a step does to a notice: it is drafted today, for a run only while *)
(* it is due; it is approved or withdrawn; it is claimed as it should; or  *)
(* what came of it is recorded.                                            *)
NoticeStep(k) ==
  \/ notice'[k] = notice[k]
  \/ /\ k[2] = day /\ notice'[k].status = "DRAFT"
     /\ notice'[k].bound => Due(k[1])
  \/ /\ notice'[k].bound = notice[k].bound /\ notice[k].status # "NONE"
     /\ \/ notice'[k].status \in {"DRAFT", "APPROVED", "CANCELLED"}
        \/ notice[k].status = "APPROVED" /\ notice'[k].status = "SENDING" /\ Sanctioned(k)
        \/ notice[k].status = "SENDING" /\ notice'[k].status \in {"ACCEPTED", "REVIEW_REQUIRED"}

(* Every operation on staff e-mails is such a step ...                     *)
LEMMA MailSteps ==
  ASSUME TypeInv, SendInv, StaffEmails
  PROVE  \A e \in Email : MailStep(e)
<1>0. mail \in [Email -> MailRow] /\ sender \in [Proc -> Sender]
  BY DEF TypeInv, TypeOK
<1>1. ASSUME mail' = mail PROVE \A e \in Email : MailStep(e)
  BY <1>1 DEF MailStep
<1>2. ASSUME NEW g, mail' = Evaluated(g) PROVE \A e \in Email : MailStep(e)
  BY <1>2 DEF MailStep, Evaluated
<1>3. ASSUME NEW p \in Proc, NEW e \in Email, MailClaim(p, e) PROVE \A j \in Email : MailStep(j)
  <2>1. CASE mail' = mail
    BY <1>1, <2>1
  <2>2. CASE Inspect(sender[p].tick, e) /\ mail' = [mail EXCEPT ![e].status = "SENDING"]
    <3>1. \A j \in Email \ {e} : mail'[j] = mail[j]
      BY <1>0, <2>2
    <3>2. Sanctioned(e)
      BY <2>2 DEF Inspect, Sanctioned
    <3> QED BY <3>1, <3>2 DEF MailStep
  <2> QED BY <1>3, <2>1, <2>2 DEF MailClaim
<1>4. ASSUME NEW p \in Proc, MailOutcome(p) PROVE \A j \in Email : MailStep(j)
  <2> DEFINE k == sender[p].key
  <2>1. k \in Email
    BY <1>4 DEF MailOutcome
  <2>2. \/ mail' = mail
        \/ mail' = [mail EXCEPT ![k].status = "ACCEPTED"]
        \/ mail' = [mail EXCEPT ![k].status = "REVIEW_REQUIRED"]
    BY <1>4 DEF MailOutcome
  <2> HIDE DEF k
  <2>3. \A j \in Email : \/ mail'[j] = mail[j]
                         \/ mail'[j].status \in {"ACCEPTED", "REVIEW_REQUIRED"}
    BY <1>0, <2>1, <2>2 DEF MailRow
  <2> QED BY <2>3 DEF MailStep
<1>5. ASSUME NEW g \in Policy,
             \/ PreparePolicy(g) \/ CancelPolicy(g) \/ PolicyLapses(g)
             \/ \E to \in {"APPROVED", "REJECTED"} : ReviewPolicy(g, to)
      PROVE  mail' = mail
  BY <1>5 DEF PreparePolicy, CancelPolicy, PolicyLapses, ReviewPolicy
<1>6. ASSUME NEW e \in Email, EventChanges(e) PROVE mail' = mail
  BY <1>6 DEF EventChanges, mailVars
<1>7. ASSUME NEW p \in Proc, TickList(p) \/ MailCheck(p) PROVE mail' = mail
  BY <1>7 DEF TickList, MailCheck, mailVars
<1>8. ASSUME NEW g \in Policy, Evaluate(g) \/ \E p \in Proc : TickStart(p, g)
      PROVE  mail' = Evaluated(g)
  BY <1>8 DEF Evaluate, TickStart
<1> QED BY <1>1, <1>2, <1>3, <1>4, <1>5, <1>6, <1>7, <1>8 DEF StaffEmails

(* ... and every operation on collection notices.                          *)
LEMMA NoticeSteps ==
  ASSUME TypeInv, SendInv, CollectionNotices
  PROVE  \A k \in Notice : NoticeStep(k)
<1>0. /\ notice \in [Notice -> NoticeRow] /\ sender \in [Proc -> Sender]
      /\ \A a \in Account : <<a, day>> \in Notice
  BY NoticesTyped DEF TypeInv, TypeOK
<1>1. ASSUME notice' = notice PROVE \A k \in Notice : NoticeStep(k)
  BY <1>1 DEF NoticeStep
<1>2. ASSUME \/ \E a \in Account : AccountChanges(a)
             \/ \E s \in Staff : CreatePlan(s)
             \/ \E d \in Day : CancelRun(d)
             \/ \E p \in Proc : ScheduleTick(p) \/ ScheduledCheck(p)
             \/ NewDay \/ CancelPlan
      PROVE  notice' = notice
  BY <1>2 DEF AccountChanges, CreatePlan, CancelRun, ScheduleTick, ScheduledCheck, NewDay,
              CancelPlan, noticeVars
<1>3. ASSUME NEW A, \A a \in A : <<a, day>> \in Notice /\ notice[<<a, day>>].status = "DRAFT",
             notice' = Approved(A)
      PROVE  \A k \in Notice : NoticeStep(k)
  <2>1. ASSUME NEW k \in Notice, k[2] = day, k[1] \in A
        PROVE  notice[k].status = "DRAFT"
    BY <1>3, <2>1 DEF Notice
  <2>2. ASSUME NEW k \in Notice
        PROVE  \/ notice'[k] = notice[k]
               \/ /\ notice'[k].bound = notice[k].bound
                  /\ notice[k].status = "DRAFT" /\ notice'[k].status = "APPROVED"
    BY <1>0, <1>3, <2>1 DEF Approved, NoticeRow
  <2> QED BY <2>2 DEF NoticeStep
<1>4. ASSUME NEW s \in Staff, ApproveRun(s) PROVE \A k \in Notice : NoticeStep(k)
  <2>1. run[day].items \subseteq Account
    BY DEF TypeInv, TypeOK
  <2>2. \A a \in run[day].items : <<a, day>> \in Notice /\ notice[<<a, day>>].status = "DRAFT"
    BY <1>0, <1>4, <2>1 DEF ApproveRun, Approvable
  <2> QED BY <1>3, <1>4, <2>2 DEF ApproveRun
<1>5. ASSUME NEW s \in Staff, NEW A \in SUBSET Account, ApproveNotices(s, A)
      PROVE  \A k \in Notice : NoticeStep(k)
  <2>1. \A a \in A : <<a, day>> \in Notice /\ notice[<<a, day>>].status = "DRAFT"
    BY <1>0, <1>5 DEF ApproveNotices, Approvable
  <2> QED BY <1>3, <1>5, <2>1 DEF ApproveNotices
<1>6. ASSUME NEW s \in Staff, NEW A \in SUBSET Account, PrepareNotices(s, A)
      PROVE  \A k \in Notice : NoticeStep(k)
  <2>1. ASSUME NEW k \in Notice
        PROVE  \/ notice'[k] = notice[k]
               \/ k[2] = day /\ notice'[k].status = "DRAFT" /\ ~ notice'[k].bound
    BY <1>6 DEF PrepareNotices, Draft
  <2> QED BY <2>1 DEF NoticeStep
<1>7. ASSUME NEW hands, EvaluateRun(hands) PROVE \A k \in Notice : NoticeStep(k)
  <2> DEFINE items == {a \in Account : Due(a)}
  <2>1. notice' = [k \in Notice |-> IF k[2] = day /\ k[1] \in items
                                    THEN Draft(k[1], hands \cup {plan.creator}, TRUE)
                                    ELSE notice[k]]
    BY <1>7 DEF EvaluateRun
  <2>2. \A a \in items : Due(a)
    OBVIOUS
  <2> HIDE DEF items
  <2>3. ASSUME NEW k \in Notice
        PROVE  \/ notice'[k] = notice[k]
               \/ k[2] = day /\ notice'[k].status = "DRAFT" /\ Due(k[1])
    BY <2>1, <2>2 DEF Draft
  <2> QED BY <2>3 DEF NoticeStep
<1>8. ASSUME NEW k \in Notice, NEW to \in {"DRAFT", "CANCELLED"}, WithdrawNotice(k, to)
      PROVE  \A j \in Notice : NoticeStep(j)
  <2>1. ASSUME NEW j \in Notice
        PROVE  \/ notice'[j] = notice[j]
               \/ /\ notice'[j].bound = notice[j].bound
                  /\ notice[j].status \in {"DRAFT", "APPROVED"} /\ notice'[j].status = to
    BY <1>0, <1>8 DEF WithdrawNotice, NoticeRow
  <2> QED BY <2>1 DEF NoticeStep
<1>9. ASSUME NEW k \in Notice, notice[k].status = "APPROVED", Sanctioned(k),
             notice' = [notice EXCEPT ![k].status = "SENDING"]
      PROVE  \A j \in Notice : NoticeStep(j)
  <2>1. /\ \A j \in Notice \ {k} : notice'[j] = notice[j]
        /\ notice'[k].status = "SENDING" /\ notice'[k].bound = notice[k].bound
    BY <1>0, <1>9 DEF NoticeRow
  <2> QED BY <1>9, <2>1 DEF NoticeStep
<1>10. ASSUME NEW a \in Account, NEW p \in Proc, ManualClaim(p, a)
       PROVE  \A k \in Notice : NoticeStep(k)
  <2> DEFINE k == <<a, day>>
  <2>1. k \in Notice /\ k \notin Email
    BY <1>0, WaysDisjoint
  <2>2. /\ notice[k].status = "APPROVED" /\ ~ notice[k].bound /\ Current(a)
        /\ notice' = [notice EXCEPT ![k].status = "SENDING"]
    BY <1>10 DEF ManualClaim
  <2>3. Sanctioned(k)
    BY <2>1, <2>2 DEF Sanctioned
  <2> HIDE DEF k
  <2> QED BY <1>9, <2>1, <2>2, <2>3
<1>11. ASSUME NEW k \in Notice, NEW p \in Proc, ScheduledClaim(p, k)
       PROVE  \A j \in Notice : NoticeStep(j)
  <2>1. CASE notice' = notice
    BY <1>1, <2>1
  <2>2. CASE Guard(k) /\ notice[k].status = "APPROVED"
             /\ notice' = [notice EXCEPT ![k].status = "SENDING"]
    <3>1. Sanctioned(k)
      BY <2>2, WaysDisjoint DEF Guard, Sanctioned
    <3> QED BY <1>9, <2>2, <3>1
  <2> QED BY <1>11, <2>1, <2>2 DEF ScheduledClaim
<1>12. ASSUME NEW p \in Proc, NoticeOutcome(p) PROVE \A j \in Notice : NoticeStep(j)
  <2> DEFINE k == sender[p].key
  <2>1. k \in Notice /\ sender[p].step \in ANSWER
    BY <1>12 DEF NoticeOutcome
  <2>2. \/ notice' = notice
        \/ notice' = [notice EXCEPT ![k].status = "ACCEPTED"]
        \/ notice' = [notice EXCEPT ![k].status = "REVIEW_REQUIRED"]
    BY <1>12 DEF NoticeOutcome
  <2>3. notice[k].status = "SENDING"
    <3>1. stage[k] = "claimed"
      BY <2>1 DEF SendInv, Claims, Held, Busy
    <3> HIDE DEF k
    <3> QED BY <2>1, <3>1, StageOf DEF RowStage
  <2> HIDE DEF k
  <2>4. \A j \in Notice : \/ notice'[j] = notice[j]
                          \/ /\ notice'[j].bound = notice[j].bound
                             /\ notice[j].status = "SENDING"
                             /\ notice'[j].status \in {"ACCEPTED", "REVIEW_REQUIRED"}
    BY <1>0, <2>1, <2>2, <2>3 DEF NoticeRow
  <2> QED BY <2>4 DEF NoticeStep
<1> QED BY <1>1, <1>2, <1>4, <1>5, <1>6, <1>7, <1>8, <1>10, <1>11, <1>12 DEF CollectionNotices

(* What any step does to staff e-mails and notices. *)
LEMMA Steps ==
  ASSUME TypeInv, SendInv, [Next]_vars
  PROVE  /\ \A e \in Email : MailStep(e)
         /\ \A k \in Notice : NoticeStep(k)
         /\ day' = day \/ (day' = day + 1 /\ notice' = notice)
<1>1. CASE Notifications
  <2>1. mail' = mail /\ notice' = notice /\ day' = day
    BY <1>1 DEF Notifications, LogClaim, LogRepeat, LogOutcome, StatusCallback, RetryRead,
                RetryClaim, mailVars, noticeVars
  <2> QED BY <2>1 DEF MailStep, NoticeStep
<1>2. CASE StaffEmails
  <2>1. notice' = notice /\ day' = day
    BY <1>2 DEF StaffEmails, PreparePolicy, CancelPolicy, PolicyLapses, Evaluate, ReviewPolicy,
                TickStart, EventChanges, MailClaim, TickList, MailCheck, MailOutcome, noticeVars
  <2> QED BY <1>2, <2>1, MailSteps DEF NoticeStep
<1>3. CASE CollectionNotices
  <2>1. mail' = mail
    BY <1>3 DEF CollectionNotices, AccountChanges, ManualClaim, CreatePlan, ApproveRun,
                PrepareNotices, ApproveNotices, EvaluateRun, CancelRun, WithdrawNotice,
                ScheduledClaim, ScheduleTick, ScheduledCheck, NoticeOutcome, NewDay, CancelPlan,
                mailVars
  <2>2. day' = day \/ (day' = day + 1 /\ notice' = notice)
    BY <1>3 DEF CollectionNotices, AccountChanges, ManualClaim, CreatePlan, ApproveRun,
                PrepareNotices, ApproveNotices, EvaluateRun, CancelRun, WithdrawNotice,
                ScheduledClaim, ScheduleTick, ScheduledCheck, NoticeOutcome, NewDay, CancelPlan,
                noticeVars
  <2> QED BY <1>3, <2>1, <2>2, NoticeSteps DEF MailStep
<1>4. CASE \E p \in Proc : ProviderCall(p) \/ SenderStops(p)
  <2>1. mail' = mail /\ notice' = notice /\ day' = day
    BY <1>4 DEF ProviderCall, SenderStops, mailVars, noticeVars
  <2> QED BY <2>1 DEF MailStep, NoticeStep
<1>5. CASE UNCHANGED vars
  BY <1>5 DEF vars, MailStep, NoticeStep
<1> QED BY <1>1, <1>2, <1>3, <1>4, <1>5 DEF Next

(* A policy, plan or run cancelled, a notice's account or a mail's event   *)
(* changed, before a message is claimed, always stops it                   *)
(* (staff-event-email-worker, collection-schedule-worker,                  *)
(* collection-notice-service).                                             *)
THEOREM Sanctions == Spec => ClaimedAsSanctioned
<1> DEFINE Good == \A k \in Email \cup Notice :
                      Stage(k) = "open" /\ Stage(k)' = "claimed" => Sanctioned(k)
<1>1. ASSUME TypeInv, SendInv, [Next]_vars
      PROVE  Good
  <2>1. ASSUME NEW k \in Email, Stage(k) = "open", Stage(k)' = "claimed" PROVE Sanctioned(k)
    <3>1. Stage(k) = RowStage(mail[k].status) /\ Stage(k)' = RowStage(mail'[k].status)
      BY WaysDisjoint DEF Stage
    <3>2. mail[k].status # "SENDING" /\ mail'[k].status = "SENDING"
      BY <2>1, <3>1 DEF RowStage
    <3> QED BY <1>1, <3>2, Steps DEF MailStep
  <2>2. ASSUME NEW k \in Notice, Stage(k) = "open", Stage(k)' = "claimed" PROVE Sanctioned(k)
    <3>1. Stage(k) = RowStage(notice[k].status) /\ Stage(k)' = RowStage(notice'[k].status)
      BY WaysDisjoint DEF Stage
    <3>2. notice[k].status # "SENDING" /\ notice'[k].status = "SENDING"
      BY <2>2, <3>1 DEF RowStage
    <3>3. NoticeStep(k)
      BY <1>1, Steps
    <3> QED BY <3>2, <3>3 DEF NoticeStep
  <2> QED BY <2>1, <2>2
<1>2. TypeInv /\ SendInv /\ [Next]_vars => [Good]_vars
  BY <1>1
<1> QED BY <1>2, Typed, Sent, PTL DEF Spec, ClaimedAsSanctioned

-----------------------------------------------------------------------------
(* No notice is of a day to come, and since a run took an account on, no   *)
(* earlier notice of it is being sent or uncertain.                        *)
ScheduleInv ==
  \A a \in Account, d \in Day :
     /\ notice[<<a, d>>].status # "NONE" => d <= day
     /\ notice[<<a, d>>].bound =>
           /\ notice[<<a, d>>].status # "NONE"
           /\ \A e \in Day : e < d => notice[<<a, e>>].status \notin UNCERTAIN

(* It holds of every reachable state, since only today's notices are       *)
(* claimed.                                                                *)
LEMMA Scheduled == Spec => []ScheduleInv
<1>1. Init => ScheduleInv
  BY DEF Init, ScheduleInv, Notice, NoNotice
<1>2. ASSUME TypeInv, SendInv, ScheduleInv, [Next]_vars PROVE ScheduleInv'
  <2> SUFFICES ASSUME NEW a \in Account, NEW d \in Day
               PROVE  /\ notice'[<<a, d>>].status # "NONE" => d <= day'
                      /\ notice'[<<a, d>>].bound =>
                            /\ notice'[<<a, d>>].status # "NONE"
                            /\ \A e \in Day : e < d => notice'[<<a, e>>].status \notin UNCERTAIN
    BY DEF ScheduleInv
  <2>0. /\ \A e \in Day : <<a, e>> \in Notice /\ NoticeStep(<<a, e>>) /\ <<a, e>> \notin Email
        /\ Day \subseteq Nat /\ day \in Day
        /\ day' = day \/ (day' = day + 1 /\ notice' = notice)
    BY <1>2, Steps, WaysDisjoint DEF Notice, Day, TypeInv, TypeOK
  <2>1. \A e \in Day : notice'[<<a, e>>].status \in UNCERTAIN =>
           notice[<<a, e>>].status \in UNCERTAIN \/ e = day
    BY <2>0 DEF NoticeStep, Sanctioned, UNCERTAIN
  <2>2. notice'[<<a, d>>].status # "NONE" => d <= day'
    BY <1>2, <2>0 DEF NoticeStep, ScheduleInv
  <2>3. ASSUME notice'[<<a, d>>].bound
        PROVE  notice'[<<a, d>>].status # "NONE" /\ d <= day
    BY <1>2, <2>0, <2>3 DEF NoticeStep, ScheduleInv
  <2>4. ASSUME notice'[<<a, d>>].bound, NEW e \in Day, e < d
        PROVE  notice[<<a, e>>].status \notin UNCERTAIN
    BY <1>2, <2>0, <2>4 DEF NoticeStep, ScheduleInv, Due
  <2> QED BY <2>0, <2>1, <2>2, <2>3, <2>4
<1> QED BY <1>1, <1>2, Typed, Sent, PTL DEF Spec

(* A run never claims a reminder while an earlier one of the account is    *)
(* still being sent or its outcome is not known, whichever day and         *)
(* whoever's it was (collection-schedule-service).                         *)
THEOREM ScheduleHeld == Spec => UncertainHoldsSchedule
<1> DEFINE Good ==
             \A a \in Account, d \in Day :
                /\ notice[<<a, d>>].bound
                /\ notice[<<a, d>>].status = "APPROVED" /\ notice'[<<a, d>>].status = "SENDING"
                => \A e \in Day : notice[<<a, e>>].status \notin UNCERTAIN
<1>1. ASSUME TypeInv, SendInv, ScheduleInv, [Next]_vars
      PROVE  Good
  <2> SUFFICES ASSUME NEW a \in Account, NEW d \in Day, notice[<<a, d>>].bound,
                      notice[<<a, d>>].status = "APPROVED", notice'[<<a, d>>].status = "SENDING",
                      NEW e \in Day
               PROVE  notice[<<a, e>>].status \notin UNCERTAIN
    OBVIOUS
  <2>1. <<a, d>> \in Notice /\ <<a, d>> \notin Email
    BY WaysDisjoint DEF Notice
  <2>2. d = day
    BY <1>1, <2>1, Steps DEF NoticeStep, Sanctioned
  <2>3. e < d \/ e = d \/ notice[<<a, e>>].status = "NONE"
    BY <1>1, <2>2 DEF ScheduleInv, Day
  <2> QED BY <1>1, <2>3 DEF ScheduleInv, UNCERTAIN
<1>2. TypeInv /\ SendInv /\ ScheduleInv /\ [Next]_vars => [Good]_vars
  BY <1>1
<1> QED BY <1>2, Typed, Sent, Scheduled, PTL DEF Spec, UncertainHoldsSchedule

-----------------------------------------------------------------------------
(* A row once a report more is kept. *)
Marked(r, e) == [Reported(r, e) EXCEPT !.events = r.events \cup {e}]

(* What a step does to a row of the communication log: it is written by a  *)
(* first send or a retry under way, closed with its outcome, or marked     *)
(* with a report.                                                          *)
LogStep(k) ==
  \/ log'[k] = log[k]
  \/ /\ log[k] = NoLog
     /\ log'[k].outcome = "IN_PROGRESS" /\ log'[k].events = {} /\ ~ log'[k].delivered
     /\ k[2] = "first" \/ \E p \in Proc : sender[p].step = "retrying" /\ sender[p].key = k
  \/ /\ log[k].outcome = "IN_PROGRESS" /\ log'[k].outcome \in {"ACCEPTED", "UNCERTAIN", "REJECTED"}
     /\ log'[k].events = log[k].events /\ log'[k].delivered = log[k].delivered
     /\ log'[k].failed = (log'[k].outcome # "ACCEPTED")
     /\ log'[k].outcome = "ACCEPTED" => log'[k].status = Accepted(k)
  \/ \E e \in Event :
        /\ log[k].outcome = "ACCEPTED"
        /\ log'[k] = Marked(log[k], e)

(* What a step does to a process: only a member of staff who may retry a   *)
(* message sets it to the retry.                                           *)
RetryStep(p) ==
  sender'[p].step = "retrying" =>
     \/ sender'[p] = sender[p]
     \/ \E w \in WhatsApp : sender'[p].key = <<w, "retry">> /\ CanRetry(log[<<w, "first">>])

(* Every operation on notifications is such a step ...                     *)
LEMMA LogSteps ==
  ASSUME TypeInv, SendInv, Notifications
  PROVE  \A k \in Attempt : LogStep(k)
<1>0. log \in [Attempt -> LogRow] /\ sender \in [Proc -> Sender]
  BY DEF TypeInv, TypeOK
<1>1. ASSUME log' = log PROVE \A k \in Attempt : LogStep(k)
  BY <1>1 DEF LogStep
<1>2. ASSUME NEW p \in Proc, NEW k \in Attempt, NEW t \in Text, LogClaim(p, k, t)
      PROVE  \A j \in Attempt : LogStep(j)
  <2>1. /\ k[2] = "first" /\ log[k] = NoLog
        /\ log' = [log EXCEPT ![k] = [NoLog EXCEPT !.status = "PENDING", !.outcome = "IN_PROGRESS",
                                                   !.text = t]]
    BY <1>2 DEF LogClaim
  <2>2. /\ log'[k].outcome = "IN_PROGRESS" /\ log'[k].events = {} /\ ~ log'[k].delivered
        /\ \A j \in Attempt \ {k} : log'[j] = log[j]
    BY <1>0, <2>1 DEF NoLog
  <2> QED BY <2>1, <2>2 DEF LogStep
<1>3. ASSUME NEW p \in Proc, RetryClaim(p) PROVE \A j \in Attempt : LogStep(j)
  <2> DEFINE k == sender[p].key
  <2>1. CASE log' = log
    BY <1>1, <2>1
  <2>2. CASE /\ log[k] = NoLog
             /\ log' = [log EXCEPT ![k] = [NoLog EXCEPT !.status = "PENDING",
                                                        !.outcome = "IN_PROGRESS"]]
    <3>1. sender[p].step = "retrying" /\ sender[p].key = k
      BY <1>3 DEF RetryClaim
    <3>2. k \in Attempt
      BY <3>1 DEF SendInv, Retries, RetryOf, Attempt
    <3> HIDE DEF k
    <3>3. /\ log'[k].outcome = "IN_PROGRESS" /\ log'[k].events = {} /\ ~ log'[k].delivered
          /\ \A j \in Attempt \ {k} : log'[j] = log[j]
      BY <1>0, <2>2, <3>2 DEF NoLog
    <3> QED BY <2>2, <3>1, <3>3 DEF LogStep
  <2> QED BY <1>3, <2>1, <2>2 DEF RetryClaim
<1>4. ASSUME NEW p \in Proc, LogOutcome(p) PROVE \A j \in Attempt : LogStep(j)
  <2> DEFINE k == sender[p].key
  <2>1. CASE log' = log
    BY <1>1, <2>1
  <2>2. CASE \E o \in Outcomes(sender[p].step) :
               log' = [log EXCEPT ![k].outcome = o, ![k].failed = o # "ACCEPTED",
                         ![k].status = IF o = "ACCEPTED" THEN Accepted(k) ELSE "FAILED"]
    <3>1. k \in Attempt /\ sender[p].step \in ANSWER
      BY <1>4 DEF LogOutcome
    <3>2. PICK o \in Outcomes(sender[p].step) :
               log' = [log EXCEPT ![k].outcome = o, ![k].failed = o # "ACCEPTED",
                         ![k].status = IF o = "ACCEPTED" THEN Accepted(k) ELSE "FAILED"]
      BY <2>2
    <3>3. o \in {"ACCEPTED", "UNCERTAIN", "REJECTED"}
      BY <3>1, <3>2 DEF Outcomes, ANSWER
    <3>4. log[k].outcome = "IN_PROGRESS"
      <4>1. stage[k] = "claimed"
        BY <3>1 DEF SendInv, Claims, Held, Busy
      <4> HIDE DEF k
      <4> QED BY <3>1, <4>1, StageOf DEF LogStage
    <3> HIDE DEF k
    <3>5. /\ log'[k].outcome = o /\ log'[k].failed = (o # "ACCEPTED")
          /\ log'[k].status = IF o = "ACCEPTED" THEN Accepted(k) ELSE "FAILED"
          /\ log'[k].events = log[k].events /\ log'[k].delivered = log[k].delivered
          /\ \A j \in Attempt \ {k} : log'[j] = log[j]
      <4> DEFINE s == IF o = "ACCEPTED" THEN Accepted(k) ELSE "FAILED"
                 f == o # "ACCEPTED"
      <4>1. log' = [log EXCEPT ![k].outcome = o, ![k].failed = f, ![k].status = s]
        BY <3>2
      <4> HIDE DEF s, f
      <4>2. /\ log'[k].outcome = o /\ log'[k].failed = f /\ log'[k].status = s
            /\ log'[k].events = log[k].events /\ log'[k].delivered = log[k].delivered
            /\ \A j \in Attempt \ {k} : log'[j] = log[j]
        BY <1>0, <3>1, <4>1 DEF LogRow
      <4> QED BY <4>2 DEF s, f
    <3>6. /\ log'[k].outcome \in {"ACCEPTED", "UNCERTAIN", "REJECTED"}
          /\ log'[k].failed = (log'[k].outcome # "ACCEPTED")
          /\ log'[k].outcome = "ACCEPTED" => log'[k].status = Accepted(k)
      BY <3>3, <3>5
    <3> QED BY <3>4, <3>5, <3>6 DEF LogStep
  <2> QED BY <1>4, <2>1, <2>2 DEF LogOutcome
<1>5. ASSUME NEW k \in Attempt, NEW e \in Event, StatusCallback(k, e)
      PROVE  \A j \in Attempt : LogStep(j)
  <2>1. Reported(log[k], e).events = log[k].events
    BY <1>0, Zenon DEF Reported, LogRow, Event
  <2>2. /\ log[k].outcome = "ACCEPTED"
        /\ log' = [log EXCEPT ![k] = Marked(log[k], e)]
    BY <1>5, <2>1 DEF StatusCallback, Marked
  <2>3. /\ log'[k] = Marked(log[k], e)
        /\ \A j \in Attempt \ {k} : log'[j] = log[j]
    BY <1>0, <2>2
  <2> QED BY <2>2, <2>3 DEF LogStep
<1>6. ASSUME NEW k, NEW t, LogRepeat(k, t) PROVE log' = log
  BY <1>6 DEF LogRepeat
<1>7. ASSUME NEW p, NEW w, RetryRead(p, w) PROVE log' = log
  BY <1>7 DEF RetryRead
<1> QED BY <1>1, <1>2, <1>3, <1>4, <1>5, <1>6, <1>7 DEF Notifications

(* ... and what any step does to the log and to the processes.             *)
LEMMA RetrySteps ==
  ASSUME TypeInv, SendInv, [Next]_vars
  PROVE  (\A k \in Attempt : LogStep(k)) /\ (\A p \in Proc : RetryStep(p))
<1>0. sender \in [Proc -> Sender]
  BY DEF TypeInv, TypeOK
<1>1. ASSUME sender' = sender PROVE \A p \in Proc : RetryStep(p)
  BY <1>1 DEF RetryStep
<1>2. ASSUME NEW p, NEW q, q.step # "retrying", sender' = [sender EXCEPT ![p] = q]
      PROVE  \A r \in Proc : RetryStep(r)
  BY <1>0, <1>2 DEF RetryStep
<1>3. ASSUME NEW p, NEW x, x # "retrying", sender' = [sender EXCEPT ![p].step = x]
      PROVE  \A r \in Proc : RetryStep(r)
  BY <1>0, <1>3 DEF RetryStep, Sender
<1>4. CASE Notifications
  <2>1. ASSUME NEW p, NEW k, NEW t, LogClaim(p, k, t) PROVE \A r \in Proc : RetryStep(r)
    <3>1. [Idle EXCEPT !.step = "checked", !.key = k].step # "retrying"
      BY DEF Idle
    <3> QED BY <1>2, <2>1, <3>1 DEF LogClaim
  <2>2. ASSUME NEW p, LogOutcome(p) PROVE \A r \in Proc : RetryStep(r)
    BY <1>2, <2>2, NoClaim DEF LogOutcome
  <2>3. ASSUME NEW p \in Proc, NEW w \in WhatsApp, RetryRead(p, w)
        PROVE  \A r \in Proc : RetryStep(r)
    <3>1. /\ CanRetry(log[<<w, "first">>]) /\ sender'[p].key = <<w, "retry">>
          /\ \A r \in Proc \ {p} : sender'[r] = sender[r]
      BY <1>0, <2>3 DEF RetryRead, Idle
    <3> QED BY <3>1 DEF RetryStep
  <2>4. ASSUME NEW p, RetryClaim(p) PROVE \A r \in Proc : RetryStep(r)
    <3>1. \/ sender' = [sender EXCEPT ![p].step = "checked"]
          \/ sender' = [sender EXCEPT ![p] = Idle]
      BY <2>4 DEF RetryClaim
    <3> QED BY <1>2, <1>3, <3>1, NoClaim
  <2>5. ASSUME NEW k, NEW t, LogRepeat(k, t) PROVE sender' = sender
    BY <2>5 DEF LogRepeat
  <2>6. ASSUME NEW k, NEW e, StatusCallback(k, e) PROVE sender' = sender
    BY <2>6 DEF StatusCallback
  <2> QED BY <1>1, <1>4, <2>1, <2>2, <2>3, <2>4, <2>5, <2>6, LogSteps DEF Notifications
<1>5. CASE StaffEmails
  <2>1. log' = log
    BY <1>5 DEF StaffEmails, PreparePolicy, CancelPolicy, PolicyLapses, Evaluate, ReviewPolicy,
                TickStart, EventChanges, MailClaim, TickList, MailCheck, MailOutcome, logVars
  <2>2. ASSUME NEW g, \/ PreparePolicy(g) \/ CancelPolicy(g) \/ PolicyLapses(g) \/ Evaluate(g)
                      \/ \E to \in {"APPROVED", "REJECTED"} : ReviewPolicy(g, to)
        PROVE  sender' = sender
    BY <2>2 DEF PreparePolicy, CancelPolicy, PolicyLapses, Evaluate, ReviewPolicy
  <2>3. ASSUME NEW e, EventChanges(e) PROVE sender' = sender
    BY <2>3 DEF EventChanges
  <2>4. ASSUME NEW p, NEW g, TickStart(p, g) PROVE \A r \in Proc : RetryStep(r)
    <3>1. [Idle EXCEPT !.step = "listing", !.tick = g].step # "retrying"
      BY DEF Idle
    <3> QED BY <1>2, <2>4, <3>1 DEF TickStart
  <2>5. ASSUME NEW p, TickList(p) \/ MailOutcome(p) PROVE \A r \in Proc : RetryStep(r)
    BY <1>2, <2>5, NoClaim DEF TickList, MailOutcome
  <2>6. ASSUME NEW p, MailCheck(p) PROVE \A r \in Proc : RetryStep(r)
    <3>1. PICK x \in {"checked", "unknown"} : sender' = [sender EXCEPT ![p].step = x]
      BY <2>6 DEF MailCheck
    <3> QED BY <1>3, <3>1
  <2>7. ASSUME NEW p \in Proc, NEW e, MailClaim(p, e) PROVE \A r \in Proc : RetryStep(r)
    <3> DEFINE q == [sender[p] EXCEPT !.step = "claimed", !.key = e, !.work = sender[p].work \ {e}]
    <3>1. q.step # "retrying"
      BY <1>0 DEF Sender
    <3>2. \/ sender' = [sender EXCEPT ![p] = Onwards(sender[p].work \ {e}, sender[p].tick)]
          \/ sender' = [sender EXCEPT ![p] = Idle]
          \/ sender' = [sender EXCEPT ![p] = q]
      BY <1>0, <2>7 DEF MailClaim, Sender
    <3> HIDE DEF q
    <3> QED BY <1>2, <3>1, <3>2, NoClaim
  <2> QED BY <1>1, <1>5, <2>1, <2>2, <2>3, <2>4, <2>5, <2>6, <2>7 DEF StaffEmails, LogStep
<1>6. CASE CollectionNotices
  <2>1. log' = log
    BY <1>6 DEF CollectionNotices, AccountChanges, ManualClaim, CreatePlan, ApproveRun,
                PrepareNotices, ApproveNotices, EvaluateRun, CancelRun, WithdrawNotice,
                ScheduledClaim, ScheduleTick, ScheduledCheck, NoticeOutcome, NewDay, CancelPlan,
                logVars
  <2>2. ASSUME \/ \E a \in Account : AccountChanges(a)
               \/ \E s \in Staff : \/ CreatePlan(s) \/ ApproveRun(s)
                                   \/ \E A \in SUBSET Account :
                                         PrepareNotices(s, A) \/ ApproveNotices(s, A)
               \/ \E hands \in {{}} \cup {{s} : s \in Staff} : EvaluateRun(hands)
               \/ \E d \in Day : CancelRun(d)
               \/ \E k \in Notice, to \in {"DRAFT", "CANCELLED"} : WithdrawNotice(k, to)
               \/ NewDay \/ CancelPlan
        PROVE  sender' = sender
    BY <2>2 DEF AccountChanges, CreatePlan, ApproveRun, PrepareNotices, ApproveNotices,
                EvaluateRun, CancelRun, WithdrawNotice, NewDay, CancelPlan
  <2>3. ASSUME NEW p, NEW a, ManualClaim(p, a) PROVE \A r \in Proc : RetryStep(r)
    <3>1. [Idle EXCEPT !.step = "checked", !.key = <<a, day>>].step # "retrying"
      BY DEF Idle
    <3> QED BY <1>2, <2>3, <3>1 DEF ManualClaim
  <2>4. ASSUME NEW p \in Proc, NEW k, ScheduledClaim(p, k) PROVE \A r \in Proc : RetryStep(r)
    <3> DEFINE q == [sender[p] EXCEPT !.step = "claimed", !.key = k, !.work = sender[p].work \ {k}]
    <3>1. q.step # "retrying"
      BY <1>0 DEF Sender
    <3>2. \/ sender' = [sender EXCEPT ![p] = Onwards(sender[p].work \ {k}, sender[p].tick)]
          \/ sender' = [sender EXCEPT ![p] = q]
      BY <1>0, <2>4 DEF ScheduledClaim, Sender
    <3> HIDE DEF q
    <3> QED BY <1>2, <3>1, <3>2, NoClaim
  <2>5. ASSUME NEW p, ScheduleTick(p) \/ NoticeOutcome(p) PROVE \A r \in Proc : RetryStep(r)
    BY <1>2, <2>5, NoClaim DEF ScheduleTick, NoticeOutcome
  <2>6. ASSUME NEW p, ScheduledCheck(p) PROVE \A r \in Proc : RetryStep(r)
    <3>1. PICK x \in {"checked", "unknown"} : sender' = [sender EXCEPT ![p].step = x]
      BY <2>6 DEF ScheduledCheck
    <3> QED BY <1>3, <3>1
  <2> QED BY <1>1, <1>6, <2>1, <2>2, <2>3, <2>4, <2>5, <2>6 DEF CollectionNotices, LogStep
<1>7. CASE \E p \in Proc : ProviderCall(p) \/ SenderStops(p)
  <2>1. log' = log
    BY <1>7 DEF ProviderCall, SenderStops, logVars
  <2>2. ASSUME NEW p, ProviderCall(p) PROVE \A r \in Proc : RetryStep(r)
    <3>1. PICK x \in ANSWER : sender' = [sender EXCEPT ![p].step = x]
      BY <2>2 DEF ProviderCall, ANSWER
    <3> QED BY <1>3, <3>1 DEF ANSWER
  <2>3. ASSUME NEW p, SenderStops(p) PROVE \A r \in Proc : RetryStep(r)
    BY <1>2, <2>3, NoClaim DEF SenderStops
  <2> QED BY <1>7, <2>1, <2>2, <2>3 DEF LogStep
<1>8. CASE UNCHANGED vars
  BY <1>1, <1>8 DEF vars, LogStep
<1> QED BY <1>4, <1>5, <1>6, <1>7, <1>8 DEF Next

-----------------------------------------------------------------------------
(* What the reports that came make of a row. *)
StatusOf(k, seen) ==
  CASE "delivered" \in seen -> "SUCCEEDED"
    [] "delivered" \notin seen /\ "failed" \in seen -> "FAILED"
    [] seen = {"sent"} -> "PROCESSING"
    [] OTHER -> Accepted(k)

(* The same, case by case. *)
LEMMA StatusCases ==
  ASSUME NEW k, NEW seen
  PROVE  /\ "delivered" \in seen => StatusOf(k, seen) = "SUCCEEDED"
         /\ "delivered" \notin seen /\ "failed" \in seen => StatusOf(k, seen) = "FAILED"
         /\ StatusOf(k, {"sent"}) = "PROCESSING"
         /\ StatusOf(k, {}) = Accepted(k)
<1>1. {} # {"sent"} /\ "delivered" \notin {"sent"} /\ "failed" \notin {"sent"}
  OBVIOUS
<1> QED BY <1>1 DEF StatusOf

(* Only an accepted row has reports, and its marks are those of its        *)
(* reports, whatever their order.                                          *)
ReportInv ==
  \A k \in Attempt :
     /\ log[k].outcome # "ACCEPTED" => log[k].events = {} /\ ~ log[k].delivered
     /\ log[k].outcome = "ACCEPTED" =>
           /\ log[k].delivered <=> ("delivered" \in log[k].events)
           /\ log[k].failed <=> ("failed" \in log[k].events /\ "delivered" \notin log[k].events)
           /\ log[k].status = StatusOf(k, log[k].events)

(* A report more is marked as if all had come at once.                     *)
LEMMA OneMore ==
  ASSUME NEW k, NEW r \in LogRow, NEW e \in Event,
         r.delivered <=> ("delivered" \in r.events),
         r.failed <=> ("failed" \in r.events /\ "delivered" \notin r.events),
         r.status = StatusOf(k, r.events),
         NEW s, s = Marked(r, e)
  PROVE  /\ s.outcome = r.outcome /\ s.events = r.events \cup {e}
         /\ s.delivered <=> ("delivered" \in s.events)
         /\ s.failed <=> ("failed" \in s.events /\ "delivered" \notin s.events)
         /\ s.status = StatusOf(k, s.events)
<1>0. r.events \subseteq {"sent", "delivered", "failed"}
  BY DEF LogRow, Event
<1>1. CASE e = "delivered"
  <2>1. Reported(r, e) = [r EXCEPT !.status = "SUCCEEDED", !.delivered = TRUE, !.failed = FALSE]
    BY <1>1 DEF Reported
  <2>2. /\ s.outcome = r.outcome /\ s.events = r.events \cup {e} /\ s.delivered = TRUE
        /\ s.failed = FALSE /\ s.status = "SUCCEEDED"
    BY <2>1 DEF LogRow, Marked
  <2>3. "delivered" \in s.events
    BY <1>1, <2>2
  <2> QED BY <2>2, <2>3, StatusCases
<1>2. CASE e # "delivered" /\ (r.delivered \/ r.failed)
  <2>1. Reported(r, e) = r
    BY <1>2 DEF Reported
  <2>2. /\ s.outcome = r.outcome /\ s.events = r.events \cup {e} /\ s.delivered = r.delivered
        /\ s.failed = r.failed /\ s.status = r.status
    BY <2>1 DEF LogRow, Marked
  <2>3. "delivered" \in r.events \/ "failed" \in r.events
    BY <1>2
  <2>4. /\ "delivered" \in s.events <=> "delivered" \in r.events
        /\ ("failed" \in s.events /\ "delivered" \notin s.events)
              <=> ("failed" \in r.events /\ "delivered" \notin r.events)
    BY <1>2, <2>2
  <2>5. s.status = StatusOf(k, s.events)
    BY <2>2, <2>3, <2>4, StatusCases
  <2> QED BY <2>2, <2>4, <2>5
<1>3. CASE e = "failed" /\ ~ r.delivered /\ ~ r.failed
  <2>1. Reported(r, e) = [r EXCEPT !.status = "FAILED", !.failed = TRUE]
    BY <1>3 DEF Reported
  <2>2. /\ s.outcome = r.outcome /\ s.events = r.events \cup {e} /\ s.delivered = r.delivered
        /\ s.failed = TRUE /\ s.status = "FAILED"
    BY <2>1 DEF LogRow, Marked
  <2>3. "failed" \in s.events /\ "delivered" \notin s.events
    BY <1>3, <2>2
  <2> QED BY <1>3, <2>2, <2>3, StatusCases
<1>4. CASE e = "sent" /\ ~ r.delivered /\ ~ r.failed
  <2>1. Reported(r, e) = [r EXCEPT !.status = "PROCESSING"]
    BY <1>4 DEF Reported
  <2>2. /\ s.outcome = r.outcome /\ s.events = r.events \cup {e} /\ s.delivered = r.delivered
        /\ s.failed = r.failed /\ s.status = "PROCESSING"
    BY <2>1 DEF LogRow, Marked
  <2>3. r.events \subseteq {"sent"} /\ s.events = {"sent"}
    BY <1>0, <1>4, <2>2
  <2> QED BY <1>4, <2>2, <2>3, StatusCases
<1>5. r.delivered \in BOOLEAN /\ r.failed \in BOOLEAN
  BY DEF LogRow
<1> QED BY <1>1, <1>2, <1>3, <1>4, <1>5 DEF Event

(* The marks of every row are those of its reports.                        *)
LEMMA Reports == Spec => []ReportInv
<1>1. Init => ReportInv
  BY DEF Init, ReportInv, NoLog
<1>2. ASSUME TypeInv, SendInv, ReportInv, [Next]_vars PROVE ReportInv'
  <2> SUFFICES ASSUME NEW k \in Attempt
               PROVE  /\ log'[k].outcome # "ACCEPTED" => log'[k].events = {} /\ ~ log'[k].delivered
                      /\ log'[k].outcome = "ACCEPTED" =>
                            /\ log'[k].delivered <=> ("delivered" \in log'[k].events)
                            /\ log'[k].failed <=> ("failed" \in log'[k].events
                                                    /\ "delivered" \notin log'[k].events)
                            /\ log'[k].status = StatusOf(k, log'[k].events)
    BY DEF ReportInv, StatusOf, Accepted
  <2>0. LogStep(k) /\ log[k] \in LogRow
    BY <1>2, RetrySteps, Rows
  <2>1. CASE log'[k] = log[k]
    BY <1>2, <2>1 DEF ReportInv
  <2>2. CASE /\ log'[k].outcome = "IN_PROGRESS" /\ log'[k].events = {} /\ ~ log'[k].delivered
    BY <2>2
  <2>3. CASE /\ log[k].outcome = "IN_PROGRESS"
             /\ log'[k].outcome \in {"ACCEPTED", "UNCERTAIN", "REJECTED"}
             /\ log'[k].events = log[k].events /\ log'[k].delivered = log[k].delivered
             /\ log'[k].failed = (log'[k].outcome # "ACCEPTED")
             /\ log'[k].outcome = "ACCEPTED" => log'[k].status = Accepted(k)
    <3>1. log'[k].events = {} /\ ~ log[k].delivered
      BY <1>2, <2>3 DEF ReportInv
    <3>2. log[k].delivered \in BOOLEAN
      BY <2>0 DEF LogRow
    <3>3. log'[k].outcome = "ACCEPTED" => log'[k].status = StatusOf(k, log'[k].events)
      BY <2>3, <3>1, StatusCases
    <3>4. log'[k].outcome = "ACCEPTED" => ~ log'[k].failed
      BY <2>3
    <3> QED BY <2>3, <3>1, <3>2, <3>3, <3>4
  <2>4. CASE \E e \in Event :
               /\ log[k].outcome = "ACCEPTED"
               /\ log'[k] = Marked(log[k], e)
    <3>1. PICK e \in Event :
               /\ log[k].outcome = "ACCEPTED"
               /\ log'[k] = Marked(log[k], e)
      BY <2>4
    <3>2. /\ log[k].delivered <=> ("delivered" \in log[k].events)
          /\ log[k].failed <=> ("failed" \in log[k].events /\ "delivered" \notin log[k].events)
          /\ log[k].status = StatusOf(k, log[k].events)
      BY <1>2, <3>1 DEF ReportInv
    <3> DEFINE r == log[k]
               s == log'[k]
    <3>3. /\ r \in LogRow /\ r.outcome = "ACCEPTED" /\ r.status = StatusOf(k, r.events)
          /\ r.delivered <=> ("delivered" \in r.events)
          /\ r.failed <=> ("failed" \in r.events /\ "delivered" \notin r.events)
          /\ s = Marked(r, e)
      BY <2>0, <3>1, <3>2
    <3> HIDE DEF r, s
    <3>4. /\ s.outcome = "ACCEPTED" /\ s.status = StatusOf(k, s.events)
          /\ s.delivered <=> ("delivered" \in s.events)
          /\ s.failed <=> ("failed" \in s.events /\ "delivered" \notin s.events)
      BY <3>3, OneMore
    <3> QED BY <3>4 DEF s
  <2> QED BY <2>0, <2>1, <2>2, <2>3, <2>4 DEF LogStep
<1> QED BY <1>1, <1>2, Typed, Sent, PTL DEF Spec

(* What the log says of an accepted message depends on which reports came  *)
(* and not on their order: a late one never erases a confirmed delivery or *)
(* failure (the Twilio status webhook).                                    *)
THEOREM AnyOrder == Spec => []ReportsInAnyOrder
<1>1. ASSUME TypeInv, ReportInv PROVE ReportsInAnyOrder
  <2> SUFFICES ASSUME NEW k \in Attempt, log[k].outcome = "ACCEPTED"
               PROVE  /\ log[k].delivered = ("delivered" \in log[k].events)
                      /\ log[k].status = StatusOf(k, log[k].events)
    BY DEF ReportsInAnyOrder, StatusOf
  <2>1. log[k].delivered \in BOOLEAN
    BY <1>1, Rows DEF LogRow
  <2> QED BY <1>1, <2>1 DEF ReportInv
<1> QED BY <1>1, Typed, Reports, PTL

-----------------------------------------------------------------------------
(* The provider refused a WhatsApp message, or reported it as failed.      *)
Refused(w) == log[<<w, "first">>].outcome = "REJECTED" \/ "failed" \in log[<<w, "first">>].events

(* A retry under way, or written, is of such a message.                    *)
RetryInv ==
  /\ \A p \in Proc : sender[p].step = "retrying" =>
        \E w \in WhatsApp : sender[p].key = <<w, "retry">> /\ Refused(w)
  /\ \A w \in WhatsApp : log[<<w, "retry">>].outcome # "NONE" => Refused(w)

(* It holds of every reachable state, since a refusal is never withdrawn.  *)
LEMMA Retried == Spec => []RetryInv
<1>0. \A w \in WhatsApp : <<w, "first">> \in Attempt /\ <<w, "retry">> \in Attempt
  BY DEF Attempt
<1>1. ASSUME Init PROVE RetryInv
  <2>1. \A p \in Proc : sender[p].step = "idle"
    BY <1>1 DEF Init, Idle
  <2>2. \A k \in Attempt : log[k].outcome = "NONE"
    BY <1>1 DEF Init, NoLog
  <2> QED BY <1>0, <2>1, <2>2 DEF RetryInv
<1>2. ASSUME TypeInv, SendInv, ReportInv, RetryInv, [Next]_vars PROVE RetryInv'
  <2>1. ASSUME NEW w \in WhatsApp, Refused(w) PROVE Refused(w)'
    <3> DEFINE k == <<w, "first">>
    <3>1. k \in Attempt /\ LogStep(k) /\ log[k] \in LogRow
      BY <1>0, <1>2, RetrySteps, Rows
    <3>2. log[k].outcome = "REJECTED" \/ "failed" \in log[k].events
      BY <2>1 DEF Refused
    <3> HIDE DEF k
    <3>3. log[k] # NoLog
      BY <3>2 DEF NoLog
    <3>4. CASE log'[k] = log[k]
      BY <3>2, <3>4 DEF Refused, k
    <3>5. CASE log[k].outcome = "IN_PROGRESS" /\ log'[k].events = log[k].events
      BY <3>2, <3>5 DEF Refused, k
    <3>6. CASE \E e \in Event :
                  /\ log[k].outcome = "ACCEPTED"
                  /\ log'[k] = Marked(log[k], e)
      <4>1. PICK e \in Event :
                  /\ log[k].outcome = "ACCEPTED"
                  /\ log'[k] = Marked(log[k], e)
        BY <3>6
      <4>2. log[k].events \subseteq log'[k].events
        <5> DEFINE r == log[k]
                   s == log'[k]
        <5>1. k \in Attempt /\ log[k].outcome = "ACCEPTED"
          BY <3>1, <4>1
        <5>2. /\ r.delivered <=> ("delivered" \in r.events)
              /\ r.failed <=> ("failed" \in r.events /\ "delivered" \notin r.events)
              /\ r.status = StatusOf(k, r.events)
          BY <1>2, <5>1 DEF ReportInv
        <5>3. r \in LogRow /\ s = Marked(r, e)
          BY <3>1, <4>1
        <5> HIDE DEF r, s
        <5>4. s.events = r.events \cup {e}
          BY <5>2, <5>3, OneMore
        <5> QED BY <5>4 DEF r, s
      <4> QED BY <3>2, <4>1, <4>2 DEF Refused, k
    <3> QED BY <3>1, <3>3, <3>4, <3>5, <3>6 DEF LogStep
  <2>2. ASSUME NEW w \in WhatsApp, CanRetry(log[<<w, "first">>]) PROVE Refused(w)
    BY <1>0, <1>2, <2>2 DEF CanRetry, ReportInv, Refused
  <2>3. ASSUME NEW p \in Proc, sender'[p].step = "retrying"
        PROVE  \E w \in WhatsApp : sender'[p].key = <<w, "retry">> /\ Refused(w)'
    <3>1. RetryStep(p)
      BY <1>2, RetrySteps
    <3>2. \E w \in WhatsApp : sender'[p].key = <<w, "retry">> /\ Refused(w)
      BY <1>2, <2>2, <2>3, <3>1 DEF RetryStep, RetryInv
    <3> QED BY <2>1, <3>2
  <2>4. ASSUME NEW w \in WhatsApp, log'[<<w, "retry">>].outcome # "NONE" PROVE Refused(w)'
    <3> DEFINE k == <<w, "retry">>
    <3>1. LogStep(k) /\ k[2] # "first"
      BY <1>0, <1>2, RetrySteps
    <3>2. \/ log[k].outcome # "NONE"
          \/ \E p \in Proc : sender[p].step = "retrying" /\ sender[p].key = k
      BY <2>4, <3>1 DEF LogStep
    <3>3. Refused(w)
      BY <1>2, <3>2 DEF RetryInv
    <3> QED BY <2>1, <3>3
  <2> QED BY <2>3, <2>4 DEF RetryInv
<1> QED BY <1>1, <1>2, Typed, Sent, Reports, PTL DEF Spec

(* Staff retry only a message the provider refused or reported as failed,  *)
(* never one whose outcome is unknown (the WhatsApp retry).                *)
THEOREM RetriesRefused == Spec => []RetriedOnlyFailed
<1>1. ASSUME SendInv, RetryInv PROVE RetriedOnlyFailed
  <2> SUFFICES ASSUME NEW w \in WhatsApp, handed[<<w, "retry">>] > 0
               PROVE  Refused(w)
    BY DEF RetriedOnlyFailed, Refused
  <2> DEFINE k == <<w, "retry">>
  <2>1. k \in Attempt /\ handed[k] > 0
    BY DEF Attempt
  <2>2. k = <<w, "retry">>
    OBVIOUS
  <2> HIDE DEF k
  <2>3. stage[k] # "open"
    BY <1>1, <2>1, MessageCases DEF SendInv, Once
  <2>4. log[k].outcome # "NONE"
    BY <2>1, <2>3, StageOf DEF LogStage
  <2> QED BY <1>1, <2>2, <2>4 DEF RetryInv
<1> QED BY <1>1, Sent, Retried, PTL
=============================================================================
