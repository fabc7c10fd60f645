--------------------------- MODULE DeliveryState ----------------------------
(***************************************************************************)
(* Messages to customers and staff: notifications kept in the              *)
(* communication log, staff event e-mails kept in an outbox, and           *)
(* collection notices.  Each is a row that a process claims, hands to the  *)
(* provider outside any transaction, and closes with the answer.           *)
(*                                                                         *)
(* An operator whose name says how it goes wrong (ClaimStuck, NoPrior) is  *)
(* a slip of the operator after it, for comparison; the specification does *)
(* not use it.                                                             *)
(***************************************************************************)
EXTENDS Naturals, FiniteSets

CONSTANTS
    Sms,            \* notifications sent as a text, or an e-mail
    WhatsApp,       \* notifications sent through WhatsApp, which staff may retry
    Email,          \* a staff event and one of its recipients
    Policy,         \* staff e-mail policies
    Account,        \* accounts in collections
    Staff,          \* who prepares and approves notices
    Proc,           \* processes: requests and worker ticks
    MaxDay,         \* bound: days in collections
    MaxText,        \* bound: versions of what a message says
    None

ASSUME BoundAssumption == MaxDay \in Nat \ {0} /\ MaxText \in Nat \ {0}
ASSUME ChannelAssumption == (Sms \cup WhatsApp) \cap Account = {}

(* A retry of a WhatsApp message is a log row of its own. *)
Attempt == (Sms \X {"first"}) \cup (WhatsApp \X {"first", "retry"})
Day == 1 .. MaxDay
Notice == Account \X Day      \* one notice for an account and a day
Message == Attempt \cup Email \cup Notice

ASSUME EmailAssumption == \A e \in Email : e \notin Attempt /\ e \notin Notice

Text == 0 .. MaxText
Blank == 0                    \* a template without its variables

(* The three ways share no row; a behaviour is about one of them. *)
Channel == {"log", "mail", "notice"}

LogStatus == {"NONE", "PENDING", "PROCESSING", "SUCCEEDED", "FAILED"}
Outcome == {"NONE", "IN_PROGRESS", "ACCEPTED", "UNCERTAIN", "REJECTED"}
Event == {"sent", "delivered", "failed"}
MailStatus == {"NONE", "HELD_ACTIVATION", "SENDING", "ACCEPTED", "REVIEW_REQUIRED"}
NoticeStatus == {"NONE", "DRAFT", "APPROVED", "SENDING", "ACCEPTED", "REVIEW_REQUIRED", "CANCELLED"}
PolicyStatus == {"NONE", "PENDING_REVIEW", "APPROVED", "REJECTED", "CANCELLED"}

VARIABLES
    channel,    \* which of the three this behaviour is about
    log,        \* communication log: an attempt's row, and what the provider reported of it
    told,       \* texts a caller was told are sent
    mail,       \* staff e-mail outbox rows
    policy,     \* staff e-mail policies; sound while people, sender and window are as reviewed
    notice,     \* collection notices; bound to the day's run, or prepared by hand
    plan, run,  \* the collection schedule and its run of a day
    day,
    source,     \* version of what an e-mail's event, or an account, says now
    owing,      \* accounts a notice may be sent to
    sender,     \* what a process is doing
    handed,     \* how often a message was put to the provider
    taken       \* texts the provider took

logVars == <<log, told>>
mailVars == <<mail, policy>>
noticeVars == <<notice, plan, run, day, owing>>
wire == <<handed, taken>>
vars == <<channel, log, told, mail, policy, notice, plan, run, day, source, owing,
          sender, handed, taken>>

LogRow == [status : LogStatus, outcome : Outcome, text : Text,
           delivered : BOOLEAN, failed : BOOLEAN, events : SUBSET Event]
MailRow == [status : MailStatus, policy : Policy \cup {None}, text : Text]
NoticeRow == [status : NoticeStatus, text : Text, contributors : SUBSET Staff, bound : BOOLEAN]

NoLog == [status |-> "NONE", outcome |-> "NONE", text |-> Blank,
          delivered |-> FALSE, failed |-> FALSE, events |-> {}]
NoMail == [status |-> "NONE", policy |-> None, text |-> Blank]
NoNotice == [status |-> "NONE", text |-> Blank, contributors |-> {}, bound |-> FALSE]

ANSWER == {"accepted", "rejected", "unknown"}

(* tick: the policy, or the day, whose rows a worker goes through. *)
Sender == [step : {"idle", "listing", "retrying", "claimed", "checked"} \cup ANSWER,
           key : Message \cup {None}, work : SUBSET (Email \cup Notice),
           tick : Policy \cup Day \cup {None}]
Idle == [step |-> "idle", key |-> None, work |-> {}, tick |-> None]

(* A worker goes on with the rest of its rows, if any is left. *)
Onwards(w, t) == IF w = {} THEN Idle ELSE [Idle EXCEPT !.work = w, !.tick = t]

Init ==
    /\ channel \in Channel
    /\ log = [k \in Attempt |-> NoLog]
    /\ told = [k \in Attempt |-> {}]
    /\ mail = [k \in Email |-> NoMail]
    /\ policy = [g \in Policy |-> [status |-> "NONE", sound |-> TRUE]]
    /\ notice = [k \in Notice |-> NoNotice]
    /\ plan = [status |-> "NONE", creator |-> None]
    /\ run = [d \in Day |-> [status |-> "NONE", items |-> {}]]
    /\ day = 1
    /\ source = [x \in Email \cup Account |-> 1]
    /\ owing = Account
    /\ sender = [p \in Proc |-> Idle]
    /\ handed = [k \in Message |-> 0]
    /\ taken = [k \in Message |-> {}]

TypeOK ==
    /\ channel \in Channel
    /\ log \in [Attempt -> LogRow]
    /\ told \in [Attempt -> SUBSET Text]
    /\ mail \in [Email -> MailRow]
    /\ policy \in [Policy -> [status : PolicyStatus, sound : BOOLEAN]]
    /\ notice \in [Notice -> NoticeRow]
    /\ plan \in [status : {"NONE", "ACTIVE", "CANCELLED"}, creator : Staff \cup {None}]
    /\ run \in [Day -> [status : PolicyStatus, items : SUBSET Account]]
    /\ day \in Day
    /\ source \in [Email \cup Account -> Text]
    /\ owing \in SUBSET Account
    /\ sender \in [Proc -> Sender]
    /\ handed \in [Message -> Nat]
    /\ taken \in [Message -> SUBSET Text]
=============================================================================
