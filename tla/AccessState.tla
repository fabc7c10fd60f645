---------------------------- MODULE AccessState ----------------------------
(***************************************************************************)
(* What the portal keeps to let people into a precinct: the photograph of  *)
(* a customer, the photographs of the people a customer nominates, the     *)
(* copy of a customer's identity document, the bookings and tenancies they *)
(* stand on, and the runs of the job that erases them.                     *)
(*                                                                         *)
(* A booking b is also the tenancy it is converted to.  A tenancy that     *)
(* staff drafted keeps its photograph in a table of its own; a booking has *)
(* one or the other, so photo[b] is either.  Every operation on a          *)
(* photograph or copy is one transaction that locks the booking (or the    *)
(* tenancy) and reads it again, and so is one action.  A move-out or a     *)
(* transfer does not take that lock, but it neither reads nor writes what  *)
(* the operation writes: falling into it is the same as following it.      *)
(***************************************************************************)
EXTENDS Integers, FiniteSets

CONSTANTS Booking,      \* bookings, each with the tenancy it becomes
          Person,       \* rows for the people customers nominate
          Host,         \* the booking a person is nominated for
          Staff,
          Page,         \* the pages of an identity document
          Run,          \* retention runs in progress at the same time
          Batch,        \* what a run takes at a time (100 in the code)
          MaxPeople,    \* people per booking (20 in the code)
          Quotas,       \* bounds: how much may happen, one of these
          None          \* nobody

(* What may still happen: photographs of customers, nominations and         *)
(* photographs of people, identity copies; and turns of the surroundings:  *)
(* a hold extended or revived, a run failed, a policy or the switch        *)
(* changed, a heartbeat aged.                                              *)
Quota == [customer : Nat, people : Nat, copy : Nat, turns : Nat]

Subject == Booking \cup Person
Kind == {"booking", "guest", "legacy"}
Retention == {"FIXED_PERIOD", "TENANCY"}

ASSUME HostAssumption == Host \in [Person -> Booking]
ASSUME KindsAssumption == Booking \cap Person = {} /\ None \notin Staff
ASSUME LimitsAssumption ==
    /\ Batch \in Nat \ {0} /\ MaxPeople \in Nat /\ Quotas \subseteq Quota
    /\ IsFiniteSet(Person) /\ IsFiniteSet(Booking)

VARIABLES home,      \* Reservation, its lease, its tenancy and occupancy
          photo,     \* FacialPhotoSubmission, LegacyAccessPhoto, AdditionalAccessPerson
          doc,       \* IdentityDocument
          seen,      \* the previews in the audit log
          env,       \* is a photo policy configured in the environment?
          control,   \* FacialPhotoControl: the owner's switch, once used
          notice,    \* the identity policy in force, by its retention mode
          heartbeat, \* is the last clean run of a worker recent enough?
          run,       \* the retention runs in progress
          quota      \* how much may still happen

policyVars == <<env, control, notice>>
workerVars == <<heartbeat, run>>
vars == <<home, photo, doc, seen, policyVars, workerVars, quota>>

Due == {"never", "later", "past"}

Home ==
    [status : {"ACTIVE", "CONVERTED", "CANCELLED", "EXPIRED"},
     swept : BOOLEAN, hold : {"live", "past"}, lease : {"OPEN", "SIGNED", "PAID"},
     identified : BOOLEAN,   \* is an online booking an identity policy applies to
     drafted : BOOLEAN,      \* moved in by staff, with a lease of its own
     tenancy : {"NONE", "DRAFT", "ACTIVE", "NOTICE_GIVEN", "CLOSED"},
     unit : {"none", "let", "left"}, handed : BOOLEAN]

Photo ==
    [status : {"NONE", "NOMINATED", "WAITING_REVIEW", "APPROVED", "PENDING_PROVIDER",
               "REJECTED", "WITHDRAWN", "EXPIRED", "REMOVED"},
     version : Nat, image : BOOLEAN, policy : {"env", "interim", "none"},
     due : Due, reviewer : Staff \cup {None},
     intent : BOOLEAN,    \* activationRequestedAt
     bound : BOOLEAN]     \* occupancyId

Copy ==
    [status : {"NONE", "AWAITING_REVIEW", "ACCEPTED", "REPLACEMENT_REQUIRED",
               "WITHDRAWN", "EXPIRED"},
     version : Nat, pages : BOOLEAN, policy : Retention \cup {"none"},
     due : Due, reviewer : Staff \cup {None}]

RetentionRun ==
    [kind : Kind \cup {"identity"}, step : {"idle", "list", "erase", "beat"},
     todo : SUBSET Subject,
     owed : SUBSET (Subject \X Nat)]  \* seen by no code: what was due

NewBooking == [status |-> "ACTIVE", swept |-> FALSE, hold |-> "live", lease |-> "OPEN",
               identified |-> FALSE, drafted |-> FALSE, tenancy |-> "NONE",
               unit |-> "none", handed |-> FALSE]
NoPhoto == [status |-> "NONE", version |-> 0, image |-> FALSE, policy |-> "none",
            due |-> "never", reviewer |-> None, intent |-> FALSE, bound |-> FALSE]
NoCopy == [status |-> "NONE", version |-> 0, pages |-> FALSE, policy |-> "none",
           due |-> "never", reviewer |-> None]
NoRun == [kind |-> "booking", step |-> "idle", todo |-> {}, owed |-> {}]

(* The type of the state, and an image or a page only where it is waited   *)
(* for or stands approved: a rejection, a withdrawal, a removal and an     *)
(* erasure each delete what they decide on in the same transaction.        *)
TypeOK ==
    /\ home \in [Booking -> Home]
    /\ photo \in [Subject -> Photo]
    /\ doc \in [Booking -> Copy]
    /\ seen \subseteq Staff \X Subject \X Nat \X (Page \cup {"photo"})
    /\ env \in BOOLEAN /\ control \in {"unused", "on", "off"} /\ notice \in Retention
    /\ heartbeat \in [{"photo", "identity"} -> BOOLEAN]
    /\ run \in [Run -> RetentionRun]
    /\ quota \in Quota
    /\ \A s \in Subject : photo[s].image <=>
          photo[s].status \in {"WAITING_REVIEW", "APPROVED", "PENDING_PROVIDER"}
    /\ \A b \in Booking : doc[b].pages => doc[b].status \in {"AWAITING_REVIEW", "ACCEPTED"}

Init ==
    /\ home \in [Booking -> {[NewBooking EXCEPT !.identified = i] : i \in BOOLEAN}]
    /\ photo = [s \in Subject |-> NoPhoto]
    /\ doc = [b \in Booking |-> NoCopy]
    /\ seen = {}
    /\ env \in BOOLEAN /\ control = "unused" /\ notice \in Retention
    /\ heartbeat = [w \in {"photo", "identity"} |-> FALSE]
    /\ run = [r \in Run |-> NoRun]
    /\ quota \in Quotas

-----------------------------------------------------------------------------
(* The photo policy in force, and whether photographs are collected: the   *)
(* owner's switch pauses uploads and does not change the policy.           *)
PhotoPolicy == CASE control # "unused" -> "interim"
                 [] control = "unused" /\ env -> "env"
                 [] OTHER -> "none"
Collecting == (control = "on" \/ (control = "unused" /\ env)) /\ heartbeat["photo"]

Spend(what) == quota[what] > 0 /\ quota' = [quota EXCEPT ![what] = @ - 1]
Turn == Spend("turns")

Renting(b) == home[b].tenancy \in {"ACTIVE", "NOTICE_GIVEN"}

(* The customer signed online and paid, and waits for the keys or has had  *)
(* them to the very unit that was booked.                                  *)
BookingEligible(b) ==
    /\ home[b].lease = "PAID" /\ ~ home[b].drafted
    /\ \/ home[b].status = "ACTIVE"
       \/ home[b].status = "CONVERTED" /\ Renting(b) /\ home[b].unit = "let" /\ home[b].handed

(* The customer of a drafted tenancy signed its lease.                     *)
LegacyEligible(b) ==
    /\ home[b].drafted /\ home[b].lease # "OPEN"
    /\ home[b].tenancy \in {"DRAFT", "ACTIVE", "NOTICE_GIVEN"}

Lapsed(x) == x.due = "past"

(* A photograph that lets its customer have the keys. *)
ApprovedPhoto(b) ==
    /\ photo[b].status = "APPROVED" /\ photo[b].image /\ ~ Lapsed(photo[b])
    /\ photo[b].policy = PhotoPolicy

(* What an identity policy asks for before the customer signs, and before  *)
(* the keys are handed over.                                               *)
IdentityGate(b, stage) ==
    home[b].identified =>
        /\ doc[b].policy = notice
        /\ \/ doc[b].status = "ACCEPTED"
           \/ stage = "SIGN" /\ doc[b].status = "AWAITING_REVIEW"
                             /\ doc[b].pages /\ ~ Lapsed(doc[b])
=============================================================================
