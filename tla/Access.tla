------------------------------- MODULE Access -------------------------------
(***************************************************************************)
(* Photographs and identity copies along the life of their booking: signed *)
(* for, handed over, left, cancelled, revived; and the job that erases     *)
(* them.                                                                   *)
(***************************************************************************)
EXTENDS Photos, IdentityDocuments, Retention

evidence == <<photo, doc, seen, policyVars, workerVars>>

(***************************************************************************)
(* The life of a booking and of its tenancy, as far as the evidence        *)
(* depends on it; modules Bookings and Tenancies have it in full.          *)
(***************************************************************************)
SignLease(b) ==
    /\ home[b].status = "ACTIVE" /\ home[b].lease = "OPEN" /\ home[b].hold = "live"
    /\ IdentityGate(b, "SIGN")
    /\ home' = [home EXCEPT ![b].lease = "SIGNED"]
    /\ UNCHANGED <<evidence, quota>>

BookingPaid(b) ==
    /\ home[b].lease = "SIGNED" /\ home[b].status \in {"ACTIVE", "CONVERTED"}
    /\ home' = [home EXCEPT ![b].lease = "PAID"]
    /\ UNCHANGED <<evidence, quota>>

(* The end of a hold matters until the lease is signed. *)
HoldLapses(b) ==
    /\ home[b].status = "ACTIVE" /\ home[b].lease = "OPEN" /\ home[b].hold = "live"
    /\ home' = [home EXCEPT ![b].hold = "past"]
    /\ UNCHANGED <<evidence, quota>>

EndBooking(b) ==
    /\ home[b].status = "ACTIVE"
    /\ \E st \in {"CANCELLED", "EXPIRED"} : home' = [home EXCEPT ![b].status = st]
    /\ UNCHANGED <<evidence, quota>>

Sweep(b) ==
    /\ home[b].status = "ACTIVE" /\ home[b].lease = "OPEN" /\ home[b].hold = "past"
    /\ home' = [home EXCEPT ![b].status = "CANCELLED", ![b].swept = TRUE]
    /\ UNCHANGED <<evidence, quota>>

(* A lapsed hold extended by staff, or revived, even after its sweep, by   *)
(* the customer who asks for a new code.                                   *)
RenewHold(b) ==
    /\ Turn
    /\ \/ home[b].status = "ACTIVE" /\ home[b].lease = "OPEN" /\ home[b].hold = "past"
       \/ home[b].swept
    /\ home' = [home EXCEPT ![b].status = "ACTIVE", ![b].hold = "live", ![b].swept = FALSE]
    /\ UNCHANGED evidence

StaffMoveIn(b) ==
    /\ home[b].status = "ACTIVE" /\ home[b].lease = "OPEN"
    /\ home' = [home EXCEPT ![b].status = "CONVERTED", ![b].drafted = TRUE,
                            ![b].tenancy = "DRAFT", ![b].unit = "let"]
    /\ UNCHANGED <<evidence, quota>>

DraftSigned(b) ==
    /\ home[b].drafted /\ home[b].lease = "OPEN"
    /\ home' = [home EXCEPT ![b].lease = "SIGNED"]
    /\ UNCHANGED <<evidence, quota>>

GiveNotice(b) ==
    /\ home[b].tenancy = "ACTIVE"
    /\ home' = [home EXCEPT ![b].tenancy = "NOTICE_GIVEN"]
    /\ UNCHANGED <<evidence, quota>>

(* The tenancy goes on in another unit. *)
Transfer(b) ==
    /\ home[b].tenancy = "ACTIVE" /\ home[b].unit = "let"
    /\ home' = [home EXCEPT ![b].unit = "left"]
    /\ UNCHANGED <<evidence, quota>>

MoveOut(b) ==
    /\ Renting(b)
    /\ home' = [home EXCEPT ![b].tenancy = "CLOSED", ![b].unit = "left"]
    /\ UNCHANGED <<evidence, quota>>

(* The keys are handed over to an identified, photographed customer who    *)
(* signed and paid; the activation of the photograph is asked for.         *)
Activated(b, bound) ==
    photo' = [photo EXCEPT ![b].status = "PENDING_PROVIDER", ![b].intent = TRUE, ![b].bound = bound]

ConfirmMoveIn(b) ==
    /\ home[b].status = "ACTIVE" /\ home[b].lease = "PAID"
    /\ IdentityGate(b, "HANDOVER") /\ ApprovedPhoto(b)
    /\ home' = [home EXCEPT ![b].status = "CONVERTED", ![b].tenancy = "ACTIVE",
                            ![b].unit = "let", ![b].handed = TRUE]
    /\ Activated(b, TRUE)
    /\ UNCHANGED <<doc, seen, policyVars, workerVars, quota>>

ConfirmLegacyHandover(b) ==
    /\ LegacyEligible(b) /\ home[b].lease = "PAID" /\ home[b].unit = "let" /\ ~ home[b].handed
    /\ IdentityGate(b, "HANDOVER") /\ ApprovedPhoto(b)
    /\ home' = [home EXCEPT ![b].tenancy = "ACTIVE", ![b].handed = TRUE]
    /\ Activated(b, FALSE)
    /\ UNCHANGED <<doc, seen, policyVars, workerVars, quota>>

Living ==
    \E b \in Booking :
       \/ SignLease(b) \/ BookingPaid(b) \/ HoldLapses(b) \/ EndBooking(b) \/ Sweep(b)
       \/ RenewHold(b) \/ StaffMoveIn(b) \/ DraftSigned(b) \/ GiveNotice(b)
       \/ Transfer(b) \/ MoveOut(b) \/ ConfirmMoveIn(b) \/ ConfirmLegacyHandover(b)

Next == Living \/ Photographs \/ IdentityDocuments \/ Retaining

Spec == Init /\ [][Next]_vars

(* A timer calls the job every five minutes, and a call that does not fail *)
(* goes on to its end.                                                     *)
FairSpec == Spec /\ \A r \in Run : WF_vars(RunSteps(r))

-----------------------------------------------------------------------------
(* What staff approved they saw: a photograph stands as approved, and an   *)
(* identity as accepted, only if the person who decided had opened that    *)
(* very version, and every page of it, however often it was replaced       *)
(* between the preview and the decision (reviewFacialPhoto,                *)
(* reviewLegacyPhoto, reviewAdditionalPhoto, reviewIdentity).              *)
ApprovedWasSeen ==
    /\ \A s \in Subject : photo[s].status \in {"APPROVED", "PENDING_PROVIDER"} =>
          <<photo[s].reviewer, s, photo[s].version, "photo">> \in seen
    /\ \A b \in Booking : doc[b].status = "ACCEPTED" =>
          \A page \in Page : <<doc[b].reviewer, b, doc[b].version, page>> \in seen

(* An activation that was asked for stands on a photograph that is there,  *)
(* approved and not withdrawn, of a customer who has the keys: withdrawal, *)
(* replacement and erasure all take the request back                       *)
(* (requestPhotoActivation, withdrawTenantPhoto, expireFacialPhotos).      *)
IntentStands ==
    \A s \in Subject :
       /\ photo[s].intent <=> photo[s].status = "PENDING_PROVIDER"
       /\ photo[s].intent => photo[s].image /\ home[s].handed

(* A customer to whom an identity policy applies has the keys only with an *)
(* accepted document, and it stays accepted: what customer, staff, worker  *)
(* and a new policy do afterwards does not undo it (identityGate,          *)
(* reviewIdentity, expireIdentityDocuments).                               *)
HandedOverWasIdentified ==
    \A b \in Booking : home[b].identified /\ home[b].handed => doc[b].status = "ACCEPTED"

(* No more people on a booking than the limit, whoever is removed and      *)
(* photographed at the same time; and nothing is kept of somebody removed  *)
(* (nominateAdditionalAccessPerson, removeAdditionalAccessPerson,          *)
(* captureAdditionalPhoto).                                                *)
PeopleBounded ==
    /\ \A b \in Booking : Cardinality(OnList(b)) <= MaxPeople
    /\ \A p \in Person : photo[p].status = "REMOVED" => ~ photo[p].image

(* The job erases only what is due at that moment: a photograph replaced,  *)
(* a hold extended or revived, or a lease signed after the job listed the  *)
(* candidate saves it (expireFacialPhotos, expireLegacyPhotos,             *)
(* expireIdentityDocuments).                                               *)
KeptUntilDue ==
    [][/\ \A s \in Subject : photo[s].image /\ photo'[s].status = "EXPIRED" =>
             \E kind \in Kind : s \in DueOf(kind)
       /\ \A b \in Booking : doc[b].pages /\ ~ doc'[b].pages
                             /\ doc'[b].status \in {"EXPIRED", "ACCEPTED"} => DueCopy(b)]_vars

(* The heartbeat that lets photographs be collected says that the backlog  *)
(* was worked off: of what was due when its run looked, nothing is left    *)
(* (expireFacialPhotos).                                                   *)
HeartbeatMeansClean ==
    [][\A r \in Run : run[r].step = "beat" /\ run[r].kind # "identity" /\ heartbeat'["photo"]
                      /\ run'[r].step # "beat"
          => \A o \in run[r].owed : photo[o[1]].version = o[2] => ~ photo[o[1]].image]_vars

(* Nothing that is due is kept for ever, however many runs fail and        *)
(* whatever arrives meanwhile: no photograph, and no copy of an identity   *)
(* document, though the request reaches the copies only when the           *)
(* photographs left no backlog (the expire route and its timer).           *)
ErasedEventually ==
    /\ \A s \in Subject :
          LET b == IF s \in Person THEN Host[s] ELSE s IN
          []<>~ (photo[s].image /\ (BookingOver(b) \/ TenancyOver(b) \/ Lapsed(photo[s])))
    /\ \A b \in Booking :
          []<>~ (doc[b].pages /\ (BookingOver(b) \/ TenancyOver(b) \/ Lapsed(doc[b])))

(* What the interim notice tells the customer: the photograph is kept      *)
(* while booking and tenancy remain active (facial-photo-control).         *)
PhotoKeptWhileRenting ==
    [][\A b \in Booking :
          photo[b].image /\ photo[b].policy = "interim" /\ photo'[b].status = "EXPIRED"
          => ~ (home[b].status = "ACTIVE" \/ Renting(b))]_vars
=============================================================================
