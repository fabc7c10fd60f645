---------------------------- MODULE AccessProofs ----------------------------
(***************************************************************************)
(* What holds of the access evidence for any number of bookings, people,   *)
(* staff, pages and overlapping runs.                                      *)
(***************************************************************************)
EXTENDS Access, FiniteSetTheorems, TLAPS

-----------------------------------------------------------------------------
(* The parts of the type invariant. *)
PhotosOK ==
    /\ photo \in [Subject -> Photo]
    /\ \A s \in Subject : photo[s].image <=>
          photo[s].status \in {"WAITING_REVIEW", "APPROVED", "PENDING_PROVIDER"}

CopiesOK ==
    /\ doc \in [Booking -> Copy]
    /\ \A b \in Booking : doc[b].pages => doc[b].status \in {"AWAITING_REVIEW", "ACCEPTED"}

RestOK ==
    /\ seen \subseteq Staff \X Subject \X Nat \X (Page \cup {"photo"})
    /\ env \in BOOLEAN /\ control \in {"unused", "on", "off"} /\ notice \in Retention
    /\ heartbeat \in [{"photo", "identity"} -> BOOLEAN]
    /\ run \in [Run -> RetentionRun]
    /\ quota \in Quota

(* ... and that they are the parts. *)
LEMMA Parts == TypeOK <=> home \in [Booking -> Home] /\ PhotosOK /\ CopiesOK /\ RestOK
BY DEF TypeOK, PhotosOK, CopiesOK, RestOK

(* The booking a photograph depends on. *)
HostOf(s) == IF s \in Person THEN Host[s] ELSE s

(* What a step does to the photograph of s: its columns that matter stay,  *)
(* ...                                                                     *)
Stays(s) ==
    /\ photo'[s].status = photo[s].status /\ photo'[s].version = photo[s].version
    /\ photo'[s].image = photo[s].image /\ photo'[s].reviewer = photo[s].reviewer
    /\ photo'[s].intent = photo[s].intent /\ photo'[s].bound = photo[s].bound
    /\ photo[s].due = "past" => photo'[s].due = "past"

(* ... or a person is put on the list, ...                                 *)
Listed(s) ==
    /\ s \in Person /\ Nominate(s)
    /\ photo'[s].status = "NOMINATED" /\ ~ photo'[s].image /\ photo'[s].intent = photo[s].intent
    /\ photo'[s].version = photo[s].version

(* ... or a new version waits for review, ...                              *)
Waits(s) ==
    /\ photo'[s].status = "WAITING_REVIEW" /\ photo'[s].image /\ ~ photo'[s].intent
    /\ ~ photo'[s].bound /\ photo'[s].version = photo[s].version + 1
    /\ home[HostOf(s)].lease # "OPEN"
    /\ s \in Person => photo[s].status \notin {"NONE", "REMOVED"}

(* ... or it is approved by somebody who had opened it, ...                *)
Approves(s) ==
    /\ photo[s].status = "WAITING_REVIEW" /\ photo[s].image /\ photo'[s].image
    /\ photo'[s].version = photo[s].version /\ photo'[s].due = photo[s].due
    /\ <<photo'[s].reviewer, s, photo[s].version, "photo">> \in seen
    /\ \/ photo'[s].status = "APPROVED" /\ photo'[s].intent = FALSE
          /\ photo'[s].bound \in {FALSE, photo[s].bound}
       \/ photo'[s].status = "PENDING_PROVIDER" /\ photo'[s].intent = TRUE
          /\ s \in Booking /\ home[s].handed

(* ... or its activation is asked for with the keys, ...                   *)
Activates(s) ==
    /\ s \in Booking /\ photo[s].status = "APPROVED" /\ photo'[s].status = "PENDING_PROVIDER"
    /\ photo[s].image /\ photo'[s].image /\ photo'[s].intent = TRUE /\ home'[s].handed
    /\ photo'[s].version = photo[s].version /\ photo'[s].reviewer = photo[s].reviewer
    /\ photo'[s].due = photo[s].due

(* ... or it is rejected, withdrawn or removed, ...                        *)
Ends(s) ==
    /\ photo'[s].status \in {"REJECTED", "WITHDRAWN", "REMOVED", "NOMINATED"}
    /\ ~ photo'[s].image /\ ~ photo'[s].intent /\ photo'[s].version = photo[s].version
    /\ s \in Person => photo[s].status \notin {"NONE", "REMOVED"}

(* ... or it is erased because it is due.                                  *)
Erases(s) ==
    /\ photo'[s].status = "EXPIRED" /\ ~ photo'[s].image /\ ~ photo'[s].intent
    /\ photo'[s].version = photo[s].version
    /\ photo[s].image /\ \E kind \in Kind : s \in DueOf(kind)

PhotoStep(s) ==
    Stays(s) \/ Listed(s) \/ Waits(s) \/ Approves(s) \/ Activates(s) \/ Ends(s) \/ Erases(s)

(* Guests are never activated: no operation on people asks for it.         *)
IntentInv ==
    \A s \in Subject :
       /\ photo[s].intent <=> photo[s].status = "PENDING_PROVIDER"
       /\ photo[s].intent => s \in Booking /\ photo[s].image /\ home[s].handed

-----------------------------------------------------------------------------
(* Writing one row of the photographs. *)
LEMMA PhotoWritten ==
  ASSUME PhotosOK, NEW s \in Subject, NEW q \in Photo,
         q.image <=> q.status \in {"WAITING_REVIEW", "APPROVED", "PENDING_PROVIDER"},
         photo' = [photo EXCEPT ![s] = q]
  PROVE  /\ PhotosOK' /\ photo'[s] = q
         /\ \A x \in Subject : x # s => Stays(x)
<1>1. photo' \in [Subject -> Photo] /\ photo'[s] = q
  BY DEF PhotosOK
<1>2. \A x \in Subject : x # s => photo'[x] = photo[x]
  BY DEF PhotosOK
<1> QED BY <1>1, <1>2 DEF PhotosOK, Stays

(* The columns of a row that its step writes, and the ones it leaves.      *)
LEMMA PhotoColumns ==
  ASSUME PhotosOK, NEW s \in Subject
  PROVE  /\ photo[s] \in Photo /\ photo[s].version \in Nat
         /\ photo[s].intent \in BOOLEAN /\ photo[s].image \in BOOLEAN
BY DEF PhotosOK, Photo

(* A photograph submitted, or taken of a person. *)
LEMMA SubmitSteps ==
  ASSUME PhotosOK, NEW s \in Subject, NEW policy \in {"env", "interim", "none"}, NEW due \in Due,
         Submitted(s, policy, due), home[HostOf(s)].lease # "OPEN",
         s \in Person => photo[s].status \notin {"NONE", "REMOVED"}
  PROVE  PhotosOK' /\ \A x \in Subject : PhotoStep(x)
<1> DEFINE q == [NoPhoto EXCEPT !.status = "WAITING_REVIEW", !.version = photo[s].version + 1,
                                !.image = TRUE, !.policy = policy, !.due = due]
<1>1. photo[s].version + 1 \in Nat
  BY PhotoColumns
<1>2. q \in Photo
  BY <1>1 DEF Photo, NoPhoto
<1>3. /\ q.status = "WAITING_REVIEW" /\ q.image = TRUE /\ q.intent = FALSE
      /\ q.bound = FALSE /\ q.version = photo[s].version + 1
  BY DEF NoPhoto
<1>4. photo' = [photo EXCEPT ![s] = q]
  BY DEF Submitted
<1> HIDE DEF q
<1> QED BY <1>2, <1>3, <1>4, PhotoWritten DEF PhotoStep, Waits

(* A customer withdraws. *)
LEMMA WithdrawSteps ==
  ASSUME PhotosOK, NEW b \in Booking, WithdrawPhoto(b), b \notin Person
  PROVE  PhotosOK' /\ \A x \in Subject : PhotoStep(x)
<1> DEFINE q == [photo[b] EXCEPT !.status = "WITHDRAWN", !.image = FALSE, !.reviewer = None,
                                 !.intent = FALSE]
<1>1. b \in Subject /\ photo[b] \in Photo
  BY PhotoColumns DEF Subject
<1>2. q \in Photo
  BY <1>1 DEF Photo
<1>3. /\ q.status = "WITHDRAWN" /\ q.image = FALSE /\ q.intent = FALSE
      /\ q.version = photo[b].version
  BY <1>1 DEF Photo
<1>4. photo' = [photo EXCEPT ![b] = q]
  BY <1>1 DEF WithdrawPhoto, PhotosOK
<1> HIDE DEF q
<1> QED BY <1>1, <1>2, <1>3, <1>4, PhotoWritten DEF PhotoStep, Ends

(* Staff reject. *)
LEMMA RejectSteps ==
  ASSUME PhotosOK, IntentInv, NEW s \in Subject, NEW st \in Staff, Rejected(st, s),
         photo[s].status = "WAITING_REVIEW"
  PROVE  PhotosOK' /\ \A x \in Subject : PhotoStep(x)
<1> DEFINE q == [photo[s] EXCEPT !.status = "REJECTED", !.reviewer = st, !.image = FALSE]
<1>1. photo[s] \in Photo
  BY PhotoColumns
<1>2. q \in Photo
  BY <1>1 DEF Photo
<1>3. /\ q.status = "REJECTED" /\ q.image = FALSE /\ q.intent = photo[s].intent
      /\ q.version = photo[s].version
  BY <1>1 DEF Photo
<1>4. photo' = [photo EXCEPT ![s] = q]
  BY DEF Rejected, PhotosOK
<1>5. ~ photo[s].intent
  BY DEF IntentInv
<1> HIDE DEF q
<1> QED BY <1>1, <1>2, <1>3, <1>4, <1>5, PhotoWritten DEF PhotoStep, Ends

(* Staff approve, before and after the keys are handed over. *)
LEMMA ApproveSteps ==
  ASSUME PhotosOK, home \in [Booking -> Home], NEW st \in Staff, NEW b \in Booking, ApprovePhoto(st, b)
  PROVE  PhotosOK' /\ \A x \in Subject : PhotoStep(x)
<1> DEFINE handed == home[b].handed
           bound == handed /\ ~ home[b].drafted
           status == IF handed THEN "PENDING_PROVIDER" ELSE "APPROVED"
           q == [photo[b] EXCEPT !.reviewer = st, !.status = status, !.intent = handed, !.bound = bound]
<1>1. b \in Subject /\ photo[b] \in Photo /\ handed \in BOOLEAN
  BY PhotoColumns DEF Subject, Home
<1>a. bound \in BOOLEAN
  BY <1>1 DEF Home
<1>b. status \in {"PENDING_PROVIDER", "APPROVED"} /\ (status = "PENDING_PROVIDER" <=> handed)
  OBVIOUS
<1>4. photo' = [photo EXCEPT ![b] = q]
  BY <1>1 DEF ApprovePhoto, PhotosOK
<1>c. home[b].handed = handed /\ (~ handed => bound = FALSE)
  OBVIOUS
<1> HIDE DEF handed, bound, status
<1>2. q \in Photo
  BY <1>1, <1>a, <1>b DEF Photo
<1>3. /\ q.status = status /\ q.image = photo[b].image /\ q.intent = handed /\ q.reviewer = st
      /\ q.version = photo[b].version /\ q.due = photo[b].due /\ q.bound = bound
  BY <1>1 DEF Photo
<1>5. /\ photo[b].image /\ photo[b].status = "WAITING_REVIEW"
      /\ <<st, b, photo[b].version, "photo">> \in seen
  BY DEF ApprovePhoto, Readable, Previewed
<1> HIDE DEF q
<1>6. PhotosOK' /\ photo'[b] = q /\ \A x \in Subject : x # b => Stays(x)
  BY <1>1, <1>2, <1>3, <1>4, <1>5, <1>b, PhotoWritten
<1>7. Approves(b)
  <2>1. CASE handed
    BY <2>1, <1>3, <1>5, <1>6, <1>b, <1>c DEF Approves
  <2>2. CASE ~ handed
    <3>1. q.status = "APPROVED"
      BY <2>2, <1>3, <1>b
    <3>2. q.intent = FALSE
      BY <2>2, <1>1, <1>3
    <3>3. q.bound = FALSE
      BY <2>2, <1>3, <1>c
    <3> QED BY <3>1, <3>2, <3>3, <1>3, <1>5, <1>6 DEF Approves
  <2> QED BY <2>1, <2>2
<1> QED BY <1>6, <1>7 DEF PhotoStep

(* A person is nominated. *)
LEMMA NominateSteps ==
  ASSUME PhotosOK, NEW p \in Person, Nominate(p)
  PROVE  PhotosOK' /\ \A x \in Subject : PhotoStep(x)
<1> DEFINE q == [photo[p] EXCEPT !.status = "NOMINATED"]
<1>1. p \in Subject /\ photo[p] \in Photo /\ ~ photo[p].image
  BY PhotoColumns DEF Subject, PhotosOK, Nominate
<1>2. q \in Photo
  BY <1>1 DEF Photo
<1>3. /\ q.status = "NOMINATED" /\ q.image = photo[p].image /\ q.intent = photo[p].intent
      /\ q.version = photo[p].version
  BY <1>1 DEF Photo
<1>4. photo' = [photo EXCEPT ![p] = q]
  BY <1>1 DEF Nominate, PhotosOK
<1> HIDE DEF q
<1> QED BY <1>1, <1>2, <1>3, <1>4, PhotoWritten DEF PhotoStep, Listed

(* A person is removed, or withdraws the photograph. *)
LEMMA RemoveSteps ==
  ASSUME PhotosOK, IntentInv, NEW p \in Person, p \notin Booking,
         RemovePerson(p) \/ WithdrawPerson(p)
  PROVE  PhotosOK' /\ \A x \in Subject : PhotoStep(x)
<1> DEFINE q(status) == [photo[p] EXCEPT !.status = status, !.image = FALSE, !.reviewer = None]
<1>1. p \in Subject /\ photo[p] \in Photo /\ ~ photo[p].intent
  BY PhotoColumns DEF Subject, IntentInv
<1>2. \A status \in {"REMOVED", "NOMINATED"} : q(status) \in Photo
  BY <1>1 DEF Photo
<1>3. \A status \in {"REMOVED", "NOMINATED"} :
         /\ q(status).status = status /\ q(status).image = FALSE
         /\ q(status).intent = photo[p].intent /\ q(status).version = photo[p].version
  BY <1>1 DEF Photo
<1>4. PICK status \in {"REMOVED", "NOMINATED"} : photo' = [photo EXCEPT ![p] = q(status)]
  BY <1>1 DEF RemovePerson, WithdrawPerson, PhotosOK
<1>5. photo[p].status \notin {"NONE", "REMOVED"}
  BY DEF RemovePerson, WithdrawPerson
<1> HIDE DEF q
<1> QED BY <1>1, <1>2, <1>3, <1>4, <1>5, PhotoWritten DEF PhotoStep, Ends

(* The photograph of a person is approved. *)
LEMMA ApprovePersonSteps ==
  ASSUME PhotosOK, IntentInv, NEW st \in Staff, NEW p \in Person, ApprovePerson(st, p)
  PROVE  PhotosOK' /\ \A x \in Subject : PhotoStep(x)
<1> DEFINE q == [photo[p] EXCEPT !.status = "APPROVED", !.reviewer = st]
<1>1. /\ p \in Subject /\ photo[p] \in Photo /\ photo[p].image
      /\ photo[p].status = "WAITING_REVIEW" /\ <<st, p, photo[p].version, "photo">> \in seen
  BY PhotoColumns DEF Subject, ApprovePerson, Reviewable, Readable, Previewed
<1>2. q \in Photo
  BY <1>1 DEF Photo
<1>3. /\ q.status = "APPROVED" /\ q.image = photo[p].image /\ q.intent = photo[p].intent
      /\ q.version = photo[p].version /\ q.reviewer = st /\ q.due = photo[p].due
      /\ q.bound = photo[p].bound
  BY <1>1 DEF Photo
<1>4. photo' = [photo EXCEPT ![p] = q]
  BY <1>1 DEF ApprovePerson, PhotosOK
<1>5. photo[p].intent = FALSE
  BY <1>1, PhotoColumns DEF IntentInv
<1> HIDE DEF q
<1> QED BY <1>1, <1>2, <1>3, <1>4, <1>5, PhotoWritten DEF PhotoStep, Approves

(* The activation is asked for. *)
LEMMA ActivateSteps ==
  ASSUME PhotosOK, NEW b \in Booking, NEW bound \in BOOLEAN, Activated(b, bound),
         photo[b].status = "APPROVED", photo[b].image, home'[b].handed
  PROVE  PhotosOK' /\ \A x \in Subject : PhotoStep(x)
<1> DEFINE q == [photo[b] EXCEPT !.status = "PENDING_PROVIDER", !.intent = TRUE, !.bound = bound]
<1>1. b \in Subject /\ photo[b] \in Photo
  BY PhotoColumns DEF Subject
<1>2. q \in Photo
  BY <1>1 DEF Photo
<1>3. /\ q.status = "PENDING_PROVIDER" /\ q.image = photo[b].image /\ q.intent = TRUE
      /\ q.version = photo[b].version /\ q.reviewer = photo[b].reviewer
      /\ q.due = photo[b].due
  BY <1>1 DEF Photo
<1>4. photo' = [photo EXCEPT ![b] = q]
  BY <1>1 DEF Activated, PhotosOK
<1> HIDE DEF q
<1> QED BY <1>1, <1>2, <1>3, <1>4, PhotoWritten DEF PhotoStep, Activates

(* The job erases. *)
LEMMA EraseSteps ==
  ASSUME PhotosOK, NEW s \in Subject, NEW kind \in Kind, s \in DueOf(kind), photo[s].image,
         ErasedPhoto(s)
  PROVE  PhotosOK' /\ \A x \in Subject : PhotoStep(x)
<1> DEFINE q == [photo[s] EXCEPT !.status = "EXPIRED", !.image = FALSE, !.reviewer = None,
                                 !.intent = FALSE]
<1>1. photo[s] \in Photo
  BY PhotoColumns
<1>2. q \in Photo
  BY <1>1 DEF Photo
<1>3. /\ q.status = "EXPIRED" /\ q.image = FALSE /\ q.intent = FALSE
      /\ q.version = photo[s].version
  BY <1>1 DEF Photo
<1>4. photo' = [photo EXCEPT ![s] = q]
  BY <1>1 DEF ErasedPhoto, PhotosOK
<1> HIDE DEF q
<1>5. PhotosOK' /\ photo'[s] = q /\ \A x \in Subject : x # s => Stays(x)
  BY <1>2, <1>3, <1>4, PhotoWritten
<1>6. Erases(s)
  BY <1>3, <1>5 DEF Erases
<1> QED BY <1>5, <1>6 DEF PhotoStep

(* The hours of a photograph run out. *)
LEMMA LapseSteps ==
  ASSUME PhotosOK, NEW s \in Subject, photo' = [photo EXCEPT ![s].due = "past"]
  PROVE  PhotosOK' /\ \A x \in Subject : PhotoStep(x)
<1> DEFINE q == [photo[s] EXCEPT !.due = "past"]
<1>1. photo[s] \in Photo
  BY PhotoColumns
<1>2. q \in Photo
  BY <1>1 DEF Photo, Due
<1>3. /\ q.status = photo[s].status /\ q.image = photo[s].image /\ q.intent = photo[s].intent
      /\ q.version = photo[s].version /\ q.reviewer = photo[s].reviewer
      /\ q.bound = photo[s].bound /\ q.due = "past"
  BY <1>1 DEF Photo
<1>4. photo' = [photo EXCEPT ![s] = q]
  BY <1>1 DEF PhotosOK
<1>5. q.image <=> q.status \in {"WAITING_REVIEW", "APPROVED", "PENDING_PROVIDER"}
  BY <1>3 DEF PhotosOK
<1> HIDE DEF q
<1>6. PhotosOK' /\ photo'[s] = q /\ \A x \in Subject : x # s => Stays(x)
  BY <1>2, <1>4, <1>5, PhotoWritten
<1>7. Stays(s)
  BY <1>3, <1>6 DEF Stays
<1> QED BY <1>6, <1>7 DEF PhotoStep

(* A step that leaves the photographs alone. *)
LEMMA IdleSteps ==
  ASSUME PhotosOK, UNCHANGED photo
  PROVE  PhotosOK' /\ \A x \in Subject : PhotoStep(x)
BY DEF PhotosOK, PhotoStep, Stays

(* Taken together: what any step does to the photographs.                  *)
LEMMA PhotographSteps ==
  ASSUME TypeOK, IntentInv, Photographs
  PROVE  PhotosOK' /\ \A x \in Subject : PhotoStep(x)
<1>1. PhotosOK /\ home \in [Booking -> Home]
  BY Parts
<1>2. Booking \cap Person = {} /\ Booking \subseteq Subject /\ Person \subseteq Subject
  BY KindsAssumption DEF Subject
<1>3. ASSUME NEW b \in Booking, SubmitPhoto(b) PROVE PhotosOK' /\ \A x \in Subject : PhotoStep(x)
  <2>1. PICK due \in {"later", "never"} : due = IF PhotoPolicy = "env" THEN "later" ELSE "never"
    OBVIOUS
  <2>2. PICK policy \in {"env", "interim", "none"} : policy = PhotoPolicy
    BY DEF PhotoPolicy
  <2>3. Submitted(b, policy, due)
    BY <1>3, <2>1, <2>2 DEF SubmitPhoto
  <2>4. home[HostOf(b)].lease # "OPEN"
    BY <1>2, <1>3 DEF SubmitPhoto, BookingEligible, HostOf
  <2> QED BY <1>1, <1>2, <2>3, <2>4, SubmitSteps DEF Due
<1>4. ASSUME NEW p \in Person, CapturePhoto(p) PROVE PhotosOK' /\ \A x \in Subject : PhotoStep(x)
  <2>1. Submitted(p, "env", "later") /\ photo[p].status \notin {"NONE", "REMOVED"}
    BY <1>4 DEF CapturePhoto, Capturable
  <2>2. home[HostOf(p)].lease # "OPEN"
    BY <1>4 DEF CapturePhoto, BookingEligible, HostOf
  <2> QED BY <1>1, <1>2, <2>1, <2>2, SubmitSteps DEF Due
<1>5. ASSUME NEW b \in Booking, WithdrawPhoto(b) PROVE PhotosOK' /\ \A x \in Subject : PhotoStep(x)
  BY <1>1, <1>2, <1>5, WithdrawSteps
<1>6. ASSUME NEW st \in Staff, NEW b \in Booking, ApprovePhoto(st, b)
      PROVE PhotosOK' /\ \A x \in Subject : PhotoStep(x)
  BY <1>1, <1>6, ApproveSteps
<1>7. ASSUME NEW st \in Staff, NEW b \in Booking, RejectPhoto(st, b)
      PROVE PhotosOK' /\ \A x \in Subject : PhotoStep(x)
  BY <1>1, <1>2, <1>7, RejectSteps DEF RejectPhoto
<1>8. ASSUME NEW st \in Staff, NEW p \in Person, RejectPerson(st, p)
      PROVE PhotosOK' /\ \A x \in Subject : PhotoStep(x)
  BY <1>1, <1>2, <1>8, RejectSteps DEF RejectPerson, Reviewable
<1>9. ASSUME NEW p \in Person, Nominate(p) PROVE PhotosOK' /\ \A x \in Subject : PhotoStep(x)
  BY <1>1, <1>9, NominateSteps
<1>10. ASSUME NEW p \in Person, RemovePerson(p) \/ WithdrawPerson(p)
       PROVE PhotosOK' /\ \A x \in Subject : PhotoStep(x)
  BY <1>1, <1>2, <1>10, RemoveSteps
<1>11. ASSUME NEW st \in Staff, NEW p \in Person, ApprovePerson(st, p)
       PROVE PhotosOK' /\ \A x \in Subject : PhotoStep(x)
  BY <1>1, <1>11, ApprovePersonSteps
<1>12. ASSUME NEW st \in Staff, NEW s \in Subject,
              PreviewPhoto(st, s) \/ PreviewPerson(st, s)
       PROVE PhotosOK' /\ \A x \in Subject : PhotoStep(x)
  BY <1>1, <1>12, IdleSteps DEF PreviewPhoto, PreviewPerson
<1>13. ASSUME NEW on \in BOOLEAN, SetPhotoCollection(on)
       PROVE PhotosOK' /\ \A x \in Subject : PhotoStep(x)
  BY <1>1, <1>13, IdleSteps DEF SetPhotoCollection
<1>14. CASE \E b \in Booking : SubmitPhoto(b) \/ WithdrawPhoto(b)
  BY <1>3, <1>5, <1>14
<1>15. CASE \E st \in Staff, b \in Booking : PreviewPhoto(st, b) \/ ApprovePhoto(st, b) \/ RejectPhoto(st, b)
  BY <1>2, <1>6, <1>7, <1>12, <1>15
<1>16. CASE \E p \in Person : Nominate(p) \/ RemovePerson(p) \/ CapturePhoto(p) \/ WithdrawPerson(p)
  BY <1>4, <1>9, <1>10, <1>16
<1>17. CASE \E st \in Staff, p \in Person : PreviewPerson(st, p) \/ ApprovePerson(st, p) \/ RejectPerson(st, p)
  BY <1>2, <1>8, <1>11, <1>12, <1>17
<1> QED BY <1>13, <1>14, <1>15, <1>16, <1>17 DEF Photographs

(* Handing over the keys activates; the rest of a booking's life leaves    *)
(* its photographs alone.                                                  *)
LEMMA LivingSteps ==
  ASSUME TypeOK, Living
  PROVE  PhotosOK' /\ \A x \in Subject : PhotoStep(x)
<1>1. PhotosOK /\ home \in [Booking -> Home]
  BY Parts
<1>2. PICK b \in Booking :
         \/ SignLease(b) \/ BookingPaid(b) \/ HoldLapses(b) \/ EndBooking(b) \/ Sweep(b)
         \/ RenewHold(b) \/ StaffMoveIn(b) \/ DraftSigned(b) \/ GiveNotice(b)
         \/ Transfer(b) \/ MoveOut(b) \/ ConfirmMoveIn(b) \/ ConfirmLegacyHandover(b)
  BY DEF Living
<1>3. CASE ConfirmMoveIn(b) \/ ConfirmLegacyHandover(b)
  <2>1. home[b] \in Home /\ photo[b].status = "APPROVED" /\ photo[b].image
    BY <1>1, <1>3 DEF ConfirmMoveIn, ConfirmLegacyHandover, ApprovedPhoto
  <2>2. home'[b].handed = TRUE
    <3>1. CASE ConfirmMoveIn(b)
      <4>1. home' = [home EXCEPT ![b] = [home[b] EXCEPT !.status = "CONVERTED", !.tenancy = "ACTIVE",
                                                        !.unit = "let", !.handed = TRUE]]
        BY <1>1, <3>1 DEF ConfirmMoveIn
      <4>2. home'[b] = [home[b] EXCEPT !.status = "CONVERTED", !.tenancy = "ACTIVE",
                                       !.unit = "let", !.handed = TRUE]
        BY <1>1, <4>1
      <4> QED BY <2>1, <4>2 DEF Home
    <3>2. CASE ConfirmLegacyHandover(b)
      <4>1. home' = [home EXCEPT ![b] = [home[b] EXCEPT !.tenancy = "ACTIVE", !.handed = TRUE]]
        BY <1>1, <3>2 DEF ConfirmLegacyHandover
      <4>2. home'[b] = [home[b] EXCEPT !.tenancy = "ACTIVE", !.handed = TRUE]
        BY <1>1, <4>1
      <4> QED BY <2>1, <4>2 DEF Home
    <3> QED BY <1>3, <3>1, <3>2
  <2>3. PICK bound \in BOOLEAN : Activated(b, bound)
    BY <1>3 DEF ConfirmMoveIn, ConfirmLegacyHandover
  <2> QED BY <1>1, <2>1, <2>2, <2>3, ActivateSteps
<1>4. CASE \/ SignLease(b) \/ BookingPaid(b) \/ HoldLapses(b) \/ EndBooking(b) \/ Sweep(b)
           \/ RenewHold(b) \/ StaffMoveIn(b) \/ DraftSigned(b) \/ GiveNotice(b)
           \/ Transfer(b) \/ MoveOut(b)
  BY <1>1, <1>4, IdleSteps DEF SignLease, BookingPaid, HoldLapses, EndBooking, Sweep, RenewHold,
     StaffMoveIn, DraftSigned, GiveNotice, Transfer, MoveOut, evidence
<1> QED BY <1>2, <1>3, <1>4

(* What is due has an image. *)
LEMMA DueHasImage ==
  ASSUME NEW kind \in Kind, NEW s \in DueOf(kind)
  PROVE  photo[s].image
BY DEF Kind, DueOf, DuePhoto, DueGuest, DueLegacy

(* The job erases; the clock makes due. *)
LEMMA RetainingSteps ==
  ASSUME TypeOK, Retaining
  PROVE  PhotosOK' /\ \A x \in Subject : PhotoStep(x)
<1>1. PhotosOK /\ run \in [Run -> RetentionRun]
  BY Parts DEF RestOK
<1>2. ASSUME NEW r \in Run, NEW s \in Subject, RunErase(r, s)
      PROVE PhotosOK' /\ \A x \in Subject : PhotoStep(x)
  <2>1. run[r].kind \in Kind \cup {"identity"}
    BY <1>1 DEF RetentionRun
  <2>2. CASE UNCHANGED photo
    BY <1>1, <2>2, IdleSteps
  <2>3. CASE ErasedPhoto(s) /\ Still(run[r].kind, s) /\ run[r].kind # "identity"
    <3>1. PICK kind \in Kind : s \in DueOf(kind)
      BY <2>1, <2>3 DEF Still
    <3> QED BY <1>1, <2>3, <3>1, DueHasImage, EraseSteps
  <2> QED BY <1>2, <2>2, <2>3 DEF RunErase
<1>3. ASSUME NEW r \in Run, RunStart(r) \/ RunList(r) \/ RunCount(r) \/ RunBeat(r) \/ RunFails(r)
      PROVE PhotosOK' /\ \A x \in Subject : PhotoStep(x)
  BY <1>1, <1>3, IdleSteps DEF RunStart, RunList, RunCount, RunBeat, RunFails
<1>4. ASSUME NEW w \in {"photo", "identity"}, HeartbeatAges(w)
      PROVE PhotosOK' /\ \A x \in Subject : PhotoStep(x)
  BY <1>1, <1>4, IdleSteps DEF HeartbeatAges
<1>5. ASSUME TimeIsUp PROVE PhotosOK' /\ \A x \in Subject : PhotoStep(x)
  BY <1>1, <1>5, IdleSteps, LapseSteps DEF TimeIsUp
<1> QED BY <1>2, <1>3, <1>4, <1>5 DEF Retaining, RunSteps

(* Any step, or none. *)
LEMMA PhotoSteps ==
  ASSUME TypeOK, IntentInv, [Next]_vars
  PROVE  PhotosOK' /\ \A x \in Subject : PhotoStep(x)
<1>1. PhotosOK
  BY Parts
<1>2. CASE IdentityDocuments
  BY <1>1, <1>2, IdleSteps DEF IdentityDocuments, SubmitIdentity, WithdrawIdentity, AcceptIdentity,
     ReplaceIdentity, PreviewIdentity, NewNotice
<1>3. CASE UNCHANGED vars
  BY <1>1, <1>3, IdleSteps DEF vars
<1> QED BY <1>2, <1>3, PhotographSteps, LivingSteps, RetainingSteps DEF Next

-----------------------------------------------------------------------------
(* The home of the evidence: keys, tenancy and unit only after conversion, *)
(* and a booking that can be revived was never signed for.                 *)
RowOK(q) ==
    /\ q \in Home
    /\ q.handed \/ q.drafted \/ q.tenancy # "NONE" \/ q.unit # "none" => q.status = "CONVERTED"
    /\ q.swept => q.status = "CANCELLED" /\ q.lease = "OPEN"

HomeOK == home \in [Booking -> Home] /\ \A b \in Booking : RowOK(home[b])

(* What no step takes back, of a row p that becomes q.                     *)
RowStep(p, q) ==
    /\ p.handed => q.handed
    /\ p.lease # "OPEN" => /\ q.lease # "OPEN" /\ q.drafted = p.drafted
                           /\ p.status \in {"CANCELLED", "EXPIRED"} => q.status = p.status
    /\ p.tenancy = "CLOSED" => q.tenancy = "CLOSED"
    /\ p.unit = "left" => q.unit = "left"
    /\ q.identified = p.identified

HandStep(b) ==
    home'[b].handed /\ ~ home[b].handed => IdentityGate(b, "HANDOVER") /\ UNCHANGED doc

HomeStep(b) == RowStep(home[b], home'[b]) /\ HandStep(b)

(* Writing one row. *)
LEMMA HomeWritten ==
  ASSUME HomeOK, NEW b \in Booking, NEW q, RowOK(q), RowStep(home[b], q),
         home' = [home EXCEPT ![b] = q],
         q.handed /\ ~ home[b].handed => IdentityGate(b, "HANDOVER") /\ UNCHANGED doc
  PROVE  HomeOK' /\ \A x \in Booking : HomeStep(x)
<1>1. home' \in [Booking -> Home] /\ home'[b] = q
  BY DEF HomeOK, RowOK
<1>2. \A x \in Booking : x # b => home'[x] = home[x]
  BY DEF HomeOK
<1>3. HomeOK'
  BY <1>1, <1>2 DEF HomeOK, RowOK
<1>4. HomeStep(b)
  BY <1>1 DEF HomeStep, HandStep
<1>5. \A x \in Booking : x # b => HomeStep(x)
  BY <1>2 DEF HomeStep, HandStep, RowStep
<1> QED BY <1>3, <1>4, <1>5

(* A booking's life does not come back to where it was. *)
LEMMA LivingHome ==
  ASSUME HomeOK, Living
  PROVE  HomeOK' /\ \A x \in Booking : HomeStep(x)
<1>1. PICK b \in Booking :
         \/ SignLease(b) \/ BookingPaid(b) \/ HoldLapses(b) \/ EndBooking(b) \/ Sweep(b)
         \/ RenewHold(b) \/ StaffMoveIn(b) \/ DraftSigned(b) \/ GiveNotice(b)
         \/ Transfer(b) \/ MoveOut(b) \/ ConfirmMoveIn(b) \/ ConfirmLegacyHandover(b)
  BY DEF Living
<1>2. home[b] \in Home /\ RowOK(home[b])
  BY DEF HomeOK
<1>3. CASE SignLease(b)
  <2> DEFINE q == [home[b] EXCEPT !.lease = "SIGNED"]
  <2>1. q \in Home
    BY <1>2 DEF Home
  <2>2. /\ q.status = home[b].status /\ q.swept = home[b].swept
        /\ q.lease = "SIGNED" /\ q.drafted = home[b].drafted
        /\ q.tenancy = home[b].tenancy /\ q.unit = home[b].unit
        /\ q.handed = home[b].handed /\ q.identified = home[b].identified
    BY <1>2 DEF Home
  <2>3. home' = [home EXCEPT ![b] = q]
    BY <1>3 DEF SignLease, HomeOK
  <2> HIDE DEF q
  <2>4. RowOK(q) /\ RowStep(home[b], q)
    BY <1>2, <1>3, <2>1, <2>2 DEF SignLease, RowOK, RowStep
  <2> QED BY <2>2, <2>3, <2>4, HomeWritten
<1>4. CASE BookingPaid(b)
  <2> DEFINE q == [home[b] EXCEPT !.lease = "PAID"]
  <2>1. q \in Home
    BY <1>2 DEF Home
  <2>2. /\ q.status = home[b].status /\ q.swept = home[b].swept
        /\ q.lease = "PAID" /\ q.drafted = home[b].drafted
        /\ q.tenancy = home[b].tenancy /\ q.unit = home[b].unit
        /\ q.handed = home[b].handed /\ q.identified = home[b].identified
    BY <1>2 DEF Home
  <2>3. home' = [home EXCEPT ![b] = q]
    BY <1>4 DEF BookingPaid, HomeOK
  <2> HIDE DEF q
  <2>4. RowOK(q) /\ RowStep(home[b], q)
    BY <1>2, <1>4, <2>1, <2>2 DEF BookingPaid, RowOK, RowStep
  <2> QED BY <2>2, <2>3, <2>4, HomeWritten
<1>5. CASE HoldLapses(b)
  <2> DEFINE q == [home[b] EXCEPT !.hold = "past"]
  <2>1. q \in Home
    BY <1>2 DEF Home
  <2>2. /\ q.status = home[b].status /\ q.swept = home[b].swept
        /\ q.lease = home[b].lease /\ q.drafted = home[b].drafted
        /\ q.tenancy = home[b].tenancy /\ q.unit = home[b].unit
        /\ q.handed = home[b].handed /\ q.identified = home[b].identified
    BY <1>2 DEF Home
  <2>3. home' = [home EXCEPT ![b] = q]
    BY <1>5 DEF HoldLapses, HomeOK
  <2> HIDE DEF q
  <2>4. RowOK(q) /\ RowStep(home[b], q)
    BY <1>2, <1>5, <2>1, <2>2 DEF HoldLapses, RowOK, RowStep
  <2> QED BY <2>2, <2>3, <2>4, HomeWritten
<1>6. CASE EndBooking(b)
  <2> PICK st \in {"CANCELLED", "EXPIRED"} : home' = [home EXCEPT ![b].status = st]
    BY <1>6 DEF EndBooking
  <2> DEFINE q == [home[b] EXCEPT !.status = st]
  <2>1. q \in Home
    BY <1>2 DEF Home
  <2>2. /\ q.status = st /\ q.swept = home[b].swept
        /\ q.lease = home[b].lease /\ q.drafted = home[b].drafted
        /\ q.tenancy = home[b].tenancy /\ q.unit = home[b].unit
        /\ q.handed = home[b].handed /\ q.identified = home[b].identified
    BY <1>2 DEF Home
  <2>3. home' = [home EXCEPT ![b] = q]
    BY <1>6 DEF EndBooking, HomeOK
  <2> HIDE DEF q
  <2>4. RowOK(q) /\ RowStep(home[b], q)
    BY <1>2, <1>6, <2>1, <2>2 DEF EndBooking, RowOK, RowStep
  <2> QED BY <2>2, <2>3, <2>4, HomeWritten
<1>7. CASE Sweep(b)
  <2> DEFINE q == [home[b] EXCEPT !.status = "CANCELLED", !.swept = TRUE]
  <2>1. q \in Home
    BY <1>2 DEF Home
  <2>2. /\ q.status = "CANCELLED" /\ q.swept = TRUE
        /\ q.lease = home[b].lease /\ q.drafted = home[b].drafted
        /\ q.tenancy = home[b].tenancy /\ q.unit = home[b].unit
        /\ q.handed = home[b].handed /\ q.identified = home[b].identified
    BY <1>2 DEF Home
  <2>3. home' = [home EXCEPT ![b] = q]
    BY <1>7 DEF Sweep, HomeOK
  <2> HIDE DEF q
  <2>4. RowOK(q) /\ RowStep(home[b], q)
    BY <1>2, <1>7, <2>1, <2>2 DEF Sweep, RowOK, RowStep
  <2> QED BY <2>2, <2>3, <2>4, HomeWritten
<1>8. CASE RenewHold(b)
  <2> DEFINE q == [home[b] EXCEPT !.status = "ACTIVE", !.hold = "live", !.swept = FALSE]
  <2>1. q \in Home
    BY <1>2 DEF Home
  <2>2. /\ q.status = "ACTIVE" /\ q.swept = FALSE
        /\ q.lease = home[b].lease /\ q.drafted = home[b].drafted
        /\ q.tenancy = home[b].tenancy /\ q.unit = home[b].unit
        /\ q.handed = home[b].handed /\ q.identified = home[b].identified
    BY <1>2 DEF Home
  <2>3. home' = [home EXCEPT ![b] = q]
    BY <1>8 DEF RenewHold, HomeOK
  <2> HIDE DEF q
  <2>4. RowOK(q) /\ RowStep(home[b], q)
    BY <1>2, <1>8, <2>1, <2>2 DEF RenewHold, RowOK, RowStep
  <2> QED BY <2>2, <2>3, <2>4, HomeWritten
<1>9. CASE StaffMoveIn(b)
  <2> DEFINE q == [home[b] EXCEPT !.status = "CONVERTED", !.drafted = TRUE, !.tenancy = "DRAFT", !.unit = "let"]
  <2>1. q \in Home
    BY <1>2 DEF Home
  <2>2. /\ q.status = "CONVERTED" /\ q.swept = home[b].swept
        /\ q.lease = home[b].lease /\ q.drafted = TRUE
        /\ q.tenancy = "DRAFT" /\ q.unit = "let"
        /\ q.handed = home[b].handed /\ q.identified = home[b].identified
    BY <1>2 DEF Home
  <2>3. home' = [home EXCEPT ![b] = q]
    BY <1>9 DEF StaffMoveIn, HomeOK
  <2> HIDE DEF q
  <2>4. RowOK(q) /\ RowStep(home[b], q)
    BY <1>2, <1>9, <2>1, <2>2 DEF StaffMoveIn, RowOK, RowStep
  <2> QED BY <2>2, <2>3, <2>4, HomeWritten
<1>10. CASE DraftSigned(b)
  <2> DEFINE q == [home[b] EXCEPT !.lease = "SIGNED"]
  <2>1. q \in Home
    BY <1>2 DEF Home
  <2>2. /\ q.status = home[b].status /\ q.swept = home[b].swept
        /\ q.lease = "SIGNED" /\ q.drafted = home[b].drafted
        /\ q.tenancy = home[b].tenancy /\ q.unit = home[b].unit
        /\ q.handed = home[b].handed /\ q.identified = home[b].identified
    BY <1>2 DEF Home
  <2>3. home' = [home EXCEPT ![b] = q]
    BY <1>10 DEF DraftSigned, HomeOK
  <2> HIDE DEF q
  <2>4. RowOK(q) /\ RowStep(home[b], q)
    BY <1>2, <1>10, <2>1, <2>2 DEF DraftSigned, RowOK, RowStep
  <2> QED BY <2>2, <2>3, <2>4, HomeWritten
<1>11. CASE GiveNotice(b)
  <2> DEFINE q == [home[b] EXCEPT !.tenancy = "NOTICE_GIVEN"]
  <2>1. q \in Home
    BY <1>2 DEF Home
  <2>2. /\ q.status = home[b].status /\ q.swept = home[b].swept
        /\ q.lease = home[b].lease /\ q.drafted = home[b].drafted
        /\ q.tenancy = "NOTICE_GIVEN" /\ q.unit = home[b].unit
        /\ q.handed = home[b].handed /\ q.identified = home[b].identified
    BY <1>2 DEF Home
  <2>3. home' = [home EXCEPT ![b] = q]
    BY <1>11 DEF GiveNotice, HomeOK
  <2> HIDE DEF q
  <2>4. RowOK(q) /\ RowStep(home[b], q)
    BY <1>2, <1>11, <2>1, <2>2 DEF GiveNotice, RowOK, RowStep
  <2> QED BY <2>2, <2>3, <2>4, HomeWritten
<1>12. CASE Transfer(b)
  <2> DEFINE q == [home[b] EXCEPT !.unit = "left"]
  <2>1. q \in Home
    BY <1>2 DEF Home
  <2>2. /\ q.status = home[b].status /\ q.swept = home[b].swept
        /\ q.lease = home[b].lease /\ q.drafted = home[b].drafted
        /\ q.tenancy = home[b].tenancy /\ q.unit = "left"
        /\ q.handed = home[b].handed /\ q.identified = home[b].identified
    BY <1>2 DEF Home
  <2>3. home' = [home EXCEPT ![b] = q]
    BY <1>12 DEF Transfer, HomeOK
  <2> HIDE DEF q
  <2>4. RowOK(q) /\ RowStep(home[b], q)
    BY <1>2, <1>12, <2>1, <2>2 DEF Transfer, RowOK, RowStep
  <2> QED BY <2>2, <2>3, <2>4, HomeWritten
<1>13. CASE MoveOut(b)
  <2> DEFINE q == [home[b] EXCEPT !.tenancy = "CLOSED", !.unit = "left"]
  <2>1. q \in Home
    BY <1>2 DEF Home
  <2>2. /\ q.status = home[b].status /\ q.swept = home[b].swept
        /\ q.lease = home[b].lease /\ q.drafted = home[b].drafted
        /\ q.tenancy = "CLOSED" /\ q.unit = "left"
        /\ q.handed = home[b].handed /\ q.identified = home[b].identified
    BY <1>2 DEF Home
  <2>3. home' = [home EXCEPT ![b] = q]
    BY <1>13 DEF MoveOut, HomeOK
  <2> HIDE DEF q
  <2>4. RowOK(q) /\ RowStep(home[b], q)
    BY <1>2, <1>13, <2>1, <2>2 DEF MoveOut, RowOK, RowStep, Renting
  <2> QED BY <2>2, <2>3, <2>4, HomeWritten
<1>14. CASE ConfirmMoveIn(b)
  <2> DEFINE q == [home[b] EXCEPT !.status = "CONVERTED", !.tenancy = "ACTIVE", !.unit = "let", !.handed = TRUE]
  <2>1. q \in Home
    BY <1>2 DEF Home
  <2>2. /\ q.status = "CONVERTED" /\ q.swept = home[b].swept
        /\ q.lease = home[b].lease /\ q.drafted = home[b].drafted
        /\ q.tenancy = "ACTIVE" /\ q.unit = "let"
        /\ q.handed = TRUE /\ q.identified = home[b].identified
    BY <1>2 DEF Home
  <2>3. home' = [home EXCEPT ![b] = q]
    BY <1>14 DEF ConfirmMoveIn, HomeOK
  <2> HIDE DEF q
  <2>4. RowOK(q) /\ RowStep(home[b], q)
    BY <1>2, <1>14, <2>1, <2>2 DEF ConfirmMoveIn, RowOK, RowStep
  <2>5. IdentityGate(b, "HANDOVER") /\ UNCHANGED doc
    BY <1>14 DEF ConfirmMoveIn
  <2> QED BY <2>3, <2>4, <2>5, HomeWritten
<1>15. CASE ConfirmLegacyHandover(b)
  <2> DEFINE q == [home[b] EXCEPT !.tenancy = "ACTIVE", !.handed = TRUE]
  <2>1. q \in Home
    BY <1>2 DEF Home
  <2>2. /\ q.status = home[b].status /\ q.swept = home[b].swept
        /\ q.lease = home[b].lease /\ q.drafted = home[b].drafted
        /\ q.tenancy = "ACTIVE" /\ q.unit = home[b].unit
        /\ q.handed = TRUE /\ q.identified = home[b].identified
    BY <1>2 DEF Home
  <2>3. home' = [home EXCEPT ![b] = q]
    BY <1>15 DEF ConfirmLegacyHandover, HomeOK
  <2> HIDE DEF q
  <2>4. RowOK(q) /\ RowStep(home[b], q)
    BY <1>2, <1>15, <2>1, <2>2 DEF ConfirmLegacyHandover, RowOK, RowStep, LegacyEligible
  <2>5. IdentityGate(b, "HANDOVER") /\ UNCHANGED doc
    BY <1>15 DEF ConfirmLegacyHandover
  <2> QED BY <2>3, <2>4, <2>5, HomeWritten
<1> QED BY <1>1, <1>3, <1>4, <1>5, <1>6, <1>7, <1>8, <1>9, <1>10, <1>11, <1>12, <1>13, <1>14, <1>15

(* Everything else happens at home. *)
LEMMA HomeSteps ==
  ASSUME HomeOK, [Next]_vars
  PROVE  HomeOK' /\ \A x \in Booking : HomeStep(x)
<1>1. CASE UNCHANGED home
  <2>1. HomeOK'
    BY <1>1 DEF HomeOK, RowOK
  <2>2. \A x \in Booking : HomeStep(x)
    BY <1>1 DEF HomeOK, HomeStep, HandStep, RowStep
  <2> QED BY <2>1, <2>2
<1>2. CASE Photographs
  BY <1>1, <1>2 DEF Photographs, SubmitPhoto, WithdrawPhoto, PreviewPhoto, ApprovePhoto, RejectPhoto,
     SetPhotoCollection, Nominate, RemovePerson, CapturePhoto, WithdrawPerson, PreviewPerson,
     ApprovePerson, RejectPerson
<1>3. CASE IdentityDocuments
  BY <1>1, <1>3 DEF IdentityDocuments, SubmitIdentity, WithdrawIdentity, AcceptIdentity,
     ReplaceIdentity, PreviewIdentity, NewNotice
<1>4. CASE Retaining
  BY <1>1, <1>4 DEF Retaining, RunSteps, RunErase, RunStart, RunList, RunCount, RunBeat, RunFails,
     HeartbeatAges, TimeIsUp
<1>5. CASE UNCHANGED vars
  BY <1>1, <1>5 DEF vars
<1> QED BY <1>2, <1>3, <1>4, <1>5, LivingHome DEF Next

-----------------------------------------------------------------------------
(* What a step does to the identity copy of b: its columns that matter     *)
(* stay, ...                                                               *)
CopyStays(b) ==
    /\ doc'[b].status = doc[b].status /\ doc'[b].version = doc[b].version
    /\ doc'[b].pages = doc[b].pages /\ doc'[b].reviewer = doc[b].reviewer

(* ... or before the handover it is replaced, withdrawn or sent back, ...  *)
CopyReopens(b) ==
    /\ home[b].status = "ACTIVE"
    /\ doc'[b].status \in {"AWAITING_REVIEW", "WITHDRAWN", "REPLACEMENT_REQUIRED"}

(* ... or accepted by somebody who had opened every page, ...              *)
CopyAccepts(b) ==
    /\ doc'[b].status = "ACCEPTED" /\ doc'[b].pages
    /\ \A page \in Page : <<doc'[b].reviewer, b, doc'[b].version, page>> \in seen

(* ... or its pages are erased because they are due.                       *)
CopyErases(b) ==
    /\ DueCopy(b)
    /\ doc'[b].status = IF doc[b].status = "ACCEPTED" THEN "ACCEPTED" ELSE "EXPIRED"
    /\ doc'[b].version = doc[b].version /\ doc'[b].reviewer = doc[b].reviewer

CopyStep(b) == CopyStays(b) \/ CopyReopens(b) \/ CopyAccepts(b) \/ CopyErases(b)

(* Writing one copy. *)
LEMMA CopyWritten ==
  ASSUME CopiesOK, NEW b \in Booking, NEW q \in Copy,
         q.pages => q.status \in {"AWAITING_REVIEW", "ACCEPTED"},
         doc' = [doc EXCEPT ![b] = q]
  PROVE  /\ CopiesOK' /\ doc'[b] = q
         /\ \A x \in Booking : x # b => CopyStays(x)
<1>1. doc' \in [Booking -> Copy] /\ doc'[b] = q
  BY DEF CopiesOK
<1>2. \A x \in Booking : x # b => doc'[x] = doc[x]
  BY DEF CopiesOK
<1> QED BY <1>1, <1>2 DEF CopiesOK, CopyStays

(* Submitted, or submitted again. *)
LEMMA SubmitCopy ==
  ASSUME CopiesOK, NEW b \in Booking, SubmitIdentity(b), notice \in Retention
  PROVE  CopiesOK' /\ \A x \in Booking : CopyStep(x)
<1> DEFINE due == IF notice = "TENANCY" THEN "never" ELSE "later"
           q == [NoCopy EXCEPT !.status = "AWAITING_REVIEW", !.version = doc[b].version + 1,
                               !.pages = TRUE, !.policy = notice, !.due = due]
<1>1. doc[b].version + 1 \in Nat
  BY DEF CopiesOK, Copy
<1>2. due \in Due
  BY DEF Due
<1>3. doc' = [doc EXCEPT ![b] = q]
  BY DEF SubmitIdentity
<1> HIDE DEF due
<1>4. q \in Copy
  BY <1>1, <1>2 DEF Copy, NoCopy
<1>5. q.status = "AWAITING_REVIEW" /\ q.pages = TRUE
  BY DEF NoCopy
<1>6. home[b].status = "ACTIVE"
  BY DEF SubmitIdentity, UploadOpen
<1> HIDE DEF q
<1>7. CopiesOK' /\ doc'[b] = q /\ \A x \in Booking : x # b => CopyStays(x)
  BY <1>3, <1>4, <1>5, CopyWritten
<1> QED BY <1>5, <1>6, <1>7 DEF CopyStep, CopyReopens

(* Withdrawn by the customer, or sent back by staff. *)
LEMMA ReopenCopy ==
  ASSUME CopiesOK, NEW b \in Booking,
         WithdrawIdentity(b) \/ \E st \in Staff : ReplaceIdentity(st, b)
  PROVE  CopiesOK' /\ \A x \in Booking : CopyStep(x)
<1> DEFINE q(status, who) == [doc[b] EXCEPT !.status = status, !.pages = FALSE, !.reviewer = who]
<1>1. doc[b] \in Copy
  BY DEF CopiesOK
<1>2. home[b].status = "ACTIVE"
  BY DEF WithdrawIdentity, ReplaceIdentity, UploadOpen
<1>3. PICK status \in {"WITHDRAWN", "REPLACEMENT_REQUIRED"}, who \in Staff \cup {None} :
         doc' = [doc EXCEPT ![b] = q(status, who)]
  <2>1. CASE WithdrawIdentity(b)
    <3>1. doc' = [doc EXCEPT ![b] = q("WITHDRAWN", None)]
      BY <1>1, <2>1 DEF WithdrawIdentity, CopiesOK
    <3> QED BY <3>1
  <2>2. CASE \E st \in Staff : ReplaceIdentity(st, b)
    <3>1. PICK st \in Staff : ReplaceIdentity(st, b)
      BY <2>2
    <3>2. doc' = [doc EXCEPT ![b] = q("REPLACEMENT_REQUIRED", st)]
      BY <1>1, <3>1 DEF ReplaceIdentity, CopiesOK
    <3> QED BY <3>2
  <2> QED BY <2>1, <2>2
<1>4. q(status, who) \in Copy
  BY <1>1 DEF Copy
<1>5. q(status, who).status = status /\ q(status, who).pages = FALSE
  BY <1>1 DEF Copy
<1> HIDE DEF q
<1>6. CopiesOK' /\ doc'[b] = q(status, who) /\ \A x \in Booking : x # b => CopyStays(x)
  BY <1>3, <1>4, <1>5, CopyWritten
<1> QED BY <1>2, <1>5, <1>6 DEF CopyStep, CopyReopens

(* Accepted. *)
LEMMA AcceptCopy ==
  ASSUME CopiesOK, NEW b \in Booking, NEW st \in Staff, AcceptIdentity(st, b)
  PROVE  CopiesOK' /\ \A x \in Booking : CopyStep(x)
<1> DEFINE q == [doc[b] EXCEPT !.status = "ACCEPTED", !.reviewer = st]
<1>1. doc[b] \in Copy /\ doc[b].pages = TRUE
  BY DEF CopiesOK, Copy, AcceptIdentity, Openable
<1>2. q \in Copy
  BY <1>1 DEF Copy
<1>3. /\ q.status = "ACCEPTED" /\ q.pages = doc[b].pages /\ q.version = doc[b].version
      /\ q.reviewer = st
  BY <1>1 DEF Copy
<1>4. doc' = [doc EXCEPT ![b] = q]
  BY <1>1 DEF AcceptIdentity, CopiesOK
<1>5. \A page \in Page : <<st, b, doc[b].version, page>> \in seen
  BY DEF AcceptIdentity, AllPagesSeen
<1> HIDE DEF q
<1>6. CopiesOK' /\ doc'[b] = q /\ \A x \in Booking : x # b => CopyStays(x)
  BY <1>2, <1>3, <1>4, CopyWritten
<1>7. CopyAccepts(b)
  BY <1>1, <1>3, <1>5, <1>6 DEF CopyAccepts
<1> QED BY <1>6, <1>7 DEF CopyStep

(* Erased: the decision stays, the pages go. *)
LEMMA EraseCopy ==
  ASSUME CopiesOK, NEW b \in Booking, ErasedCopy(b), DueCopy(b)
  PROVE  CopiesOK' /\ \A x \in Booking : CopyStep(x)
<1> DEFINE status == IF doc[b].status = "ACCEPTED" THEN "ACCEPTED" ELSE "EXPIRED"
           q == [doc[b] EXCEPT !.pages = FALSE, !.status = status]
<1>1. doc[b] \in Copy
  BY DEF CopiesOK
<1>2. doc' = [doc EXCEPT ![b] = q]
  BY <1>1 DEF ErasedCopy, CopiesOK
<1>3. status \in {"ACCEPTED", "EXPIRED"}
  OBVIOUS
<1>4. status = IF doc[b].status = "ACCEPTED" THEN "ACCEPTED" ELSE "EXPIRED"
  OBVIOUS
<1> HIDE DEF status
<1>5. q \in Copy
  BY <1>1, <1>3 DEF Copy
<1>6. /\ q.status = status /\ q.pages = FALSE /\ q.version = doc[b].version
      /\ q.reviewer = doc[b].reviewer
  BY <1>1 DEF Copy
<1> HIDE DEF q
<1>7. CopiesOK' /\ doc'[b] = q /\ \A x \in Booking : x # b => CopyStays(x)
  BY <1>2, <1>5, <1>6, CopyWritten
<1>8. CopyErases(b)
  BY <1>4, <1>6, <1>7 DEF CopyErases
<1> QED BY <1>7, <1>8 DEF CopyStep

(* The hours of a copy run out. *)
LEMMA LapseCopy ==
  ASSUME CopiesOK, NEW b \in Booking, doc' = [doc EXCEPT ![b].due = "past"]
  PROVE  CopiesOK' /\ \A x \in Booking : CopyStep(x)
<1> DEFINE q == [doc[b] EXCEPT !.due = "past"]
<1>1. doc[b] \in Copy
  BY DEF CopiesOK
<1>2. q \in Copy
  BY <1>1 DEF Copy, Due
<1>3. /\ q.status = doc[b].status /\ q.pages = doc[b].pages /\ q.version = doc[b].version
      /\ q.reviewer = doc[b].reviewer
  BY <1>1 DEF Copy
<1>4. doc' = [doc EXCEPT ![b] = q]
  BY <1>1 DEF CopiesOK
<1>5. q.pages => q.status \in {"AWAITING_REVIEW", "ACCEPTED"}
  BY <1>3 DEF CopiesOK
<1> HIDE DEF q
<1>6. CopiesOK' /\ doc'[b] = q /\ \A x \in Booking : x # b => CopyStays(x)
  BY <1>2, <1>4, <1>5, CopyWritten
<1>7. CopyStays(b)
  BY <1>3, <1>6 DEF CopyStays
<1> QED BY <1>6, <1>7 DEF CopyStep

(* A step that leaves the copies alone. *)
LEMMA IdleCopy ==
  ASSUME CopiesOK, UNCHANGED doc
  PROVE  CopiesOK' /\ \A x \in Booking : CopyStep(x)
BY DEF CopiesOK, CopyStep, CopyStays

(* Taken together: what any step does to the copies. *)
LEMMA CopySteps ==
  ASSUME TypeOK, [Next]_vars
  PROVE  CopiesOK' /\ \A x \in Booking : CopyStep(x)
<1>1. CopiesOK /\ notice \in Retention
  BY Parts DEF RestOK
<1>2. CASE Living
  BY <1>1, <1>2, IdleCopy DEF Living, SignLease, BookingPaid, HoldLapses, EndBooking, Sweep, RenewHold,
     StaffMoveIn, DraftSigned, GiveNotice, Transfer, MoveOut, ConfirmMoveIn, ConfirmLegacyHandover,
     evidence
<1>3. CASE Photographs
  BY <1>1, <1>3, IdleCopy DEF Photographs, SubmitPhoto, WithdrawPhoto, PreviewPhoto, ApprovePhoto,
     RejectPhoto, SetPhotoCollection, Nominate, RemovePerson, CapturePhoto, WithdrawPerson,
     PreviewPerson, ApprovePerson, RejectPerson
<1>4. CASE IdentityDocuments
  <2>1. ASSUME NEW b \in Booking, SubmitIdentity(b)
        PROVE CopiesOK' /\ \A x \in Booking : CopyStep(x)
    BY <1>1, <2>1, SubmitCopy
  <2>2. ASSUME NEW b \in Booking, WithdrawIdentity(b) \/ \E st \in Staff : ReplaceIdentity(st, b)
        PROVE CopiesOK' /\ \A x \in Booking : CopyStep(x)
    BY <1>1, <2>2, ReopenCopy
  <2>3. ASSUME NEW st \in Staff, NEW b \in Booking, AcceptIdentity(st, b)
        PROVE CopiesOK' /\ \A x \in Booking : CopyStep(x)
    BY <1>1, <2>3, AcceptCopy
  <2>4. ASSUME NEW st \in Staff, NEW b \in Booking, NEW page \in Page, PreviewIdentity(st, b, page)
        PROVE CopiesOK' /\ \A x \in Booking : CopyStep(x)
    BY <1>1, <2>4, IdleCopy DEF PreviewIdentity
  <2>5. ASSUME NewNotice PROVE CopiesOK' /\ \A x \in Booking : CopyStep(x)
    BY <1>1, <2>5, IdleCopy DEF NewNotice
  <2> QED BY <1>4, <2>1, <2>2, <2>3, <2>4, <2>5 DEF IdentityDocuments
<1>5. CASE Retaining
  <2>1. ASSUME NEW r \in Run, NEW s \in Subject, RunErase(r, s)
        PROVE CopiesOK' /\ \A x \in Booking : CopyStep(x)
    <3>1. CASE UNCHANGED doc
      BY <1>1, <3>1, IdleCopy
    <3>2. CASE run[r].kind = "identity" /\ Still(run[r].kind, s) /\ ErasedCopy(s)
      <4>1. s \in Booking /\ DueCopy(s)
        BY <3>2 DEF Still, DueOf
      <4> QED BY <1>1, <3>2, <4>1, EraseCopy
    <3> QED BY <2>1, <3>1, <3>2 DEF RunErase
  <2>2. ASSUME NEW r \in Run, RunStart(r) \/ RunList(r) \/ RunCount(r) \/ RunBeat(r) \/ RunFails(r)
        PROVE CopiesOK' /\ \A x \in Booking : CopyStep(x)
    BY <1>1, <2>2, IdleCopy DEF RunStart, RunList, RunCount, RunBeat, RunFails
  <2>3. ASSUME NEW w \in {"photo", "identity"}, HeartbeatAges(w)
        PROVE CopiesOK' /\ \A x \in Booking : CopyStep(x)
    BY <1>1, <2>3, IdleCopy DEF HeartbeatAges
  <2>4. ASSUME TimeIsUp PROVE CopiesOK' /\ \A x \in Booking : CopyStep(x)
    BY <1>1, <2>4, IdleCopy, LapseCopy DEF TimeIsUp
  <2> QED BY <1>5, <2>1, <2>2, <2>3, <2>4 DEF Retaining, RunSteps
<1>6. CASE UNCHANGED vars
  BY <1>1, <1>6, IdleCopy DEF vars
<1> QED BY <1>2, <1>3, <1>4, <1>5, <1>6 DEF Next

-----------------------------------------------------------------------------
(* Writing one run. *)
LEMMA RunWritten ==
  ASSUME run \in [Run -> RetentionRun], NEW r \in Run, NEW q \in RetentionRun,
         run' = [run EXCEPT ![r] = q]
  PROVE  run' \in [Run -> RetentionRun]
OBVIOUS

(* A run works on what exists. *)
LEMMA RunsTyped ==
  ASSUME TypeOK, NEW r \in Run, RunSteps(r) \/ RunFails(r)
  PROVE  run' \in [Run -> RetentionRun]
<1>1. run \in [Run -> RetentionRun] /\ run[r] \in RetentionRun /\ photo \in [Subject -> Photo]
  BY DEF TypeOK
<1>2. NoRun \in RetentionRun
  BY DEF NoRun, RetentionRun, Kind
<1>3. CASE RunStart(r)
  <2> DEFINE q == [NoRun EXCEPT !.step = "list"]
  <2>1. q \in RetentionRun
    BY <1>2 DEF RetentionRun
  <2> QED BY <1>1, <1>3, <2>1, RunWritten DEF RunStart
<1>4. CASE RunList(r)
  <2> DEFINE due == DueOf(run[r].kind)
             owed == IF run[r].kind = "identity" THEN {} ELSE {<<s, photo[s].version>> : s \in due}
  <2>1. due \subseteq Subject
    BY <1>1 DEF RetentionRun, DueOf, Kind, Subject
  <2>2. owed \subseteq Subject \X Nat
    BY <1>1, <2>1 DEF Photo
  <2>3. PICK batch \in SUBSET due :
           run' = [run EXCEPT ![r].step = "erase", ![r].todo = batch, ![r].owed = @ \cup owed]
    BY <1>4 DEF RunList
  <2> HIDE DEF due, owed
  <2> DEFINE q == [run[r] EXCEPT !.step = "erase", !.todo = batch, !.owed = run[r].owed \cup owed]
  <2>4. run[r].owed \cup owed \subseteq Subject \X Nat
    BY <1>1, <2>2 DEF RetentionRun
  <2>5. q \in RetentionRun
    BY <1>1, <2>1, <2>3, <2>4 DEF RetentionRun
  <2>6. run' = [run EXCEPT ![r] = q]
    BY <1>1, <2>3
  <2> HIDE DEF q
  <2> QED BY <1>1, <2>5, <2>6, RunWritten
<1>5. CASE \E s \in Subject : RunErase(r, s)
  <2>1. PICK s \in Subject : RunErase(r, s)
    BY <1>5
  <2> DEFINE q == [run[r] EXCEPT !.todo = run[r].todo \ {s}]
  <2>2. q \in RetentionRun
    BY <1>1 DEF RetentionRun
  <2>3. run' = [run EXCEPT ![r] = q]
    BY <1>1, <2>1 DEF RunErase
  <2> HIDE DEF q
  <2> QED BY <1>1, <2>2, <2>3, RunWritten
<1>6. CASE RunCount(r)
  <2> DEFINE next == KindAfter(run[r].kind)
             beat == [run[r] EXCEPT !.step = "beat"]
             list == [run[r] EXCEPT !.step = "list", !.kind = next]
  <2>1. next \in {"guest", "legacy", "none"}
    BY DEF KindAfter
  <2>2. run' = [run EXCEPT ![r] = IF DueOf(run[r].kind) # {} THEN NoRun
                                  ELSE IF next = "none" THEN beat ELSE list]
    BY <1>1, <1>6 DEF RunCount
  <2> HIDE DEF next
  <2>3. beat \in RetentionRun
    BY <1>1 DEF RetentionRun
  <2>4. next # "none" => list \in RetentionRun
    BY <1>1, <2>1 DEF RetentionRun, Kind
  <2> HIDE DEF beat, list
  <2> QED BY <1>1, <1>2, <2>2, <2>3, <2>4, RunWritten
<1>7. CASE RunBeat(r)
  <2> DEFINE q == [NoRun EXCEPT !.step = "list", !.kind = "identity"]
  <2>1. q \in RetentionRun
    BY <1>2 DEF RetentionRun
  <2>2. run' = [run EXCEPT ![r] = IF run[r].kind = "identity" THEN NoRun ELSE q]
    BY <1>7 DEF RunBeat
  <2> HIDE DEF q
  <2> QED BY <1>1, <1>2, <2>1, <2>2, RunWritten
<1>8. CASE RunFails(r)
  BY <1>1, <1>2, <1>8, RunWritten DEF RunFails
<1> QED BY <1>3, <1>4, <1>5, <1>6, <1>7, <1>8 DEF RunSteps

(* What somebody opened. *)
LEMMA SeenTyped ==
  ASSUME TypeOK, [Next]_vars
  PROVE  /\ seen \subseteq seen'
         /\ seen' \subseteq Staff \X Subject \X Nat \X (Page \cup {"photo"})
<1>1. /\ photo \in [Subject -> Photo] /\ doc \in [Booking -> Copy]
      /\ seen \subseteq Staff \X Subject \X Nat \X (Page \cup {"photo"})
      /\ Booking \subseteq Subject /\ Person \subseteq Subject
  BY DEF TypeOK, Subject
<1>2. ASSUME NEW st \in Staff, NEW s \in Subject, PreviewPhoto(st, s) \/ PreviewPerson(st, s)
      PROVE  /\ seen \subseteq seen'
             /\ seen' \subseteq Staff \X Subject \X Nat \X (Page \cup {"photo"})
  <2>1. photo[s].version \in Nat
    BY <1>1 DEF Photo
  <2>2. seen' = seen \cup {<<st, s, photo[s].version, "photo">>}
    BY <1>2 DEF PreviewPhoto, PreviewPerson
  <2> QED BY <1>1, <2>1, <2>2
<1>3. ASSUME NEW st \in Staff, NEW b \in Booking, NEW page \in Page, PreviewIdentity(st, b, page)
      PROVE  /\ seen \subseteq seen'
             /\ seen' \subseteq Staff \X Subject \X Nat \X (Page \cup {"photo"})
  <2>1. doc[b].version \in Nat
    BY <1>1 DEF Copy
  <2>2. seen' = seen \cup {<<st, b, doc[b].version, page>>}
    BY <1>3 DEF PreviewIdentity
  <2> QED BY <1>1, <2>1, <2>2
<1>4. CASE UNCHANGED seen
  BY <1>1, <1>4
<1>5. CASE Living
  BY <1>4, <1>5 DEF Living, SignLease, BookingPaid, HoldLapses, EndBooking, Sweep, RenewHold,
     StaffMoveIn, DraftSigned, GiveNotice, Transfer, MoveOut, ConfirmMoveIn, ConfirmLegacyHandover,
     evidence
<1>6. CASE Photographs
  <2>1. CASE \/ \E b \in Booking : SubmitPhoto(b) \/ WithdrawPhoto(b)
             \/ \E on \in BOOLEAN : SetPhotoCollection(on)
             \/ \E p \in Person : Nominate(p) \/ RemovePerson(p) \/ CapturePhoto(p) \/ WithdrawPerson(p)
    BY <1>4, <2>1 DEF SubmitPhoto, WithdrawPhoto, SetPhotoCollection, Nominate, RemovePerson,
       CapturePhoto, WithdrawPerson
  <2>2. CASE \E st \in Staff, b \in Booking : ApprovePhoto(st, b) \/ RejectPhoto(st, b)
    BY <1>4, <2>2 DEF ApprovePhoto, RejectPhoto
  <2>3. CASE \E st \in Staff, p \in Person : ApprovePerson(st, p) \/ RejectPerson(st, p)
    BY <1>4, <2>3 DEF ApprovePerson, RejectPerson
  <2>4. CASE \E st \in Staff, b \in Booking : PreviewPhoto(st, b)
    BY <1>1, <1>2, <2>4
  <2>5. CASE \E st \in Staff, p \in Person : PreviewPerson(st, p)
    BY <1>1, <1>2, <2>5
  <2> QED BY <1>6, <2>1, <2>2, <2>3, <2>4, <2>5 DEF Photographs
<1>7. CASE IdentityDocuments
  <2>1. CASE \/ \E b \in Booking : SubmitIdentity(b) \/ WithdrawIdentity(b)
             \/ \E st \in Staff, b \in Booking : AcceptIdentity(st, b) \/ ReplaceIdentity(st, b)
             \/ NewNotice
    BY <1>4, <2>1 DEF SubmitIdentity, WithdrawIdentity, AcceptIdentity, ReplaceIdentity, NewNotice
  <2>2. CASE \E st \in Staff, b \in Booking, page \in Page : PreviewIdentity(st, b, page)
    BY <1>3, <2>2
  <2> QED BY <1>7, <2>1, <2>2 DEF IdentityDocuments
<1>8. CASE Retaining
  BY <1>4, <1>8 DEF Retaining, RunSteps, RunErase, RunStart, RunList, RunCount, RunBeat, RunFails,
     HeartbeatAges, TimeIsUp
<1>9. CASE UNCHANGED vars
  BY <1>4, <1>9 DEF vars
<1> QED BY <1>5, <1>6, <1>7, <1>8, <1>9 DEF Next

(* Spending leaves a quota. *)
LEMMA Spending ==
  ASSUME quota \in Quota,
         NEW what \in {"customer", "people", "copy", "turns"}, Spend(what)
  PROVE  quota' \in Quota
<1>1. CASE what = "customer"
  BY <1>1 DEF Spend, Quota
<1>2. CASE what = "people"
  BY <1>2 DEF Spend, Quota
<1>3. CASE what = "copy"
  BY <1>3 DEF Spend, Quota
<1>4. CASE what = "turns"
  BY <1>4 DEF Spend, Quota
<1> QED BY <1>1, <1>2, <1>3, <1>4

(* Policies, switch, heartbeat, runs and quota. *)
LEMMA RestSteps ==
  ASSUME TypeOK, [Next]_vars
  PROVE  RestOK'
<1>1. seen' \subseteq Staff \X Subject \X Nat \X (Page \cup {"photo"})
  BY SeenTyped
<1>2. /\ env \in BOOLEAN /\ control \in {"unused", "on", "off"} /\ notice \in Retention
      /\ heartbeat \in [{"photo", "identity"} -> BOOLEAN] /\ run \in [Run -> RetentionRun]
      /\ quota \in Quota
  BY DEF TypeOK
<1>3. ASSUME NEW what \in {"customer", "people", "copy", "turns"}, Spend(what)
      PROVE  quota' \in Quota
  BY <1>2, <1>3, Spending
<1>4. CASE /\ UNCHANGED <<policyVars, workerVars>>
           /\ UNCHANGED quota \/ \E what \in {"customer", "people", "copy", "turns"} : Spend(what)
  BY <1>1, <1>2, <1>3, <1>4 DEF RestOK, policyVars, workerVars
<1>5. CASE Living
  <2>1. UNCHANGED <<policyVars, workerVars>> /\ (UNCHANGED quota \/ Spend("turns"))
    BY <1>5 DEF Living, SignLease, BookingPaid, HoldLapses, EndBooking, Sweep, RenewHold, Turn,
       StaffMoveIn, DraftSigned, GiveNotice, Transfer, MoveOut, ConfirmMoveIn,
       ConfirmLegacyHandover, evidence
  <2> QED BY <1>4, <2>1
<1>6. CASE Photographs
  <2>1. CASE \E on \in BOOLEAN : SetPhotoCollection(on)
    <3>1. control' \in {"on", "off"} /\ Spend("turns") /\ UNCHANGED <<env, notice, workerVars>>
      BY <2>1 DEF SetPhotoCollection, Turn
    <3> QED BY <1>1, <1>2, <1>3, <3>1 DEF RestOK, workerVars
  <2>2. CASE ~ \E on \in BOOLEAN : SetPhotoCollection(on)
    <3>1. /\ UNCHANGED <<policyVars, workerVars>>
          /\ UNCHANGED quota \/ \E what \in {"customer", "people", "copy", "turns"} : Spend(what)
      BY <1>6, <2>2 DEF Photographs, SubmitPhoto, Submitted, WithdrawPhoto, PreviewPhoto,
         ApprovePhoto, RejectPhoto, Nominate, RemovePerson, CapturePhoto, WithdrawPerson,
         PreviewPerson, ApprovePerson, RejectPerson
    <3> QED BY <1>4, <3>1
  <2> QED BY <2>1, <2>2
<1>7. CASE IdentityDocuments
  <2>1. CASE NewNotice
    <3>1. notice' \in Retention /\ Spend("turns") /\ UNCHANGED <<env, control, workerVars>>
      BY <2>1 DEF NewNotice, Turn
    <3> QED BY <1>1, <1>2, <1>3, <3>1 DEF RestOK, workerVars
  <2>2. CASE ~ NewNotice
    BY <1>4, <1>7, <2>2 DEF IdentityDocuments, SubmitIdentity, WithdrawIdentity, AcceptIdentity,
       ReplaceIdentity, PreviewIdentity
  <2> QED BY <2>1, <2>2
<1>8. CASE Retaining
  <2>1. ASSUME NEW r \in Run, RunSteps(r) \/ RunFails(r) PROVE RestOK'
    <3>1. run' \in [Run -> RetentionRun]
      BY <2>1, RunsTyped
    <3>2. UNCHANGED policyVars /\ (UNCHANGED quota \/ Spend("turns"))
      BY <2>1 DEF RunSteps, RunErase, RunStart, RunList, RunCount, RunBeat, RunFails, Turn
    <3>3. heartbeat' \in [{"photo", "identity"} -> BOOLEAN]
      <4>1. CASE UNCHANGED heartbeat
        BY <1>2, <4>1
      <4>2. CASE RunBeat(r)
        <5>1. PICK w \in {"photo", "identity"} : heartbeat' = [heartbeat EXCEPT ![w] = TRUE]
          BY <4>2 DEF RunBeat
        <5> QED BY <1>2, <5>1
      <4> QED BY <2>1, <4>1, <4>2 DEF RunSteps, RunErase, RunStart, RunList, RunCount, RunFails
    <3> QED BY <1>1, <1>2, <1>3, <3>1, <3>2, <3>3 DEF RestOK, policyVars
  <2>2. ASSUME NEW w \in {"photo", "identity"}, HeartbeatAges(w) PROVE RestOK'
    <3>1. /\ heartbeat' = [heartbeat EXCEPT ![w] = FALSE] /\ Spend("turns")
          /\ UNCHANGED <<policyVars, run>>
      BY <2>2 DEF HeartbeatAges, Turn
    <3>2. heartbeat' \in [{"photo", "identity"} -> BOOLEAN]
      BY <1>2, <3>1
    <3> QED BY <1>1, <1>2, <1>3, <3>1, <3>2 DEF RestOK, policyVars
  <2>3. ASSUME TimeIsUp PROVE RestOK'
    BY <1>4, <2>3 DEF TimeIsUp
  <2> QED BY <1>8, <2>1, <2>2, <2>3 DEF Retaining
<1>9. CASE UNCHANGED vars
  BY <1>4, <1>9 DEF vars
<1> QED BY <1>5, <1>6, <1>7, <1>8, <1>9 DEF Next

-----------------------------------------------------------------------------
(* An image depends on a lease that was signed, and the occupancy is noted *)
(* only with the activation.                                               *)
ImageInv ==
    \A s \in Subject : photo[s].image =>
       /\ home[HostOf(s)].lease # "OPEN"
       /\ photo[s].bound => photo[s].status = "PENDING_PROVIDER"

PeopleInv == \A b \in Booking : Cardinality(OnList(b)) <= MaxPeople

(* What a run owes is gone, replaced by a newer version, or due still,     *)
(* while the run is busy with its kind.                                    *)
OwedInv ==
    \A r \in Run : \A o \in run[r].owed :
       /\ o[2] <= photo[o[1]].version
       /\ photo[o[1]].version = o[2] /\ photo[o[1]].image =>
             run[r].step = "erase" /\ run[r].kind \in Kind /\ o[1] \in DueOf(run[r].kind)

Standing ==
    /\ TypeOK /\ HomeOK /\ IntentInv /\ ImageInv
    /\ ApprovedWasSeen /\ HandedOverWasIdentified /\ PeopleInv /\ OwedInv

(* The first state. *)
LEMMA StandingInit == Init => Standing
<1> SUFFICES ASSUME Init PROVE Standing
  OBVIOUS
<1>1. 0 \in Nat
  OBVIOUS
<1>2. /\ NoPhoto \in Photo /\ NoPhoto.status = "NONE" /\ NoPhoto.image = FALSE
      /\ NoPhoto.intent = FALSE
  BY <1>1 DEF Photo, NoPhoto, Due
<1>3. NoCopy \in Copy /\ NoCopy.status = "NONE" /\ NoCopy.pages = FALSE
  BY <1>1 DEF Copy, NoCopy, Due
<1> DEFINE new == {[NewBooking EXCEPT !.identified = i] : i \in BOOLEAN}
<1>4. \A row \in new : row \in Home /\ RowOK(row) /\ row.handed = FALSE
  <2> SUFFICES ASSUME NEW i \in BOOLEAN
               PROVE  LET row == [NewBooking EXCEPT !.identified = i]
                      IN  row \in Home /\ RowOK(row) /\ row.handed = FALSE
    OBVIOUS
  <2> QED BY DEF Home, NewBooking, RowOK
<1>5. NoRun \in RetentionRun /\ NoRun.owed = {}
  BY DEF NoRun, RetentionRun, Kind
<1>6. /\ \A s \in Subject : photo[s] = NoPhoto
      /\ \A b \in Booking : doc[b] = NoCopy
      /\ \A r \in Run : run[r] = NoRun
      /\ home \in [Booking -> new]
  BY DEF Init
<1> HIDE DEF new
<1>7. TypeOK
  <2>1. home \in [Booking -> Home] /\ photo \in [Subject -> Photo] /\ doc \in [Booking -> Copy]
    BY <1>2, <1>3, <1>4, <1>6 DEF Init
  <2>2. run \in [Run -> RetentionRun] /\ heartbeat \in [{"photo", "identity"} -> BOOLEAN]
    BY <1>5 DEF Init
  <2>3. quota \in Quota
    BY LimitsAssumption DEF Init
  <2> QED BY <1>2, <1>3, <1>6, <2>1, <2>2, <2>3 DEF TypeOK, Init
<1>8. HomeOK
  BY <1>4, <1>6, <1>7 DEF HomeOK, TypeOK
<1>9. IntentInv /\ ImageInv
  BY <1>2, <1>6 DEF IntentInv, ImageInv
<1>10. ApprovedWasSeen
  BY <1>2, <1>3, <1>6 DEF ApprovedWasSeen
<1>11. HandedOverWasIdentified
  BY <1>4, <1>6 DEF HandedOverWasIdentified
<1>12. PeopleInv
  <2>1. \A b \in Booking : OnList(b) = {}
    BY <1>2, <1>6 DEF OnList, Subject
  <2> QED BY <2>1, FS_EmptySet, LimitsAssumption DEF PeopleInv
<1>13. OwedInv
  BY <1>5, <1>6 DEF OwedInv
<1> QED BY <1>7, <1>8, <1>9, <1>10, <1>11, <1>12, <1>13 DEF Standing

(* Who approved has seen. *)
LEMMA SeenStands ==
  ASSUME Standing, [Next]_vars
  PROVE  ApprovedWasSeen'
<1>1. /\ seen \subseteq seen'
      /\ \A x \in Subject : PhotoStep(x)
      /\ \A b \in Booking : CopyStep(b)
  BY SeenTyped, PhotoSteps, CopySteps DEF Standing
<1>2. ASSUME NEW s \in Subject, photo'[s].status \in {"APPROVED", "PENDING_PROVIDER"}
      PROVE <<photo'[s].reviewer, s, photo'[s].version, "photo">> \in seen'
  <2>1. Stays(s) \/ Approves(s) \/ Activates(s)
    BY <1>1, <1>2 DEF PhotoStep, Listed, Waits, Ends, Erases
  <2>2. CASE Stays(s) \/ Activates(s)
    BY <1>1, <1>2, <2>2 DEF Standing, ApprovedWasSeen, Stays, Activates
  <2>3. CASE Approves(s)
    BY <1>1, <2>3 DEF Approves
  <2> QED BY <2>1, <2>2, <2>3
<1>3. ASSUME NEW b \in Booking, doc'[b].status = "ACCEPTED", NEW page \in Page
      PROVE <<doc'[b].reviewer, b, doc'[b].version, page>> \in seen'
  <2>1. CopyStays(b) \/ CopyAccepts(b) \/ CopyErases(b)
    BY <1>1, <1>3 DEF CopyStep, CopyReopens
  <2>2. CASE CopyStays(b) \/ CopyErases(b)
    BY <1>1, <1>3, <2>2 DEF Standing, ApprovedWasSeen, CopyStays, CopyErases
  <2>3. CASE CopyAccepts(b)
    BY <1>1, <2>3 DEF CopyAccepts
  <2> QED BY <2>1, <2>2, <2>3
<1> QED BY <1>2, <1>3 DEF ApprovedWasSeen

(* Who has the keys was identified. *)
LEMMA IdentifiedStands ==
  ASSUME Standing, [Next]_vars
  PROVE  HandedOverWasIdentified'
<1> SUFFICES ASSUME NEW b \in Booking, home'[b].identified, home'[b].handed
             PROVE  doc'[b].status = "ACCEPTED"
  BY DEF HandedOverWasIdentified
<1>1. HomeStep(b) /\ CopyStep(b) /\ RowOK(home[b])
  BY HomeSteps, CopySteps DEF Standing, HomeOK
<1>2. home[b].identified
  BY <1>1 DEF HomeStep, RowStep
<1>3. CASE ~ home[b].handed
  BY <1>1, <1>2, <1>3 DEF HomeStep, HandStep, IdentityGate
<1>4. CASE home[b].handed
  <2>1. doc[b].status = "ACCEPTED" /\ home[b].status = "CONVERTED"
    BY <1>1, <1>2, <1>4 DEF Standing, HandedOverWasIdentified, RowOK
  <2> QED BY <1>1, <2>1 DEF CopyStep, CopyStays, CopyReopens, CopyAccepts, CopyErases
<1> QED BY <1>3, <1>4

(* The request for an activation, and what an image depends on. *)
LEMMA IntentStep ==
  ASSUME Standing, [Next]_vars
  PROVE  IntentInv' /\ ImageInv'
<1>1. \A x \in Subject : PhotoStep(x)
  BY PhotoSteps DEF Standing
<1>2. \A b \in Booking : HomeStep(b)
  BY HomeSteps DEF Standing
<1>3. ASSUME NEW s \in Subject
      PROVE /\ photo'[s].intent <=> photo'[s].status = "PENDING_PROVIDER"
            /\ photo'[s].intent => s \in Booking /\ photo'[s].image /\ home'[s].handed
  <2>1. PhotoStep(s) /\ (s \in Booking => HomeStep(s))
    BY <1>1, <1>2
  <2>2. /\ photo[s].intent <=> photo[s].status = "PENDING_PROVIDER"
        /\ photo[s].intent => s \in Booking /\ photo[s].image /\ home[s].handed
    BY DEF Standing, IntentInv
  <2>3. CASE Stays(s)
    BY <2>1, <2>2, <2>3 DEF Stays, HomeStep, RowStep
  <2>4. CASE Listed(s)
    <3>1. photo[s].status = "NONE"
      BY <2>4 DEF Listed, Nominate
    <3> QED BY <2>2, <2>4, <3>1 DEF Listed
  <2>5. CASE Waits(s) \/ Ends(s) \/ Erases(s)
    BY <2>5 DEF Waits, Ends, Erases
  <2>6. CASE Approves(s)
    BY <2>1, <2>6 DEF Approves, HomeStep, RowStep
  <2>7. CASE Activates(s)
    BY <2>7 DEF Activates
  <2> QED BY <2>1, <2>3, <2>4, <2>5, <2>6, <2>7 DEF PhotoStep
<1>4. ASSUME NEW s \in Subject, photo'[s].image
      PROVE /\ home'[HostOf(s)].lease # "OPEN"
            /\ photo'[s].bound => photo'[s].status = "PENDING_PROVIDER"
  <2>1. PhotoStep(s) /\ HomeStep(HostOf(s))
    BY <1>1, <1>2, HostAssumption DEF HostOf, Subject
  <2>2. photo[s].image => /\ home[HostOf(s)].lease # "OPEN"
                          /\ photo[s].bound => photo[s].status = "PENDING_PROVIDER"
    BY DEF Standing, ImageInv
  <2>3. CASE Stays(s)
    BY <1>4, <2>1, <2>2, <2>3 DEF Stays, HomeStep, RowStep
  <2>4. CASE Waits(s)
    BY <2>1, <2>4 DEF Waits, HomeStep, RowStep
  <2>5. CASE Approves(s) \/ Activates(s)
    BY <2>1, <2>2, <2>5 DEF Approves, Activates, HomeStep, RowStep
  <2>6. CASE Listed(s) \/ Ends(s) \/ Erases(s)
    BY <1>4, <2>6 DEF Listed, Ends, Erases
  <2> QED BY <2>1, <2>3, <2>4, <2>5, <2>6 DEF PhotoStep
<1> QED BY <1>3, <1>4 DEF IntentInv, ImageInv

(* The list of people of a booking grows by a nomination only, and that    *)
(* counts it.                                                              *)
LEMMA PeopleStep ==
  ASSUME Standing, [Next]_vars
  PROVE  PeopleInv'
<1> SUFFICES ASSUME NEW b \in Booking PROVE Cardinality(OnList(b))' <= MaxPeople
  BY DEF PeopleInv
<1>1. \A x \in Subject : PhotoStep(x)
  BY PhotoSteps DEF Standing
<1>2. IsFiniteSet(OnList(b)) /\ IsFiniteSet(OnList(b)')
  BY LimitsAssumption, FS_Subset DEF OnList
<1>3. /\ Cardinality(OnList(b)) \in Nat /\ Cardinality(OnList(b)') \in Nat
      /\ Cardinality(OnList(b)) <= MaxPeople /\ MaxPeople \in Nat
  BY <1>2, FS_CardinalityType, LimitsAssumption DEF Standing, PeopleInv
<1>4. ASSUME NEW p \in Person, p \in OnList(b)' PROVE p \in OnList(b) \/ Listed(p)
  <2>1. Host[p] = b /\ photo'[p].status \notin {"NONE", "REMOVED"} /\ PhotoStep(p) /\ p \in Subject
    BY <1>1, <1>4 DEF OnList, Subject
  <2>2. photo[p].status \notin {"NONE", "REMOVED"} \/ Listed(p)
    <3>1. photo[p].image => photo[p].status \in {"WAITING_REVIEW", "APPROVED", "PENDING_PROVIDER"}
      BY <2>1 DEF Standing, TypeOK
    <3> QED BY <2>1, <3>1 DEF PhotoStep, Stays, Waits, Approves, Activates, Ends, Erases
  <2> QED BY <2>1, <2>2 DEF OnList
<1>5. CASE \A p \in Person : ~ Listed(p) \/ Host[p] # b
  <2>1. OnList(b)' \subseteq OnList(b)
    BY <1>4, <1>5 DEF OnList
  <2> QED BY <1>2, <1>3, <2>1, FS_Subset
<1>6. CASE \E p \in Person : Listed(p) /\ Host[p] = b
  <2>1. PICK p \in Person : Listed(p) /\ Host[p] = b
    BY <1>6
  <2>2. Nominate(p) /\ Cardinality(OnList(b)) < MaxPeople
    BY <2>1 DEF Listed, Nominate
  <2>3. \A q \in Person : Listed(q) => q = p
    <3>1. photo \in [Subject -> Photo] /\ Person \subseteq Subject
      BY DEF Standing, TypeOK, Subject
    <3>2. \A q \in Person : q # p => photo'[q] = photo[q]
      BY <2>2, <3>1 DEF Nominate
    <3>3. \A q \in Person : Listed(q) => photo[q].status = "NONE" /\ photo'[q].status = "NOMINATED"
      BY DEF Listed, Nominate
    <3> QED BY <3>2, <3>3
  <2>4. OnList(b)' \subseteq OnList(b) \cup {p}
    BY <1>4, <2>3 DEF OnList
  <2>5. /\ IsFiniteSet(OnList(b) \cup {p})
        /\ Cardinality(OnList(b) \cup {p}) <= Cardinality(OnList(b)) + 1
    <3>1. IsFiniteSet(OnList(b))
      BY <1>2
    <3>2. /\ IsFiniteSet(OnList(b) \cup {p})
          /\ Cardinality(OnList(b) \cup {p}) =
                IF p \in OnList(b) THEN Cardinality(OnList(b)) ELSE Cardinality(OnList(b)) + 1
      BY ONLY <3>1, FS_AddElement
    <3>3. Cardinality(OnList(b)) <= Cardinality(OnList(b)) + 1
      BY <1>3
    <3> QED BY <1>3, <3>2, <3>3
  <2>6. Cardinality(OnList(b)') <= Cardinality(OnList(b) \cup {p})
    BY <2>4, <2>5, FS_Subset
  <2>7. Cardinality(OnList(b) \cup {p}) \in Nat
    BY <2>5, FS_CardinalityType
  <2> QED BY <1>3, <2>2, <2>5, <2>6, <2>7
<1> QED BY <1>5, <1>6

-----------------------------------------------------------------------------
(* What is due stays due while the image is there: a tenancy does not      *)
(* reopen, a signed booking is not revived, and time does not run back.    *)
LEMMA DueStays ==
  ASSUME Standing, [Next]_vars, NEW kind \in Kind, NEW s \in DueOf(kind),
         photo'[s].image, photo'[s].version = photo[s].version
  PROVE  s \in DueOf(kind)'
<1>1. s \in Subject /\ photo[s].image
  BY DueHasImage DEF DueOf, Kind, Subject
<1>2. PhotoStep(s) /\ HomeStep(HostOf(s)) /\ HostOf(s) \in Booking
  BY <1>1, PhotoSteps, HomeSteps, HostAssumption DEF Standing, HostOf, Subject
<1>3. /\ home[HostOf(s)].lease # "OPEN"
      /\ photo[s].bound => photo[s].status = "PENDING_PROVIDER"
  BY <1>1 DEF Standing, ImageInv
<1>4. photo[s].version \in Nat /\ photo[s].bound \in BOOLEAN
  BY <1>1 DEF Standing, TypeOK, Photo
<1>5. Stays(s) \/ Approves(s) \/ Activates(s)
  BY <1>2, <1>4 DEF PhotoStep, Listed, Waits, Ends, Erases
<1>6. photo[s].due = "past" => photo'[s].due = "past"
  BY <1>5 DEF Stays, Approves, Activates
<1>7. photo[s].bound => photo'[s].bound
  BY <1>3, <1>5 DEF Stays, Approves, Activates
<1>8. LET h == HostOf(s) IN
      /\ home'[h].drafted = home[h].drafted
      /\ home[h].status \in {"CANCELLED", "EXPIRED"} => home'[h].status \in {"CANCELLED", "EXPIRED"}
      /\ home[h].tenancy = "CLOSED" => home'[h].tenancy = "CLOSED"
      /\ home[h].unit = "left" => home'[h].unit = "left"
  BY <1>2, <1>3 DEF HomeStep, RowStep
<1>9. CASE kind = "booking"
  <2>1. HostOf(s) = s /\ s \in Booking
    BY <1>9, KindsAssumption DEF DueOf, HostOf
  <2> QED BY <1>6, <1>7, <1>8, <1>9, <2>1 DEF DueOf, DuePhoto, Lapsed, BookingOver, TenancyOver
<1>10. CASE kind = "guest"
  <2>1. HostOf(s) = Host[s] /\ s \in Person
    BY <1>10 DEF DueOf, HostOf
  <2> QED BY <1>6, <1>8, <1>10, <2>1 DEF DueOf, DueGuest, Lapsed, BookingOver, TenancyOver
<1>11. CASE kind = "legacy"
  <2>1. HostOf(s) = s /\ s \in Booking
    BY <1>11, KindsAssumption DEF DueOf, HostOf
  <2> QED BY <1>6, <1>8, <1>11, <2>1 DEF DueOf, DueLegacy, Lapsed, BookingOver, TenancyOver
<1> QED BY <1>9, <1>10, <1>11 DEF Kind

(* What a run owed stays gone, replaced or due, whatever the step.         *)
LEMMA OweStays ==
  ASSUME Standing, [Next]_vars, NEW r \in Run, NEW o \in run[r].owed
  PROVE  /\ o[1] \in Subject /\ o[2] <= photo'[o[1]].version
         /\ photo'[o[1]].version = o[2] /\ photo'[o[1]].image =>
               /\ photo[o[1]].image /\ run[r].step = "erase"
               /\ \E kind \in Kind : run[r].kind = kind /\ o[1] \in DueOf(kind)
                                     /\ o[1] \in DueOf(kind)'
<1>1. o \in Subject \X Nat
  BY DEF Standing, TypeOK, RetentionRun
<1>2. PICK s \in Subject, v \in Nat : o[1] = s /\ o[2] = v
  BY <1>1
<1>3. photo[s].version \in Nat /\ photo'[s].version \in Nat
  <2>1. PhotosOK'
    BY PhotoSteps DEF Standing
  <2> QED BY <2>1 DEF PhotosOK, Standing, TypeOK, Photo
<1>4. PhotoStep(s)
  BY PhotoSteps DEF Standing
<1>5. photo'[s].version = photo[s].version \/ (Waits(s) /\ photo'[s].version = photo[s].version + 1)
  BY <1>4 DEF PhotoStep, Stays, Listed, Waits, Approves, Activates, Ends, Erases
<1>6. v <= photo[s].version
  BY <1>2 DEF Standing, OwedInv
<1>7. ASSUME photo'[s].version = v, photo'[s].image
      PROVE  photo[s].version = v /\ photo[s].image
  <2>1. photo'[s].version = photo[s].version /\ ~ Waits(s)
    BY <1>3, <1>5, <1>6, <1>7 DEF Waits
  <2> QED BY <1>4, <1>7, <2>1 DEF PhotoStep, Stays, Listed, Approves, Activates, Ends, Erases
<1>8. ASSUME photo'[s].version = v, photo'[s].image
      PROVE  /\ run[r].step = "erase"
             /\ \E kind \in Kind : run[r].kind = kind /\ s \in DueOf(kind) /\ s \in DueOf(kind)'
  <2>1. photo[s].version = v /\ photo[s].image
    BY <1>7, <1>8
  <2>2. run[r].step = "erase" /\ run[r].kind \in Kind /\ s \in DueOf(run[r].kind)
    BY <1>2, <2>1 DEF Standing, OwedInv
  <2>3. PICK kind \in Kind : kind = run[r].kind
    BY <2>2
  <2> QED BY <1>8, <2>1, <2>2, <2>3, DueStays
<1> QED BY <1>2, <1>3, <1>5, <1>6, <1>7, <1>8

(* The debt of one run. *)
OwedOf(r) ==
    \A o \in run[r].owed :
       /\ o[2] <= photo[o[1]].version
       /\ photo[o[1]].version = o[2] /\ photo[o[1]].image =>
             run[r].step = "erase" /\ run[r].kind \in Kind /\ o[1] \in DueOf(run[r].kind)

(* It is kept true of a run that goes on as it was, ... *)
LEMMA OwedSame ==
  ASSUME Standing, [Next]_vars, NEW r \in Run, run'[r].owed = run[r].owed,
         run'[r].kind = run[r].kind, run'[r].step = run[r].step
  PROVE  OwedOf(r)'
<1> SUFFICES ASSUME NEW o \in run[r].owed
    PROVE /\ o[2] <= photo'[o[1]].version
          /\ photo'[o[1]].version = o[2] /\ photo'[o[1]].image =>
                run'[r].step = "erase" /\ run'[r].kind \in Kind /\ (o[1] \in DueOf(run[r].kind))'
  BY DEF OwedOf
<1>1. o[2] <= photo'[o[1]].version
  BY OweStays
<1>2. ASSUME photo'[o[1]].version = o[2], photo'[o[1]].image
      PROVE run'[r].step = "erase" /\ run'[r].kind \in Kind /\ (o[1] \in DueOf(run[r].kind))'
  <2>1. run[r].step = "erase"
    BY <1>2, OweStays
  <2>2. PICK kind \in Kind : run[r].kind = kind /\ o[1] \in DueOf(kind)'
    BY <1>2, OweStays
  <2>3. run'[r].kind = kind
    BY <2>2
  <2>4. (DueOf(run[r].kind))' = DueOf(kind)'
    BY <2>3
  <2> QED BY <2>1, <2>2, <2>3, <2>4
<1> QED BY <1>1, <1>2

(* ... of one that takes a list, ... *)
LEMMA OwedListed ==
  ASSUME Standing, [Next]_vars, NEW r \in Run, RunList(r)
  PROVE  OwedOf(r)'
<1>1. /\ run \in [Run -> RetentionRun] /\ run[r].kind \in Kind \cup {"identity"}
      /\ photo \in [Subject -> Photo]
  BY DEF Standing, TypeOK, RetentionRun
<1> DEFINE k == run[r].kind
           owed == IF k = "identity" THEN {} ELSE {<<s, photo[s].version>> : s \in DueOf(k)}
<1>2. /\ run'[r].step = "erase" /\ run'[r].kind = k /\ run'[r].owed = run[r].owed \cup owed
      /\ UNCHANGED <<home, photo>> /\ run[r].step = "list"
  BY <1>1 DEF RunList, RetentionRun
<1> SUFFICES ASSUME NEW o \in run'[r].owed
    PROVE /\ o[2] <= photo[o[1]].version
          /\ photo[o[1]].version = o[2] /\ photo[o[1]].image =>
                k \in Kind /\ o[1] \in DueOf(k)'
  <2>1. \A x : (x \in DueOf(run[r].kind))' <=> x \in DueOf(k)'
    BY <1>2
  <2> QED BY <1>2, <2>1 DEF OwedOf
<1>3. CASE o \in run[r].owed
  BY <1>2, <1>3, OweStays
<1>4. CASE o \in owed
  <2>1. k \in Kind /\ \E s \in DueOf(k) : o = <<s, photo[s].version>>
    BY <1>1, <1>4
  <2>2. PICK kind \in Kind : kind = k
    BY <2>1
  <2>3. PICK s \in DueOf(kind) : o = <<s, photo[s].version>>
    BY <2>1, <2>2
  <2>4. s \in Subject /\ photo[s].image
    BY <2>3, DueHasImage DEF DueOf, Kind, Subject
  <2>5. photo[s].version \in Nat
    BY <1>1, <2>4 DEF Photo
  <2>6. s \in DueOf(kind)'
    BY <1>2, <2>3, <2>4, DueStays
  <2>7. run'[r].kind = kind
    BY <1>2, <2>2
  <2>8. DueOf(run[r].kind)' = DueOf(kind)'
    BY <2>7
  <2> QED BY <2>1, <2>2, <2>3, <2>5, <2>6, <2>8
<1> QED BY <1>2, <1>3, <1>4

(* ... of one that found no backlog, or ends.                              *)
LEMMA OwedCounted ==
  ASSUME Standing, [Next]_vars, NEW r \in Run,
         RunCount(r) \/ RunStart(r) \/ RunBeat(r) \/ RunFails(r)
  PROVE  OwedOf(r)'
<1>1. run \in [Run -> RetentionRun] /\ NoRun.owed = {}
  BY DEF Standing, TypeOK, NoRun
<1>2. CASE run'[r].owed = {}
  BY <1>2 DEF OwedOf
<1>3. CASE RunStart(r) \/ RunBeat(r) \/ RunFails(r)
  <2>1. run'[r].owed = {}
    BY <1>1, <1>3 DEF RunStart, RunBeat, RunFails, NoRun
  <2> QED BY <1>2, <2>1
<1>4. CASE RunCount(r)
  <2>1. CASE DueOf(run[r].kind) # {}
    <3>1. run'[r] = NoRun
      BY <1>1, <1>4, <2>1 DEF RunCount
    <3> QED BY <1>1, <1>2, <3>1
  <2>2. CASE DueOf(run[r].kind) = {}
    <3>1. run'[r].owed = run[r].owed /\ UNCHANGED photo
      <4> DEFINE next == KindAfter(run[r].kind)
                 beat == [run[r] EXCEPT !.step = "beat"]
                 list == [run[r] EXCEPT !.step = "list", !.kind = next]
      <4>1. run'[r] = IF next = "none" THEN beat ELSE list
        BY <1>1, <1>4, <2>2 DEF RunCount
      <4>2. beat.owed = run[r].owed /\ list.owed = run[r].owed
        BY <1>1 DEF RetentionRun
      <4> QED BY <1>4, <4>1, <4>2 DEF RunCount
    <3> SUFFICES ASSUME NEW o \in run[r].owed
        PROVE o[2] <= photo'[o[1]].version /\ ~ (photo'[o[1]].version = o[2] /\ photo'[o[1]].image)
      BY <3>1 DEF OwedOf
    <3>2. o[2] <= photo'[o[1]].version
      BY OweStays
    <3>3. ASSUME photo'[o[1]].version = o[2], photo'[o[1]].image PROVE FALSE
      <4>1. \E kind \in Kind : run[r].kind = kind /\ o[1] \in DueOf(kind)
        BY <3>3, OweStays
      <4> QED BY <2>2, <4>1
    <3> QED BY <3>2, <3>3
  <2> QED BY <2>1, <2>2
<1> QED BY <1>3, <1>4

(* The other runs do not mind. *)
LEMMA OwedStep ==
  ASSUME Standing, [Next]_vars
  PROVE  OwedInv'
<1>1. run \in [Run -> RetentionRun]
  BY DEF Standing, TypeOK
<1>2. CASE UNCHANGED run
  BY <1>2, OwedSame DEF OwedInv, OwedOf
<1>3. ASSUME NEW r \in Run, RunSteps(r) \/ RunFails(r) PROVE OwedInv'
  <2>1. \A x \in Run : x # r => run'[x] = run[x]
    BY <1>1, <1>3 DEF RunSteps, RunStart, RunList, RunErase, RunCount, RunBeat, RunFails
  <2>2. \A x \in Run : x # r => OwedOf(x)'
    BY <2>1, OwedSame
  <2>3. CASE \E s \in Subject : RunErase(r, s)
    <3>1. PICK s \in Subject : RunErase(r, s)
      BY <2>3
    <3>2. run' = [run EXCEPT ![r] = [run[r] EXCEPT !.todo = run[r].todo \ {s}]]
      BY <1>1, <3>1 DEF RunErase
    <3>3. run'[r] = [run[r] EXCEPT !.todo = run[r].todo \ {s}]
      BY <1>1, <3>2
    <3>4. /\ run'[r].owed = run[r].owed /\ run'[r].kind = run[r].kind
          /\ run'[r].step = run[r].step
      BY <1>1, <3>3 DEF RetentionRun
    <3> QED BY <2>2, <3>4, OwedSame DEF OwedInv, OwedOf
  <2>4. CASE RunList(r)
    BY <2>2, <2>4, OwedListed DEF OwedInv, OwedOf
  <2>5. CASE RunCount(r) \/ RunStart(r) \/ RunBeat(r) \/ RunFails(r)
    BY <2>2, <2>5, OwedCounted DEF OwedInv, OwedOf
  <2> QED BY <1>3, <2>3, <2>4, <2>5 DEF RunSteps
<1>4. CASE Living \/ Photographs \/ IdentityDocuments
  <2>1. CASE Living
    BY <1>2, <2>1 DEF Living, SignLease, BookingPaid, HoldLapses, EndBooking, Sweep, RenewHold,
       StaffMoveIn, DraftSigned, GiveNotice, Transfer, MoveOut, ConfirmMoveIn, ConfirmLegacyHandover,
       evidence, workerVars
  <2>2. CASE Photographs
    BY <1>2, <2>2 DEF Photographs, SubmitPhoto, WithdrawPhoto, PreviewPhoto, ApprovePhoto,
       RejectPhoto, SetPhotoCollection, Nominate, RemovePerson, CapturePhoto, WithdrawPerson,
       PreviewPerson, ApprovePerson, RejectPerson, workerVars
  <2>3. CASE IdentityDocuments
    BY <1>2, <2>3 DEF IdentityDocuments, SubmitIdentity, WithdrawIdentity, AcceptIdentity,
       ReplaceIdentity, PreviewIdentity, NewNotice, workerVars
  <2> QED BY <1>4, <2>1, <2>2, <2>3
<1>5. CASE (\E w \in {"photo", "identity"} : HeartbeatAges(w)) \/ TimeIsUp
  BY <1>2, <1>5 DEF HeartbeatAges, TimeIsUp, workerVars
<1>6. CASE UNCHANGED vars
  BY <1>2, <1>6 DEF vars, workerVars
<1> QED BY <1>3, <1>4, <1>5, <1>6 DEF Next, Retaining

-----------------------------------------------------------------------------
(* The inductive invariant. *)
LEMMA StandingStep == Standing /\ [Next]_vars => Standing'
<1> SUFFICES ASSUME Standing, [Next]_vars PROVE Standing'
  OBVIOUS
<1>1. TypeOK' /\ HomeOK'
  <2>1. HomeOK' /\ PhotosOK' /\ CopiesOK' /\ RestOK'
    BY HomeSteps, PhotoSteps, CopySteps, RestSteps DEF Standing
  <2>2. home' \in [Booking -> Home]
    BY <2>1 DEF HomeOK
  <2> QED BY <2>1, <2>2 DEF TypeOK, PhotosOK, CopiesOK, RestOK
<1> QED
  BY <1>1, SeenStands, IdentifiedStands, IntentStep, PeopleStep, OwedStep DEF Standing

(* It holds along every behaviour. *)
THEOREM AccessStands == Spec => []Standing
BY StandingInit, StandingStep, PTL DEF Spec

(* The state of the evidence has its type, and an image or a page is there *)
(* only while it waits for review or stands approved: every rejection,     *)
(* withdrawal, removal and erasure deletes what it decides on.             *)
THEOREM AccessTyped == Spec => []TypeOK
<1>1. Standing => TypeOK
  BY DEF Standing
<1> QED BY <1>1, AccessStands, PTL

(* What staff approved or accepted they had opened, in that very version,  *)
(* whatever was replaced between the preview and the decision.             *)
THEOREM AccessApprovedWasSeen == Spec => []ApprovedWasSeen
<1>1. Standing => ApprovedWasSeen
  BY DEF Standing
<1> QED BY <1>1, AccessStands, PTL

(* A request for an activation stands on an approved image, of a customer  *)
(* who has the keys.                                                       *)
THEOREM AccessIntentStands == Spec => []IntentStands
<1>1. Standing => IntentStands
  BY DEF Standing, IntentInv, IntentStands
<1> QED BY <1>1, AccessStands, PTL

(* Whoever has the keys under an identity policy has an accepted document, *)
(* whatever happens to the copy afterwards.                                *)
THEOREM AccessIdentified == Spec => []HandedOverWasIdentified
<1>1. Standing => HandedOverWasIdentified
  BY DEF Standing
<1> QED BY <1>1, AccessStands, PTL

(* A booking never lists more people than the limit, and nothing is kept   *)
(* of somebody who was removed.                                            *)
THEOREM AccessPeopleBounded == Spec => []PeopleBounded
<1>1. Standing => PeopleBounded
  <2> SUFFICES ASSUME Standing PROVE PeopleBounded
    OBVIOUS
  <2>1. \A p \in Person : photo[p].status = "REMOVED" => ~ photo[p].image
    BY DEF Standing, TypeOK, Subject
  <2> QED BY <2>1 DEF Standing, PeopleInv, PeopleBounded
<1> QED BY <1>1, AccessStands, PTL

(* The retention job erases only what is due when it erases it.            *)
LEMMA KeptStep ==
  ASSUME Standing, [Next]_vars
  PROVE  /\ \A s \in Subject : photo[s].image /\ photo'[s].status = "EXPIRED" =>
               \E kind \in Kind : s \in DueOf(kind)
         /\ \A b \in Booking : doc[b].pages /\ ~ doc'[b].pages
                               /\ doc'[b].status \in {"EXPIRED", "ACCEPTED"} => DueCopy(b)
<1>1. ASSUME NEW s \in Subject, photo[s].image, photo'[s].status = "EXPIRED"
      PROVE \E kind \in Kind : s \in DueOf(kind)
  <2>1. PhotoStep(s)
    BY PhotoSteps DEF Standing
  <2>2. photo[s].status # "EXPIRED"
    BY <1>1 DEF Standing, TypeOK
  <2> QED BY <1>1, <2>1, <2>2 DEF PhotoStep, Stays, Listed, Waits, Approves, Activates, Ends, Erases
<1>2. ASSUME NEW b \in Booking, doc[b].pages, ~ doc'[b].pages,
             doc'[b].status \in {"EXPIRED", "ACCEPTED"}
      PROVE DueCopy(b)
  <2>1. CopyStep(b)
    BY CopySteps DEF Standing
  <2> QED BY <1>2, <2>1 DEF CopyStep, CopyStays, CopyReopens, CopyAccepts, CopyErases
<1> QED BY <1>1, <1>2

(* No evidence is erased before it is due at that very moment.             *)
THEOREM AccessKeptUntilDue == Spec => KeptUntilDue
<1>1. Standing /\ [Next]_vars =>
         [/\ \A s \in Subject : photo[s].image /\ photo'[s].status = "EXPIRED" =>
                \E kind \in Kind : s \in DueOf(kind)
          /\ \A b \in Booking : doc[b].pages /\ ~ doc'[b].pages
                                /\ doc'[b].status \in {"EXPIRED", "ACCEPTED"} => DueCopy(b)]_vars
  BY KeptStep
<1> QED BY <1>1, AccessStands, PTL DEF Spec, KeptUntilDue

(* A heartbeat refreshed by a clean run says the backlog is gone: of what  *)
(* was due when the run looked no image is left in that version, whatever  *)
(* other runs, customers and staff did meanwhile.                          *)
THEOREM AccessHeartbeat == Spec => HeartbeatMeansClean
<1>1. Standing =>
         \A r \in Run : run[r].step = "beat" =>
            \A o \in run[r].owed : photo[o[1]].version = o[2] => ~ photo[o[1]].image
  BY DEF Standing, OwedInv
<1>2. Standing /\ [Next]_vars =>
         [\A r \in Run : run[r].step = "beat" /\ run[r].kind # "identity" /\ heartbeat'["photo"]
                         /\ run'[r].step # "beat"
             => \A o \in run[r].owed : photo[o[1]].version = o[2] => ~ photo[o[1]].image]_vars
  BY <1>1
<1> QED BY <1>2, AccessStands, PTL DEF Spec, HeartbeatMeansClean
=============================================================================
