----------------------------- MODULE Retention -----------------------------
(***************************************************************************)
(* The retention job: one request goes through the photographs of          *)
(* bookings, of nominated people and of drafted tenancies, and then        *)
(* through the identity copies.  Of each it lists a batch of what is due,  *)
(* erases it one by one, and counts what is still due: a backlog ends the  *)
(* request in an error, before the next kind.  A timer calls it every five *)
(* minutes, and calls again when it is slow, so runs overlap.              *)
(*                                                                         *)
(* In the code "due" is measured at the time a kind is begun; here it is   *)
(* at every step, so that a copy whose time comes during a run may count   *)
(* as backlog of that run already.                                         *)
(***************************************************************************)
EXTENDS AccessState

TenancyOver(b) == home[b].tenancy = "CLOSED"
BookingOver(b) == home[b].status \in {"CANCELLED", "EXPIRED"}

DuePhoto(b) ==
    /\ photo[b].image
    /\ \/ Lapsed(photo[b]) \/ BookingOver(b) \/ TenancyOver(b)
       \/ photo[b].bound /\ home[b].unit = "left"

DueLegacy(b) == photo[b].image /\ (Lapsed(photo[b]) \/ TenancyOver(b) \/ BookingOver(b))

DueGuest(p) == photo[p].image /\ (Lapsed(photo[p]) \/ BookingOver(Host[p]) \/ TenancyOver(Host[p]))

(* As a slip would have it: kept by the policy of today, not by what was   *)
(* recorded.                                                               *)
DueCopyByNotice(b) ==
    /\ doc[b].pages
    /\ \/ notice = "FIXED_PERIOD" /\ (Lapsed(doc[b]) \/ home[b].status = "CONVERTED")
       \/ BookingOver(b)
       \/ home[b].status = "ACTIVE" /\ home[b].hold = "past" /\ home[b].lease = "OPEN"
       \/ notice = "TENANCY" /\ home[b].status = "CONVERTED" /\ TenancyOver(b)

(* A copy is kept by what was recorded at its upload, whatever the policy  *)
(* says today.                                                             *)
DueCopy(b) ==
    /\ doc[b].pages
    /\ \/ doc[b].policy = "FIXED_PERIOD" /\ (Lapsed(doc[b]) \/ home[b].status = "CONVERTED")
       \/ BookingOver(b)
       \/ home[b].status = "ACTIVE" /\ home[b].hold = "past" /\ home[b].lease = "OPEN"
       \/ doc[b].policy = "TENANCY" /\ home[b].status = "CONVERTED" /\ TenancyOver(b)

(* What is due of a kind. *)
DueOf(kind) ==
    CASE kind = "booking"  -> {b \in Booking : ~ home[b].drafted /\ DuePhoto(b)}
      [] kind = "guest"    -> {p \in Person : DueGuest(p)}
      [] kind = "legacy"   -> {b \in Booking : home[b].drafted /\ DueLegacy(b)}
      [] kind = "identity" -> {b \in Booking : DueCopy(b)}

(***************************************************************************)
(* As a slip would have it: what was listed is erased without looking      *)
(* again, ...                                                              *)
(***************************************************************************)
StillListed(kind, s) == IF kind = "identity" THEN doc[s].pages ELSE photo[s].image

(* ... a batch is taken for everything, ...                                *)
RunCountTrusting(r) ==
    /\ run[r].step = "erase" /\ run[r].todo = {}
    /\ LET next == CASE run[r].kind = "booking" -> "guest"
                     [] run[r].kind = "guest" -> "legacy"
                     [] OTHER -> "none"
       IN  run' = [run EXCEPT ![r] = IF next = "none" THEN [@ EXCEPT !.step = "beat"]
                                     ELSE [@ EXCEPT !.step = "list", !.kind = next]]
    /\ UNCHANGED <<home, photo, doc, seen, policyVars, heartbeat, quota>>

(* ... or an accepted copy loses its acceptance with its pages.            *)
ErasedCopyExpired(b) ==
    doc' = [doc EXCEPT ![b].pages = FALSE, ![b].status = "EXPIRED"]

-----------------------------------------------------------------------------
Still(kind, s) == s \in DueOf(kind)

KindAfter(kind) ==
    CASE kind = "booking" -> "guest"
      [] kind = "guest"   -> "legacy"
      [] OTHER            -> "none"

ErasedPhoto(s) ==
    photo' = [photo EXCEPT ![s].status = "EXPIRED", ![s].image = FALSE,
                           ![s].reviewer = None, ![s].intent = FALSE]

(* The decision outlives the copy it was made on. *)
ErasedCopy(b) ==
    doc' = [doc EXCEPT ![b].pages = FALSE,
               ![b].status = IF @ = "ACCEPTED" THEN "ACCEPTED" ELSE "EXPIRED"]

RunStart(r) ==
    /\ run[r].step = "idle"
    /\ run' = [run EXCEPT ![r] = [NoRun EXCEPT !.step = "list"]]
    /\ UNCHANGED <<home, photo, doc, seen, policyVars, heartbeat, quota>>

RunList(r) ==
    /\ run[r].step = "list"
    /\ LET due == DueOf(run[r].kind)
           size == IF Cardinality(due) < Batch THEN Cardinality(due) ELSE Batch
           owed == IF run[r].kind = "identity" THEN {}
                   ELSE {<<s, photo[s].version>> : s \in due}
       IN  \E batch \in SUBSET due :
              /\ Cardinality(batch) = size
              /\ run' = [run EXCEPT ![r].step = "erase", ![r].todo = batch,
                                    ![r].owed = @ \cup owed]
    /\ UNCHANGED <<home, photo, doc, seen, policyVars, heartbeat, quota>>

(* One candidate, looked at again under the lock of its booking. *)
RunErase(r, s) ==
    /\ run[r].step = "erase" /\ s \in run[r].todo
    /\ run' = [run EXCEPT ![r].todo = @ \ {s}]
    /\ IF ~ Still(run[r].kind, s)
       THEN UNCHANGED <<photo, doc>>
       ELSE IF run[r].kind = "identity"
            THEN ErasedCopy(s) /\ UNCHANGED photo
            ELSE ErasedPhoto(s) /\ UNCHANGED doc
    /\ UNCHANGED <<home, seen, policyVars, heartbeat, quota>>

(* A backlog is an error, and leaves the heartbeat and the other kinds for *)
(* the next call.                                                          *)
RunCount(r) ==
    /\ run[r].step = "erase" /\ run[r].todo = {}
    /\ LET next == KindAfter(run[r].kind) IN
       run' = [run EXCEPT ![r] =
                 IF DueOf(run[r].kind) # {} THEN NoRun
                 ELSE IF next = "none" THEN [@ EXCEPT !.step = "beat"]
                 ELSE [@ EXCEPT !.step = "list", !.kind = next]]
    /\ UNCHANGED <<home, photo, doc, seen, policyVars, heartbeat, quota>>

(* A clean result refreshes the heartbeat uploads depend on. *)
RunBeat(r) ==
    LET identity == run[r].kind = "identity" IN
    /\ run[r].step = "beat"
    /\ heartbeat' = [heartbeat EXCEPT ![IF identity THEN "identity" ELSE "photo"] = TRUE]
    /\ run' = [run EXCEPT ![r] =
                 IF identity THEN NoRun ELSE [NoRun EXCEPT !.step = "list", !.kind = "identity"]]
    /\ UNCHANGED <<home, photo, doc, seen, policyVars, quota>>

(* A transaction fails, or the process stops. *)
RunFails(r) ==
    /\ run[r].step # "idle" /\ Turn
    /\ run' = [run EXCEPT ![r] = NoRun]
    /\ UNCHANGED <<home, photo, doc, seen, policyVars, heartbeat>>

(* Ninety minutes without a clean run. *)
HeartbeatAges(w) ==
    /\ heartbeat[w] /\ Turn
    /\ heartbeat' = [heartbeat EXCEPT ![w] = FALSE]
    /\ UNCHANGED <<home, photo, doc, seen, policyVars, run>>

(* The retention hours of a photograph or a copy run out. *)
TimeIsUp ==
    /\ \/ \E s \in Subject : /\ photo[s].due = "later"
                             /\ photo' = [photo EXCEPT ![s].due = "past"]
                             /\ UNCHANGED doc
       \/ \E b \in Booking : /\ doc[b].due = "later"
                             /\ doc' = [doc EXCEPT ![b].due = "past"]
                             /\ UNCHANGED photo
    /\ UNCHANGED <<home, seen, policyVars, workerVars, quota>>

RunSteps(r) ==
    \/ RunStart(r) \/ RunList(r) \/ RunCount(r) \/ RunBeat(r)
    \/ \E s \in Subject : RunErase(r, s)

Retaining ==
    \/ \E r \in Run : RunSteps(r) \/ RunFails(r)
    \/ \E w \in {"photo", "identity"} : HeartbeatAges(w)
    \/ TimeIsUp
=============================================================================
