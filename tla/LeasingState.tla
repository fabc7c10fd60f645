---------------------------- MODULE LeasingState ----------------------------
(***************************************************************************)
(* The tables the leasing core shares, and the requests that work on them. *)
(*                                                                         *)
(* A service call is a request of some process p.  What it reads before    *)
(* its transaction, and what the transaction reads before it writes, is    *)
(* kept in proc[p]; the transaction commits in one step, in which every    *)
(* "updateMany ... where" is evaluated on the rows as they are then, and   *)
(* every plain "update where id" overwrites them (PostgreSQL's READ        *)
(* COMMITTED, the client's default).  A row lock that a request takes in   *)
(* one step and needs until a later one is a program counter of that       *)
(* request: see the three ...Unlocked operators.                           *)
(***************************************************************************)
EXTENDS Integers, FiniteSets

CONSTANTS Unit,          \* the units of one facility
          Floor,         \* its floors
          FloorOf,       \* the floor a unit is on
          Lead,          \* enquiries a booking can be linked to
          Proc,          \* requests in flight at the same time
          MaxRes,        \* bounds: reservations, tenancies and occupancies
          MaxTen,        \*   ever created, and the last instant of the clock
          MaxOcc,
          MaxNow,
          MaxMaint,      \*   maintenance requests ever opened, per unit
          Ops,           \* the operations this instance exercises
          None           \* no unit, no lead

NoRow == 0
Res == 1 .. MaxRes
Ten == 1 .. MaxTen
Occ == 1 .. MaxOcc
Maint == 1 .. MaxMaint
Now == 0 .. MaxNow
Never == MaxNow + 1      \* a null holdExpiresAt: no instant reaches it
Holds == 0 .. Never

ASSUME BoundsAssumption ==
    /\ MaxRes \in Nat /\ MaxTen \in Nat /\ MaxOcc \in Nat
    /\ MaxNow \in Nat /\ MaxMaint \in Nat
ASSUME FloorAssumption == FloorOf \in [Unit -> Floor]
ASSUME NoneAssumption == None \notin Unit /\ None \notin Lead

(* Operations whose transactions claim what they change under a lock or a  *)
(* guarded update, and those that write without either.                    *)
GuardedOps == {"create", "offline", "public", "verify", "renew", "extend", "expire",
               "sweep", "sign", "movein", "dispatch", "complete", "handover", "legacy",
               "transfer", "notice", "moveout", "maintenance", "edit", "floor"}
UnguardedOps == {"cancel", "otpfail", "delete", "patch", "orphans", "retire"}

VARIABLES now,      \* the database clock
          closed,   \* Facility.closedFloors
          unit,     \* Unit.status
          maint,    \* the maintenance requests of a unit: all that has not ended is OPEN
          res,      \* Reservation, with the status of its PublicReservationLease; its one-time
                    \*   code is known by its expiry, 0 when there is none
          ten,      \* Tenancy, with the status of its lease Document
          occ,      \* Occupancy
          lead,     \* Lead.stage
          proc      \* the requests in flight

vars == <<now, closed, unit, maint, res, ten, occ, lead, proc>>

UnitStatus == {"AVAILABLE", "RESERVED", "OCCUPIED", "SERVICE", "UNAVAILABLE"}

Reservation ==
    [status : {"NONE", "ACTIVE", "CONVERTED", "EXPIRED", "CANCELLED"},
     unit : Unit \cup {None}, lead : Lead \cup {None}, hold : Holds,
     public : BOOLEAN, verified : BOOLEAN, swept : BOOLEAN, code : Holds,
     lease : {"NONE", "READY", "SIGNED"}, ends : Holds, ten : Ten \cup {NoRow}]

Tenancy ==
    [status : {"NONE", "DRAFT", "ACTIVE", "NOTICE_GIVEN", "CLOSED", "CANCELLED"},
     doc : {"NONE", "PENDING", "SENT", "SIGNED", "CANCELLED"},
     sim : BOOLEAN, handed : BOOLEAN, moveOuts : 0 .. 2]

Occupancy ==
    [status : {"NONE", "PENDING", "ACTIVE", "NOTICE_GIVEN", "MOVED_OUT", "CANCELLED"},
     unit : Unit \cup {None}, ten : Ten \cup {NoRow}]

Request ==
    [pc : {"idle", "otp", "verify", "extend", "cancel", "claim", "claimed", "counted", "sweep",
           "orphan", "movein", "dispatch", "legacy", "transfer", "notice",
           "moveout", "closing", "maint"},
     r : Res \cup {NoRow}, t : Ten \cup {NoRow}, u : Unit \cup {None},
     os : SUBSET Occ, hold : Holds, to : Holds, st : {"CANCELLED", "EXPIRED"}, flag : BOOLEAN,
     plan : [Unit -> UnitStatus \cup {"NONE"}]]

NoReservation == [status |-> "NONE", unit |-> None, lead |-> None, hold |-> 0,
                  public |-> FALSE, verified |-> FALSE, swept |-> FALSE, code |-> 0,
                  lease |-> "NONE", ends |-> 0, ten |-> NoRow]
NoTenancy == [status |-> "NONE", doc |-> "NONE", sim |-> FALSE, handed |-> FALSE,
              moveOuts |-> 0]
NoOccupancy == [status |-> "NONE", unit |-> None, ten |-> NoRow]
Idle == [pc |-> "idle", r |-> NoRow, t |-> NoRow, u |-> None, os |-> {}, hold |-> 0,
         to |-> 0, st |-> "CANCELLED", flag |-> FALSE, plan |-> [u \in Unit |-> "NONE"]]

(* The type of the state, every row of it well formed. *)
TypeOK ==
    /\ now \in Now
    /\ closed \subseteq Floor
    /\ unit \in [Unit -> UnitStatus]
    /\ maint \in [Unit -> [Maint -> {"NONE", "OPEN", "ENDED"}]]
    /\ res \in [Res -> Reservation]
    /\ ten \in [Ten -> Tenancy]
    /\ occ \in [Occ -> Occupancy]
    /\ lead \in [Lead -> {"NONE", "OPEN", "RESERVED", "WON"}]
    /\ proc \in [Proc -> Request]

(* An empty, fully open facility with every unit available. *)
Init ==
    /\ now = 0
    /\ closed = {}
    /\ unit = [u \in Unit |-> "AVAILABLE"]
    /\ maint = [u \in Unit |-> [m \in Maint |-> "NONE"]]
    /\ res = [r \in Res |-> NoReservation]
    /\ ten = [t \in Ten |-> NoTenancy]
    /\ occ = [o \in Occ |-> NoOccupancy]
    /\ lead = [l \in Lead |-> "NONE"]
    /\ proc = [p \in Proc |-> Idle]

-----------------------------------------------------------------------------
(* i is the row the next INSERT into the table creates. *)
NextRow(table, i) ==
    /\ table[i].status = "NONE"
    /\ \A j \in DOMAIN table : j < i => table[j].status # "NONE"

(* The occupancies that keep a unit: the status lists of the counts in the *)
(* code also name TRANSFERRING, which nothing ever writes.                 *)
Blocking == {"PENDING", "ACTIVE", "NOTICE_GIVEN"}
Living == {"ACTIVE", "NOTICE_GIVEN"}

ActiveOn(u) == {r \in Res : res[r].status = "ACTIVE" /\ res[r].unit = u}
BlockingOn(u) == {o \in Occ : occ[o].status \in Blocking /\ occ[o].unit = u}
OccupanciesOf(t, statuses) == {o \in Occ : occ[o].ten = t /\ occ[o].status \in statuses}

InMaintenance(u) == \E m \in Maint : maint[u][m] = "OPEN"

Operational(u) == FloorOf[u] \notin closed

(* Row locks held across steps.  A move-in keeps the facility row and its  *)
(* unit row from requireOperationalUnit to its commit; a cancellation or   *)
(* an expiry keeps its reservation row, and a move-out its occupancy rows, *)
(* from the claiming update to the commit.  A step that needs a row waits  *)
(* until it is unlocked.                                                   *)
FacilityUnlocked == \A q \in Proc : proc[q].pc # "movein"
UnitUnlocked(u) == \A q \in Proc : ~ (proc[q].pc = "movein" /\ proc[q].u = u)
ReservationUnlocked(r) ==
    \A q \in Proc : ~ (proc[q].pc \in {"claimed", "counted"} /\ proc[q].r = r)
OccupanciesUnlocked(os) ==
    \A q \in Proc : proc[q].pc = "closing" => proc[q].os \cap os = {}

(* The lead rows once reservation rows newRes are saved and the booking of *)
(* lead l has ended: a booked lead with no other booking is open again.    *)
LeadsAfterRelease(l, newRes) ==
    IF /\ l \in Lead
       /\ lead[l] = "RESERVED"
       /\ \A r \in Res : newRes[r].lead = l => newRes[r].status \notin {"ACTIVE", "CONVERTED"}
    THEN [lead EXCEPT ![l] = "OPEN"]
    ELSE lead

(* The lead rows once a booking of lead l is saved, or moved in. *)
LeadsAt(l, stage) == IF l \in Lead THEN [lead EXCEPT ![l] = stage] ELSE lead

Start(p, op) == proc[p] = Idle /\ op \in Ops
Done(p) == proc' = [proc EXCEPT ![p] = Idle]
=============================================================================
