# Stor24 portal: specifications, model checking and proofs

The portal runs a self-storage business: customers book units on a website or
through staff, sign a lease, move in, transfer, give notice and move out; they
buy packing supplies online; background workers release what nobody paid for.
It is one Next.js application over one PostgreSQL database. Every HTTP request
and every timer is a sequence of reads and transactions, and several run at the
same time. These modules model the parts of it where that matters most, the
*leasing core*, the *supplies shop*, the *money side* (bills, receipts,
corrections, refunds and debit order runs), the *sending of messages* and the
*evidence for access* (photographs and identity copies, and the job that erases
them), and check and prove what the code promises about them.

Paths below are relative to the repository; `lib/`, `app/` and `docs/` stand for
`src/src/lib/`, `src/src/app/` and `src/docs/` in `PROJECT.json`, where every
definition is mapped to its lines.

## 1. The system

| part | state | operations | hard because |
|---|---|---|---|
| Bookings (`lib/leasing-service.ts`, `lib/offline-reservation-service.ts`, `app/api/v1/leasing/...`) | `Reservation.status`, hold, `Unit.status`, `Lead.stage` | create, synchronise, extend, cancel, expire, edit, delete, release orphans | checks are made before the transaction; some updates are guarded (`updateMany ... where status`), some overwrite by id |
| Public booking (`lib/public-booking-service.ts`, `lib/public-verification-renewal.ts`) | the unverified hold, its one-time code | book, send code, verify, renew, sweep | verification is two transactions; a hold can be swept and revived; sending the code can fail after the commit |
| Online lease (`lib/public-lease-workflow.ts`) | `PublicReservationLease` | prepare, sign | races expiry and staff move-in |
| Tenancies (`lib/leasing-service.ts`, `lib/reservation-move-in.ts`, `lib/legacy-handover.ts`, `lib/blendsign-lease-service.ts`) | `Tenancy`, `Occupancy`, lease `Document` | move in, dispatch, complete, hand over, notice, transfer, move out | each reads the source before its transaction and then claims it, by status, by count, or not at all |
| Floors, maintenance (`lib/floor-availability-service.ts`, `app/api/v1/operations/...`) | `Facility.closedFloors`, `MaintenanceRequest`, `Unit.status` | open or close a floor, open, work on, reopen a request, edit, retire a unit | share the unit's status with bookings and tenancies |
| Supplies shop (`lib/merchandise-order-*.ts`) | product counters, orders, their payments and ledger rows | hold, cancel, pay, settle, test, fulfil, expire | cancellation, expiry and settlement of one order race; payments arrive late |
| Expiry worker (`lib/merchandise-expiry-worker.ts`) | cursor, sweep totals, health report | tick, batch, restart | broken rows, failures across batches |
| Netcash notification (`app/api/webhooks/netcash/route.ts`) | `WebhookInbox` | receive, check, settle, acknowledge | lost, repeated, early and concurrent deliveries |
| Package stock (`lib/public-booking-service.ts`) | `ReservationPackage`, product counters | reserve, release by sweep, renew | checked and reserved in two steps |
| Billing and receipts (`lib/monthly-billing-service.ts`, `lib/legacy-monthly-billing.ts`, `lib/payments/netcash-service.ts`) | billing plans, `LedgerEntry`, `Account.balance`, monthly invoices, `Payment` | preview, post, monthly job, check out, settle, record a receipt | a clerk posts what a page showed some time ago; two jobs bill one month |
| Adjustments and refunds (`lib/adjustment-service.ts`, `lib/payments/netcash-refund-*.ts`) | `Adjustment`, refund record and its reservation of the payment | request, approve, reject, cancel, pay out, reserve, let go | two persons and a bank decide about the same payment at different times |
| Debit order runs (`lib/debit-order-service.ts`) | `DebitRun`, instructions, plans, mandates | preview, prepare, cancel, submit, refresh | an upload that may have arrived, a stop between claim and answer, racing refreshes |
| Notifications (`lib/notification-delivery.ts`, `app/api/webhooks/twilio/...`) | `CommunicationLog` | claim, send, record, report, retry | lost answers, repeated calls, reports in any order |
| Staff event e-mail (`lib/staff-event-email-*.ts`) | policies, queued rows | review, evaluate, tick | overlapping ticks, policies cancelled under way |
| Photographs (`lib/facial-photo-*.ts`, `lib/legacy-access-photo.ts`, `lib/additional-access-people.ts`) | `FacialPhotoSubmission`, `LegacyAccessPhoto`, `AdditionalAccessPerson`, `FacialPhotoControl` | submit, preview, approve, reject, withdraw, nominate, remove, activate, pause | replaced between preview and decision; withdrawn around the hand-over |
| Identity copies (`lib/identity-document-service.ts`) | `IdentityDocument` | upload, preview page by page, accept, send back, withdraw | the gate reads it before signing and before the keys; the policy changes |
| Retention job (`app/api/v1/access/photos/expire`, its timer) | the listed candidates, the heartbeats | list, erase, count, report | stale lists, overlapping runs, a backlog or a failure before the later kinds |
| Collections (`lib/collection-notice-service.ts`, `lib/collection-schedule-*.ts`) | notices, the schedule's plan and runs | prepare, approve, withdraw, send, run | staff and worker send for one account; uncertain outcomes hold the schedule |

The parts meet in shared rows: the status of a unit is written by bookings,
tenancies, maintenance, edits and clean-ups; the counters of a product by
orders, bookings and stock movements; the balance of an account by bills,
receipts and corrections, and read by debit runs and reminders. Nothing else
coordinates them but row locks and conditional updates.

Not modelled, and why, is in section 9; `PROJECT.json` lists every part.

What makes each part correct, in one line: a unit is promised to one party at a
time and its status follows the promise; a signed booking is never swept; a
conversion is never undone; a closed floor takes nobody; a tenancy has one
allocation and is closed once; stock counts equal what orders and packages hold;
money is posted once, when the provider has it, and never lost; no hold outlives
its deadline for ever; a balance is what its ledger adds up to; a payment is
given back once and no more than it was; the bank is asked once for an account's
month, and for what is owed; a message is put to its provider once, and what is
recorded of it is so; what staff approve they have seen, who has the keys was
identified, and what is kept of a person is erased when it is due and not before.

## 2. Modules

    UnitAllocation     abstract: who each unit is promised to
    LeasingState       the tables and the requests that share them
      Bookings         reservations, public booking, floors, clean-ups
      Tenancies        move-in to move-out, maintenance, unit status
        Leasing        their composition; the properties; the refinement
          MCLeasing        instances for TLC
          LeasingProofs    typing, bookings, enquiries and tenancies, proved
            OccupancyProofs  one tenant to a unit, closed floors, marks of
                             units, and the refinement, proved
    Merchandise        orders, stock, notifications, worker; its properties
      MCMerchandise    instances for TLC
      SettlementProofs typing, payments, inbox, goods let go, and the stock,
                       proved (with SumProofs)

    BankRequests       abstract: an account's month is put to the bank once
    AccountState       accounts, ledgers, payments, adjustments, runs
      Billing          plans, bills, receipts, online payments
      Adjustments      corrections and refunds, in the hands of two persons
      DebitRuns        debit order runs and the bank behind them
        Finance          their composition; the properties; the refinement
          MCFinance        instances for TLC
          FinanceProofs    typing, decisions, reservations, runs, refinement
            LedgerProofs   the books and what is given back (with SumProofs)

    Outbox             abstract: a message is claimed, handed over once, recorded
    DeliveryState      the rows of the three ways, the senders, the provider
      Notifications    the communication log and the WhatsApp retry
      StaffEmails      policies, evaluation, the worker
      CollectionNotices  notices by hand and by schedule
        Delivery         provider and stopping processes; properties; refinement
          MCDelivery       instances for TLC
          DeliveryProofs   typing, refinement, truthful records, what claims
                           rest on, reports, retries

    AccessState        bookings, photographs, identity copies, runs, policies
      Photos           of customers and of the people they nominate
      IdentityDocuments  the copy, its review and its policy
      Retention        the job that erases
        Access           the life of a booking around them; the properties
          MCAccess         instances for TLC
          AccessProofs     typing and the safety properties, proved

    SumProofs          sums over finite sets, for any set of summands

**A request is a process.** `proc[p]` is what a request of process `p` remembers
between its steps: the rows it has read and where it stands. A database
transaction with no earlier read that its result depends on is one action
(`SignLease`). A service that reads first and writes later has a `...Read`
action, which makes the checks of the code and keeps what it saw, and a commit
(`...Claim`, `...Commit`), which evaluates each `updateMany where` on the rows
as they are then and lets each plain `update` overwrite them. That is READ
COMMITTED, PostgreSQL's default, which none of the services modelled here
changes. A service with two transactions has two
commits (`VerifyRead`, `VerifyCommit`). `Rollback` lets a request stop between
any two steps: whatever it holds is released and an open transaction leaves
nothing behind.

**Row locks** are kept as program counters: while `proc[q].pc = "movein"` the
request holds the facility row and its unit row (`FacilityUnlocked`,
`UnitUnlocked`); in `"claimed"` and `"counted"` its reservation row; in
`"closing"` its occupancies. An action that needs the row in the code is
disabled until then. Actions the code performs without the lock do not look.

**Data** is kept to what the properties tell apart. Customers, prices, documents
and addresses are gone; a tenancy has the state of its lease document, whether
its payment was simulated, whether it was handed over, and how often it was
moved out. Time is a small clock: a hold carries the instant it lapses.

**Operations in use.** `Ops` names the operations an instance exercises.
`GuardedOps` claim what they change under a lock or a conditional update;
`UnguardedOps` (`cancel`, `otpfail`, `delete`, `patch`, `orphans`, `retire`)
overwrite rows by id on an older reading. Keeping them apart is what lets the
project say exactly which promises survive which operations.

**Merchandise.** Every transaction on an order locks the order row and reads it
again, and takes or returns stock with updates conditional on the product row;
so each is one action. The notification handler (`Notify`, `CheckStatus`,
`Settle`, `Acknowledge`) and the worker (`WorkerTick`, `WorkerList`,
`WorkerExpire`, `WorkerBatchDone`) are sequences of transactions and can fail
or stop between any two (`HookFails`, `HookLost`, `WorkerSkips`,
`WorkerTickFails`, `WorkerRestarts`).

**Money side.** A clerk's screen (`sheet`) and an adjustment (`adj[j].seen`) keep
the figures a person reviewed; the code compares a fingerprint of them with the
account under its row lock (`BillFigures`, `Figures`). A receipt, a bill or a
correction writes ledger and balance in one transaction. A debit run is a process
with the bank as its partner: `claimed` is committed before the upload, the answer
may be lost on the way back or the process stop, and refreshes read the bank's
report first and write later. `Ops` chooses operations as in the leasing core;
`"lateReject"` is the rejection of a refund whose payment is already reserved.

**Sending.** `sender[p]` is a process in the middle of one message: it has
claimed the row, looked at it again where the code does, called the provider,
and holds the answer. `handed` counts how often a message was put to the
provider and `taken` is what the provider accepted; neither is seen by the code.
`channel` chooses one of the three ways in the initial state, since they share no
rows. `SenderStops` ends a process at any point.

**Access evidence.** `photo[s]` is the row of a customer or of a nominated
person, `doc[b]` the identity copy of a booking, `home[b]` what both depend on:
the booking, its lease, and the tenancy it becomes. Every operation on a
photograph or a copy is one transaction that locks the booking or the tenancy
and reads it again, so it is one action; a move-out or transfer does not take the
lock, but neither reads nor writes what the operation writes. A tenancy staff
drafted keeps its photograph in another table; a booking has one or the other, so
`photo[b]` is either and `drafted` says which. `seen` is the audit log of previews.
A retention run is a process (`RunStart`, `RunList`, `RunErase`, `RunCount`,
`RunBeat`) that works through four kinds in a fixed order, fails at any step
(`RunFails`) and meets others; `owed` remembers what was due when it looked and is
seen by no code. Retention hours are `due`: never, later, past.

The component modules keep a few *operations as a slip in the code would have
them* (`CancelAnyStatus`, `MoveInCheckWalkIn`), before the operations they
deform. They take no part in a specification. Each is put in the place of the operation
it is named after to see that a property fails when the code is wrong that way;
`PROJECT.json` pairs every property of every run with one.

## 3. Properties

*Leasing* (`Leasing.tla`)

- `UnitBacked`: an active booking keeps its unit `RESERVED` (`HoldBacked`), an
  occupancy keeps it `RESERVED` or `OCCUPIED` (`OccupancyBacked`), there is
  one claim to a unit (`OneClaimPerUnit`), and no unit stays marked for nobody
  (`NoUnitLost`). It is checked of the guarded operations but transfers and the legacy handover, and proved
  of all guarded operations as long as transfers and move-outs are not both in use:
  with the pair it fails (section 5).
- `AllocationSpec`: bookings and tenancies together implement `UnitAllocation`.
  The holder of a unit is the party of its claim; a conversion keeps the party,
  a transfer is one step. It says more than the invariant: a party never holds
  two units, and a unit passes through nobody's hands between two parties. It is
  checked in `booking`, without transfers and legacy handovers, and proved under the same assumption as
  `UnitBacked`; what `leaving` checks of transfers comes last in this list.
- `OneOccupancyPerUnit`: no unit is let to two tenants, the unguarded operations
  included. Of the guarded ones it is a part of `UnitBacked` and has no check of its
  own; of the others it is proved (transfers look at the unit's mark only, and
  need `UnitBacked` for it).
- `FloorGate`: no booking or occupancy begins on a closed floor, with all
  operations: checked for the guarded ones and proved for the others.
- `SignedSurvivesSweep`: a signed booking is not swept. `ConversionStands`: a
  booking is converted exactly while it is linked to its tenancy. `LeadBacked`:
  the enquiry's stage follows its bookings.
- `OneAllocationPerTenancy`, `MovedOutOnce`: a tenancy has one
  allocation and none once it is closed, and is closed once; transfers and move-outs
  that read the same source consume it once. The first is proved of all operations,
  the second of all but the notice that is written late (section 5).
- `TenantsKeepUnit`: whoever was given the keys has a unit to use until moved out.
  The orphan clean-up, which lists abandoned test tenancies without a lock and cancels
  them later, meets move-ins and hand-overs of the same unit; cancellations and deletions end the
  booking a tenancy came from; transfers and move-outs give the unit up. It is checked
  in `leaving` and proved of all operations but, again, the late notice.

*Supplies* (`Merchandise.tla`)

- `StockAccounted`: the reserved count of a product is, to the item, what open
  orders and reserved packages hold. `HeldInStock`: goods on hold for tenants are
  in stock, although bookings may over-reserve.
- `MoneyAccounted`: a payment is posted once, after the provider has it, against
  a charge for goods that were held, or as a credit for review; a test order
  never posts. `NoResurrection`: goods let go are never held or sold again by a
  late payment. `InboxHonest`: an inbox row is closed only when the payment is
  posted.
- `ReleasedEventually`, `PostedEventually`, `BrokenIsReported`: liveness, below.

*Money side* (`Finance.tla`)

- `BooksAgree`: the stored balance of an account is the sum of its ledger, and a
  payment is in the ledger once, for its amount, exactly when it was received.
- `RefundWithinPayment`: refunds and reversals of a payment never exceed it, and
  its status says how much of it was given back.
- `HoldBacksRefund`: a reservation at Netcash stands for an approved, unpaid refund.
  It holds while nobody rejects a refund after its reservation (section 5).
- `OneDecision`: an account has one open adjustment at most, and none while a
  debit run has reserved it.
- `ReviewedFigures`: a month is billed, and an adjustment posted, on the very
  figures a person reviewed.
- `AskedIsOwed`: when a run's submission begins, each of its accounts owes its
  rent and nothing else, with plan and mandate in force and nothing on the way.
- `OutcomeHonest`: what the portal says of a run is what the bank did.
- `BankSpec`: debit runs implement `BankRequests`: a month of an account is
  committed once and put to the bank at most once, by one run.

*Sending* (`Delivery.tla`)

- `OutboxSpec`: each of the three ways implements `Outbox`: claimed once, handed
  over at most once, and never reopened.
- `TruthTold`: what is recorded or reported as sent was taken by the provider in
  that text, and what is recorded as rejected was not.
- `ReportsInAnyOrder`: the log depends on which reports came, not on their order.
- `RetriedOnlyFailed`: staff retry only what the provider refused or failed.
- `UncertainHoldsSchedule`: the schedule claims no reminder while an earlier one
  of the account is being sent or its outcome is unknown.
- `ClaimedAsSanctioned`: at the moment of the claim the policy, plan, run, account
  and event it rests on are still as they must be.

*Access evidence* (`Access.tla`)

- `ApprovedWasSeen`: a photograph stands approved, and an identity accepted, only if
  the person who decided had opened that version, and every page of it.
- `IntentStands`: a request for an activation stands on an approved image that is
  there, of a customer who has the keys. `HandedOverWasIdentified`: under an
  identity policy the keys are held on an accepted document, and nothing done to
  the copy later takes the acceptance back.
- `PeopleBounded`: a booking lists no more people than it may, and nothing is kept
  of somebody removed.
- `KeptUntilDue`: the job erases what is due when it erases it, not what was due
  when it made its list. `HeartbeatMeansClean`: the heartbeat that lets photographs
  be collected is refreshed only by a run that left nothing of what it found.
- `ErasedEventually`: photographs and copies that are due are erased in the end
  (liveness, below).

The type invariants of the five families are proved (section 6); those of the shop
and of the access evidence, which say more than types, are checked as well.

## 4. Passing runs

| run | instance | operations | distinct states | shows |
|---|---|---|---|---|
| `booking` | 1 unit, 1 enquiry, 2 requests, 2 bookings, 2 tenancies, clock 0..2 | every guarded operation but transfers and the legacy handover | 388 thousand | the unit, enquiry, signature and conversion promises, and the refinement |
| `leaving` | 2 units, 1 enquiry, 2 requests, 1 booking, 1 tenancy, 3 occupancies | transfers against move-outs, next to the overwriting operations | 1.76 million | the source of either is consumed once, a closed tenancy keeps nothing, and whoever has the keys keeps a unit |
| `stock` | 2 orders, 1 package, 1 product, 1 delivery, 1 item in stock | everything but the worker | 817 thousand | stock, money and inbox |
| `worker` | 2 orders, batches of 1, 1 batch a tick, order 1 may be damaged | worker and payments, with fairness | 165 thousand | release, posting and reporting in the end |
| `finance` | 1 account, 2 clerks, 1 screen, 1 submission, 2 refreshers, 1 month, 1 payment, 2 adjustments, 2 runs, amounts to 2 | bills, receipts, corrections, refunds, debit runs | 766 thousand | books, refunds, decisions, outcomes, and the refinement |
| `delivery` | 1 SMS, 1 WhatsApp and its retry, 2 e-mails, 1 policy, 1 account, 2 days, 2 staff, 2 processes, 2 texts | all three ways | 205 thousand | truthful records, reports, retries, claims, and the refinement |
| `evidence` | 1 booking that may have 2 people, 3 people, 1 staff, 1 run with batches of 1; 2 photographs, or 1 and a copy of 2 pages, or 4 nominations and photographs of people; 1 turn | everything of the access evidence, with fairness | 821 thousand | seen before approved, activations, keys on an accepted document, the limit, nothing erased early and everything in the end, what a heartbeat says |

**Why these bounds.** Every hazard found in reading the code is a pair of
requests around a third event, so two concurrent requests, and rows enough for a
second booking or tenancy to come after the first, are what it takes; requests
are reused, so any number follow one another. The violations below need no more
than that. One unit is enough for everything but transfers; two let a transfer
go and come back. The clock needs a moment before, at and after a deadline. One
product with one item makes every two holds compete. One batch of one order a
tick makes the cursor carry over ticks, which 100 orders and five batches would
need 501 rows for. The balance of an account owes a rent of 1 or is in credit, and amounts of 1 and
2 make a part and a whole of a payment differ. One account is enough for the money
side, whose rows never relate two; two runs make the second compete for the month
the first has reserved, and two refreshers cross. Two days make an earlier
reminder; two processes and two texts make a repeated call with another text.
One booking is enough for the evidence, whose rows never relate two; two versions
make a replaced one, two pages one that was not opened, three people one too many
for the list, and a batch of one leaves a backlog. `Quotas` bounds what may happen
in one behaviour: photographs of customers, nominations and photographs of
people, copies, and turns of the surroundings (a hold extended, a run failed, a
policy or the switch changed, a heartbeat aged). The initial state picks one of
three (`Mixed`), so the copy is met by photographs and a turn, and people by
everything but a turn; in it the identity policy applies where there are copies, and
the photo policy of the environment until the switch is used. One retention run at
a time is checked, which may be followed by others; that overlapping ones keep the
safety properties is proved (section 6), and that they still erase everything
is not shown.
`MaxRes`, `MaxTen`, `MaxOcc`, `MaxMaint`, `MaxOrder`, `MaxNow`, `MaxStock`,
`MaxFaults`, `MaxMonth`, `MaxPlan`, `MaxPay`, `MaxAdj`, `MaxRun`, `MaxAmount`,
`MaxDay` and `MaxText` bound what grows for ever in the
code; an action that would pass one is disabled, which is why these instances
may stop, and deadlock is not checked. Interchangeable rows and processes of the
leasing, money and sending runs are symmetric; none of those checks liveness.

**Fairness** (`worker` and `evidence`). The retention job is a request of
a timer that fires every five minutes
(`src/scripts/install-facial-photo-worker.sh:36-39`), and its steps run on unless
it fails, so the steps of a run are weakly fair; failures are possible at any step
but bounded (`Quotas`). Customers, staff and time are not fair. The expiry worker is an interval timer of the running
process (`src/src/instrumentation.ts`), so its steps are weakly fair; a delivery
that is being handled runs on unless it is lost. That the provider repeats a
notification until it is answered with success is an assumption about Netcash,
which the route relies on by answering 503. Crashes and failed calls are
possible at every point but bounded (`MaxFaults`). Nothing is claimed to happen
in the leasing core: the sweep of lapsed holds is not scheduled; it runs when
somebody opens the website's list of facilities or books. Nor in the sending of
messages: the ticks of its workers are requests that nothing in the repository
schedules, and what is uncertain waits for a person. Nor of debit runs, whose
every step is a clerk's.

## 5. Where the code and its documents disagree

Each run checks one sentence and ends in a counterexample.

- `cancel_race` (`HoldBacked`): two cancellations of one booking, with a new
  booking of the unit between them. The later one overwrites the status by id
  and frees the unit under the new booking
  (`lib/leasing-service.ts:348-411`; `docs/LEASING_CORE.md:9`).
- `late_notice` (`MovedOutOnce`): a notice decided before a move-out is written
  after it, and the closed tenancy can be moved out and charged again
  (`lib/leasing-service.ts:1034-1040`; `docs/LEASING_CORE.md:13`).
- `refund_reject` (`HoldBacksRefund`): an approver rejects an approved refund while
  its Netcash reservation holds. Cancelling it is refused, rejecting it is not;
  the reservation then stands for nothing and no step lets it go
  (`lib/adjustment-service.ts:155-160`;
  `docs/NETCASH_REFUND_PREPARATION_2026-10-16.md:31`).
- `transfer_photo` (`PhotoKeptWhileRenting`): the retention job takes the occupancy a
  transfer left for the end of the tenancy, and erases the photograph of a customer
  who only changed units (`lib/facial-photo-service.ts:142`, against what the
  customer is told at `lib/facial-photo-control.ts:10`).
- `moveout_transfer` (`OccupiedIsUsed`): a transfer between the reading and the
  claim of a move-out leaves the new unit occupied by nobody; the claim compares
  only the number of occupancies (`lib/leasing-service.ts:1120-1153`;
  `docs/LEASING_CORE.md:13`).

Met while modelling, of the same kind, without a run of their own: the undo of a
hold whose code could not be sent (`lib/public-booking-service.ts:376`) and the
orphan clean-up (`units/release-orphans/route.ts:92`) write on stale readings as
the cancellation does; editing a booking moves it without touching either unit;
a promised unit can be retired; a converted booking can be cancelled; a customer can
sign online between the checks of a staff move-in, which do not lock the booking,
and its conversion, so that the signed booking becomes a draft with a second lease
to sign (`lib/leasing-service.ts:600-709`, against its comment at 606); and move-in
creates a `DRAFT` tenancy where `docs/LEASING_CORE.md:10` says active.

## 6. Proofs

TLC checks the instances above; the theorems below hold for every value of the
constants: any number of units, floors, enquiries, requests and rows, and any
set of operations in use; any number of orders, products and deliveries; any
number of accounts, amounts, payments, adjustments and runs; any number of
messages, staff, processes and days; any number of people, pages, versions and
overlapping retention runs. They rest on nothing but `BoundsAssumption`,
`FloorAssumption` and `NoneAssumption` of `LeasingState`; `BasketAssumption`,
`PackageAssumption`, `WorkerAssumption` and `SizeAssumption` of `Merchandise`;
`BoundsAssumption` and `NoneAssumption` of `AccountState`; `BoundAssumption`,
`ChannelAssumption` and `EmailAssumption` of `DeliveryState`; `HostAssumption`,
`KindsAssumption` and `LimitsAssumption` of `AccessState`: that bounds are
numbers, tables are of the right shape, and names of different things differ.

*Leasing*

- `LeasingProofs!Typing`: `Spec => []TypeOK`. Rows are records in tables, and
  actions write them field by field, so the proof starts with one lemma for each
  record type (setting a field within its range keeps the row well formed) and
  one for tables, then one step for each action.
- `OccupancyProofs!OneTenant`: `Spec => []OneOccupancyPerUnit`, provided
  transfers are not in use. The invariant is not inductive: from a state with
  two move-ins of one unit past their checks, both would commit. The
  strengthening is `MoveInsGuarded`: at most one request is between the checks
  and the writes of a move-in, and the unit of that request is vacant and on an
  open floor. It is inductive because whoever creates an occupancy or closes a
  floor waits for the facility row, which that request holds
  (`FacilityUnlocked`). `MoveInsHold` states it for the whole specification.
- `OccupancyProofs!ClosedFloorsStayClosed`: `Spec => FloorGate`, from the same
  invariant, transfers included. `StepGuarded` is the heart of both: one step per
  action of `Next`, each ending in `StepGoal`. Most actions let nobody in, and
  `QuietStep` disposes of them at once; creating a booking, moving in, confirming,
  renewing and transferring are argued each for itself.
- `LeasingProofs!ConversionKept` (`ConversionStands`) and `SignatureKept`
  (`SignedSurvivesSweep`), provided no operation writes a booking's status without
  looking at it (`NothingOverwrites`: no `cancel`, `otpfail`, `delete`). The
  invariant `BookingInv` adds that a booking whose expiry has been claimed is still
  active, and that one request only has claimed it (`EndingsClaimed`). A step leaves
  a booking at its status, begins, converts or ends it (`BookingStep`), and the
  row lock keeps a conversion away from a claimed one.
- `LeadsFollowBookings` (`LeadBacked`), unlocked cancellations included, provided the
  two operations that drop a booking and do not look at its enquiry (`otpfail`,
  `delete`) are not in use. It needs that an enquiry nobody has taken down is in no
  booking (`LeadInv`).
- `OneAllocation` (`OneAllocationPerTenancy`), of every operation, and `MovedOutOnceKept`
  (`MovedOutOnce`), of every operation but the notice that the run `late_notice` is
  about. `TenancyInv` adds whose each occupancy is and what statuses go together
  (`OccupanciesOwned`), what a transfer, a move-out or a clean-up knows of the
  occupancies it has read, and that two move-outs never close the same ones
  (`LeavingKnown`). A transfer rechecks the occupancy under its lock; a move-out takes
  all that the tenancy has when it claims: this is why neither needs to have read the
  latest.
- `TenantsKept` (`TenantsKeepUnit`), of every operation but the notice. `Keyed` adds
  that the keys are with a tenancy that is no simulation and is running or closed;
  a clean-up cancels drafts of simulations only, so it never meets one of these, and
  `TenancyInv` says that a running tenancy lives somewhere (`LeftOnce`).
- `OccupancyProofs!UnitsBacked` (`UnitBacked`), under `Guarded`: the operations in use
  are guarded ones, and transfers and move-outs not both. None of its parts is
  inductive, and the actions look at the mark of a unit *or* at its claims, so it needs
  both directions at every moment. `HoldingInv` says of each unit what its mark and its
  one claim are (`UnitOK`), and of each request what it knows of the unit it works on
  (`Known`): an expiry that counted found nothing else, a move-in has the unit to itself
  but for the booking it converts, a move-out releases only units of occupancies it has
  claimed. That rests on `BookingInv`, `TenancyInv` and `MoveInsGuarded`, which is why
  they come first (`Premises`). `MarkInv` is the other direction: what is marked is
  claimed, and a move-out's plan promises its units to nobody. This holds because
  without transfers a tenancy has one occupancy, ever (`OneRow`), so that a move-out
  claims what it read (`ClaimedAsRead`): the comparison of two numbers, which is all the
  code does, is then enough. `OccupiedAreUsed` draws from it that it takes the pair of
  operations to reach what `moveout_transfer` shows.
- `AllocationKept` (`AllocationSpec`), under the same assumption: every step lets one
  party take a unit (`UnitPromised`), give it up (`UnitVacated`, `BookingEnded`,
  `MoveOutVacates`) or exchange it (`TransferMoves`), or changes nobody's (`NothingMoved`). A
  conversion is of the last kind, since the party of a tenancy is the booking it came
  from; that this names one booking, and that the tenancy it names is there, is
  `PartiesKnown`. That a tenancy holds one unit at most is proved before, of
  every operation (`OneAllocation`).

*Supplies*

- `SettlementProofs!PostedOnce`, `InboxIsHonest`, `LetGoForGood`:
  `MoneyAccounted`, `InboxHonest` and `NoResurrection`. None is inductive alone.
  `SettlementInv` adds what a delivery knows between its steps: if it was told of
  an acceptance the provider has accepted, and if it is about to close its inbox
  row the payment is posted (`DeliverySound`); that an order unknown to the
  provider has no payment, and that goods are held only for orders that wait for
  payment or are paid (`OrderSound`). It holds because the provider never takes
  an acceptance back and a posted payment stays posted, so what a delivery read
  before another one settled is still true.

In `SettlementProofs`, `GoodsStep` and `DeliveryStep` dispose of whatever does
not touch money, and `HooksStep` is the argument about settlement.

- `SettlementProofs!HeldGoodsAreThere`, `ReservedToTheItem`, `ShopTyped`:
  `HeldInStock` and `TypeOK` in general, `StockAccounted` while no order can lose
  its lines by hand. `StockInv` says of each product that what orders hold and
  what packages hold is at most what is reserved (exactly that, without lost
  lines), and that what orders hold is in stock. The second half needs the
  first: an order takes what is in stock *beyond what is reserved*, and a
  write-off leaves what is reserved. Packages may reserve beyond the stock and
  do not disturb it. Every step is one of a few kinds (`GoodsStay`, `GoodsTaken`,
  `GoodsReleased`, packages, stock movements), and each kind has its lemma.

*Money side*

- `FinanceProofs!FinanceTyped` (`TypeOK`) and `OneAtATime` (`OneDecision`), which
  are inductive together.
- `ReservationStands`: `HoldBacksRefund`, provided `"lateReject"` is not in use.
- `OnReviewedFigures`, `AskedWhatIsOwed`: the action properties, from the guards
  of the step under the account's lock and `OneDecision`.
- `HonestOutcome`: `OutcomeHonest`. `BankInv` adds what a submission and a refresh
  know between their steps (`RunKnown`, `CheckKnown`): a report read before
  another refresh wrote is still true, since the bank does not take back what it
  says of a file.
- `BankKept`: `Spec => BankSpec`. `ReservedInv` says that an instruction's run is
  alive; `StageMoves` maps each step to a set of months that move together, or
  to a stutter.
- `LedgerProofs!BooksKept` (`BooksAgree`): ledgers are finite, add up to the stored
  balance, and refer to received payments and posted decisions only, so a new
  reference is new (`LedgerInv`); the one receipt of a payment is in the ledger of
  its own account (`ReceiptInv`).
- `LedgerProofs!RefundsWithinPayments` (`RefundWithinPayment`): what is given back
  of a payment stands in corrections on a received payment of the same account
  (`GivenInv`), and adds up to no more than it (`WithinInv`).

*Sums.* `SumProofs` proves what the books, the stock and the refunds need: the sum
of integers over a finite set does not depend on the order of summation, is an
integer, and grows by one summand when an element joins the set (`SumRemove`,
`SumAdds`). The library's induction theorems take an operator as a parameter,
which the provers cannot instantiate, so each induction is an argument by
the smallest counterexample.

*Sending*

- `DeliveryProofs!DeliveryTyped` (`TypeOK`; it needs that an active plan has an
  author), `OutboxKept` (`OutboxSpec`) and `TruthKept` (`TruthTold`). The
  strengthening `SendInv` says what a process in the middle of a message knows:
  its row is claimed, by it alone, for the text it carries; before the call the
  message was not put to the provider, after it once; and its answer is true.
  Every step is a quiet one, a claim, a handing over or a recording (`Quiet`,
  `Claiming`, `Handing`, `Recording`); each kind keeps `SendInv` and maps to
  the step of the outbox, and the actions are sorted into kinds.
- `DeliveryProofs!Sanctions` (`ClaimedAsSanctioned`), `ScheduleHeld`
  (`UncertainHoldsSchedule`), `AnyOrder` (`ReportsInAnyOrder`) and `RetriesRefused`
  (`RetriedOnlyFailed`), each with its invariant: what a run has listed
  (`ScheduleInv`), what a row says of the reports that came (`ReportInv`), and that
  a retry's row exists only after a failure (`RetryInv`).

*Access evidence*

- `AccessProofs` proves all seven safety properties from one inductive invariant,
  `Standing` (`AccessStands`). A step does one of seven things to a photograph
  (`PhotoStep`: leaves it, lists, submits, approves, activates, ends or erases it)
  and one of four to a copy (`CopyStep`); a row of `home` never goes back on what
  is kept in `RowStep`. Each action is sorted once, with the guard it rests on
  (`PhotoSteps`, `CopySteps`, `HomeSteps`), and the properties are argued over the
  kinds of steps.
- `AccessTyped`, `AccessApprovedWasSeen`, `AccessIntentStands`, `AccessIdentified`
  and `AccessPeopleBounded`. `HandedOverWasIdentified` needs that keys, tenancy and
  unit come with the conversion, after which the customer and staff cannot reopen
  the copy (`HomeOK`); the limit needs that only `Nominate` lengthens the list, by
  the one person it counted for (`PeopleStep`).
- `AccessKeptUntilDue`, from the second look under the lock.
- `AccessHeartbeat`: `OwedInv` says that of what a run owes each is gone, replaced, or
  due still while the run is busy with its kind. It is inductive because what is
  due stays due while its image is there (`DueStays`): a tenancy does not reopen, a
  transfer is not undone, and a booking that can be revived was never signed for,
  so nothing was photographed for it (`ImageInv`). A count that finds nothing due
  therefore clears the kind, whatever the other runs did.

**Model-checked only:** liveness under fairness, which is out of the prover's reach:
`ReleasedEventually`, `PostedEventually`, `BrokenIsReported` and `ErasedEventually`.
Every other property of a passing run is a theorem, some under an assumption on the
operations in use that is named with it. Where one is left out, the property is
false with it: the runs of section 5 and the writes listed after them are the reason.

## 7. What the model leaves out of the parts it covers

- Other writers of a unit's status: the payment simulator
  (`lib/public-payment-simulator.ts:66-71`, refused in production), the test
  reset and the combination of units by an administrator.
- The mode of public booking with verification switched off, the walk-in visit,
  the window in which an online lease may still be signed beyond the hold, and
  the payment evidence that a handover also asks for (the photograph and the
  identity it asks for are in `Access`).
- Staff edits and deletions of enquiries, and the bulk ending of enquiries.
- The text of a one-time code: a code is known by when it expires, which is one of the
  two columns that consuming it compares. A staff extension leaves the code alone, a
  renewal replaces it.
- The two-transaction deadlocks PostgreSQL resolves by rolling one back are
  covered by `Rollback` and `PackageAbandon`; retries by the caller are new
  requests.
- In Merchandise: VAT and prices; the idempotency key of a stock movement; the
  age limits of the worker's health report (abstracted to whether a sweep has
  completed). An inbox row that is reopened by a slow delivery leads only to
  processing again what is already posted, which the model includes. The error
  that settlement raises when a payment is already successful while the order
  awaits it cannot be reached and is part of the guard.
- In Finance: tax, insurance and the lines of a bill (one rent stands for the
  whole invoice); failed and test payments and the checkout that is tried again;
  receipt reallocation and the settlement statement of a move-out; the terms and
  dates of a mandate (in force or not); which of the reasons blocks a row of a
  run. An additional charge takes the path of a credit and is modelled, but left
  out of the pass run. A late write of a refresh may set a loaded run back to
  submitted, which is harmless and included.
- In Delivery: the revisions of a command; the pages of an evaluation, the ten
  rows of a tick and their order; the hours of a schedule's window (a day); the
  setting that activates a worker (a choice of each process). A message without
  reports stands for an SMS without callback and for e-mail sent by the same code.
  The communication-log row of a notice follows the notice's row. A WhatsApp message is
  retried once; the code lets a failed retry be retried in turn, which claims a row of
  its own in the same way. The same claim
  is made by operational notices, the welcome of a tenant, booking confirmations,
  notices by phone and the browser's loop over notices
  (`collection-notice-delivery.ts`): they are not modelled apart.
- In Access: images and pages are there or not; their encryption, the hashes in a
  decision and the version a client sends along (an older one is refused) are
  inside the guards. The photo policy of the environment and that for nominated
  people are as configured; a document has a fixed number of pages. Payment and
  receipt are the lease being `PAID`; the fetching of the signed lease and its
  comparison come before the transactions. A cancellation is one step here, its
  race is in `Bookings`. The moment a run compares dates with is that of each step,
  where the code takes one for each kind. The activation at the provider and the
  decisions about access are not modelled. A transfer leaves the booked unit for good
  (the code would accept it again as a destination, and then as eligible), and the end
  of a tenancy is final: a notice is one step here, so the one that reopens a closed
  tenancy is in `Tenancies` only.

Worth knowing, and not contradicted by any document: an online booking under an
identity policy that staff move in before the copy is accepted cannot be accepted
afterwards (`reviewIdentity` wants an active booking), so its hand-over stays
blocked; after a transfer no new photograph can be submitted or approved; the
worker's script reads the count of an answer as at most 100
(`scripts/run-facial-photo-worker.sh:11`), while one request may erase that many of
bookings and again of people; after a submitted debit run
`ADJUSTMENT_COLLECTION_PENDING` refuses adjustments of its accounts for good,
since only a cancelled run is no longer counted; the legacy monthly job charges the
first occupancy of an account only; the WhatsApp retry sends the template without its variables
(`app/api/v1/communications/retry-whatsapp/route.ts:20-22`); a staff e-mail held for review
is looked at again by every tick.

## 8. Plan

Done: the leasing core, the supplies shop, the money side, the sending of
messages and the access evidence, with their runs; the theorems of section 6.

Next, in order:

1. The booking and tenant-request branches of the payment notification, composed
   with the leasing core; the payment simulator as a writer of a unit's status.
2. The move-out settlement statement with receipt reallocation, over `Finance`.
3. The attempt journal of DebiCheck, once a transport exists.

## 9. Not modelled

Access control, biometrics and the activation of photographs keep their state in an
external controller.
Receipts imported from bank files, price changes and rent reviews are approvals of
a fingerprint under one lock, and mostly arithmetic. DebiCheck is a sandbox
without a transport. MRI export, insurance, the arrears review, the operations
desk, enquiries and data-loss prevention are records with a status and one writer
at a time. Sign-in, reporting, marketing, pages,
scripts and vendored code have no part in the correctness of what is modelled;
they are most of the repository's lines, which is why the modelled share of the
lines is small. `PROJECT.json` has the reason for each.

## 10. Running it

    tlc -workers 2 -config MCLeasing_booking.cfg MCLeasing.tla
    tlc -workers 2 -config MCMerchandise_worker.cfg MCMerchandise.tla
    tlc -workers 2 -config MCFinance_finance.cfg MCFinance.tla
    tlc -workers 2 -config MCDelivery_delivery.cfg MCDelivery.tla
    tlc -workers 2 -config MCAccess_evidence.cfg MCAccess.tla
    for m in Leasing Occupancy Settlement Finance Sum Ledger Delivery Access; do
        tlapm ${m}Proofs.tla; done

A passing run takes from ten seconds to three minutes. The runs of section 5 are
meant to end with a counterexample.
