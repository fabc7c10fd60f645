----------------------------- MODULE DebitRuns ------------------------------
(***************************************************************************)
(* Debit order runs: the accounts of a facility whose invoice of a month   *)
(* may be collected are reserved in a run, and the run's file is handed to *)
(* the bank once.  The answer may be lost, the process may stop, and the   *)
(* bank says later, when asked, what it loaded of the file.                *)
(*                                                                         *)
(* An operator that goes wrong by its name or comment (ClaimAsPrepared,    *)
(* UploadRetrying) is a slip of the one after it; the specification does   *)
(* not use it.                                                             *)
(***************************************************************************)
EXTENDS AccountState

ACTIVE_RUN == {"SUBMITTED", "REVIEW_REQUIRED"}   \* statuses a report is asked for

(* The plan is saved, active only with a mandate, or paused. *)
SaveDebitPlan(a, to) ==
    /\ "debit" \in Ops
    /\ to \in {"ACTIVE", "PAUSED"} /\ to # debit[a].plan
    /\ to = "ACTIVE" => debit[a].mandate
    /\ debit' = [debit EXCEPT ![a].plan = to]
    /\ UNCHANGED <<billing, books, pay, adj, rec, instr, run, upload, bank, sent, check>>

(* The customer withdraws the mandate at the bank. *)
MandateLapses(a) ==
    /\ "lapse" \in Ops
    /\ debit[a].mandate
    /\ debit' = [debit EXCEPT ![a].mandate = FALSE]
    /\ UNCHANGED <<billing, books, pay, adj, rec, instr, run, upload, bank, sent, check>>

(* An account's month can be collected when nothing else is being decided  *)
(* about it, nobody else has reserved it, and what is owed is its invoice  *)
(* and nothing but: no entry since, no receipt on its way.                 *)
Collectable(a, m, own) ==
    /\ OpenOn(a) = {}
    /\ debit[a] = [plan |-> "ACTIVE", mandate |-> TRUE]
    /\ instr[<<a, m>>] \in {NoRow, own}
    /\ invoice[<<a, m>>] # {}
    /\ ledger[a] = invoice[<<a, m>>]
    /\ balance[a] = Rent
    /\ \A p \in Pay : pay[p].acc = a => pay[p].status # "PENDING"

(* The rows of a run, one for every account, blocked or with its figures.  *)
(* The reason of a blocked row is in the fingerprint as well; it is not    *)
(* told apart here.  A run's rows are read no more once it is claimed or   *)
(* cancelled.                                                              *)
Rows(m, own) ==
    [a \in Account |-> IF Collectable(a, m, own)
                       THEN [blocker |-> FALSE, seen |-> Figures(a)] ELSE Blocked]

(* The run reserves its accounts.  A preview that went stale before is     *)
(* refused, so the run is prepared on the rows of this moment.             *)
PrepareRun(r, m) ==
    LET rows == Rows(m, NoRow)
        eligible == {a \in Account : ~ rows[a].blocker}
    IN  /\ "debit" \in Ops
        /\ NextRow(run, r)
        /\ eligible # {}
        /\ run' = [run EXCEPT ![r] = [status |-> "PREPARED", month |-> m, token |-> FALSE,
                                      cooling |-> FALSE, rows |-> rows]]
        /\ instr' = [k \in Account \X Month |->
                        IF k[2] = m /\ k[1] \in eligible THEN r ELSE instr[k]]
        /\ UNCHANGED <<billing, books, pay, adj, rec, debit, upload, bank, sent, check>>

(* Only a run nobody has begun to submit is given up. *)
CancelRun(r) ==
    /\ run[r].status = "PREPARED"
    /\ run' = [run EXCEPT ![r].status = "CANCELLED", ![r].rows = NoRows]
    /\ instr' = [k \in Account \X Month |-> IF instr[k] = r THEN NoRow ELSE instr[k]]
    /\ UNCHANGED <<billing, books, pay, adj, rec, debit, upload, bank, sent, check>>

-----------------------------------------------------------------------------
(* A submission that trusts the rows the run was prepared with. *)
ClaimAsPrepared(r) ==
    /\ run[r].status = "PREPARED"
    /\ run' = [run EXCEPT ![r].status = "SUBMITTING", ![r].rows = NoRows]
    /\ upload' = [upload EXCEPT ![r] = "claimed"]
    /\ UNCHANGED <<billing, books, pay, adj, rec, debit, instr, bank, sent, check>>

(* The submission claims the run before it calls the bank, while every row *)
(* is still as it was reviewed.                                            *)
ClaimRun(r) ==
    /\ run[r].status = "PREPARED"
    /\ Rows(run[r].month, r) = run[r].rows
    /\ run' = [run EXCEPT ![r].status = "SUBMITTING", ![r].rows = NoRows]
    /\ upload' = [upload EXCEPT ![r] = "claimed"]
    /\ UNCHANGED <<billing, books, pay, adj, rec, debit, instr, bank, sent, check>>

(* An unknown answer tried again at once, as a transport might. *)
UploadRetrying(r) ==
    /\ upload[r] \in {"claimed", "unknown"}
    /\ \E answer \in {"token", "unknown"} : upload' = [upload EXCEPT ![r] = answer]
    /\ bank' = [bank EXCEPT ![r] = "received"]
    /\ sent' = [k \in Account \X Month |->
                   IF instr[k] = r THEN sent[k] + 1 ELSE sent[k]]
    /\ UNCHANGED <<billing, books, pay, adj, rec, debit, instr, run, check>>

(* The bank refuses the file or takes it; whatever it does, its answer may *)
(* be lost, and the file may never have reached it.                        *)
Upload(r) ==
    /\ upload[r] = "claimed"
    /\ \/ /\ bank' = [bank EXCEPT ![r] = "received"]
          /\ \E answer \in {"token", "unknown"} : upload' = [upload EXCEPT ![r] = answer]
       \/ /\ bank' = [bank EXCEPT ![r] = "refused"]
          /\ \E answer \in {"rejected", "unknown"} : upload' = [upload EXCEPT ![r] = answer]
       \/ /\ upload' = [upload EXCEPT ![r] = "unknown"]
          /\ UNCHANGED bank
    /\ sent' = [k \in Account \X Month |->
                   IF instr[k] = r /\ bank'[r] # "none" THEN sent[k] + 1 ELSE sent[k]]
    /\ UNCHANGED <<billing, books, pay, adj, rec, debit, instr, run, check>>

(* An answer that never came, taken for a refusal. *)
RecordGuess(r) ==
    /\ upload[r] \in {"token", "rejected", "unknown"}
    /\ run' = [run EXCEPT ![r].status = IF upload[r] = "token" THEN "SUBMITTED" ELSE "REJECTED",
                          ![r].token = upload[r] = "token"]
    /\ upload' = [upload EXCEPT ![r] = "none"]
    /\ UNCHANGED <<billing, books, pay, adj, rec, debit, instr, bank, sent, check>>

(* The answer is kept; a token that cannot be saved leaves the run to be   *)
(* reviewed without one.                                                   *)
RecordAnswer(r) ==
    /\ \/ /\ upload[r] = "token"
          /\ run' = [run EXCEPT ![r].status = "SUBMITTED", ![r].token = TRUE]
       \/ /\ upload[r] = "rejected"
          /\ run' = [run EXCEPT ![r].status = "REJECTED"]
       \/ /\ upload[r] \in {"unknown", "token"}
          /\ run' = [run EXCEPT ![r].status = "REVIEW_REQUIRED"]
    /\ upload' = [upload EXCEPT ![r] = "none"]
    /\ UNCHANGED <<billing, books, pay, adj, rec, debit, instr, bank, sent, check>>

(* The process stops: the run stays claimed. *)
SubmitterStops(r) ==
    /\ upload[r] # "none"
    /\ upload' = [upload EXCEPT ![r] = "none"]
    /\ UNCHANGED <<billing, books, pay, adj, rec, debit, instr, run, bank, sent, check>>

(* The bank works through a file it has taken. *)
BankLoads(r) ==
    /\ bank[r] = "received"
    /\ \E outcome \in {"loaded", "partial"} : bank' = [bank EXCEPT ![r] = outcome]
    /\ UNCHANGED <<billing, books, pay, adj, rec, debit, instr, run, upload, sent, check>>

-----------------------------------------------------------------------------
(* A refresh claims the report by the time of the last check, asks, and    *)
(* writes what it was told, whatever another refresh has written since.    *)
RefreshClaim(k, r) ==
    /\ "report" \in Ops
    /\ check[k] = NoCheck
    /\ run[r].token /\ run[r].status \in ACTIVE_RUN /\ ~ run[r].cooling
    /\ run' = [run EXCEPT ![r].cooling = TRUE]
    /\ check' = [check EXCEPT ![k] = [run |-> r, report |-> "NONE"]]
    /\ UNCHANGED <<billing, books, pay, adj, rec, debit, instr, upload, bank, sent>>

(* What the portal makes of the bank's report. *)
Report(r) ==
    CASE bank[r] = "received" -> "SUBMITTED"
      [] bank[r] = "loaded"   -> "ACCEPTED"
      [] OTHER                -> "REVIEW_REQUIRED"

RefreshFetch(k) ==
    /\ check[k].run # NoRow /\ check[k].report = "NONE"
    /\ check' = [check EXCEPT ![k].report = Report(check[k].run)]
    /\ UNCHANGED <<billing, books, pay, adj, rec, debit, instr, run, upload, bank, sent>>

RefreshWrite(k) ==
    /\ check[k].report # "NONE"
    /\ run' = [run EXCEPT ![check[k].run].status = check[k].report]
    /\ check' = [check EXCEPT ![k] = NoCheck]
    /\ UNCHANGED <<billing, books, pay, adj, rec, debit, instr, upload, bank, sent>>

(* No report came, an unreadable one did, or the process stopped. *)
RefreshFails(k) ==
    /\ check[k] # NoCheck
    /\ check' = [check EXCEPT ![k] = NoCheck]
    /\ UNCHANGED <<billing, books, pay, adj, rec, debit, instr, run, upload, bank, sent>>

(* Half a minute has passed since the last check. *)
CooledDown(r) ==
    /\ run[r].cooling
    /\ run' = [run EXCEPT ![r].cooling = FALSE]
    /\ UNCHANGED <<billing, books, pay, adj, rec, debit, instr, upload, bank, sent, check>>

DebitRuns ==
    \/ \E a \in Account : MandateLapses(a) \/ \E to \in {"ACTIVE", "PAUSED"} : SaveDebitPlan(a, to)
    \/ \E r \in Run : \/ \E m \in Month : PrepareRun(r, m)
                      \/ CancelRun(r) \/ ClaimRun(r) \/ Upload(r) \/ RecordAnswer(r)
                      \/ SubmitterStops(r) \/ BankLoads(r) \/ CooledDown(r)
                      \/ \E k \in Refresher : RefreshClaim(k, r)
    \/ \E k \in Refresher : RefreshFetch(k) \/ RefreshWrite(k) \/ RefreshFails(k)
=============================================================================
