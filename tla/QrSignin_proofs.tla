-------------------------- MODULE QrSignin_proofs --------------------------
(***************************************************************************)
(* Theorems about QrSignin, for any number of requests, transfers and      *)
(* devices and any limits.                                                 *)
(*                                                                         *)
(* A transfer only moves forward (Grows); what a request read of it stays  *)
(* true as far as its UPDATE relies on it (Fits); so each row keeps to     *)
(* RowOK, which says at every status who was confirmed and signed in.      *)
(* The limits on starts rest on Places: one request at a time counts and   *)
(* inserts, and nothing else adds a start or a live transfer.              *)
(***************************************************************************)
EXTENDS QrSignin, SequenceTheorems, FiniteSetTheorems, TLAPS

Ended == {"denied", "used", "gone"}

\* What is so of a transfer at each status.
RowOK(x) ==
    LET row == xfer[x] IN
    /\ row.status = "none" => row = NoRow
    /\ row.status \in {"none", "waiting", "scanned"} => confirmed[x] = {}
    /\ row.status \in {"none", "waiting", "scanned", "approved"} => sessions[x] = <<>>
    /\ row.status \in {"scanned", "approved"} => row.target \in Devices
    /\ row.status = "approved" => confirmed[x] = {row.target}
    /\ Len(sessions[x]) <= 1
    /\ \A i \in DOMAIN sessions[x] : confirmed[x] = {sessions[x][i]}
    /\ wrong[x] <= MaxAttempts
    /\ row.status # "gone" => /\ row.attempts = wrong[x]
                              /\ wrong[x] = MaxAttempts => row.status = "denied"
    /\ "denied" \in audit[x] => row.status \in Ended

\* What a request at `step` may rely on of its transfer.
Fits(step, job) ==
    LET row == xfer[job.id] IN
    /\ step \in PCs \ {"idle", "lock", "count", "insert"} => job.id \in Transfers
    /\ step \in {"scan", "approve", "account", "use"} => job.device \in Devices
    /\ step \in PCs \ {"idle", "lock", "count", "insert"} => row.status # "none"
    /\ step = "approve" => /\ row.status # "waiting"
                           /\ row.status = "scanned" => row.target = job.device
    /\ step \in {"account", "refuse", "use"}
       => /\ row.status \in Ended \cup {"approved"}
          /\ row.status = "approved" => row.target = job.device
    /\ step = "audit" => /\ job.outcome \in Outcomes
                         /\ job.outcome = "denied" => row.status \in Ended

Inv ==
    /\ TypeOK
    /\ \A x \in Transfers : RowOK(x)
    /\ \A r \in Requests : Fits(pc[r], req[r])

\* A transfer only moves forward.
Grows ==
    \A x \in Transfers :
        /\ xfer[x].status # "none" => xfer'[x].status # "none"
        /\ xfer[x].status \notin {"none", "waiting"} =>
              /\ xfer'[x].status \notin {"none", "waiting"}
              /\ xfer'[x].status # "gone" => xfer'[x].target = xfer[x].target
        /\ xfer'[x].status = "scanned" => xfer[x].status \in {"none", "waiting", "scanned"}
        /\ xfer[x].status \in Ended \cup {"approved"} => xfer'[x].status \in Ended \cup {"approved"}
        /\ xfer[x].status \in Ended => xfer'[x].status \in Ended

----------------------------------------------------------------------------
(* Initial states, and what every step has in common *)

LEMMA InitInv == Init => Inv
<1> SUFFICES ASSUME Init PROVE Inv
  OBVIOUS
<1> USE QrAssumption DEF Init
<1>1. TypeOK
  <2>1. xfer \in [Transfers -> Transfer]
    BY DEF Transfer, NoRow, LiveStates
  <2>2. pc \in [Requests -> PCs] /\ req \in [Requests -> Job]
    BY DEF Job, NoJob, PCs
  <2>3. sessions \in [Transfers -> Seq(Devices)] /\ audit \in [Transfers -> SUBSET Outcomes]
    OBVIOUS
  <2> QED
    BY <2>1, <2>2, <2>3 DEF TypeOK
<1>2. ASSUME NEW x \in Transfers PROVE RowOK(x)
  BY DEF RowOK, NoRow
<1>3. ASSUME NEW r \in Requests PROVE Fits(pc[r], req[r])
  BY DEF Fits
<1> QED
  BY <1>1, <1>2, <1>3 DEF Inv

LEMMA FitsStays ==
  ASSUME Grows, NEW step \in PCs, NEW job \in Job, Fits(step, job)
  PROVE  Fits(step, job)'
BY DEF Grows, Fits, Ended, PCs

LEMMA StepInv ==
  ASSUME Inv, Grows, NEW r \in Requests, NEW step \in PCs, NEW job \in Job,
         pc' = [pc EXCEPT ![r] = step], req' = [req EXCEPT ![r] = job], Fits(step, job)',
         clock' \in Nat, closed' \in BOOLEAN,
         xfer' \in [Transfers -> Transfer], starts' \subseteq [of: Transfers, at: Nat],
         sessions' \in [Transfers -> Seq(Devices)],
         audit' \in [Transfers -> SUBSET Outcomes],
         confirmed' \in [Transfers -> SUBSET Devices], wrong' \in [Transfers -> Nat],
         \A x \in Transfers : RowOK(x)'
  PROVE  Inv'
<1>1. TypeOK'
  BY DEF Inv, TypeOK
<1>2. ASSUME NEW s \in Requests PROVE Fits(pc[s], req[s])'
  <2>1. CASE s = r
    BY <2>1 DEF Inv, TypeOK
  <2>2. CASE s # r
    <3>1. pc'[s] = pc[s] /\ req'[s] = req[s] /\ pc[s] \in PCs /\ req[s] \in Job
      BY <2>2 DEF Inv, TypeOK
    <3>2. Fits(pc[s], req[s])
      BY DEF Inv
    <3>3. PICK step0 \in PCs, job0 \in Job : step0 = pc[s] /\ job0 = req[s]
      BY <3>1
    <3>4. Fits(step0, job0)'
      BY <3>2, <3>3, FitsStays
    <3> QED
      BY <3>1, <3>3, <3>4
  <2> QED
    BY <2>1, <2>2
<1> QED
  BY <1>1, <1>2 DEF Inv

\* A statement that writes nothing but where its own request is.
LEMMA QuietInv ==
  ASSUME Inv, NEW r \in Requests, NEW step \in PCs, NEW job \in Job,
         pc' = [pc EXCEPT ![r] = step], req' = [req EXCEPT ![r] = job], Fits(step, job),
         UNCHANGED <<env, xfer, starts, sessions, audit, history>>
  PROVE  Inv'
<1>1. Grows
  BY DEF Grows, Ended, Inv, TypeOK
<1>2. Fits(step, job)'
  BY <1>1, FitsStays
<1>3. \A x \in Transfers : RowOK(x)'
  BY DEF RowOK, Inv, history
<1> QED
  BY <1>1, <1>2, <1>3, StepInv DEF Inv, TypeOK, env, history

LEMMA IdleFits == Fits("idle", NoJob) /\ NoJob \in Job /\ "idle" \in PCs
BY DEF Fits, NoJob, Job, PCs

\* A statement that writes at most the row of its own request.
LEMMA WriteInv ==
  ASSUME Inv, NEW r \in Requests, NEW step \in PCs, NEW job \in Job,
         pc' = [pc EXCEPT ![r] = step], req' = [req EXCEPT ![r] = job], Fits(step, job)',
         NEW x \in Transfers, NEW row \in Transfer, xfer' = [xfer EXCEPT ![x] = row],
         Grows, UNCHANGED env, starts' \subseteq [of: Transfers, at: Nat],
         sessions' \in [Transfers -> Seq(Devices)],
         audit' \in [Transfers -> SUBSET Outcomes],
         confirmed' \in [Transfers -> SUBSET Devices], wrong' \in [Transfers -> Nat],
         \A y \in Transfers \ {x} : /\ sessions'[y] = sessions[y] /\ audit'[y] = audit[y]
                                    /\ confirmed'[y] = confirmed[y] /\ wrong'[y] = wrong[y],
         RowOK(x)'
  PROVE  Inv'
<1>1. xfer' \in [Transfers -> Transfer]
  BY DEF Inv, TypeOK
<1>2. ASSUME NEW y \in Transfers PROVE RowOK(y)'
  <2>1. CASE y = x
    BY <2>1
  <2>2. CASE y # x
    <3>1. xfer'[y] = xfer[y] /\ RowOK(y)
      BY <2>2 DEF Inv, TypeOK
    <3>2. sessions'[y] = sessions[y] /\ audit'[y] = audit[y]
          /\ confirmed'[y] = confirmed[y] /\ wrong'[y] = wrong[y]
      BY <2>2
    <3> QED
      BY <3>1, <3>2 DEF RowOK
  <2> QED
    BY <2>1, <2>2
<1> QED
  BY <1>1, <1>2, StepInv DEF Inv, TypeOK, env

----------------------------------------------------------------------------
(* Around the requests *)

LEMMA TickInv == ASSUME Inv, Tick PROVE Inv'
<1>1. Grows
  BY DEF Grows, Ended, Inv, TypeOK, Tick
<1>2. TypeOK' /\ \A x \in Transfers : RowOK(x)'
  BY DEF Tick, Inv, TypeOK, RowOK, history
<1>3. ASSUME NEW r \in Requests PROVE Fits(pc[r], req[r])'
  BY DEF Tick, Inv, Fits
<1> QED
  BY <1>2, <1>3 DEF Inv

LEMMA SetClosedInv == ASSUME Inv, SetClosed PROVE Inv'
<1>1. TypeOK'
  BY DEF SetClosed, Inv, TypeOK, history
<1>2. \A x \in Transfers : RowOK(x)'
  BY DEF SetClosed, Inv, RowOK, history
<1>3. ASSUME NEW r \in Requests PROVE Fits(pc[r], req[r])'
  BY DEF SetClosed, Inv, Fits
<1> QED
  BY <1>1, <1>2, <1>3 DEF Inv

LEMMA SweepInv == ASSUME Inv, Sweep PROVE Inv'
<1>1. ASSUME NEW x \in Transfers
      PROVE  \/ xfer'[x] = xfer[x]
             \/ xfer[x].status # "none" /\ xfer'[x] = [NoRow EXCEPT !.status = "gone"]
  BY DEF Sweep
<1>2. [NoRow EXCEPT !.status = "gone"] \in Transfer
  BY DEF NoRow, Transfer
<1>3. \A x \in Transfers : xfer'[x] \in Transfer
  BY <1>1, <1>2 DEF Inv, TypeOK
<1>4. TypeOK'
  <2>1. xfer' \in [Transfers -> Transfer] /\ starts' \subseteq [of: Transfers, at: Nat]
    BY <1>3 DEF Sweep, Inv, TypeOK
  <2> QED
    BY <2>1 DEF Sweep, Inv, TypeOK, env, history
<1>5. Grows
  BY <1>1 DEF Grows, Ended, NoRow
<1>6. ASSUME NEW x \in Transfers PROVE RowOK(x)'
  <2>1. sessions'[x] = sessions[x] /\ audit'[x] = audit[x]
        /\ confirmed'[x] = confirmed[x] /\ wrong'[x] = wrong[x] /\ RowOK(x)
    BY DEF Sweep, history, Inv
  <2> QED
    BY <1>1, <2>1 DEF RowOK, NoRow, Ended
<1>7. ASSUME NEW r \in Requests PROVE Fits(pc[r], req[r])'
  <2>1. pc' = pc /\ req' = req /\ pc[r] \in PCs /\ req[r] \in Job /\ Fits(pc[r], req[r])
    BY DEF Sweep, Inv, TypeOK
  <2>2. PICK step \in PCs, job \in Job : step = pc[r] /\ job = req[r]
    BY <2>1
  <2> QED
    BY <1>5, <2>1, <2>2, FitsStays
<1> QED
  BY <1>4, <1>6, <1>7 DEF Inv

----------------------------------------------------------------------------
(* Steps of a request that write no row *)

LEMMA FinishInv ==
  ASSUME Inv, NEW r \in Requests, Finish(r),
         UNCHANGED <<env, xfer, starts, sessions, audit, history>>
  PROVE  Inv'
BY IdleFits, QuietInv DEF Finish

LEMMA GotoInv ==
  ASSUME Inv, NEW r \in Requests, NEW step \in PCs, Goto(r, step), Fits(step, req[r]),
         UNCHANGED <<env, xfer, starts, sessions, audit, history>>
  PROVE  Inv'
<1>1. PICK job \in Job : job = req[r]
  BY DEF Inv, TypeOK
<1>2. req' = [req EXCEPT ![r] = job] /\ Fits(step, job)
  BY <1>1 DEF Goto, Inv, TypeOK
<1> QED
  BY <1>2, QuietInv DEF Goto

LEMMA BeginsInv == ASSUME Inv, NEW r \in Requests, Begins(r) PROVE Inv'
<1>1. CASE Start(r)
  <2>1. PICK job \in Job : job = [NoJob EXCEPT !.expires = clock + TTL]
    <3>1. clock + TTL \in Nat
      BY QrAssumption DEF Inv, TypeOK
    <3> QED
      BY <3>1 DEF NoJob, Job
  <2>2. Fits("lock", job) /\ "lock" \in PCs
    BY DEF Fits, PCs
  <2> QED
    BY <1>1, <2>1, <2>2, QuietInv DEF Start, Begin
<1>2. ASSUME NEW x \in Transfers, Deny(r, x) PROVE Inv'
  <2>1. PICK job \in Job : job = [NoJob EXCEPT !.id = x]
    BY DEF NoJob, Job
  <2>2. Fits("deny", job) /\ "deny" \in PCs
    BY <1>2, <2>1 DEF Fits, PCs, Deny, Live, LiveStates, NoJob
  <2> QED
    BY <1>2, <2>1, <2>2, QuietInv DEF Deny, Begin
<1>3. ASSUME NEW x \in Transfers, Poll(r, x) PROVE Inv'
  <2>1. xfer[x].status = "approved" /\ xfer[x].target \in Devices
    BY <1>3 DEF Poll, Inv, RowOK
  <2>2. PICK job \in Job : job = [NoJob EXCEPT !.id = x, !.device = xfer[x].target]
    BY <2>1 DEF NoJob, Job
  <2>3. Fits("account", job) /\ "account" \in PCs
    BY <2>1, <2>2 DEF Fits, PCs, NoJob
  <2> QED
    BY <1>3, <2>2, <2>3, QuietInv DEF Poll, Begin
<1>4. ASSUME NEW x \in Transfers, NEW d \in Devices, Scan(r, x, d) PROVE Inv'
  <2>1. PICK job \in Job : job = [NoJob EXCEPT !.id = x, !.device = d]
    BY DEF NoJob, Job
  <2>2. Fits("scan", job) /\ "scan" \in PCs
    BY <1>4, <2>1 DEF Fits, PCs, Scan, NoJob
  <2> QED
    BY <1>4, <2>1, <2>2, QuietInv DEF Scan, Begin
<1>5. ASSUME NEW x \in Transfers, NEW d \in Devices, Approve(r, x, d) PROVE Inv'
  <2>1. PICK job \in Job :
          job = [NoJob EXCEPT !.id = x, !.device = d, !.attempts = xfer[x].attempts]
    BY DEF NoJob, Job, Inv, TypeOK, Transfer
  <2>2. PICK step \in {"approve", "wrong"} :
          step = IF xfer[x].target = d THEN "approve" ELSE "wrong"
    OBVIOUS
  <2>3. Fits(step, job) /\ step \in PCs
    BY <1>5, <2>1, <2>2 DEF Fits, PCs, Approve, NoJob
  <2> QED
    BY <1>5, <2>1, <2>2, <2>3, QuietInv DEF Approve, Begin
<1> QED
  BY <1>1, <1>2, <1>3, <1>4, <1>5 DEF Begins

LEMMA LockUserInv == ASSUME Inv, NEW r \in Requests, LockUser(r) PROVE Inv'
BY GotoInv DEF LockUser, Fits, PCs

LEMMA CountStartsInv == ASSUME Inv, NEW r \in Requests, CountStarts(r) PROVE Inv'
BY GotoInv, FinishInv DEF CountStarts, Fits, PCs

LEMMA CheckAccountInv == ASSUME Inv, NEW r \in Requests, CheckAccount(r) PROVE Inv'
<1>1. Fits("account", req[r])
  BY DEF CheckAccount, Inv
<1>2. Fits("refuse", req[r]) /\ Fits("use", req[r]) /\ {"refuse", "use"} \subseteq PCs
  BY <1>1 DEF Fits, PCs
<1> QED
  BY <1>2, GotoInv DEF CheckAccount

----------------------------------------------------------------------------
(* Steps that write a row *)

LEMMA InsertTransferInv == ASSUME Inv, NEW r \in Requests, InsertTransfer(r) PROVE Inv'
<1>1. PICK x \in Transfers :
         /\ xfer[x].status = "none"
         /\ xfer' = [xfer EXCEPT ![x] = [NoRow EXCEPT !.status = "waiting",
                                                      !.expires = req[r].expires]]
         /\ starts' = starts \cup {[of |-> x, at |-> clock]}
  BY DEF InsertTransfer
<1>2. PICK row \in Transfer :
         row = [NoRow EXCEPT !.status = "waiting", !.expires = req[r].expires]
  BY DEF NoRow, Transfer, LiveStates, Inv, TypeOK, Job
<1>3. xfer'[x] = row /\ row.status = "waiting" /\ row.attempts = 0
  BY <1>1, <1>2 DEF Inv, TypeOK, NoRow
<1>4. Grows
  BY <1>1, <1>2, <1>3 DEF Grows, Ended, Inv, TypeOK
<1>5. Fits("idle", NoJob)'
  BY DEF Fits
<1>6. RowOK(x)'
  <2>1. /\ RowOK(x) /\ sessions'[x] = sessions[x] /\ audit'[x] = audit[x]
        /\ confirmed'[x] = confirmed[x] /\ wrong'[x] = wrong[x] /\ xfer[x] = NoRow
    BY <1>1 DEF InsertTransfer, Inv, history, RowOK
  <2> QED
    BY <1>3, <2>1 DEF RowOK, NoRow, Ended
<1>7. starts' \subseteq [of: Transfers, at: Nat]
  BY <1>1 DEF Inv, TypeOK
<1> QED
  BY <1>1, <1>2, <1>4, <1>5, <1>6, <1>7, IdleFits, WriteInv
  DEF InsertTransfer, Finish, Inv, TypeOK, history

LEMMA MarkScannedInv == ASSUME Inv, NEW r \in Requests, MarkScanned(r) PROVE Inv'
<1>1. CASE Finish(r) /\ UNCHANGED <<env, xfer, starts, sessions, audit, history>>
  BY <1>1, FinishInv
<1>2. ASSUME xfer[req[r].id].status = "waiting",
             xfer' = [xfer EXCEPT ![req[r].id].status = "scanned",
                                  ![req[r].id].target = req[r].device]
      PROVE  Inv'
  <2>1. PICK x \in Transfers, d \in Devices : x = req[r].id /\ d = req[r].device
    BY DEF MarkScanned, Inv, Fits, PCs
  <2>2. PICK row \in Transfer :
           row = [xfer[x] EXCEPT !.status = "scanned", !.target = d]
    BY DEF Inv, TypeOK, Transfer, LiveStates
  <2>3. xfer' = [xfer EXCEPT ![x] = row]
    BY <1>2, <2>1, <2>2 DEF Inv, TypeOK
  <2>4. /\ xfer'[x] = row /\ row.status = "scanned" /\ row.target = d
        /\ row.attempts = xfer[x].attempts
    BY <2>2, <2>3 DEF Inv, TypeOK, Transfer
  <2>5. Grows
    BY <1>2, <2>1, <2>3, <2>4 DEF Grows, Ended, Inv, TypeOK
  <2>6. RowOK(x)'
    <3>1. /\ RowOK(x) /\ sessions'[x] = sessions[x] /\ audit'[x] = audit[x]
          /\ confirmed'[x] = confirmed[x] /\ wrong'[x] = wrong[x]
      BY DEF MarkScanned, Inv, history
    <3> QED
      BY <1>2, <2>1, <2>4, <3>1 DEF RowOK, Ended
  <2>7. Fits("idle", NoJob)'
    BY DEF Fits
  <2> QED
    BY <2>3, <2>5, <2>6, <2>7, IdleFits, WriteInv
    DEF MarkScanned, Finish, Inv, TypeOK, history
<1> QED
  BY <1>1, <1>2 DEF MarkScanned

LEMMA MarkApprovedInv == ASSUME Inv, NEW r \in Requests, MarkApproved(r) PROVE Inv'
<1>1. CASE Finish(r) /\ UNCHANGED <<xfer, confirmed>>
  BY <1>1, FinishInv DEF MarkApproved, history
<1>2. ASSUME xfer[req[r].id].status = "scanned", SetStatus(req[r].id, "approved"),
             confirmed' = [confirmed EXCEPT ![req[r].id] = @ \cup {req[r].device}],
             ThenAudit(r, "approved")
      PROVE  Inv'
  <2>1. PICK x \in Transfers, d \in Devices : x = req[r].id /\ d = req[r].device
    BY DEF MarkApproved, Inv, Fits, PCs
  <2>2. xfer[x].target = d
    BY <1>2, <2>1 DEF MarkApproved, Inv, Fits
  <2>3. PICK row \in Transfer : row = [xfer[x] EXCEPT !.status = "approved"]
    BY DEF Inv, TypeOK, Transfer, LiveStates
  <2>4. xfer' = [xfer EXCEPT ![x] = row]
    BY <1>2, <2>1, <2>3 DEF Inv, TypeOK, SetStatus
  <2>5. /\ xfer'[x] = row /\ row.status = "approved" /\ row.target = d
        /\ row.attempts = xfer[x].attempts
    BY <2>2, <2>3, <2>4 DEF Inv, TypeOK, Transfer
  <2>6. Grows
    BY <1>2, <2>1, <2>2, <2>4, <2>5 DEF Grows, Ended, Inv, TypeOK
  <2>7. confirmed' \in [Transfers -> SUBSET Devices] /\ confirmed'[x] = confirmed[x] \cup {d}
        /\ \A y \in Transfers \ {x} : confirmed'[y] = confirmed[y]
    BY <1>2, <2>1 DEF Inv, TypeOK
  <2>8. RowOK(x)'
    <3>1. /\ RowOK(x) /\ sessions'[x] = sessions[x] /\ audit'[x] = audit[x] /\ wrong'[x] = wrong[x]
      BY DEF MarkApproved, Inv
    <3>2. confirmed'[x] = {d} /\ sessions'[x] = <<>>
      BY <1>2, <2>1, <2>7, <3>1 DEF RowOK
    <3> QED
      BY <1>2, <2>1, <2>5, <3>1, <3>2 DEF RowOK, Ended
  <2>9. PICK job \in Job : job = [req[r] EXCEPT !.outcome = "approved"]
    BY DEF Inv, TypeOK, Job, Outcomes
  <2>10. pc' = [pc EXCEPT ![r] = "audit"] /\ req' = [req EXCEPT ![r] = job]
    BY <1>2, <2>9 DEF ThenAudit, Inv, TypeOK
  <2>11. Fits("audit", job)' /\ "audit" \in PCs
    BY <2>1, <2>5, <2>9 DEF Fits, PCs, Outcomes, Inv, TypeOK, Job
  <2> QED
    BY <2>4, <2>6, <2>7, <2>8, <2>10, <2>11, WriteInv DEF MarkApproved, Inv, TypeOK
<1> QED
  BY <1>1, <1>2 DEF MarkApproved

LEMMA CountWrongInv == ASSUME Inv, NEW r \in Requests, CountWrong(r) PROVE Inv'
<1>1. CASE Finish(r) /\ UNCHANGED <<xfer, wrong>>
  BY <1>1, FinishInv DEF CountWrong, history
<1>2. PICK attempts \in Nat, status \in {"denied", "scanned"} :
         /\ attempts = xfer[req[r].id].attempts + 1
         /\ status = IF attempts >= MaxAttempts THEN "denied" ELSE "scanned"
  <2>1. req[r].id \in Transfers
    BY DEF CountWrong, Inv, Fits, PCs
  <2>2. xfer[req[r].id].attempts + 1 \in Nat
    BY <2>1 DEF Inv, TypeOK, Transfer
  <2> QED
    BY <2>2
<1>3. ASSUME xfer[req[r].id].status = "scanned",
             xfer' = [xfer EXCEPT ![req[r].id].attempts = attempts,
                                  ![req[r].id].status = status],
             wrong' = [wrong EXCEPT ![req[r].id] = @ + 1],
             IF status = "denied" THEN ThenAudit(r, "denied") ELSE Finish(r)
      PROVE  Inv'
  <2>1. PICK x \in Transfers : x = req[r].id
    BY DEF CountWrong, Inv, Fits, PCs
  <2>2. PICK row \in Transfer : row = [xfer[x] EXCEPT !.attempts = attempts, !.status = status]
    BY DEF Inv, TypeOK, Transfer, LiveStates
  <2>3. xfer' = [xfer EXCEPT ![x] = row]
    BY <1>3, <2>1, <2>2 DEF Inv, TypeOK
  <2>4. /\ xfer'[x] = row /\ row.status = status /\ row.target = xfer[x].target
        /\ row.attempts = attempts
    BY <2>2, <2>3 DEF Inv, TypeOK, Transfer
  <2>5. Grows
    BY <1>3, <2>1, <2>3, <2>4 DEF Grows, Ended, Inv, TypeOK
  <2>6. wrong' \in [Transfers -> Nat] /\ wrong'[x] = wrong[x] + 1
        /\ \A y \in Transfers \ {x} : wrong'[y] = wrong[y]
    BY <1>3, <2>1 DEF Inv, TypeOK
  <2>7. RowOK(x)'
    <3>1. /\ RowOK(x) /\ sessions'[x] = sessions[x] /\ audit'[x] = audit[x]
          /\ confirmed'[x] = confirmed[x]
      BY DEF CountWrong, Inv
    <3>2. wrong[x] \in Nat /\ MaxAttempts \in Nat /\ wrong[x] < MaxAttempts
          /\ attempts = wrong[x] + 1
      BY <1>2, <1>3, <2>1, <3>1, QrAssumption DEF RowOK, Inv, TypeOK
    <3>3. wrong'[x] <= MaxAttempts /\ row.attempts = wrong'[x]
          /\ (wrong'[x] = MaxAttempts => status = "denied")
      BY <1>2, <2>4, <2>6, <3>2
    <3>4. confirmed'[x] = {} /\ sessions'[x] = <<>> /\ "denied" \notin audit'[x]
          /\ xfer[x].target \in Devices
      BY <1>3, <2>1, <3>1 DEF RowOK, Ended
    <3> QED
      BY <1>2, <2>4, <3>3, <3>4 DEF RowOK, Ended
  <2>8. CASE status = "scanned"
    <3>1. Fits("idle", NoJob)' /\ Finish(r)
      BY <1>3, <2>8 DEF Fits
    <3> QED
      BY <2>3, <2>5, <2>6, <2>7, <3>1, IdleFits, WriteInv DEF CountWrong, Finish, Inv, TypeOK
  <2>9. CASE status = "denied"
    <3>1. PICK job \in Job : job = [req[r] EXCEPT !.outcome = "denied"]
      BY DEF Inv, TypeOK, Job, Outcomes
    <3>2. pc' = [pc EXCEPT ![r] = "audit"] /\ req' = [req EXCEPT ![r] = job]
      BY <1>3, <2>9, <3>1 DEF ThenAudit, Inv, TypeOK
    <3>3. Fits("audit", job)' /\ "audit" \in PCs
      BY <2>1, <2>4, <2>9, <3>1 DEF Fits, PCs, Outcomes, Ended, Inv, TypeOK, Job
    <3> QED
      BY <2>3, <2>5, <2>6, <2>7, <3>2, <3>3, WriteInv DEF CountWrong, Inv, TypeOK
  <2> QED
    BY <1>2, <2>8, <2>9
<1> QED
  BY <1>1, <1>2, <1>3 DEF CountWrong

\* A conditional UPDATE to 'denied'.
LEMMA DenyRow ==
  ASSUME Inv, NEW x \in Transfers, SetStatus(x, "denied"),
         xfer[x].status \in LiveStates,
         UNCHANGED <<sessions, audit, confirmed, wrong>>
  PROVE  /\ \E row \in Transfer : xfer' = [xfer EXCEPT ![x] = row]
         /\ xfer'[x].status = "denied" /\ Grows /\ RowOK(x)'
<1>1. PICK row \in Transfer : row = [xfer[x] EXCEPT !.status = "denied"]
  BY DEF Inv, TypeOK, Transfer
<1>2. xfer' = [xfer EXCEPT ![x] = row]
  BY <1>1 DEF SetStatus, Inv, TypeOK
<1>3. /\ xfer'[x] = row /\ row.status = "denied" /\ row.target = xfer[x].target
      /\ row.attempts = xfer[x].attempts
  BY <1>1, <1>2 DEF Inv, TypeOK, Transfer
<1>4. Grows
  BY <1>2, <1>3 DEF Grows, Ended, LiveStates, Inv, TypeOK
<1>5. RowOK(x)'
  BY <1>3 DEF RowOK, Ended, LiveStates, Inv
<1> QED
  BY <1>2, <1>3, <1>4, <1>5

LEMMA MarkDeniedInv == ASSUME Inv, NEW r \in Requests, MarkDenied(r) PROVE Inv'
<1>1. PICK x \in Transfers : x = req[r].id
  BY DEF MarkDenied, Inv, Fits, PCs
<1>2. PICK job \in Job : job = [req[r] EXCEPT !.outcome = "denied"]
  BY DEF Inv, TypeOK, Job, Outcomes
<1>3. pc' = [pc EXCEPT ![r] = "audit"] /\ req' = [req EXCEPT ![r] = job]
  BY <1>2 DEF MarkDenied, ThenAudit, Inv, TypeOK
<1>4. job.id = x /\ job.outcome = "denied" /\ "audit" \in PCs
  BY <1>1, <1>2 DEF Inv, TypeOK, Job, PCs
<1>5. CASE xfer[x].status \in LiveStates
  <2>1. /\ \E row \in Transfer : xfer' = [xfer EXCEPT ![x] = row]
        /\ xfer'[x].status = "denied" /\ Grows /\ RowOK(x)'
    BY <1>1, <1>5, DenyRow DEF MarkDenied, history
  <2>2. Fits("audit", job)'
    BY <1>4, <2>1 DEF Fits, Outcomes, Ended
  <2> QED
    BY <1>3, <1>4, <2>1, <2>2, WriteInv DEF MarkDenied, history, Inv, TypeOK
<1>6. CASE xfer[x].status \notin LiveStates
  <2>1. Fits("audit", job)
    <3>1. xfer[x].status \in Ended
      BY <1>1, <1>6 DEF MarkDenied, Inv, Fits, PCs, TypeOK, Transfer, Ended
    <3> QED
      BY <1>4, <3>1 DEF Fits, Outcomes, Ended
  <2> QED
    BY <1>1, <1>3, <1>4, <1>6, <2>1, QuietInv DEF MarkDenied
<1> QED
  BY <1>5, <1>6

LEMMA RefuseClosedInv == ASSUME Inv, NEW r \in Requests, RefuseClosed(r) PROVE Inv'
<1>1. PICK x \in Transfers : x = req[r].id
  BY DEF RefuseClosed, Inv, Fits, PCs
<1>2. CASE xfer[x].status = "approved"
  <2>1. /\ \E row \in Transfer : xfer' = [xfer EXCEPT ![x] = row]
        /\ xfer'[x].status = "denied" /\ Grows /\ RowOK(x)'
    BY <1>1, <1>2, DenyRow DEF RefuseClosed, history, LiveStates
  <2>2. Fits("idle", NoJob)'
    BY DEF Fits
  <2> QED
    BY <2>1, <2>2, IdleFits, WriteInv DEF RefuseClosed, Finish, history, Inv, TypeOK
<1>3. CASE xfer[x].status # "approved"
  BY <1>1, <1>3, FinishInv DEF RefuseClosed
<1> QED
  BY <1>2, <1>3

LEMMA UseTransferInv == ASSUME Inv, NEW r \in Requests, UseTransfer(r) PROVE Inv'
<1>1. CASE Finish(r) /\ UNCHANGED <<xfer, sessions>>
  BY <1>1, FinishInv DEF UseTransfer
<1>2. ASSUME xfer[req[r].id].status = "approved", SetStatus(req[r].id, "used"),
             sessions' = [sessions EXCEPT ![req[r].id] = Append(@, req[r].device)],
             ThenAudit(r, "used")
      PROVE  Inv'
  <2>1. PICK x \in Transfers, d \in Devices : x = req[r].id /\ d = req[r].device
    BY DEF UseTransfer, Inv, Fits, PCs
  <2>2. RowOK(x) /\ xfer[x].target = d
    BY <1>2, <2>1 DEF UseTransfer, Inv, Fits
  <2>3. PICK row \in Transfer : row = [xfer[x] EXCEPT !.status = "used"]
    BY DEF Inv, TypeOK, Transfer
  <2>4. xfer' = [xfer EXCEPT ![x] = row]
    BY <1>2, <2>1, <2>3 DEF Inv, TypeOK, SetStatus
  <2>5. xfer'[x] = row /\ row.status = "used" /\ row.attempts = xfer[x].attempts
    BY <2>3, <2>4 DEF Inv, TypeOK, Transfer
  <2>6. Grows
    BY <1>2, <2>1, <2>3, <2>4, <2>5 DEF Grows, Ended, Inv, TypeOK, Transfer
  <2>7. sessions[x] = <<>> /\ confirmed[x] = {d}
    BY <1>2, <2>1, <2>2 DEF RowOK
  <2>8. PICK one \in Seq(Devices) : one = Append(<<>>, d) /\ one = <<d>>
    <3>1. <<>> \in Seq(Devices)
      OBVIOUS
    <3>2. Append(<<>>, d) \in Seq(Devices)
      BY <3>1, AppendProperties
    <3>3. Append(<<>>, d) = <<d>>
      OBVIOUS
    <3> QED
      BY <3>2, <3>3
  <2>9. sessions' = [sessions EXCEPT ![x] = one]
    BY <1>2, <2>1, <2>7, <2>8
  <2>10. sessions' \in [Transfers -> Seq(Devices)] /\ sessions'[x] = <<d>>
         /\ \A y \in Transfers \ {x} : sessions'[y] = sessions[y]
    BY <2>8, <2>9 DEF Inv, TypeOK
  <2>11. RowOK(x)'
    <3>1. audit'[x] = audit[x] /\ wrong'[x] = wrong[x] /\ confirmed'[x] = {d}
      BY <2>7 DEF UseTransfer, history
    <3>2. Len(sessions'[x]) <= 1 /\ \A i \in DOMAIN sessions'[x] : {d} = {sessions'[x][i]}
      BY <2>10
    <3> QED
      BY <1>2, <2>1, <2>2, <2>5, <3>1, <3>2 DEF RowOK, Ended
  <2>12. PICK job \in Job : job = [req[r] EXCEPT !.outcome = "used"]
    BY DEF Inv, TypeOK, Job, Outcomes
  <2>13. pc' = [pc EXCEPT ![r] = "audit"] /\ req' = [req EXCEPT ![r] = job]
    BY <1>2, <2>12 DEF ThenAudit, Inv, TypeOK
  <2>14. Fits("audit", job)' /\ "audit" \in PCs
    BY <2>1, <2>5, <2>12 DEF Fits, PCs, Outcomes, Inv, TypeOK, Job
  <2> QED
    BY <2>4, <2>6, <2>10, <2>11, <2>13, <2>14, WriteInv DEF UseTransfer, Inv, TypeOK, history
<1> QED
  BY <1>1, <1>2 DEF UseTransfer

LEMMA WriteAuditInv == ASSUME Inv, NEW r \in Requests, WriteAudit(r) PROVE Inv'
<1>1. Grows
  BY DEF Grows, Ended, WriteAudit
<1>2. req[r].id \in Transfers /\ req[r].outcome \in Outcomes
      /\ (req[r].outcome = "denied" => xfer[req[r].id].status \in Ended)
  BY DEF WriteAudit, Inv, Fits, PCs
<1>3. audit' \in [Transfers -> SUBSET Outcomes]
  BY <1>2 DEF WriteAudit, Inv, TypeOK
<1>4. ASSUME NEW x \in Transfers PROVE RowOK(x)'
  <2>1. /\ RowOK(x) /\ xfer'[x] = xfer[x] /\ sessions'[x] = sessions[x]
        /\ confirmed'[x] = confirmed[x] /\ wrong'[x] = wrong[x]
    BY DEF WriteAudit, Inv, history
  <2>2. "denied" \in audit'[x] => xfer[x].status \in Ended
    BY <1>2, <2>1 DEF WriteAudit, RowOK, Inv, TypeOK
  <2> QED
    BY <2>1, <2>2 DEF RowOK
<1>5. Fits("idle", NoJob)'
  BY DEF Fits
<1> QED
  BY <1>1, <1>3, <1>4, <1>5, IdleFits, StepInv DEF WriteAudit, Finish, Inv, TypeOK, env, history

----------------------------------------------------------------------------
(* Theorems *)

LEMMA NextInv == Inv /\ [Next]_vars => Inv'
<1> SUFFICES ASSUME Inv, [Next]_vars PROVE Inv'
  OBVIOUS
<1>1. CASE Tick \/ SetClosed \/ Sweep
  BY <1>1, TickInv, SetClosedInv, SweepInv
<1>2. ASSUME NEW r \in Requests, Continues(r) PROVE Inv'
  BY <1>2, LockUserInv, CountStartsInv, InsertTransferInv, MarkScannedInv, MarkApprovedInv,
     CountWrongInv, MarkDeniedInv, CheckAccountInv, RefuseClosedInv, UseTransferInv,
     WriteAuditInv
  DEF Continues
<1>3. ASSUME NEW r \in Requests, Fail(r) PROVE Inv'
  BY <1>3, FinishInv DEF Fail
<1>4. CASE UNCHANGED vars
  <2>1. TypeOK' /\ \A x \in Transfers : RowOK(x)'
    BY <1>4 DEF vars, Inv, TypeOK, RowOK
  <2>2. \A r \in Requests : Fits(pc[r], req[r])'
    BY <1>4 DEF vars, Inv, Fits
  <2> QED
    BY <2>1, <2>2 DEF Inv
<1> QED
  BY <1>1, <1>2, <1>3, <1>4, BeginsInv DEF Next

LEMMA Invariant == Spec => []Inv
BY InitInv, NextInv, PTL DEF Spec

\* The variables keep their types.
THEOREM TypesHold == Spec => []TypeOK
<1>1. Inv => TypeOK
  BY DEF Inv
<1> QED
  BY <1>1, Invariant, PTL

\* A transfer signs in one device at most, once, the one whose code the source
\* entered.
THEOREM SignsInOnce == Spec => []OneSession
<1>1. Inv => OneSession
  BY DEF Inv, RowOK, OneSession
<1> QED
  BY <1>1, Invariant, PTL

\* No wrong code is lost from the count, and the last one denies.
THEOREM CountsWrongCodes == Spec => []WrongCodesCounted
<1>1. Inv => WrongCodesCounted
  BY DEF Inv, RowOK, WrongCodesCounted
<1> QED
  BY <1>1, Invariant, PTL

\* Once the audit says denied, no poll signs in.
THEOREM DenialHolds == Spec => DenialIsFinal
<1>1. ASSUME Inv, [Next]_vars, NEW x \in Transfers, "denied" \in audit[x]
      PROVE  sessions'[x] = sessions[x]
  <2>1. xfer[x].status # "approved"
    BY <1>1 DEF Inv, RowOK, Ended
  <2>2. ASSUME NEW r \in Requests, UseTransfer(r) PROVE sessions'[x] = sessions[x]
    BY <2>1, <2>2, <1>1 DEF UseTransfer, Inv, TypeOK
  <2>3. ASSUME NEW r \in Requests, Continues(r) PROVE sessions'[x] = sessions[x]
    BY <2>2, <2>3
    DEF Continues, LockUser, CountStarts, InsertTransfer, MarkScanned, MarkApproved,
        CountWrong, MarkDenied, CheckAccount, RefuseClosed, WriteAudit
  <2>4. ASSUME NEW r \in Requests, Begins(r) PROVE sessions'[x] = sessions[x]
    BY <2>4 DEF Begins, Start, Deny, Poll, Scan, Approve
  <2> QED
    BY <1>1, <2>3, <2>4 DEF Next, vars, Tick, SetClosed, Sweep, Fail
<1>2. Inv /\ [Next]_vars
      => [\A x \in Transfers : "denied" \in audit[x] => sessions'[x] = sessions[x]]_vars
  BY <1>1
<1> QED
  BY <1>2, Invariant, PTL DEF Spec, DenialIsFinal
----------------------------------------------------------------------------
(* The limits on starts *)

Holds(r) == pc[r] \in {"count", "insert"}
LiveOnes == {x \in Transfers : Live(x)}

\* One request at most is between the lock of the person and its commit, and a
\* request about to insert still finds both places it counted.
Places ==
    /\ \A r, o \in Requests : Holds(r) /\ Holds(o) => r = o
    /\ IsFiniteSet(starts) /\ IsFiniteSet(LiveOnes)
    /\ StartsBounded
    /\ \A r \in Requests :
          pc[r] = "insert" => /\ Cardinality(Recent) < MaxStarts
                              /\ Cardinality(LiveOnes) < MaxLive

\* Nothing starts and nobody takes the lock.
Settles ==
    /\ starts' \subseteq starts /\ clock \in Nat /\ clock' \in Nat /\ clock' >= clock
    /\ \A x \in Transfers : /\ xfer'[x].status \in LiveStates => xfer[x].status \in LiveStates
                            /\ xfer'[x].status \in LiveStates => xfer'[x].expires = xfer[x].expires
    /\ \A q \in Requests : pc'[q] \in {"count", "insert"} => pc'[q] = pc[q]

LEMMA Fewer ==
  ASSUME TypeOK, starts' \subseteq starts, clock' \in Nat, clock' >= clock,
         \A x \in Transfers : /\ xfer'[x].status \in LiveStates => xfer[x].status \in LiveStates
                              /\ xfer'[x].status \in LiveStates => xfer'[x].expires = xfer[x].expires
  PROVE  Recent' \subseteq Recent /\ LiveOnes' \subseteq LiveOnes
<1>1. clock \in Nat /\ Hour \in Nat
  BY QrAssumption DEF TypeOK
<1>2. ASSUME NEW s \in starts, s.at + Hour > clock' PROVE s.at + Hour > clock
  <2>1. s.at \in Nat
    BY DEF TypeOK
  <2> QED
    BY <1>1, <1>2, <2>1
<1>3. Recent' \subseteq Recent
  BY <1>2 DEF Recent
<1>4. ASSUME NEW x \in Transfers, Live(x)' PROVE Live(x)
  <2>1. xfer[x].expires \in Nat
    BY DEF TypeOK, Transfer
  <2>2. xfer[x].status \in LiveStates /\ xfer[x].expires > clock'
    BY <1>4 DEF Live, Unexpired
  <2> QED
    BY <1>1, <2>1, <2>2 DEF Live, Unexpired
<1> QED
  BY <1>3, <1>4 DEF LiveOnes

LEMMA SettlesPlaces == ASSUME TypeOK, Places, Settles PROVE Places'
<1>1. Recent' \subseteq Recent /\ LiveOnes' \subseteq LiveOnes
  BY Fewer DEF Settles
<1>2. IsFiniteSet(Recent) /\ IsFiniteSet(LiveOnes)
  BY FS_Subset DEF Places, Recent
<1>3. /\ IsFiniteSet(LiveOnes') /\ Cardinality(LiveOnes') <= Cardinality(LiveOnes)
      /\ IsFiniteSet(Recent') /\ Cardinality(Recent') <= Cardinality(Recent)
  BY <1>1, <1>2, FS_Subset
<1>4. /\ Cardinality(LiveOnes) \in Nat /\ Cardinality(LiveOnes') \in Nat
      /\ Cardinality(Recent) \in Nat /\ Cardinality(Recent') \in Nat
  BY <1>2, <1>3, FS_CardinalityType
<1>5. MaxStarts \in Nat /\ MaxLive \in Nat
  BY QrAssumption
<1>6. IsFiniteSet(starts')
  BY FS_Subset DEF Places, Settles
<1>7. \A r, o \in Requests : Holds(r)' /\ Holds(o)' => r = o
  BY DEF Places, Settles, Holds
<1>8. StartsBounded'
  <2>1. Cardinality(LiveOnes) <= MaxLive /\ Cardinality(Recent) <= MaxStarts
    BY DEF Places, StartsBounded, LiveOnes
  <2>2. Cardinality(LiveOnes') <= MaxLive /\ Cardinality(Recent') <= MaxStarts
    BY <1>3, <1>4, <1>5, <2>1
  <2> QED
    BY <2>2 DEF StartsBounded, LiveOnes
<1>9. ASSUME NEW r \in Requests, pc'[r] = "insert"
      PROVE  Cardinality(Recent') < MaxStarts /\ Cardinality(LiveOnes') < MaxLive
  <2>1. pc[r] = "insert"
    BY <1>9 DEF Settles
  <2>2. Cardinality(Recent) < MaxStarts /\ Cardinality(LiveOnes) < MaxLive
    BY <2>1 DEF Places
  <2> QED
    BY <1>3, <1>4, <1>5, <2>2
<1> QED
  BY <1>3, <1>6, <1>7, <1>8, <1>9 DEF Places

LEMMA InitPlaces == Init => Places
<1> SUFFICES ASSUME Init PROVE Places
  OBVIOUS
<1>1. Recent = {} /\ LiveOnes = {} /\ starts = {}
  BY DEF Init, Recent, LiveOnes, Live, NoRow, LiveStates
<1>2. MaxStarts \in Nat /\ MaxLive \in Nat
  BY QrAssumption
<1>3. StartsBounded
  BY <1>1, <1>2, FS_EmptySet DEF StartsBounded, LiveOnes
<1>4. \A r \in Requests : pc[r] = "idle"
  BY DEF Init
<1> QED
  BY <1>1, <1>3, <1>4, FS_EmptySet DEF Places, Holds

LEMMA LockUserPlaces == ASSUME TypeOK, Places, NEW r \in Requests, LockUser(r) PROVE Places'
<1>1. UNCHANGED <<clock, xfer, starts>> /\ pc' = [pc EXCEPT ![r] = "count"]
  BY DEF LockUser, Goto, env
<1>2. Recent' = Recent /\ LiveOnes' = LiveOnes /\ (StartsBounded <=> StartsBounded')
  BY <1>1 DEF Recent, LiveOnes, Live, Unexpired, StartsBounded
<1>3. \A q, o \in Requests : Holds(q)' /\ Holds(o)' => q = o
  BY <1>1 DEF LockUser, UserFree, Holds, TypeOK, Places
<1>4. \A q \in Requests : pc'[q] = "insert" => pc[q] = "insert"
  BY <1>1 DEF TypeOK
<1> QED
  BY <1>1, <1>2, <1>3, <1>4 DEF Places

LEMMA CountStartsPlaces == ASSUME TypeOK, Places, NEW r \in Requests, CountStarts(r) PROVE Places'
<1>1. /\ UNCHANGED <<clock, xfer, starts>> /\ pc[r] = "count"
      /\ \/ pc' = [pc EXCEPT ![r] = "idle"]
         \/ /\ pc' = [pc EXCEPT ![r] = "insert"]
            /\ Cardinality(Recent) < MaxStarts /\ Cardinality(LiveOnes) < MaxLive
  BY DEF CountStarts, Goto, Finish, env, LiveOnes
<1>2. Recent' = Recent /\ LiveOnes' = LiveOnes /\ (StartsBounded <=> StartsBounded')
  BY <1>1 DEF Recent, LiveOnes, Live, Unexpired, StartsBounded
<1>3. \A q, o \in Requests : Holds(q)' /\ Holds(o)' => q = o
  BY <1>1 DEF Holds, TypeOK, Places
<1>4. \A q \in Requests : pc'[q] = "insert" => /\ Cardinality(Recent) < MaxStarts
                                               /\ Cardinality(LiveOnes) < MaxLive
  BY <1>1 DEF TypeOK, Places
<1> QED
  BY <1>1, <1>2, <1>3, <1>4 DEF Places

LEMMA OneMore ==
  ASSUME NEW S, NEW T, NEW e, IsFiniteSet(S), T \subseteq S \cup {e}
  PROVE  IsFiniteSet(T) /\ Cardinality(T) <= Cardinality(S) + 1
<1>1. IsFiniteSet(S \cup {e})
  BY FS_AddElement
<1>2. Cardinality(S \cup {e}) = IF e \in S THEN Cardinality(S) ELSE Cardinality(S) + 1
  BY FS_AddElement
<1>3. IsFiniteSet(T) /\ Cardinality(T) <= Cardinality(S \cup {e})
  BY <1>1, FS_Subset
<1>4. Cardinality(S) \in Nat /\ Cardinality(T) \in Nat
  BY <1>3, FS_CardinalityType
<1> QED
  BY <1>2, <1>3, <1>4

LEMMA InsertPlaces == ASSUME TypeOK, Places, NEW r \in Requests, InsertTransfer(r) PROVE Places'
<1>1. PICK x \in Transfers :
        /\ xfer' = [xfer EXCEPT ![x] = [NoRow EXCEPT !.status = "waiting",
                                                     !.expires = req[r].expires]]
        /\ starts' = starts \cup {[of |-> x, at |-> clock]}
  BY DEF InsertTransfer
<1>2. /\ clock' = clock /\ pc[r] = "insert" /\ pc' = [pc EXCEPT ![r] = "idle"]
  BY DEF InsertTransfer, Finish, env
<1>3. IsFiniteSet(starts) /\ IsFiniteSet(LiveOnes) /\ IsFiniteSet(Recent)
  BY FS_Subset DEF Places, Recent
<1>4. Cardinality(Recent) < MaxStarts /\ Cardinality(LiveOnes) < MaxLive
  BY <1>2 DEF Places
<1>5. Recent' \subseteq Recent \cup {[of |-> x, at |-> clock]} /\ LiveOnes' \subseteq LiveOnes \cup {x}
  <2>1. Recent' \subseteq Recent \cup {[of |-> x, at |-> clock]}
    BY <1>1, <1>2 DEF Recent
  <2>2. \A y \in Transfers \ {x} : xfer'[y] = xfer[y]
    BY <1>1 DEF TypeOK
  <2>3. \A y \in Transfers \ {x} : Live(y)' => Live(y)
    BY <1>2, <2>2 DEF Live, Unexpired
  <2> QED
    BY <2>1, <2>3 DEF LiveOnes
<1>6. /\ IsFiniteSet(Recent') /\ Cardinality(Recent') <= Cardinality(Recent) + 1
      /\ IsFiniteSet(LiveOnes') /\ Cardinality(LiveOnes') <= Cardinality(LiveOnes) + 1
      /\ IsFiniteSet(starts')
  <2>1. IsFiniteSet(Recent') /\ Cardinality(Recent') <= Cardinality(Recent) + 1
    BY <1>3, <1>5, OneMore
  <2>2. IsFiniteSet(LiveOnes') /\ Cardinality(LiveOnes') <= Cardinality(LiveOnes) + 1
    BY <1>3, <1>5, OneMore
  <2>3. IsFiniteSet(starts')
    BY <1>1, <1>3, FS_AddElement
  <2> QED
    BY <2>1, <2>2, <2>3
<1>7. /\ Cardinality(Recent) \in Nat /\ Cardinality(Recent') \in Nat
      /\ Cardinality(LiveOnes) \in Nat /\ Cardinality(LiveOnes') \in Nat
  BY <1>3, <1>6, FS_CardinalityType
<1>8. Cardinality(Recent') <= MaxStarts /\ Cardinality(LiveOnes') <= MaxLive
  <2>1. MaxStarts \in Nat /\ MaxLive \in Nat
    BY QrAssumption
  <2> QED
    BY <1>4, <1>6, <1>7, <2>1
<1>9. StartsBounded'
  BY <1>8 DEF StartsBounded, LiveOnes
<1>10. \A q \in Requests : ~Holds(q)'
  <2>1. ASSUME NEW q \in Requests, Holds(q)' PROVE FALSE
    <3>1. q # r /\ Holds(q) /\ Holds(r)
      BY <1>2, <2>1 DEF Holds, TypeOK
    <3> QED
      BY <3>1 DEF Places
  <2> QED
    BY <2>1
<1> QED
  BY <1>6, <1>9, <1>10 DEF Places, Holds

\* The steps of a request that are no part of a start settle.
LEMMA RequestSettles ==
  ASSUME TypeOK, NEW r \in Requests, UNCHANGED <<clock, starts>>,
         NEW step \in PCs \ {"count", "insert"}, pc' = [pc EXCEPT ![r] = step],
         \A x \in Transfers : /\ xfer'[x].status \in LiveStates => xfer[x].status \in LiveStates
                              /\ xfer'[x].status \in LiveStates => xfer'[x].expires = xfer[x].expires
  PROVE  Settles
<1>1. \A q \in Requests : pc'[q] \in {"count", "insert"} => pc'[q] = pc[q]
  BY DEF TypeOK
<1> QED
  BY <1>1 DEF Settles, TypeOK

LEMMA BeginsSettles == ASSUME TypeOK, NEW r \in Requests, Begins(r) PROVE Settles
<1>1. PICK step \in {"lock", "deny", "account", "scan", "approve", "wrong"} :
        pc' = [pc EXCEPT ![r] = step]
  BY DEF Begins, Start, Deny, Poll, Scan, Approve, Begin
<1>2. UNCHANGED <<clock, starts, xfer>>
  BY DEF Begins, Start, Deny, Poll, Scan, Approve, env
<1> QED
  BY <1>1, <1>2, RequestSettles DEF PCs

KeptLive == \A x \in Transfers :
    /\ xfer'[x].status \in LiveStates => xfer[x].status \in LiveStates
    /\ xfer'[x].status \in LiveStates => xfer'[x].expires = xfer[x].expires

LEMMA RowKept ==
  ASSUME TypeOK, NEW x \in Transfers, NEW row \in Transfer, xfer' = [xfer EXCEPT ![x] = row],
         row.status \in LiveStates => xfer[x].status \in LiveStates /\ row.expires = xfer[x].expires
  PROVE  KeptLive
<1>1. xfer'[x] = row /\ \A y \in Transfers \ {x} : xfer'[y] = xfer[y]
  BY DEF TypeOK
<1> QED
  BY <1>1 DEF KeptLive

LEMMA StatusKept ==
  ASSUME TypeOK, NEW x \in Transfers, NEW status \in {"approved", "denied", "used"},
         SetStatus(x, status), status \in LiveStates => xfer[x].status \in LiveStates
  PROVE  KeptLive
<1>1. PICK row \in Transfer : row = [xfer[x] EXCEPT !.status = status]
  BY DEF TypeOK, Transfer, LiveStates
<1>2. xfer' = [xfer EXCEPT ![x] = row]
  BY <1>1 DEF TypeOK, SetStatus
<1>3. row.status = status /\ row.expires = xfer[x].expires
  BY <1>1 DEF TypeOK, Transfer
<1> QED
  BY <1>2, <1>3, RowKept

LEMMA MarkScannedKeeps == ASSUME Inv, NEW r \in Requests, MarkScanned(r) PROVE KeptLive
<1> TypeOK
  BY DEF Inv
<1>1. CASE UNCHANGED xfer
  BY <1>1 DEF KeptLive
<1>2. CASE xfer' # xfer
  <2>1. PICK x \in Transfers, d \in Devices : x = req[r].id /\ d = req[r].device
    BY DEF MarkScanned, Inv, Fits, PCs
  <2>2. PICK row \in Transfer :
          row = [xfer[x] EXCEPT !.status = "scanned", !.target = d]
    BY DEF TypeOK, Transfer, LiveStates
  <2>3. xfer' = [xfer EXCEPT ![x] = row] /\ xfer[x].status = "waiting"
    BY <1>2, <2>1, <2>2 DEF TypeOK, MarkScanned
  <2>4. row.status = "scanned" /\ row.expires = xfer[x].expires
    BY <2>2 DEF TypeOK, Transfer
  <2> QED
    BY <2>3, <2>4, RowKept DEF LiveStates
<1> QED
  BY <1>1, <1>2

LEMMA CountWrongKeeps == ASSUME Inv, NEW r \in Requests, CountWrong(r) PROVE KeptLive
<1> TypeOK
  BY DEF Inv
<1>1. CASE UNCHANGED xfer
  BY <1>1 DEF KeptLive
<1>2. CASE xfer' # xfer
  <2>1. PICK x \in Transfers : x = req[r].id
    BY DEF CountWrong, Inv, Fits, PCs
  <2>2. xfer[x].attempts + 1 \in Nat
    BY DEF TypeOK, Transfer
  <2>3. PICK attempts \in Nat, status \in {"denied", "scanned"} :
          /\ attempts = xfer[x].attempts + 1
          /\ status = IF attempts >= MaxAttempts THEN "denied" ELSE "scanned"
    BY <2>2
  <2>4. PICK row \in Transfer :
          row = [xfer[x] EXCEPT !.attempts = attempts, !.status = status]
    BY DEF TypeOK, Transfer, LiveStates
  <2>5. /\ xfer[x].status = "scanned"
        /\ xfer' = [xfer EXCEPT ![x].attempts = attempts, ![x].status = status]
    BY <1>2, <2>1, <2>3 DEF CountWrong
  <2>6. xfer' = [xfer EXCEPT ![x] = row]
    BY <2>4, <2>5 DEF TypeOK
  <2>7. row.expires = xfer[x].expires
    BY <2>4 DEF TypeOK, Transfer
  <2> QED
    BY <2>5, <2>6, <2>7, RowKept DEF LiveStates
<1> QED
  BY <1>1, <1>2

\* The steps that write no row, or a row that stays live only if it was.
LEMMA ContinuesSettles ==
  ASSUME Inv, NEW r \in Requests,
         \/ MarkScanned(r) \/ MarkApproved(r) \/ CountWrong(r) \/ MarkDenied(r)
         \/ CheckAccount(r) \/ RefuseClosed(r) \/ UseTransfer(r) \/ WriteAudit(r) \/ Fail(r)
  PROVE  Settles
<1> TypeOK
  BY DEF Inv
<1>1. UNCHANGED <<clock, starts>>
  BY DEF MarkScanned, MarkApproved, CountWrong, MarkDenied, CheckAccount, RefuseClosed, UseTransfer,
         WriteAudit, Fail, env
<1>2. PICK step \in {"idle", "refuse", "use", "audit"} : pc' = [pc EXCEPT ![r] = step]
  BY DEF MarkScanned, MarkApproved, CountWrong, MarkDenied, CheckAccount, RefuseClosed, UseTransfer,
         WriteAudit, Fail, Finish, Goto, ThenAudit
<1>3. UNCHANGED xfer => KeptLive
  BY DEF KeptLive
<1>4. pc[r] \in {"approve", "deny", "refuse", "use"} => req[r].id \in Transfers
  BY DEF Inv, Fits, PCs
<1>5. KeptLive
  <2>1. CASE MarkApproved(r)
    BY <1>3, <1>4, <2>1, StatusKept DEF MarkApproved, LiveStates
  <2>2. CASE MarkDenied(r) \/ RefuseClosed(r)
    BY <1>3, <1>4, <2>2, StatusKept DEF MarkDenied, RefuseClosed, LiveStates
  <2>3. CASE UseTransfer(r)
    BY <1>3, <1>4, <2>3, StatusKept DEF UseTransfer, LiveStates
  <2>4. CASE CheckAccount(r) \/ WriteAudit(r) \/ Fail(r)
    BY <1>3, <2>4 DEF CheckAccount, WriteAudit, Fail
  <2> QED
    BY <2>1, <2>2, <2>3, <2>4, MarkScannedKeeps, CountWrongKeeps
<1> QED
  BY <1>1, <1>2, <1>5, RequestSettles DEF PCs, KeptLive

LEMMA AroundSettles == ASSUME TypeOK, Tick \/ SetClosed \/ Sweep PROVE Settles
<1>1. clock \in Nat
  BY DEF TypeOK
<1>2. CASE Tick
  BY <1>1, <1>2 DEF Tick, Settles
<1>3. CASE SetClosed
  BY <1>1, <1>3 DEF SetClosed, Settles
<1>4. CASE Sweep
  <2>1. \A x \in Transfers : xfer'[x].status \in LiveStates => xfer'[x] = xfer[x]
    BY <1>4 DEF Sweep, NoRow, LiveStates
  <2>2. starts' \subseteq starts /\ UNCHANGED <<clock, pc>>
    BY <1>4 DEF Sweep, env
  <2> QED
    BY <1>1, <2>1, <2>2 DEF Settles
<1> QED
  BY <1>2, <1>3, <1>4

LEMMA NextPlaces == Inv /\ Places /\ [Next]_vars => Places'
<1> SUFFICES ASSUME Inv, Places, [Next]_vars PROVE Places'
  OBVIOUS
<1> TypeOK
  BY DEF Inv
<1>1. CASE Tick \/ SetClosed \/ Sweep
  BY <1>1, AroundSettles, SettlesPlaces
<1>2. ASSUME NEW r \in Requests, Begins(r) PROVE Places'
  BY <1>2, BeginsSettles, SettlesPlaces
<1>3. ASSUME NEW r \in Requests, Continues(r) \/ Fail(r) PROVE Places'
  BY <1>3, LockUserPlaces, CountStartsPlaces, InsertPlaces, ContinuesSettles, SettlesPlaces
  DEF Continues
<1>4. CASE UNCHANGED vars
  BY <1>4, SettlesPlaces DEF vars, Settles, TypeOK
<1> QED
  BY <1>1, <1>2, <1>3, <1>4 DEF Next

\* Two tabs never take the same last place: neither the last live transfer nor
\* the last start of the hour.
THEOREM StartsLimited == Spec => []StartsBounded
<1>1. Places => StartsBounded
  BY DEF Places
<1> QED
  BY <1>1, InitPlaces, NextPlaces, Invariant, PTL DEF Spec

============================================================================
