----------------------------- MODULE QrSignin -----------------------------
(***************************************************************************)
(* Sign in on another device: server/auth/qr-signin.js.                    *)
(*                                                                         *)
(* A signed-in browser (the source) starts a transfer and shows its QR     *)
(* code; a device (the target) scans it and shows a match code; the source *)
(* enters that code, or denies; the target's next poll makes a session.    *)
(* Every handler reads the row in a statement of its own and then writes   *)
(* it with a conditional UPDATE, or counts a wrong code under FOR UPDATE.  *)
(*                                                                         *)
(* One person; requests refused by secrets, cookies, origins and rate      *)
(* limits in memory change nothing and are left out.  The match code is    *)
(* the device that shows it: two scans of one transfer that drew the same  *)
(* two digits are left out too.                                            *)
(***************************************************************************)
EXTENDS Naturals, Sequences, FiniteSets

CONSTANTS
    Requests,     \* requests at once, of the source and of targets
    Transfers,    \* ids
    Devices,      \* targets
    NoTransfer, NoDevice,
    TTL, Hour,
    MaxLive, MaxStarts, MaxAttempts,  \* MAX_LIVE, 10 an hour, MAX_ATTEMPTS
    MaxClock      \* bound: the last moment of a behaviour

ASSUME QrAssumption ==
    /\ NoTransfer \notin Transfers /\ NoDevice \notin Devices
    /\ {TTL, Hour, MaxAttempts} \subseteq Nat \ {0}
    /\ {MaxLive, MaxStarts, MaxClock} \subseteq Nat

VARIABLES
    clock,
    closed,     \* the account (or the one it was merged into) is banned or deleted
    xfer,       \* qr_signin_transfers
    starts,     \* qr_signin_starts
    sessions,   \* the devices each transfer signed in
    audit,      \* outcomes in audit_log for each transfer
    confirmed,  \* history: whose code the source entered right
    wrong,      \* history: how many wrong codes were answered
    pc, req     \* the requests

vars == <<clock, closed, xfer, starts, sessions, audit, confirmed, wrong, pc, req>>
env == <<clock, closed>>
history == <<confirmed, wrong>>

----------------------------------------------------------------------------
LiveStates == {"waiting", "scanned", "approved"}

\* "none" is an id not drawn yet, "gone" a row the sweep deleted.
Transfer == [status: LiveStates \cup {"none", "denied", "used", "gone"},
             target: Devices \cup {NoDevice}, attempts: Nat, expires: Nat]
NoRow == [status |-> "none", target |-> NoDevice, attempts |-> 0, expires |-> 0]

Outcomes == {"approved", "denied", "used"}
PCs == {"idle", "lock", "count", "insert", "scan", "approve", "wrong", "deny",
        "account", "refuse", "use", "audit"}
Job == [id: Transfers \cup {NoTransfer}, device: Devices \cup {NoDevice},
        expires: Nat, attempts: Nat, outcome: Outcomes \cup {""}]
NoJob == [id |-> NoTransfer, device |-> NoDevice, expires |-> 0, attempts |-> 0,
          outcome |-> ""]

TypeOK ==
    /\ clock \in Nat /\ closed \in BOOLEAN
    /\ xfer \in [Transfers -> Transfer]
    /\ starts \subseteq [of: Transfers, at: Nat]
    /\ sessions \in [Transfers -> Seq(Devices)]
    /\ audit \in [Transfers -> SUBSET Outcomes]
    /\ confirmed \in [Transfers -> SUBSET Devices]
    /\ wrong \in [Transfers -> Nat]
    /\ pc \in [Requests -> PCs]
    /\ req \in [Requests -> Job]

Init ==
    /\ clock = 0 /\ closed = FALSE
    /\ xfer = [x \in Transfers |-> NoRow]
    /\ starts = {}
    /\ sessions = [x \in Transfers |-> <<>>]
    /\ audit = [x \in Transfers |-> {}]
    /\ confirmed = [x \in Transfers |-> {}]
    /\ wrong = [x \in Transfers |-> 0]
    /\ pc = [r \in Requests |-> "idle"]
    /\ req = [r \in Requests |-> NoJob]

Unexpired(x) == xfer[x].expires > clock
Live(x) == xfer[x].status \in LiveStates /\ Unexpired(x)

Begin(r, job, step) ==
    /\ pc[r] = "idle"
    /\ pc' = [pc EXCEPT ![r] = step]
    /\ req' = [req EXCEPT ![r] = job]

Goto(r, step) == pc' = [pc EXCEPT ![r] = step] /\ UNCHANGED req

Finish(r) ==
    /\ pc' = [pc EXCEPT ![r] = "idle"]
    /\ req' = [req EXCEPT ![r] = NoJob]

\* The outcome is written to audit_log by the next statement.
ThenAudit(r, outcome) ==
    /\ pc' = [pc EXCEPT ![r] = "audit"]
    /\ req' = [req EXCEPT ![r].outcome = outcome]

SetStatus(x, status) == xfer' = [xfer EXCEPT ![x].status = status]

----------------------------------------------------------------------------
(* Around the requests *)

Tick ==
    /\ clock < MaxClock
    /\ clock' = clock + 1
    /\ UNCHANGED <<closed, xfer, starts, sessions, audit, history, pc, req>>

SetClosed ==
    /\ closed' = ~closed
    /\ UNCHANGED <<clock, xfer, starts, sessions, audit, history, pc, req>>

\* sweep: transfers past their time, starts of two hours ago.
Sweep ==
    /\ xfer' = [x \in Transfers |->
                  IF xfer[x].status # "none" /\ xfer[x].expires < clock
                  THEN [NoRow EXCEPT !.status = "gone"] ELSE xfer[x]]
    /\ starts' = {s \in starts : s.at + 2 * Hour >= clock}
    /\ UNCHANGED <<env, sessions, audit, history, pc, req>>

----------------------------------------------------------------------------
(* POST /start *)

\* expires_at is computed before the transaction.
Start(r) ==
    /\ \E x \in Transfers : xfer[x].status = "none"
    /\ Begin(r, [NoJob EXCEPT !.expires = clock + TTL], "lock")
    /\ UNCHANGED <<env, xfer, starts, sessions, audit, history>>

\* Mutant: the row of the person is not locked.
LockNobody(r) ==
    /\ pc[r] = "lock"
    /\ Goto(r, "count")
    /\ UNCHANGED <<env, xfer, starts, sessions, audit, history>>

UserFree(r) == \A o \in Requests \ {r} : pc[o] \notin {"count", "insert"}

\* SELECT id FROM users ... FOR UPDATE, held until the insert commits.
LockUser(r) ==
    /\ pc[r] = "lock"
    /\ UserFree(r)
    /\ Goto(r, "count")
    /\ UNCHANGED <<env, xfer, starts, sessions, audit, history>>

Recent == {s \in starts : s.at + Hour > clock}

CountStarts(r) ==
    /\ pc[r] = "count"
    /\ IF /\ Cardinality(Recent) < MaxStarts
          /\ Cardinality({x \in Transfers : Live(x)}) < MaxLive
       THEN Goto(r, "insert") ELSE Finish(r)
    /\ UNCHANGED <<env, xfer, starts, sessions, audit, history>>

InsertTransfer(r) ==
    /\ pc[r] = "insert"
    /\ \E x \in Transfers :
          /\ xfer[x].status = "none"
          /\ xfer' = [xfer EXCEPT ![x] = [NoRow EXCEPT !.status = "waiting",
                                                       !.expires = req[r].expires]]
          /\ starts' = starts \cup {[of |-> x, at |-> clock]}
    /\ Finish(r)
    /\ UNCHANGED <<env, sessions, audit, history>>

----------------------------------------------------------------------------
(* POST /scan *)

Scan(r, x, d) ==
    /\ xfer[x].status = "waiting" /\ Unexpired(x)
    /\ Begin(r, [NoJob EXCEPT !.id = x, !.device = d], "scan")
    /\ UNCHANGED <<env, xfer, starts, sessions, audit, history>>

\* Mutant: the UPDATE does not repeat the condition of the read.
MarkScannedAgain(r) ==
    LET x == req[r].id IN
    /\ pc[r] = "scan"
    /\ xfer' = [xfer EXCEPT ![x].status = "scanned", ![x].target = req[r].device]
    /\ Finish(r)
    /\ UNCHANGED <<env, starts, sessions, audit, history>>

\* UPDATE ... 'scanned' ... WHERE status = 'waiting' AND expires_at > now.
MarkScanned(r) ==
    LET x == req[r].id IN
    /\ pc[r] = "scan"
    /\ IF xfer[x].status = "waiting" /\ Unexpired(x)
       THEN xfer' = [xfer EXCEPT ![x].status = "scanned", ![x].target = req[r].device]
       ELSE UNCHANGED xfer
    /\ Finish(r)
    /\ UNCHANGED <<env, starts, sessions, audit, history>>

----------------------------------------------------------------------------
(* POST /:id/approve *)

Approve(r, x, d) ==
    /\ xfer[x].status = "scanned" /\ Unexpired(x)
    /\ Begin(r, [NoJob EXCEPT !.id = x, !.device = d, !.attempts = xfer[x].attempts],
             IF xfer[x].target = d THEN "approve" ELSE "wrong")
    /\ UNCHANGED <<env, xfer, starts, sessions, audit, history>>

\* UPDATE ... 'approved' ... WHERE status = 'scanned'; the time is not asked again.
MarkApproved(r) ==
    LET x == req[r].id IN
    /\ pc[r] = "approve"
    /\ IF xfer[x].status = "scanned"
       THEN /\ SetStatus(x, "approved")
            /\ confirmed' = [confirmed EXCEPT ![x] = @ \cup {req[r].device}]
            /\ ThenAudit(r, "approved")
       ELSE UNCHANGED <<xfer, confirmed>> /\ Finish(r)
    /\ UNCHANGED <<env, starts, sessions, audit, wrong>>

\* Mutant: the attempts are those of the first read.
CountWrongStale(r) ==
    LET x == req[r].id
        attempts == req[r].attempts + 1
        status == IF attempts >= MaxAttempts THEN "denied" ELSE "scanned"
    IN
    /\ pc[r] = "wrong"
    /\ IF xfer[x].status = "scanned"
       THEN /\ xfer' = [xfer EXCEPT ![x].attempts = attempts, ![x].status = status]
            /\ wrong' = [wrong EXCEPT ![x] = @ + 1]
            /\ IF status = "denied" THEN ThenAudit(r, "denied") ELSE Finish(r)
       ELSE UNCHANGED <<xfer, wrong>> /\ Finish(r)
    /\ UNCHANGED <<env, starts, sessions, audit, confirmed>>

\* A wrong number, counted in one transaction that reads the row FOR UPDATE.
CountWrong(r) ==
    LET x == req[r].id
        attempts == xfer[x].attempts + 1
        status == IF attempts >= MaxAttempts THEN "denied" ELSE "scanned"
    IN
    /\ pc[r] = "wrong"
    /\ IF xfer[x].status = "scanned"
       THEN /\ xfer' = [xfer EXCEPT ![x].attempts = attempts, ![x].status = status]
            /\ wrong' = [wrong EXCEPT ![x] = @ + 1]
            /\ IF status = "denied" THEN ThenAudit(r, "denied") ELSE Finish(r)
       ELSE UNCHANGED <<xfer, wrong>> /\ Finish(r)
    /\ UNCHANGED <<env, starts, sessions, audit, confirmed>>

----------------------------------------------------------------------------
(* POST /:id/deny *)

Deny(r, x) ==
    /\ Live(x)
    /\ Begin(r, [NoJob EXCEPT !.id = x], "deny")
    /\ UNCHANGED <<env, xfer, starts, sessions, audit, history>>

\* A conditional UPDATE whose row count is not looked at: the audit row and the
\* answer say denied either way.
MarkDenied(r) ==
    LET x == req[r].id IN
    /\ pc[r] = "deny"
    /\ IF xfer[x].status \in LiveStates THEN SetStatus(x, "denied") ELSE UNCHANGED xfer
    /\ ThenAudit(r, "denied")
    /\ UNCHANGED <<env, starts, sessions, audit, history>>

----------------------------------------------------------------------------
(* GET /status, by the target *)

Poll(r, x) ==
    /\ xfer[x].status = "approved" /\ Unexpired(x)
    /\ Begin(r, [NoJob EXCEPT !.id = x, !.device = xfer[x].target], "account")
    /\ UNCHANGED <<env, xfer, starts, sessions, audit, history>>

CheckAccount(r) ==
    /\ pc[r] = "account"
    /\ Goto(r, IF closed THEN "refuse" ELSE "use")
    /\ UNCHANGED <<env, xfer, starts, sessions, audit, history>>

RefuseClosed(r) ==
    LET x == req[r].id IN
    /\ pc[r] = "refuse"
    /\ IF xfer[x].status = "approved" THEN SetStatus(x, "denied") ELSE UNCHANGED xfer
    /\ Finish(r)
    /\ UNCHANGED <<env, starts, sessions, audit, history>>

\* Mutant: the UPDATE asks for the id only.
UseAnyTransfer(r) ==
    LET x == req[r].id IN
    /\ pc[r] = "use"
    /\ Len(sessions[x]) < 2
    /\ SetStatus(x, "used")
    /\ sessions' = [sessions EXCEPT ![x] = Append(@, xfer[x].target)]
    /\ ThenAudit(r, "used")
    /\ UNCHANGED <<env, starts, audit, history>>

\* UPDATE ... 'used' ... WHERE status = 'approved' AND expires_at > now, and the
\* session of the same transaction.
UseTransfer(r) ==
    LET x == req[r].id IN
    /\ pc[r] = "use"
    /\ IF xfer[x].status = "approved" /\ Unexpired(x)
       THEN /\ SetStatus(x, "used")
            /\ sessions' = [sessions EXCEPT ![x] = Append(@, req[r].device)]
            /\ ThenAudit(r, "used")
       ELSE UNCHANGED <<xfer, sessions>> /\ Finish(r)
    /\ UNCHANGED <<env, starts, audit, history>>

\* audit: a statement after the commit, best effort (see Fail).
WriteAudit(r) ==
    /\ pc[r] = "audit"
    /\ audit' = [audit EXCEPT ![req[r].id] = @ \cup {req[r].outcome}]
    /\ Finish(r)
    /\ UNCHANGED <<env, xfer, starts, sessions, history>>

\* The process stops or a statement throws.
Fail(r) ==
    /\ pc[r] # "idle"
    /\ Finish(r)
    /\ UNCHANGED <<env, xfer, starts, sessions, audit, history>>

----------------------------------------------------------------------------
Begins(r) ==
    \/ Start(r)
    \/ \E x \in Transfers :
          \/ Deny(r, x) \/ Poll(r, x)
          \/ \E d \in Devices : Scan(r, x, d) \/ Approve(r, x, d)

Continues(r) ==
    \/ LockUser(r) \/ CountStarts(r) \/ InsertTransfer(r)
    \/ MarkScanned(r)
    \/ MarkApproved(r) \/ CountWrong(r) \/ MarkDenied(r)
    \/ CheckAccount(r) \/ RefuseClosed(r) \/ UseTransfer(r)
    \/ WriteAudit(r)

Next ==
    \/ Tick \/ SetClosed \/ Sweep
    \/ \E r \in Requests : Begins(r) \/ Continues(r) \/ Fail(r)

Spec == Init /\ [][Next]_vars

----------------------------------------------------------------------------
(* Properties *)

\* A transfer signs in one device at most, once, and it is the device whose
\* code the source entered, however many scans, approvals and polls race.
OneSession ==
    \A x \in Transfers :
        /\ Len(sessions[x]) <= 1
        /\ \A i \in DOMAIN sessions[x] : confirmed[x] = {sessions[x][i]}

\* Every wrong code that was answered is counted, and the last one allowed
\* denies the transfer: no two wrong codes at once count as one.
WrongCodesCounted ==
    \A x \in Transfers :
        /\ wrong[x] <= MaxAttempts
        /\ xfer[x].status # "gone" =>
              /\ xfer[x].attempts = wrong[x]
              /\ wrong[x] = MaxAttempts => xfer[x].status = "denied"

\* Two tabs do not both take the last live slot, nor the last start of the hour.
StartsBounded ==
    /\ Cardinality({x \in Transfers : Live(x)}) <= MaxLive
    /\ Cardinality(Recent) <= MaxStarts

\* After the source was told that a transfer is denied no poll signs in by it.
DenialIsFinal ==
    [][\A x \in Transfers : "denied" \in audit[x] => sessions'[x] = sessions[x]]_vars

============================================================================
