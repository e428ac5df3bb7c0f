--------------------------- MODULE Confirmations ---------------------------
(***************************************************************************)
(* Confirmations of one agent: server/developer/confirmations.js, with the *)
(* changes of the agent and of its delegated grants that cascade into them *)
(* (server/developer/agents.js).                                           *)
(*                                                                         *)
(* A sensitive use of a delegated grant waits for the owner's approval: a  *)
(* service creates a confirmation, the owner approves it (and may leave a  *)
(* standing rule that approves the next one) or denies it, the service     *)
(* spends it once.  Taking authority away cancels what is still usable.    *)
(*                                                                         *)
(* Every handler is one READ COMMITTED transaction.  A statement sees what *)
(* others committed; the transaction's writes appear at its commit; a row  *)
(* it locked or wrote makes others that lock or write it wait.  One action *)
(* is one statement, or a run of statements no other transaction can come  *)
(* between; what a transaction has locked is in its request.  Waiting for  *)
(* a first lock holds nothing and is not a step.  A transaction that only  *)
(* ever locks one row is one action.                                       *)
(*                                                                         *)
(* Refusals by input (digest, audience, summary) change nothing and are    *)
(* left out; what may refuse at any time is a choice (CheckAuthority).     *)
(***************************************************************************)
EXTENDS Naturals, FiniteSets, FiniteSetsExt

CONSTANTS
    Requests,       \* transactions at once
    Confirmations,  \* ids, in the order of ORDER BY id
    Rules,          \* ids of standing rules, likewise
    Capabilities,   \* numbers, in the order of ORDER BY capability
    NoConf, NoCap,
    MaxPending,     \* MAX_PENDING
    TTL,            \* how long a confirmation lives
    MaxClock        \* bound: the last moment of a behaviour

ASSUME ConfirmationsAssumption ==
    /\ Confirmations \subseteq Nat /\ NoConf \notin Confirmations
    /\ Rules \subseteq Nat
    /\ Capabilities \subseteq Nat /\ NoCap \notin Capabilities
    /\ MaxPending \in Nat /\ TTL \in Nat \ {0} /\ MaxClock \in Nat

VARIABLES
    clock,
    agent,   \* dev_agents.status
    grant,   \* dev_agent_grants: the capabilities of the active ones
    conf,    \* dev_confirmations
    rule,    \* dev_standing_rules
    events,  \* how often each change of a confirmation was written to the outbox
    pc, req  \* the transactions: where each is, what it carries and has locked

vars == <<clock, agent, grant, conf, rule, events, pc, req>>
rows == <<agent, grant, conf, rule, events>>

----------------------------------------------------------------------------
Changes == {"created", "approved", "denied", "expired", "cancelled", "used"}

ConfRow == [state: {"none", "pending", "approved", "denied", "expired", "cancelled"},
            used: BOOLEAN, cap: Capabilities \cup {NoCap}, expires: Nat]
NoRow == [state |-> "none", used |-> FALSE, cap |-> NoCap, expires |-> 0]

RuleRow == [status: {"none", "live", "revoked"}, cap: Capabilities \cup {NoCap}]
NoRule == [status |-> "none", cap |-> NoCap]

Ops == {"none", "create", "consume", "decide", "status", "retire", "put_grant", "delete_grant",
        "beyond_host"}

\* agent, grants, confs and rules say which rows the transaction has locked.  A
\* cascade cancels the rows of todo that it selected (it has cancelled cut),
\* revokes the rules of live that it selected, and goes on with caps.
Job == [op: Ops, conf: Confirmations \cup {NoConf}, cap: Capabilities \cup {NoCap},
        to: {"", "active", "paused", "revoked"},
        now: Nat, byRule: BOOLEAN, agent: BOOLEAN,
        grants: SUBSET Capabilities, caps: SUBSET Capabilities,
        confs: SUBSET Confirmations, todo: SUBSET Confirmations, cut: SUBSET Confirmations,
        rules: SUBSET Rules, live: SUBSET Rules]
NoJob == [op |-> "none", conf |-> NoConf, cap |-> NoCap, to |-> "", now |-> 0,
          byRule |-> FALSE, agent |-> FALSE, grants |-> {}, caps |-> {},
          confs |-> {}, todo |-> {}, cut |-> {}, rules |-> {}, live |-> {}]

PCs == {"idle", "conf", "check", "read", "insert", "spend", "rule", "grant",
        "select", "cancel", "revoke"}

TypeOK ==
    /\ clock \in Nat
    /\ agent \in {"active", "paused", "revoked"}
    /\ grant \in SUBSET Capabilities
    /\ conf \in [Confirmations -> ConfRow]
    /\ rule \in [Rules -> RuleRow]
    /\ events \in [Confirmations -> [Changes -> Nat]]
    /\ pc \in [Requests -> PCs]
    /\ req \in [Requests -> Job]

Init ==
    /\ clock = 0 /\ agent = "active"
    /\ grant \in SUBSET Capabilities
    /\ conf = [c \in Confirmations |-> NoRow]
    /\ rule = [k \in Rules |-> NoRule]
    /\ events = [c \in Confirmations |-> [change \in Changes |-> 0]]
    /\ pc = [r \in Requests |-> "idle"]
    /\ req = [r \in Requests |-> NoJob]

----------------------------------------------------------------------------
(* Rows *)

\* LIVE: what may still be spent or decided, and what a cascade cancels.
Usable(c) == conf[c].state = "pending" \/ (conf[c].state = "approved" /\ ~conf[c].used)
Unexpired(c, now) == now < conf[c].expires

Matches(k, cap) == rule[k].status = "live" /\ rule[k].cap = cap

AgentFree(r) == \A o \in Requests \ {r} : ~req[o].agent
GrantFree(r, cap) == \A o \in Requests \ {r} : cap \notin req[o].grants
ConfFree(r, c) == \A o \in Requests \ {r} : c \notin req[o].confs
RuleFree(r, k) == \A o \in Requests \ {r} : k \notin req[o].rules
Unlocked(c) == \A r \in Requests : c \notin req[r].confs

Begin(r, job, step) ==
    /\ pc[r] = "idle"
    /\ pc' = [pc EXCEPT ![r] = step]
    /\ req' = [req EXCEPT ![r] = job]

Goto(r, step) == pc' = [pc EXCEPT ![r] = step]

\* Mutant: the connection goes back to the pool with its transaction open.
FinishHolding(r) == pc' = [pc EXCEPT ![r] = "idle"] /\ UNCHANGED req

\* Commit or rollback: the locks go with the request.
Finish(r) ==
    /\ pc' = [pc EXCEPT ![r] = "idle"]
    /\ req' = [req EXCEPT ![r] = NoJob]

Emit(c, change) == events' = [events EXCEPT ![c][change] = @ + 1]

----------------------------------------------------------------------------
(* Time and authority *)

Tick ==
    /\ clock < MaxClock
    /\ clock' = clock + 1
    /\ UNCHANGED <<rows, pc, req>>

Authority(cap) == agent = "active" /\ cap \in grant

\* Bounds of the model: a transaction that will insert a row finds an id for it.
ConfLeft == \E c \in Confirmations : conf[c].state = "none"
RuleLeft ==
    Cardinality({k \in Rules : rule[k].status = "none"})
        > Cardinality({r \in Requests : req[r].op = "decide"})

\* Mutant: create does not lock the agent row.
CreateUnlocked(r, cap) ==
    /\ ConfLeft /\ AgentFree(r)
    /\ Begin(r, [NoJob EXCEPT !.op = "create", !.cap = cap], "check")
    /\ UNCHANGED <<clock, rows>>

\* create: the agent row is locked first.
Create(r, cap) ==
    /\ ConfLeft /\ AgentFree(r)
    /\ Begin(r, [NoJob EXCEPT !.op = "create", !.cap = cap, !.agent = TRUE], "check")
    /\ UNCHANGED <<clock, rows>>

\* Mutant: consume does not lock the agent row.
ConsumeUnlocked(r, c) ==
    /\ conf[c].state # "none"
    /\ AgentFree(r)
    /\ Begin(r, [NoJob EXCEPT !.op = "consume", !.conf = c], "conf")
    /\ UNCHANGED <<clock, rows>>

\* consume: the agent of an existing confirmation is locked, then its own row.
Consume(r, c) ==
    /\ conf[c].state # "none"
    /\ AgentFree(r)
    /\ Begin(r, [NoJob EXCEPT !.op = "consume", !.conf = c, !.agent = TRUE], "conf")
    /\ UNCHANGED <<clock, rows>>

LockConf(r) ==
    LET c == req[r].conf IN
    /\ pc[r] = "conf"
    /\ ConfFree(r, c)
    /\ IF conf[c].state = "approved" /\ ~conf[c].used /\ Unexpired(c, clock)
       THEN /\ req' = [req EXCEPT ![r].confs = {c}, ![r].cap = conf[c].cap,
                              ![r].now = clock]
            /\ Goto(r, "check")
       ELSE Finish(r)
    /\ UNCHANGED <<clock, rows>>

\* checkAuthority, for create and for consume; only the agent row is locked.  At
\* any time the grant may be auto, it or the host's have expired, the owner be
\* banned, the catalog or a budget of 0 refuse the capability.
CheckAuthority(r) ==
    /\ pc[r] = "check"
    /\ \/ /\ Authority(req[r].cap)
          /\ Goto(r, IF req[r].op = "create" THEN "read" ELSE "spend") /\ UNCHANGED req
       \/ Finish(r)
    /\ UNCHANGED <<clock, rows>>

Pending(now) == {c \in Confirmations : conf[c].state = "pending" /\ Unexpired(c, now)}

\* The pending ones are counted, and a standing rule is looked for.  One that is
\* live may be of another session, or past its until: then it does not match.
ReadRules(r) ==
    /\ pc[r] = "read"
    /\ IF Cardinality(Pending(clock)) < MaxPending
       THEN /\ \E byRule \in {FALSE, \E k \in Rules : Matches(k, req[r].cap)} :
                  req' = [req EXCEPT ![r].now = clock, ![r].byRule = byRule]
            /\ Goto(r, "insert")
       ELSE Finish(r)
    /\ UNCHANGED <<clock, rows>>

InsertConf(r) ==
    /\ pc[r] = "insert"
    /\ \E c \in Confirmations :
          /\ conf[c].state = "none"
          /\ conf' = [conf EXCEPT ![c] =
                        [state |-> IF req[r].byRule THEN "approved" ELSE "pending",
                         used |-> FALSE, cap |-> req[r].cap, expires |-> req[r].now + TTL]]
          /\ Emit(c, "created")
    /\ Finish(r)
    /\ UNCHANGED <<clock, agent, grant, rule>>

\* The conditional UPDATE that spends the approval.
Spend(r) ==
    LET c == req[r].conf IN
    /\ pc[r] = "spend"
    /\ IF conf[c].state = "approved" /\ ~conf[c].used /\ Unexpired(c, req[r].now)
       THEN conf' = [conf EXCEPT ![c].used = TRUE] /\ Emit(c, "used")
       ELSE UNCHANGED <<conf, events>>
    /\ Finish(r)
    /\ UNCHANGED <<clock, agent, grant, rule>>

----------------------------------------------------------------------------
(* The owner decides; the service withdraws; the sweep expires *)

\* decide, without a standing rule: one row, one transaction.
Decide(c, to) ==
    /\ Unlocked(c)
    /\ conf[c].state = "pending" /\ Unexpired(c, clock)
    /\ conf' = [conf EXCEPT ![c].state = to]
    /\ Emit(c, to)
    /\ UNCHANGED <<clock, agent, grant, rule, pc, req>>

\* decide with a standing rule: the row is locked and its state checked ...
DecideStanding(r, c) ==
    /\ RuleLeft /\ ConfFree(r, c)
    /\ conf[c].state = "pending" /\ Unexpired(c, clock)
    /\ Begin(r, [NoJob EXCEPT !.op = "decide", !.conf = c, !.cap = conf[c].cap,
                              !.confs = {c}], "rule")
    /\ UNCHANGED <<clock, rows>>

\* A foreign key to the agent row waits for FOR UPDATE, not for an UPDATE of it.
KeyShared(r) == \A o \in Requests \ {r} : req[o].agent => req[o].op = "retire"

\* ... then the rule is inserted and the confirmation approved.
InsertRule(r) ==
    LET c == req[r].conf IN
    /\ pc[r] = "rule"
    /\ KeyShared(r)
    /\ \E k \in Rules :
          /\ rule[k].status = "none"
          /\ rule' = [rule EXCEPT ![k] = [status |-> "live", cap |-> req[r].cap]]
    /\ conf' = [conf EXCEPT ![c].state = "approved"]
    /\ Emit(c, "approved")
    /\ Finish(r)
    /\ UNCHANGED <<clock, agent, grant>>

\* Mutant: the row is written expired whatever its state is.
ExpireAny(c) ==
    /\ Unlocked(c)
    /\ conf[c].state # "none" /\ ~Unexpired(c, clock)
    /\ events[c]["expired"] < 2
    /\ conf' = [conf EXCEPT ![c].state = "expired"]
    /\ Emit(c, "expired")
    /\ UNCHANGED <<clock, agent, grant, rule, pc, req>>

\* Mutant: the sweep looks at the confirmations of active agents only.
ExpireOfActive(c) ==
    /\ Unlocked(c) /\ agent = "active"
    /\ conf[c].state = "pending" /\ ~Unexpired(c, clock)
    /\ conf' = [conf EXCEPT ![c].state = "expired"]
    /\ Emit(c, "expired")
    /\ UNCHANGED <<clock, agent, grant, rule, pc, req>>

\* expireDue, and decide when it finds a pending row past its time.
Expire(c) ==
    /\ Unlocked(c)
    /\ conf[c].state = "pending" /\ ~Unexpired(c, clock)
    /\ conf' = [conf EXCEPT ![c].state = "expired"]
    /\ Emit(c, "expired")
    /\ UNCHANGED <<clock, agent, grant, rule, pc, req>>

\* cancel, by the service that created it.
Cancel(c) ==
    /\ Unlocked(c)
    /\ Usable(c) /\ Unexpired(c, clock)
    /\ conf' = [conf EXCEPT ![c].state = "cancelled"]
    /\ Emit(c, "cancelled")
    /\ UNCHANGED <<clock, agent, grant, rule, pc, req>>

\* revokeRule: the rule's row only, without the agent's.
RevokeRule(k) ==
    /\ \A r \in Requests : k \notin req[r].rules
    /\ rule[k].status = "live"
    /\ rule' = [rule EXCEPT ![k].status = "revoked"]
    /\ UNCHANGED <<clock, agent, grant, conf, events, pc, req>>

----------------------------------------------------------------------------
(* Changes of authority *)

\* changeStatus: resume.  Nothing is revived.
Resume(r) ==
    /\ pc[r] = "idle" /\ AgentFree(r)
    /\ agent = "paused"
    /\ agent' = "active"
    /\ UNCHANGED <<clock, grant, conf, rule, events, pc, req>>

\* changeStatus: pause and revoke, under FOR UPDATE of the agent row.
ChangeStatus(r, to) ==
    /\ AgentFree(r)
    /\ agent \notin {to, "revoked"}
    /\ Begin(r, [NoJob EXCEPT !.op = "status", !.to = to, !.agent = TRUE], "select")
    /\ UNCHANGED <<clock, rows>>

\* revokeWhere (the app revoked, the project archived, the owner gone): the
\* UPDATE of the agent row is the lock.
RetireAgent(r) ==
    /\ AgentFree(r)
    /\ agent # "revoked"
    /\ Begin(r, [NoJob EXCEPT !.op = "retire", !.to = "revoked", !.agent = TRUE], "select")
    /\ UNCHANGED <<clock, rows>>

\* putGrant: the agent row, then the grant's.
PutGrant(r, cap) ==
    /\ AgentFree(r)
    /\ agent # "revoked"
    /\ Begin(r, [NoJob EXCEPT !.op = "put_grant", !.cap = cap, !.agent = TRUE], "grant")
    /\ UNCHANGED <<clock, rows>>

\* The host may do cap: read under a lock of the row that says so (a service's
\* grant, an app's project), which a change of the ceiling holds all along.
HostFree(r, cap) == \A o \in Requests \ {r} : cap \notin req[o].caps

WriteGrant(r) ==
    /\ pc[r] = "grant"
    /\ HostFree(r, req[r].cap) /\ GrantFree(r, req[r].cap)
    /\ grant' = grant \cup {req[r].cap}
    /\ Finish(r)
    /\ UNCHANGED <<clock, agent, conf, rule, events>>

\* deleteGrant: the grant's row only, not the agent's.
DeleteGrant(r, cap) ==
    /\ GrantFree(r, cap)
    /\ cap \in grant
    /\ Begin(r, [NoJob EXCEPT !.op = "delete_grant", !.cap = cap, !.grants = {cap}], "select")
    /\ UNCHANGED <<clock, rows>>

\* revokeBeyondHost: the host's ceiling shrank, and every grant it leaves outside
\* goes, one after the other.  No row of the agent's is locked at first.
RevokeBeyondHost(r, caps) ==
    /\ agent # "revoked"
    /\ caps # {} /\ caps \subseteq grant
    /\ Begin(r, [NoJob EXCEPT !.op = "beyond_host", !.caps = caps], "revoke")
    /\ UNCHANGED <<clock, rows>>

\* revokeGrantRow for the next of them: a conditional UPDATE, then its cascade.
RevokeNextGrant(r) ==
    /\ pc[r] = "revoke" /\ req[r].live = {}
    /\ req[r].caps # {}
    /\ LET cap == Min(req[r].caps) IN
          /\ GrantFree(r, cap)
          /\ IF cap \in grant
             THEN /\ req' = [req EXCEPT ![r].caps = @ \ {cap}, ![r].cap = cap,
                               ![r].grants = @ \cup {cap}]
                  /\ Goto(r, "select")
             ELSE /\ req' = [req EXCEPT ![r].caps = @ \ {cap}]
                  /\ UNCHANGED pc
    /\ UNCHANGED <<clock, rows>>

Affects(r, cap) == req[r].cap \in {NoCap, cap}

\* Mutant: the cascade selects what is pending, and forgets what is approved.
SelectPending(r) ==
    /\ pc[r] = "select"
    /\ req' = [req EXCEPT ![r].now = clock,
                 ![r].todo = {c \in Confirmations : Affects(r, conf[c].cap)
                                /\ conf[c].state = "pending" /\ Unexpired(c, clock)}]
    /\ Goto(r, "cancel")
    /\ UNCHANGED <<clock, rows>>

\* cancelFor: the usable rows are selected, as committed now ...
SelectUsable(r) ==
    /\ pc[r] = "select"
    /\ req' = [req EXCEPT ![r].now = clock,
                 ![r].todo = {c \in Confirmations : Affects(r, conf[c].cap)
                                /\ Usable(c) /\ Unexpired(c, clock)}]
    /\ Goto(r, "cancel")
    /\ UNCHANGED <<clock, rows>>

\* Mutant: no ORDER BY id.
CancelAnyNext(r) ==
    /\ pc[r] = "cancel"
    /\ \E c \in req[r].todo :
          /\ ConfFree(r, c)
          /\ req' = [req EXCEPT ![r].todo = @ \ {c},
                       ![r].confs = IF Usable(c) THEN @ \cup {c} ELSE @,
                       ![r].cut = IF Usable(c) THEN @ \cup {c} ELSE @]
    /\ UNCHANGED <<clock, rows, pc>>

\* ... and updated one by one, in order of id, each if it is still usable.
CancelNext(r) ==
    /\ pc[r] = "cancel"
    /\ req[r].todo # {}
    /\ LET c == Min(req[r].todo)
           still == Usable(c) /\ Unexpired(c, req[r].now)
       IN /\ ConfFree(r, c)
          /\ req' = [req EXCEPT ![r].todo = @ \ {c},
                       ![r].confs = IF still THEN @ \cup {c} ELSE @,
                       ![r].cut = IF still THEN @ \cup {c} ELSE @]
    /\ UNCHANGED <<clock, rows, pc>>

\* Then the live standing rules: selected, ...
SelectRules(r) ==
    /\ pc[r] = "cancel"
    /\ req[r].todo = {}
    /\ req' = [req EXCEPT ![r].live = {k \in Rules : rule[k].status = "live"
                                                      /\ Affects(r, rule[k].cap)}]
    /\ Goto(r, "revoke")
    /\ UNCHANGED <<clock, rows>>

\* ... and revoked in order of id, each if it still lives.
RevokeNextRule(r) ==
    /\ pc[r] = "revoke"
    /\ req[r].live # {}
    /\ LET k == Min(req[r].live) IN
          /\ RuleFree(r, k)
          /\ req' = [req EXCEPT ![r].live = @ \ {k},
                       ![r].rules = IF rule[k].status = "live" THEN @ \cup {k} ELSE @]
    /\ UNCHANGED <<clock, rows, pc>>

\* All of it commits with the change of authority itself.
CommitCascade(r) ==
    /\ pc[r] = "revoke"
    /\ req[r].live = {} /\ req[r].caps = {}
    /\ conf' = [c \in Confirmations |->
                  IF c \in req[r].cut THEN [conf[c] EXCEPT !.state = "cancelled"] ELSE conf[c]]
    /\ events' = [c \in Confirmations |->
                    IF c \in req[r].cut THEN [events[c] EXCEPT !["cancelled"] = @ + 1]
                    ELSE events[c]]
    /\ rule' = [k \in Rules |->
                  IF k \in req[r].rules THEN [rule[k] EXCEPT !.status = "revoked"] ELSE rule[k]]
    /\ agent' = IF req[r].agent THEN req[r].to ELSE agent
    /\ grant' = grant \ req[r].grants
    /\ Finish(r)
    /\ UNCHANGED clock

\* The statement throws, the process stops, or PostgreSQL breaks a deadlock.
Abort(r) ==
    /\ pc[r] # "idle"
    /\ Finish(r)
    /\ UNCHANGED <<clock, rows>>

----------------------------------------------------------------------------
Begins(r) ==
    \/ \E cap \in Capabilities :
          \/ Create(r, cap)
          \/ PutGrant(r, cap)
          \/ DeleteGrant(r, cap)
    \/ \E caps \in SUBSET Capabilities : RevokeBeyondHost(r, caps)
    \/ \E c \in Confirmations : Consume(r, c) \/ DecideStanding(r, c)
    \/ \E to \in {"paused", "revoked"} : ChangeStatus(r, to)
    \/ RetireAgent(r) \/ Resume(r)

Continues(r) ==
    \/ LockConf(r) \/ CheckAuthority(r) \/ ReadRules(r) \/ InsertConf(r) \/ Spend(r)
    \/ InsertRule(r) \/ WriteGrant(r)
    \/ SelectUsable(r) \/ CancelNext(r) \/ SelectRules(r) \/ RevokeNextRule(r)
    \/ RevokeNextGrant(r) \/ CommitCascade(r)

Single ==
    \/ Tick
    \/ \E c \in Confirmations :
          \/ \E to \in {"approved", "denied"} : Decide(c, to)
          \/ Expire(c) \/ Cancel(c)
    \/ \E k \in Rules : RevokeRule(k)

Next == Single \/ \E r \in Requests : Begins(r) \/ Continues(r) \/ Abort(r)

Spec == Init /\ [][Next]_vars

\* Who waits for a row of whom, and a circle of such waits.
Waits(r, o) ==
    /\ r # o
    /\ \/ pc[r] = "conf" /\ req[r].conf \in req[o].confs
       \/ pc[r] = "cancel" /\ req[r].todo # {} /\ Min(req[r].todo) \in req[o].confs
       \/ /\ pc[r] = "revoke" /\ req[r].live # {}
          /\ Min(req[r].live) \in req[o].rules
       \/ /\ pc[r] = "revoke" /\ req[r].live = {} /\ req[r].caps # {}
          /\ Min(req[r].caps) \in req[o].grants
       \/ pc[r] = "grant" /\ req[r].cap \in req[o].grants \cup req[o].caps
       \/ pc[r] = "rule" /\ req[o].agent /\ req[o].op # "retire"
IsCircle(circle) == circle # {} /\ \A r \in circle : \E o \in circle : Waits(r, o)

\* PostgreSQL breaks such a circle after deadlock_timeout.
BreakDeadlock == \E circle \in SUBSET Requests : IsCircle(circle) /\ \E r \in circle : Abort(r)

\* A row lock goes to those who wait in the order they came, so that what is
\* enabled again and again happens; the sweep's timer never stops; time passes.
Fairness ==
    /\ \A r \in Requests : SF_vars(Continues(r))
    /\ WF_vars(BreakDeadlock)
    /\ \A c \in Confirmations : SF_vars(Expire(c))
    /\ WF_vars(Tick)

FairSpec == Spec /\ Fairness

----------------------------------------------------------------------------
(* Properties *)

\* An approval is spent only while its agent is active: pausing, revoking or
\* retiring the agent never comes between the check and the spend, whoever
\* waits for whom, and whatever expires meanwhile.
SpentWhileActive ==
    [][\A c \in Confirmations : (~conf[c].used /\ conf[c].used') => agent = "active"]_vars

\* However the owner, the service, the sweep and the cascades race, each change
\* is written once, and the changes written tell the state of the row: what was
\* denied, expired, cancelled or spent is not decided again.
EachChangeOnce == TypeOK /\
    \A c \in Confirmations :
        /\ \A change \in Changes : events[c][change] <= 1
        /\ (conf[c].state # "none") <=> (events[c]["created"] = 1)
        /\ conf[c].used <=> (events[c]["used"] = 1)
        /\ \A end \in {"denied", "expired", "cancelled"} :
              (conf[c].state = end) <=> (events[c][end] = 1)

\* While the agent is paused or revoked nothing of it can be spent or decided.
PausedLeavesNothing ==
    agent # "active" => \A c \in Confirmations : ~(Usable(c) /\ Unexpired(c, clock))

\* The inbox of the owner never holds more than MAX_PENDING of one agent.
PendingBounded == Cardinality(Pending(clock)) <= MaxPending

\* A ceiling's cascade that is past its first capability.
WentOn(r) ==
    /\ req[r].op = "beyond_host"
    /\ \/ \E first, second \in req[r].grants : first # second
       \/ pc[r] = "revoke" /\ req[r].live = {} /\ req[r].grants # {}

\* Transactions that wait for each other in a circle are broken by PostgreSQL,
\* an error for one of them, and the code does have such circles.  Each of them
\* runs through an approval that leaves a standing rule (it locks a confirmation
\* before the agent), or through the pause or end of the whole agent and a
\* ceiling's cascade past its first capability (rows by id against rows by
\* capability).  No other order of locks on one agent's rows can make one.
DeadlockOrigins ==
    \A circle \in SUBSET Requests : IsCircle(circle) =>
        \/ \E r \in circle : pc[r] = "rule"
        \/ /\ \E r \in circle : req[r].op \in {"status", "retire"}
           /\ \E r \in circle : WentOn(r)

\* No transaction waits for ever: every lock it can wait for is given up by a
\* transaction that does not wait for it, or the circle is broken.
TransactionsEnd == \A r \in Requests : pc[r] # "idle" ~> pc[r] = "idle"

\* No request stays in the owner's inbox past its time, however often the rows
\* are locked: decided, withdrawn, cancelled or recorded as expired.
PendingEnds ==
    \A c \in Confirmations :
        (conf[c].state = "pending" /\ conf[c].expires <= MaxClock) ~> conf[c].state # "pending"

============================================================================
