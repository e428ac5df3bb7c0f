---------------------------- MODULE DevProjects ----------------------------
(* One developer project: its members, apps, app grants and allowance      *)
(* (server/developer/store.js), the agents run by its apps or by a service *)
(* with the grants delegated to them (server/developer/agents.js), the     *)
(* service's own grants (server/identity/grants-admin.js) and the erasure  *)
(* of an account (server/identity/account-data.js).                        *)
(* A request reads the project, the role and the row it is about outside   *)
(* any transaction; the transaction that follows may be much later. Those  *)
(* whose effect depends on what was read have a job between the two steps. *)
EXTENDS Naturals, FiniteSets, TLC

CONSTANTS
    Requests,          \* requests and timer runs that may be under way at once
    People, Founder,   \* accounts; the one that created the project
    Apps, SandboxApps, \* ids of dev_apps; those of environment sandbox
    Service,           \* the first-party service that hosts agents
    Agents,            \* ids of dev_agents
    Caps,              \* capabilities of one audience
    SandboxAllowance,  \* DEV_SANDBOX_ALLOWANCE
    NoOne

ASSUME DevProjectsAssumption ==
    /\ Founder \in People /\ SandboxApps \subseteq Apps
    /\ SandboxAllowance \subseteq Caps
    /\ NoOne \notin Requests \cup People \cup Apps \cup {Service}
    /\ Service \notin Apps

VARIABLES
    archived,   \* dev_projects.archived_at is set
    allowance,  \* dev_projects.allowance
    owner,      \* dev_projects.owner_subject
    role,       \* dev_project_members
    app,        \* dev_apps: none, live or revoked
    grant,      \* dev_grants; denied and revoked are "ended"
    status,     \* dev_agents.status
    person,     \* dev_agents.owner_subject
    host,       \* dev_agents.host_app_id or host_service
    delegated,  \* dev_agent_grants with status active
    svc,        \* principal_grants of Service
    lock,       \* the transaction that holds the project's row
    job         \* what each request has read

project == <<archived, allowance, owner, role>>
agents == <<status, person, host>>
vars == <<project, app, grant, agents, delegated, svc, lock, job>>

Rank == [none |-> 0, viewer |-> 1, developer |-> 2, admin |-> 3, owner |-> 4]
Roles == DOMAIN Rank
Hosts == Apps \cup {Service}
Decisions == {"approved", "denied", "revoked"}

\* op: idle, createApp, request, a decision, createAgent, putGrant, expire or erase.
Jobs == [op: {"idle", "createApp", "request", "createAgent", "putGrant", "expire", "erase"}
             \cup Decisions,
         app: Apps \cup {Service, NoOne}, cap: Caps \cup {NoOne},
         who: People \cup Agents \cup {NoOne}, now: BOOLEAN,
         seen: SUBSET (Apps \cup Agents)]
Idle == [op |-> "idle", app |-> NoOne, cap |-> NoOne, who |-> NoOne, now |-> FALSE,
         seen |-> {}]

TypeOK ==
    /\ archived \in BOOLEAN /\ allowance \subseteq Caps /\ owner \in People
    /\ role \in [People -> Roles]
    /\ app \in [Apps -> {"none", "live", "revoked"}]
    /\ grant \in [Apps -> [Caps -> {"none", "requested", "approved", "ended"}]]
    /\ status \in [Agents -> {"none", "active", "paused", "revoked"}]
    /\ person \in [Agents -> People \cup {NoOne}]
    /\ host \in [Agents -> Hosts \cup {NoOne}]
    /\ delegated \in [Agents -> SUBSET Caps]
    /\ svc \in [Caps -> {"none", "open", "timed", "lapsed", "revoked"}]
    /\ lock \in Requests \cup {NoOne}
    /\ job \in [Requests -> Jobs]
    /\ \A r \in Requests : lock = r <=> job[r].op \in {"createAgent", "putGrant"}
    /\ \A g \in Agents : status[g] # "none" => person[g] # NoOne /\ host[g] # NoOne

\* createProject: the project, its owner's membership, and nothing else. The
\* accounts and the service's grants exist before it.
Init ==
    /\ archived = FALSE /\ allowance = {} /\ owner = Founder
    /\ role = [p \in People |-> IF p = Founder THEN "owner" ELSE "none"]
    /\ app = [a \in Apps |-> "none"]
    /\ grant = [a \in Apps |-> [c \in Caps |-> "none"]]
    /\ status = [g \in Agents |-> "none"]
    /\ person = [g \in Agents |-> NoOne] /\ host = [g \in Agents |-> NoOne]
    /\ delegated = [g \in Agents |-> {}]
    /\ svc = [c \in Caps |-> "none"]
    /\ lock = NoOne /\ job = [r \in Requests |-> Idle]

AtLeast(p, need) == Rank[role[p]] >= Rank[need]
Somebody(need) == \E p \in People : AtLeast(p, need)
Live(g) == status[g] \in {"active", "paused"}
HostedBy(h) == {g \in Agents : host[g] = h}

\* lockProject: FOR NO KEY UPDATE of the project's row; an UPDATE of it waits too.
LockFree == lock = NoOne

Begin(r, j) == job[r] = Idle /\ job' = [job EXCEPT ![r] = j]
Done(r) == job' = [job EXCEPT ![r] = Idle]

\* allowanceFor: the staff's allowance, with the sandbox allowance for a sandbox app.
AllowanceFor(a, list) == list \cup (IF a \in SandboxApps THEN SandboxAllowance ELSE {})

\* ceiling: what the host of g may use, with the allowance, the app grants and
\* the service's grants as given. effectiveGrants for an app that is live in a
\* project that is; grantsFor, not revoked and not past expires_at, for the service.
CeilingOver(g, list, gr, sv) ==
    IF host[g] = Service THEN {c \in Caps : sv[c] \in {"open", "timed"}}
    ELSE {c \in AllowanceFor(host[g], list) :
            app[host[g]] = "live" /\ ~archived /\ gr[host[g]][c] = "approved"}
Ceiling(g) == CeilingOver(g, allowance, grant, svc)

----------------------------------------------------------------------------
(* Members *)

\* canAssign: the owner assigns admins, an admin developers and viewers.
CanAssign(by, to) == to # "owner" /\ Rank[by] >= Rank[IF to = "admin" THEN "owner" ELSE "admin"]

\* addMember: for somebody who is no member yet.
AddMember(by, p, to) ==
    /\ ~archived /\ AtLeast(by, "admin") /\ CanAssign(role[by], to) /\ role[p] = "none"
    /\ role' = [role EXCEPT ![p] = to]
    /\ UNCHANGED <<archived, allowance, owner, app, grant, agents, delegated, svc, lock, job>>

\* updateMember: a change of role ends nothing the person made before.
UpdateMember(by, p, to) ==
    /\ ~archived /\ AtLeast(by, "admin") /\ role[p] \notin {"none", "owner"}
    /\ CanAssign(role[by], role[p]) /\ CanAssign(role[by], to)
    /\ role' = [role EXCEPT ![p] = to]
    /\ UNCHANGED <<archived, allowance, owner, app, grant, agents, delegated, svc, lock, job>>

\* revokeWhere: the agents of G that are not revoked are; their grants stay rows.
RevokeAgents(G) == status' = [g \in Agents |->
    IF g \in G /\ Live(g) THEN "revoked" ELSE status[g]]

\* removeMember: of an archived project too; the person's agents go with them.
RemoveMember(by, p) ==
    /\ role[p] \notin {"none", "owner"} /\ (by = p \/ CanAssign(role[by], role[p]))
    /\ LockFree
    /\ role' = [role EXCEPT ![p] = "none"]
    /\ RevokeAgents({g \in Agents : person[g] = p})
    /\ UNCHANGED <<archived, allowance, owner, app, grant, person, host, delegated, svc, lock, job>>

----------------------------------------------------------------------------
(* Apps, the archive and the erasure *)

\* createApp: access is asked here, and not again by the transaction.
CreateAppCheck(r) ==
    /\ ~archived /\ Somebody("developer")
    /\ Begin(r, [Idle EXCEPT !.op = "createApp"])
    /\ UNCHANGED <<project, app, grant, agents, delegated, svc, lock>>

CreateAppInsert(r, a) ==
    /\ job[r].op = "createApp" /\ app[a] = "none"
    /\ app' = [app EXCEPT ![a] = "live"] /\ Done(r)
    /\ UNCHANGED <<project, grant, agents, delegated, svc, lock>>

\* revokeApp and revokeAppTx: the app and the agents it hosts.
RevokeApp(a) ==
    /\ app[a] = "live" /\ LockFree
    /\ app' = [app EXCEPT ![a] = "revoked"]
    /\ RevokeAgents(HostedBy(a))
    /\ UNCHANGED <<project, grant, person, host, delegated, svc, lock, job>>

\* archiveProject: every agent, every app there is, and the project.
ArchiveProject ==
    /\ ~archived /\ LockFree
    /\ RevokeAgents(Agents)
    /\ app' = [a \in Apps |-> IF app[a] = "live" THEN "revoked" ELSE app[a]]
    /\ archived' = TRUE
    /\ UNCHANGED <<allowance, owner, role, grant, person, host, delegated, svc, lock, job>>

Heirs(p) == {q \in People \ {p} : AtLeast(q, "admin")}

\* erase: the locks of the projects the person is a member of, their agents, then
\* the projects they own: each goes to an owner or admin who is left, whose role
\* stays, or it is archived. Afterwards p stands for the next account.
EraseAccount(p) ==
    /\ role[p] # "none" /\ LockFree
    /\ role' = [role EXCEPT ![p] = "none"]
    /\ IF owner = p /\ ~archived /\ Heirs(p) = {}
       THEN /\ RevokeAgents(Agents)
            /\ app' = [a \in Apps |-> IF app[a] = "live" THEN "revoked" ELSE app[a]]
            /\ archived' = TRUE /\ UNCHANGED owner
       ELSE /\ RevokeAgents({g \in Agents : person[g] = p})
            /\ IF owner = p /\ ~archived THEN owner' \in Heirs(p) ELSE UNCHANGED owner
            /\ UNCHANGED <<app, archived>>
    /\ UNCHANGED <<allowance, grant, person, host, delegated, svc, lock, job>>

\* An heir who has left the project owns it without a membership: their erasure
\* takes no lock before it reads the heirs, the apps and the agents.
EraseLeaver(r, p) ==
    /\ owner = p /\ role[p] = "none" /\ ~archived
    /\ IF Heirs(p) = {}
       THEN Begin(r, [Idle EXCEPT !.op = "erase", !.seen =
                        {a \in Apps : app[a] = "live"} \cup {g \in Agents : Live(g)}])
            /\ UNCHANGED owner
       ELSE LockFree /\ owner' \in Heirs(p) /\ UNCHANGED job
    /\ UNCHANGED <<archived, allowance, role, app, grant, agents, delegated, svc, lock>>

\* Its UPDATE of the project waits for the lock; what it revoked it had read before.
EraseLeaverCommit(r) ==
    /\ job[r].op = "erase" /\ LockFree /\ archived' = TRUE /\ Done(r)
    /\ RevokeAgents(job[r].seen)
    /\ app' = [a \in Apps |-> IF a \in job[r].seen THEN "revoked" ELSE app[a]]
    /\ UNCHANGED <<allowance, owner, role, grant, person, host, delegated, svc, lock>>

----------------------------------------------------------------------------
(* App grants and the allowance *)

\* revokeBeyondHost: the live agents of G keep what their host still holds.
RevokeBeyondHost(G, list, gr, sv) == delegated' = [g \in Agents |->
    IF g \in G /\ Live(g) THEN delegated[g] \cap CeilingOver(g, list, gr, sv)
    ELSE delegated[g]]

\* What a new allowance leaves of the app grants.
Trimmed(list) == [a \in Apps |-> [c \in Caps |->
    IF c \notin AllowanceFor(a, list) /\ grant[a][c] \in {"approved", "requested"}
    THEN "ended" ELSE grant[a][c]]]

\* setAllowance, by staff. access is asked before the transaction, which an
\* archive may precede. The project's row is held from the UPDATE to the commit.
SetAllowance(list) ==
    /\ LockFree
    /\ allowance' = list
    /\ grant' = Trimmed(list)
    /\ RevokeBeyondHost({g \in Agents : host[g] \in Apps}, list, Trimmed(list), svc)
    /\ UNCHANGED <<archived, owner, role, app, agents, svc, lock, job>>

\* requestGrant: the role, the existing row and the allowance are read first.
RequestGrantCheck(r, p, a, c) ==
    /\ ~archived /\ AtLeast(p, "developer") /\ app[a] = "live"
    /\ grant[a][c] \notin {"approved", "requested"}
    /\ Begin(r, [Idle EXCEPT !.op = "request", !.app = a, !.cap = c,
                 !.now = AtLeast(p, "admin") /\ c \in AllowanceFor(a, allowance)])
    /\ UNCHANGED <<project, app, grant, agents, delegated, svc, lock>>

\* Its upsert writes over whatever status the row has by then.
RequestGrantUpsert(r) ==
    LET j == job[r]
    IN  /\ j.op = "request"
        /\ grant' = [grant EXCEPT ![j.app][j.cap] = IF j.now THEN "approved" ELSE "requested"]
        /\ Done(r)
        /\ UNCHANGED <<project, app, agents, delegated, svc, lock>>

\* decideGrant: the status, the app and the allowance are read first.
DecideGrantCheck(r, a, c, d) ==
    /\ app[a] # "none"
    /\ d # "revoked" => ~archived /\ Somebody("admin")
    /\ CASE d = "approved" -> app[a] = "live" /\ c \in AllowanceFor(a, allowance)
                              /\ grant[a][c] \in {"requested", "ended"}
         [] d = "denied" -> grant[a][c] = "requested"
         [] d = "revoked" -> grant[a][c] = "approved"
    /\ Begin(r, [Idle EXCEPT !.op = d, !.app = a, !.cap = c])
    /\ UNCHANGED <<project, app, grant, agents, delegated, svc, lock>>

\* Its transaction for approved and denied: no lock and no condition.
DecideGrantWrite(r) ==
    LET j == job[r]
    IN  /\ j.op \in {"approved", "denied"}
        /\ grant' = [grant EXCEPT ![j.app][j.cap] =
                        IF j.op = "approved" THEN "approved" ELSE "ended"]
        /\ Done(r)
        /\ UNCHANGED <<project, app, agents, delegated, svc, lock>>

\* For revoked: the project's lock, then the cascade to the agents of the app.
DecideGrantRevoke(r) ==
    LET j == job[r]
        left == [grant EXCEPT ![j.app][j.cap] = "ended"]
    IN  /\ j.op = "revoked" /\ LockFree
        /\ grant' = left
        /\ RevokeBeyondHost(HostedBy(j.app), allowance, left, svc)
        /\ Done(r)
        /\ UNCHANGED <<project, app, agents, svc, lock>>

----------------------------------------------------------------------------
(* Agents and what is delegated to them *)

\* resolveHost: a live app (a production one for admins), or the service.
HostFor(p, h) == h \in Apps => app[h] = "live" /\ (h \in SandboxApps \/ AtLeast(p, "admin"))

\* Mutant: createAgent does not take the project's lock.
CreateAgentNoLock(r, p, h) ==
    /\ ~archived /\ AtLeast(p, "developer") /\ HostFor(p, h)
    /\ Begin(r, [Idle EXCEPT !.op = "createAgent", !.who = p, !.app = h])
    /\ UNCHANGED <<project, app, grant, agents, delegated, svc, lock>>

\* createAgent: the project, the membership and the host are read under the lock.
CreateAgentLock(r, p, h) ==
    /\ LockFree /\ lock' = r
    /\ ~archived /\ AtLeast(p, "developer") /\ HostFor(p, h)
    /\ Begin(r, [Idle EXCEPT !.op = "createAgent", !.who = p, !.app = h])
    /\ UNCHANGED <<project, app, grant, agents, delegated, svc>>

CreateAgentInsert(r, g) ==
    /\ job[r].op = "createAgent" /\ status[g] = "none"
    /\ status' = [status EXCEPT ![g] = "active"]
    /\ person' = [person EXCEPT ![g] = job[r].who]
    /\ host' = [host EXCEPT ![g] = job[r].app]
    /\ lock' = IF lock = r THEN NoOne ELSE lock
    /\ Done(r)
    /\ UNCHANGED <<project, app, grant, delegated, svc>>

\* putGrant holds the agent's row, and the row of the service's grant.
AgentFree(g) == \A r \in Requests : ~(job[r].op = "putGrant" /\ job[r].who = g)
ServiceGrantFree(c) == \A r \in Requests :
    ~(job[r].op = "putGrant" /\ job[r].cap = c /\ job[r].app = Service)

\* Mutant: changeStatus sets the status without looking at the present one.
ChangeStatusBlindly(g, to) ==
    /\ status[g] \notin {"none", to} /\ AgentFree(g)
    /\ status' = [status EXCEPT ![g] = to]
    /\ UNCHANGED <<project, app, grant, person, host, delegated, svc, lock, job>>

\* changeStatus: pause, resume, revoke, conditioned on the row under its lock.
ChangeStatus(g, to) ==
    /\ status[g] \notin {"none", "revoked", to} /\ AgentFree(g)
    /\ status' = [status EXCEPT ![g] = to]
    /\ UNCHANGED <<project, app, grant, person, host, delegated, svc, lock, job>>

\* Mutant: putGrant reads the ceiling without the project's lock.
PutGrantNoLock(r, g, c) ==
    /\ ~archived /\ Live(g) /\ AtLeast(person[g], "viewer")
    /\ AgentFree(g) /\ c \in Ceiling(g)
    /\ Begin(r, [Idle EXCEPT !.op = "putGrant", !.who = g, !.cap = c, !.app = host[g]])
    /\ UNCHANGED <<project, app, grant, agents, delegated, svc, lock>>

\* putGrant: the agent's owner, inside what the host holds, under the lock.
PutGrantLock(r, g, c) ==
    /\ LockFree /\ lock' = r
    /\ ~archived /\ Live(g) /\ AtLeast(person[g], "viewer")
    /\ AgentFree(g) /\ c \in Ceiling(g)
    /\ Begin(r, [Idle EXCEPT !.op = "putGrant", !.who = g, !.cap = c, !.app = host[g]])
    /\ UNCHANGED <<project, app, grant, agents, delegated, svc>>

PutGrantWrite(r) ==
    LET j == job[r]
    IN  /\ j.op = "putGrant"
        /\ delegated' = [delegated EXCEPT ![j.who] = @ \cup {j.cap}]
        /\ lock' = IF lock = r THEN NoOne ELSE lock
        /\ Done(r)
        /\ UNCHANGED <<project, app, grant, agents, svc>>

\* deleteGrant: the delegated grant's row, by its owner, an admin or staff.
DeleteGrant(g, c) ==
    /\ c \in delegated[g]
    /\ delegated' = [delegated EXCEPT ![g] = @ \ {c}]
    /\ UNCHANGED <<project, app, grant, agents, svc, lock, job>>

----------------------------------------------------------------------------
(* The service's grants *)

\* grant: an upsert, with or without an expiry.
GrantService(c, to) ==
    /\ ServiceGrantFree(c)
    /\ svc' = [svc EXCEPT ![c] = to]
    /\ UNCHANGED <<project, app, grant, agents, delegated, lock, job>>

\* revoke: an active one, with the cascade to the agents the service hosts.
RevokeService(c) ==
    LET left == [svc EXCEPT ![c] = "revoked"]
    IN  /\ svc[c] \in {"open", "timed"} /\ ServiceGrantFree(c)
        /\ svc' = left
        /\ RevokeBeyondHost(HostedBy(Service), allowance, grant, left)
        /\ UNCHANGED <<project, app, grant, agents, lock, job>>

\* Time: expires_at is passed.
Lapse(c) ==
    /\ svc[c] = "timed"
    /\ svc' = [svc EXCEPT ![c] = "lapsed"]
    /\ UNCHANGED <<project, app, grant, agents, delegated, lock, job>>

\* expireDue: the rows past their expiry are selected first.
ExpireDueSelect(r, c) ==
    /\ svc[c] = "lapsed"
    /\ Begin(r, [Idle EXCEPT !.op = "expire", !.cap = c])
    /\ UNCHANGED <<project, app, grant, agents, delegated, svc, lock>>

\* Mutant: expireDue without revokeDelegated.
ExpireDueNoCascade(r) ==
    LET c == job[r].cap
    IN  /\ job[r].op = "expire" /\ ServiceGrantFree(c)
        /\ svc' = IF svc[c] \in {"timed", "lapsed"} THEN [svc EXCEPT ![c] = "revoked"] ELSE svc
        /\ Done(r)
        /\ UNCHANGED <<project, app, grant, agents, delegated, lock>>

\* Each selected row that is not revoked by now is revoked as of the expiry it
\* has by now (none: it stays), with the cascade.
ExpireDueRecord(r) ==
    LET c == job[r].cap
        left == IF svc[c] \in {"timed", "lapsed"} THEN [svc EXCEPT ![c] = "revoked"] ELSE svc
    IN  /\ job[r].op = "expire" /\ ServiceGrantFree(c)
        /\ svc' = left
        /\ IF svc[c] = "revoked" THEN UNCHANGED delegated
           ELSE RevokeBeyondHost(HostedBy(Service), allowance, grant, left)
        /\ Done(r)
        /\ UNCHANGED <<project, app, grant, agents, lock>>

----------------------------------------------------------------------------

MemberStep == \E by, p \in People :
    \/ \E to \in Roles \ {"none", "owner"} : AddMember(by, p, to) \/ UpdateMember(by, p, to)
    \/ RemoveMember(by, p)

AppStep ==
    \/ ArchiveProject
    \/ \E p \in People : EraseAccount(p)
    \/ \E list \in SUBSET Caps : SetAllowance(list)
    \/ \E a \in Apps : RevokeApp(a)

RequestStep(r) ==
    \/ CreateAppCheck(r) \/ EraseLeaverCommit(r)
    \/ \E p \in People : EraseLeaver(r, p)
    \/ \E a \in Apps : CreateAppInsert(r, a)
    \/ \E a \in Apps, c \in Caps :
          \/ \E p \in People : RequestGrantCheck(r, p, a, c)
          \/ \E d \in Decisions : DecideGrantCheck(r, a, c, d)
    \/ RequestGrantUpsert(r) \/ DecideGrantWrite(r) \/ DecideGrantRevoke(r)
    \/ \E p \in People, h \in Hosts : CreateAgentLock(r, p, h)
    \/ \E g \in Agents : CreateAgentInsert(r, g)
    \/ \E g \in Agents, c \in Caps : PutGrantLock(r, g, c)
    \/ PutGrantWrite(r)
    \/ \E c \in Caps : ExpireDueSelect(r, c)
    \/ ExpireDueRecord(r)

AgentStep == \E g \in Agents :
    \/ \E to \in {"active", "paused", "revoked"} : ChangeStatus(g, to)
    \/ \E c \in Caps : DeleteGrant(g, c)

ServiceStep == \E c \in Caps :
    \/ \E to \in {"open", "timed"} : GrantService(c, to)
    \/ RevokeService(c)
    \/ Lapse(c)

Next == MemberStep \/ AppStep \/ AgentStep \/ ServiceStep \/ \E r \in Requests : RequestStep(r)

Spec == Init /\ [][Next]_vars

----------------------------------------------------------------------------
(* Properties *)

\* An agent that may act belongs to a member, its project is not archived and its
\* host is a live app or the service: whatever ends one of them takes the agent
\* with it, however its creation races the end (lockProject in store.js, createAgent
\* and revokeWhere in agents.js). The erasure of an owner who had left is apart.
LeaverErased == role[owner] = "none" /\ archived
NoOrphanAgents == \A g \in Agents : Live(g) =>
    /\ role[person[g]] # "none"
    /\ ~LeaverErased => ~archived /\ (host[g] = Service \/ app[host[g]] = "live")

\* What is delegated to an agent of an app lies within the allowance of the
\* project, through every race of a putGrant, a decision and a smaller allowance
\* (setAllowance and putGrant hold the project's row).
DelegatedWithinAllowance == \A g \in Agents : Live(g) /\ host[g] # Service =>
    delegated[g] \subseteq AllowanceFor(host[g], allowance)

\* What is delegated to an agent of the service is granted to the service, until
\* the sweep has recorded an expiry (FOR SHARE in putGrant, revokeDelegated).
DelegatedOfService == \A g \in Agents : Live(g) /\ host[g] = Service =>
    \A c \in delegated[g] : svc[c] \in {"open", "timed", "lapsed"}

\* A revoked agent, a revoked app and an archived project stay so, whichever
\* pause, resume, creation or decision was under way.
EndsAreFinal == [][
    /\ archived => archived'
    /\ \A a \in Apps : app[a] = "revoked" => app'[a] = "revoked"
    /\ \A g \in Agents : status[g] = "revoked" => status'[g] = "revoked"]_vars

=============================================================================
