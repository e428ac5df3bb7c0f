------------------------- MODULE DevProjects_proofs -------------------------
(***************************************************************************)
(* Theorems about DevProjects, for any number of requests, people, apps,   *)
(* agents and capabilities.                                                *)
(*                                                                         *)
(* What a request read before it writes is kept true by the lock it holds  *)
(* (Fits), so that every row of an agent keeps to AgentOK.                 *)
(***************************************************************************)
EXTENDS DevProjects, TLAPS

\* What may be delegated to g: within the allowance, or granted to the service.
Held(g, c) ==
    /\ host[g] # Service => c \in AllowanceFor(host[g], allowance)
    /\ host[g] = Service => svc[c] \in {"open", "timed", "lapsed"}

AgentOK(g) ==
    /\ status[g] = "none" => delegated[g] = {}
    /\ Live(g) => /\ role[person[g]] # "none"
                  /\ ~LeaverErased => ~archived /\ (host[g] = Service \/ app[host[g]] = "live")
                  /\ \A c \in delegated[g] : Held(g, c)

\* What a request may rely on between its read and its write.
Fits(j) ==
    /\ j.op = "createAgent" =>
          /\ ~archived /\ j.who \in People /\ role[j.who] # "none" /\ j.app \in Hosts
          /\ j.app = Service \/ app[j.app] = "live"
    /\ j.op = "putGrant" =>
          /\ j.who \in Agents /\ j.cap \in Caps /\ status[j.who] # "none"
          /\ j.app = host[j.who]
          /\ Live(j.who) => Held(j.who, j.cap)
    /\ j.op = "expire" => j.cap \in Caps
    /\ j.op = "erase" => /\ role[owner] = "none"
                         /\ \A p \in People : role[p] \notin {"admin", "owner"}

Inv ==
    /\ TypeOK
    /\ \A g \in Agents : AgentOK(g)
    /\ \A r \in Requests : Fits(job[r])

----------------------------------------------------------------------------
(* Types *)

LEMMA RoleOrder == ASSUME NEW p \in People, TypeOK
                   PROVE  /\ AtLeast(p, "viewer") <=> role[p] # "none"
                          /\ AtLeast(p, "developer") => role[p] # "none"
                          /\ AtLeast(p, "admin") <=> role[p] \in {"admin", "owner"}
<1>1. role[p] \in {"none", "viewer", "developer", "admin", "owner"}
  BY DEF TypeOK, Roles, Rank
<1> QED
  BY <1>1 DEF AtLeast, Rank

LEMMA InitInv == Init => Inv
<1> SUFFICES ASSUME Init PROVE Inv
  OBVIOUS
<1> USE DevProjectsAssumption DEF Init
<1>1. TypeOK
  <2>1. role \in [People -> Roles]
    BY DEF Roles, Rank
  <2>2. job \in [Requests -> Jobs]
    BY DEF Jobs, Idle
  <2>3. \A r \in Requests : lock = r <=> job[r].op \in {"createAgent", "putGrant"}
    BY DEF Idle
  <2> QED
    BY <2>1, <2>2, <2>3 DEF TypeOK
<1>2. ASSUME NEW g \in Agents PROVE AgentOK(g)
  BY DEF AgentOK, Live
<1>3. ASSUME NEW r \in Requests PROVE Fits(job[r])
  BY DEF Fits, Idle
<1> QED
  BY <1>1, <1>2, <1>3 DEF Inv

\* What a step has to leave of the requests: its own one fits, and the others did.
LEMMA StepInv ==
  ASSUME Inv, TypeOK', NEW r \in Requests, NEW j \in Jobs,
         job' = [job EXCEPT ![r] = j], Fits(j)',
         \A s \in Requests \ {r} : Fits(job[s])',
         \A g \in Agents : AgentOK(g)'
  PROVE  Inv'
<1>1. ASSUME NEW s \in Requests PROVE Fits(job[s])'
  <2>1. CASE s = r
    BY <2>1 DEF Inv, TypeOK
  <2>2. CASE s # r
    <3>1. job'[s] = job[s]
      BY <2>2 DEF Inv, TypeOK
    <3> QED
      BY <2>2, <3>1
  <2> QED
    BY <2>1, <2>2
<1> QED
  BY <1>1 DEF Inv

\* Nobody is about to write under the lock while it is free.
LEMMA LockFreeFits ==
  ASSUME TypeOK, LockFree
  PROVE  \A r \in Requests : job[r].op \notin {"createAgent", "putGrant"}
BY DevProjectsAssumption DEF TypeOK, LockFree

LEMMA LiveHost == ASSUME TypeOK, NEW g \in Agents, Live(g)
                  PROVE  host[g] \in Hosts /\ person[g] \in People
BY DEF TypeOK, Live

LEMMA Revoked ==
  ASSUME TypeOK, NEW G, RevokeAgents(G), UNCHANGED <<person, host>>
  PROVE  /\ status' \in [Agents -> {"none", "active", "paused", "revoked"}]
         /\ \A g \in Agents : status'[g] = "none" <=> status[g] = "none"
         /\ \A g \in Agents : Live(g)' => Live(g) /\ g \notin G
         /\ \A g \in Agents : status'[g] # "none" => person'[g] # NoOne /\ host'[g] # NoOne
BY DEF RevokeAgents, TypeOK, Live

----------------------------------------------------------------------------
(* Members *)

LEMMA AddMemberInv == ASSUME Inv, NEW by \in People, NEW p \in People,
                             NEW to \in Roles \ {"none", "owner"}, AddMember(by, p, to)
                      PROVE  Inv'
<1> USE DEF AddMember
<1>1. TypeOK'
  BY DEF Inv, TypeOK, agents
<1>2. ASSUME NEW g \in Agents PROVE AgentOK(g)'
  <2>1. AgentOK(g) /\ (Live(g) => person[g] \in People)
    BY LiveHost DEF Inv
  <2>2. LeaverErased' = LeaverErased
    BY DEF LeaverErased, Inv, TypeOK
  <2> QED
    BY <2>1, <2>2 DEF AgentOK, Live, Held, AllowanceFor, agents, Inv, TypeOK
<1>3. ASSUME NEW r \in Requests PROVE Fits(job[r])'
  <2>1. job[r].op # "erase"
    BY RoleOrder DEF Inv, Fits
  <2> QED
    BY <2>1 DEF Inv, Fits, TypeOK, Live, Held, AllowanceFor, agents
<1> QED
  BY <1>1, <1>2, <1>3 DEF Inv

LEMMA UpdateMemberInv == ASSUME Inv, NEW by \in People, NEW p \in People,
                                NEW to \in Roles \ {"none", "owner"}, UpdateMember(by, p, to)
                         PROVE  Inv'
<1> USE DEF UpdateMember
<1>1. TypeOK'
  BY DEF Inv, TypeOK, agents
<1>2. ASSUME NEW g \in Agents PROVE AgentOK(g)'
  <2>1. AgentOK(g) /\ (Live(g) => person[g] \in People)
    BY LiveHost DEF Inv
  <2>2. LeaverErased' = LeaverErased
    BY DEF LeaverErased, Inv, TypeOK
  <2> QED
    BY <2>1, <2>2 DEF AgentOK, Live, Held, AllowanceFor, agents, Inv, TypeOK
<1>3. ASSUME NEW r \in Requests PROVE Fits(job[r])'
  <2>1. job[r].op # "erase"
    BY RoleOrder DEF Inv, Fits
  <2> QED
    BY <2>1 DEF Inv, Fits, TypeOK, Live, Held, AllowanceFor, agents
<1> QED
  BY <1>1, <1>2, <1>3 DEF Inv

LEMMA RemoveMemberInv == ASSUME Inv, NEW by \in People, NEW p \in People, RemoveMember(by, p)
                         PROVE  Inv'
<1> USE DEF RemoveMember
<1>0. PICK G : RevokeAgents(G) /\ G = {g \in Agents : person[g] = p}
  OBVIOUS
<1>1. TypeOK'
  <2>1. role' \in [People -> Roles]
    BY DEF Inv, TypeOK, Roles, Rank
  <2> QED
    BY <1>0, <2>1, Revoked DEF Inv, TypeOK
<1>2. ASSUME NEW g \in Agents PROVE AgentOK(g)'
  <2>1. AgentOK(g) /\ (Live(g) => person[g] \in People)
    BY LiveHost DEF Inv
  <2>2. Live(g)' => Live(g) /\ person[g] # p
    BY <1>0, Revoked DEF Inv
  <2>3. status'[g] = "none" => status[g] = "none"
    BY <1>0, Revoked DEF Inv
  <2>4. LeaverErased => LeaverErased'
    BY DEF LeaverErased, Inv, TypeOK
  <2> QED
    BY <2>1, <2>2, <2>3, <2>4 DEF AgentOK, Held, AllowanceFor, Inv, TypeOK
<1>3. ASSUME NEW r \in Requests PROVE Fits(job[r])'
  <2>1. job[r].op \notin {"createAgent", "putGrant"}
    BY LockFreeFits DEF Inv
  <2> QED
    BY <2>1 DEF Inv, Fits, TypeOK
<1> QED
  BY <1>1, <1>2, <1>3 DEF Inv

----------------------------------------------------------------------------
(* Apps, the archive and the erasure *)

LEMMA IdleFits == Fits(Idle) /\ Fits(Idle)' /\ Idle \in Jobs
BY DEF Fits, Idle, Jobs

\* A job that begins or ends without the lock leaves the lock with whom it was.
LEMMA JobTypes ==
  ASSUME TypeOK, NEW r \in Requests, NEW j \in Jobs, job' = [job EXCEPT ![r] = j],
         job[r].op \notin {"createAgent", "putGrant"}, j.op \notin {"createAgent", "putGrant"},
         lock' = lock
  PROVE  /\ job' \in [Requests -> Jobs]
         /\ \A s \in Requests : lock' = s <=> job'[s].op \in {"createAgent", "putGrant"}
BY DEF TypeOK

LEMMA CreateAppCheckInv == ASSUME Inv, NEW r \in Requests, CreateAppCheck(r) PROVE Inv'
<1> USE DEF CreateAppCheck, Begin, agents, project
<1>0. [Idle EXCEPT !.op = "createApp"] \in Jobs /\ Idle.op = "idle"
  BY DEF Jobs, Idle
<1>1. PICK j \in Jobs : job' = [job EXCEPT ![r] = j] /\ j.op = "createApp"
  BY <1>0 DEF Idle
<1>2. TypeOK'
  BY <1>0, <1>1, JobTypes DEF Inv, TypeOK
<1>3. \A g \in Agents : AgentOK(g)'
  BY DEF Inv, AgentOK, LeaverErased, Live, Held, AllowanceFor
<1>4. Fits(j)'
  BY <1>1 DEF Fits
<1>5. \A s \in Requests \ {r} : Fits(job[s])'
  BY DEF Inv, Fits, Live, Held, AllowanceFor, TypeOK
<1> QED
  BY <1>1, <1>2, <1>3, <1>4, <1>5, StepInv

LEMMA CreateAppInsertInv == ASSUME Inv, NEW r \in Requests, NEW a \in Apps, CreateAppInsert(r, a)
                            PROVE  Inv'
<1> USE DEF CreateAppInsert, Done, agents, project
<1>1. TypeOK'
  BY IdleFits DEF Inv, TypeOK, Idle
<1>2. \A b \in Apps : app[b] = "live" => app'[b] = "live"
  BY DEF Inv, TypeOK
<1>3. ASSUME NEW g \in Agents PROVE AgentOK(g)'
  <2>1. AgentOK(g) /\ (Live(g) => host[g] \in Hosts)
    BY LiveHost DEF Inv
  <2> QED
    BY <1>2, <2>1 DEF AgentOK, LeaverErased, Live, Held, AllowanceFor, Hosts
<1>4. \A s \in Requests \ {r} : Fits(job[s])'
  BY <1>2 DEF Inv, Fits, Live, Held, AllowanceFor, TypeOK, Hosts
<1> QED
  BY <1>1, <1>3, <1>4, IdleFits, StepInv

LEMMA RevokeAppInv == ASSUME Inv, NEW a \in Apps, RevokeApp(a) PROVE Inv'
<1> USE DEF RevokeApp, project
<1>0. PICK G : RevokeAgents(G) /\ G = HostedBy(a)
  OBVIOUS
<1>1. TypeOK'
  BY <1>0, Revoked DEF Inv, TypeOK
<1>2. ASSUME NEW g \in Agents PROVE AgentOK(g)'
  <2>1. AgentOK(g) /\ (Live(g) => host[g] \in Hosts)
    BY LiveHost DEF Inv
  <2>2. Live(g)' => Live(g) /\ host[g] # a
    BY <1>0, Revoked DEF Inv, HostedBy
  <2>3. status'[g] = "none" => status[g] = "none"
    BY <1>0, Revoked DEF Inv
  <2>4. \A b \in Apps : b # a => app'[b] = app[b]
    BY DEF Inv, TypeOK
  <2> QED
    BY <2>1, <2>2, <2>3, <2>4 DEF AgentOK, LeaverErased, Held, AllowanceFor, Hosts
<1>3. ASSUME NEW r \in Requests PROVE Fits(job[r])'
  <2>1. job[r].op \notin {"createAgent", "putGrant"}
    BY LockFreeFits DEF Inv
  <2> QED
    BY <2>1 DEF Inv, Fits
<1> QED
  BY <1>1, <1>2, <1>3 DEF Inv

LEMMA ArchiveProjectInv == ASSUME Inv, ArchiveProject PROVE Inv'
<1> USE DEF ArchiveProject
<1>0. PICK G : RevokeAgents(G) /\ G = Agents
  OBVIOUS
<1>1. TypeOK'
  BY <1>0, Revoked DEF Inv, TypeOK
<1>2. ASSUME NEW g \in Agents PROVE AgentOK(g)'
  <2>1. AgentOK(g) /\ ~Live(g)'
    BY <1>0, Revoked DEF Inv
  <2>2. status'[g] = "none" => status[g] = "none"
    BY <1>0, Revoked DEF Inv
  <2> QED
    BY <2>1, <2>2 DEF AgentOK
<1>3. ASSUME NEW r \in Requests PROVE Fits(job[r])'
  <2>1. job[r].op \notin {"createAgent", "putGrant"}
    BY LockFreeFits DEF Inv
  <2> QED
    BY <2>1 DEF Inv, Fits
<1> QED
  BY <1>1, <1>2, <1>3 DEF Inv

\* A person with a role is no leaver: nobody erases one while an heir is there.
LEMMA HeirIsThere == ASSUME Inv, NEW q \in People, AtLeast(q, "admin"), NEW r \in Requests
                     PROVE  job[r].op # "erase"
BY RoleOrder DEF Inv, Fits

LEMMA EraseAccountInv == ASSUME Inv, NEW p \in People, EraseAccount(p) PROVE Inv'
<1> USE DEF EraseAccount
<1>1. CASE owner = p /\ ~archived /\ Heirs(p) = {}
  <2>0. PICK G : RevokeAgents(G) /\ G = Agents
    BY <1>1
  <2>1. TypeOK'
    <3>1. role' \in [People -> Roles]
      BY DEF Inv, TypeOK, Roles, Rank
    <3> QED
      BY <1>1, <2>0, <3>1, Revoked DEF Inv, TypeOK
  <2>2. ASSUME NEW g \in Agents PROVE AgentOK(g)'
    <3>1. AgentOK(g) /\ ~Live(g)'
      BY <2>0, Revoked DEF Inv
    <3>2. status'[g] = "none" => status[g] = "none"
      BY <2>0, Revoked DEF Inv
    <3> QED
      BY <3>1, <3>2 DEF AgentOK
  <2>3. ASSUME NEW r \in Requests PROVE Fits(job[r])'
    <3>1. job[r].op \notin {"createAgent", "putGrant"}
      BY LockFreeFits DEF Inv
    <3> QED
      BY <1>1, <3>1 DEF Inv, Fits, TypeOK
  <2> QED
    BY <2>1, <2>2, <2>3 DEF Inv
<1>2. CASE ~(owner = p /\ ~archived /\ Heirs(p) = {})
  <2>0. PICK G : RevokeAgents(G) /\ G = {g \in Agents : person[g] = p}
    BY <1>2
  <2>1. TypeOK'
    <3>1. role' \in [People -> Roles]
      BY DEF Inv, TypeOK, Roles, Rank
    <3>2. owner' \in People
      BY <1>2 DEF Inv, TypeOK, Heirs
    <3> QED
      BY <1>2, <2>0, <3>1, <3>2, Revoked DEF Inv, TypeOK
  <2>2. ASSUME NEW g \in Agents PROVE AgentOK(g)'
    <3>1. AgentOK(g) /\ (Live(g) => person[g] \in People)
      BY LiveHost DEF Inv
    <3>2. Live(g)' => Live(g) /\ person[g] # p
      BY <2>0, Revoked DEF Inv
    <3>3. status'[g] = "none" => status[g] = "none"
      BY <2>0, Revoked DEF Inv
    <3>4. LeaverErased => LeaverErased'
      BY <1>2 DEF LeaverErased, Inv, TypeOK
    <3> QED
      BY <1>2, <3>1, <3>2, <3>3, <3>4 DEF AgentOK, Held, AllowanceFor, Inv, TypeOK
  <2>3. ASSUME NEW r \in Requests PROVE Fits(job[r])'
    <3>1. job[r].op \notin {"createAgent", "putGrant"}
      BY LockFreeFits DEF Inv
    <3>2. job[r].op = "erase" => owner # p
      BY DEF Inv, Fits
    <3> QED
      BY <1>2, <3>1, <3>2 DEF Inv, Fits, TypeOK
  <2> QED
    BY <2>1, <2>2, <2>3 DEF Inv
<1> QED
  BY <1>1, <1>2

LEMMA EraseLeaverInv == ASSUME Inv, NEW r \in Requests, NEW p \in People, EraseLeaver(r, p)
                        PROVE  Inv'
<1> USE DEF EraseLeaver, Begin, agents
<1>1. CASE Heirs(p) = {}
  <2>1. PICK j \in Jobs : job' = [job EXCEPT ![r] = j] /\ j.op = "erase" /\ job[r] = Idle
    <3>1. {a \in Apps : app[a] = "live"} \cup {g \in Agents : Live(g)} \in SUBSET (Apps \cup Agents)
      OBVIOUS
    <3> QED
      BY <1>1, <3>1 DEF Jobs, Idle
  <2>2. TypeOK'
    BY <1>1, <2>1 DEF Inv, TypeOK, Idle
  <2>3. \A g \in Agents : AgentOK(g)'
    BY <1>1 DEF Inv, AgentOK, LeaverErased, Live, Held, AllowanceFor
  <2>4. Fits(j)'
    <3>1. \A q \in People : q # p => ~AtLeast(q, "admin")
      BY <1>1 DEF Heirs
    <3>2. \A q \in People : role[q] \notin {"admin", "owner"}
      BY <3>1, RoleOrder DEF Inv
    <3> QED
      BY <1>1, <2>1, <3>2 DEF Fits
  <2>5. \A s \in Requests \ {r} : Fits(job[s])'
    BY <1>1 DEF Inv, Fits, Live, Held, AllowanceFor, TypeOK
  <2> QED
    BY <2>1, <2>2, <2>3, <2>4, <2>5, StepInv
<1>2. CASE Heirs(p) # {}
  <2>1. TypeOK' /\ ~LeaverErased
    BY <1>2 DEF Inv, TypeOK, Heirs, LeaverErased
  <2>2. \A g \in Agents : AgentOK(g)'
    BY <1>2, <2>1 DEF Inv, AgentOK, Live, Held, AllowanceFor
  <2>3. ASSUME NEW s \in Requests PROVE Fits(job[s])'
    <3>1. job[s].op # "erase"
      BY <1>2, HeirIsThere DEF Heirs
    <3>2. job[s].op \notin {"createAgent", "putGrant"}
      BY <1>2, LockFreeFits DEF Inv
    <3> QED
      BY <1>2, <3>1, <3>2 DEF Inv, Fits
  <2> QED
    BY <2>1, <2>2, <2>3 DEF Inv
<1> QED
  BY <1>1, <1>2

LEMMA EraseLeaverCommitInv == ASSUME Inv, NEW r \in Requests, EraseLeaverCommit(r) PROVE Inv'
<1> USE DEF EraseLeaverCommit, Done
<1>0. PICK G : RevokeAgents(G) /\ G = job[r].seen
  OBVIOUS
<1>1. role[owner] = "none"
  BY DEF Inv, Fits
<1>2. TypeOK'
  BY <1>0, IdleFits, Revoked DEF Inv, TypeOK, Idle
<1>3. ASSUME NEW g \in Agents PROVE AgentOK(g)'
  <2>1. AgentOK(g) /\ (Live(g)' => Live(g)) /\ (status'[g] = "none" => status[g] = "none")
    BY <1>0, Revoked DEF Inv
  <2>2. LeaverErased'
    BY <1>1 DEF LeaverErased
  <2> QED
    BY <2>1, <2>2 DEF AgentOK, Held, AllowanceFor
<1>4. \A s \in Requests \ {r} : Fits(job[s])'
  <2>1. \A s \in Requests : job[s].op \notin {"createAgent", "putGrant"}
    BY LockFreeFits DEF Inv
  <2> QED
    BY <2>1 DEF Inv, Fits, TypeOK
<1> QED
  BY <1>2, <1>3, <1>4, IdleFits, StepInv

----------------------------------------------------------------------------
(* App grants and the allowance *)

\* What no agent stands on and no request relies on may change.
LEMMA QuietInv ==
  ASSUME Inv, TypeOK', NEW r \in Requests, NEW j \in Jobs, job' = [job EXCEPT ![r] = j], Fits(j),
         UNCHANGED <<archived, allowance, owner, role, app, status, person, host, delegated, svc>>
  PROVE  Inv'
<1>1. \A g \in Agents : AgentOK(g)'
  BY DEF Inv, AgentOK, LeaverErased, Live, Held, AllowanceFor
<1>2. \A s \in Requests \ {r} : Fits(job[s])'
  BY DEF Inv, Fits, Live, Held, AllowanceFor, TypeOK
<1>3. Fits(j)'
  BY DEF Fits, Live, Held, AllowanceFor
<1> QED
  BY <1>1, <1>2, <1>3, StepInv

LEMMA BeyondHost ==
  ASSUME TypeOK, NEW G, NEW list, NEW gr, NEW sv, RevokeBeyondHost(G, list, gr, sv)
  PROVE  /\ delegated' \in [Agents -> SUBSET Caps]
         /\ \A g \in Agents : delegated'[g] \subseteq delegated[g]
         /\ \A g \in Agents : g \in G /\ Live(g) =>
               delegated'[g] \subseteq CeilingOver(g, list, gr, sv)
BY DEF RevokeBeyondHost, TypeOK

LEMMA SetAllowanceInv == ASSUME Inv, NEW list \in SUBSET Caps, SetAllowance(list) PROVE Inv'
<1> USE DEF SetAllowance
<1>0. PICK G, gr : /\ RevokeBeyondHost(G, list, gr, svc) /\ G = {g \in Agents : host[g] \in Apps}
                   /\ gr = Trimmed(list)
  OBVIOUS
<1>1. TypeOK'
  <2>1. grant' \in [Apps -> [Caps -> {"none", "requested", "approved", "ended"}]]
    BY DEF Inv, TypeOK, Trimmed
  <2> QED
    BY <1>0, <2>1, BeyondHost DEF Inv, TypeOK, agents
<1>2. ASSUME NEW g \in Agents PROVE AgentOK(g)'
  <2>1. AgentOK(g) /\ (Live(g) => host[g] \in Hosts)
    BY LiveHost DEF Inv
  <2>2. delegated'[g] \subseteq delegated[g]
    BY <1>0, BeyondHost DEF Inv
  <2>3. ASSUME Live(g), host[g] # Service, NEW c \in delegated'[g]
        PROVE  c \in AllowanceFor(host[g], list)
    <3>1. c \in CeilingOver(g, list, gr, svc)
      BY <1>0, <2>1, <2>3, BeyondHost DEF Inv, Hosts
    <3> QED
      BY <2>3, <3>1 DEF CeilingOver
  <2>4. ASSUME Live(g), NEW c \in delegated'[g] PROVE Held(g, c)'
    BY <2>1, <2>2, <2>3, <2>4 DEF AgentOK, Held, AllowanceFor, agents
  <2> QED
    BY <2>1, <2>2, <2>4 DEF AgentOK, LeaverErased, Live, agents
<1>3. ASSUME NEW r \in Requests PROVE Fits(job[r])'
  <2>1. job[r].op \notin {"createAgent", "putGrant"}
    BY LockFreeFits DEF Inv
  <2> QED
    BY <2>1 DEF Inv, Fits
<1> QED
  BY <1>1, <1>2, <1>3 DEF Inv

LEMMA RequestGrantCheckInv ==
  ASSUME Inv, NEW r \in Requests, NEW p \in People, NEW a \in Apps, NEW c \in Caps,
         RequestGrantCheck(r, p, a, c)
  PROVE  Inv'
<1> USE DEF RequestGrantCheck, Begin, agents, project
<1>2. PICK j \in Jobs : job' = [job EXCEPT ![r] = j] /\ j.op = "request"
  <2>1. PICK now \in BOOLEAN : now = (AtLeast(p, "admin") /\ c \in AllowanceFor(a, allowance))
    OBVIOUS
  <2>2. [Idle EXCEPT !.op = "request", !.app = a, !.cap = c, !.now = now] \in Jobs
    BY DEF Jobs, Idle
  <2> QED
    BY <2>1, <2>2 DEF Idle
<1>3. TypeOK'
  <2>1. job[r].op = "idle"
    BY DEF Idle
  <2> QED
    BY <1>2, <2>1, JobTypes DEF Inv, TypeOK
<1> QED
  BY <1>2, <1>3, QuietInv DEF Fits

LEMMA RequestGrantUpsertInv == ASSUME Inv, NEW r \in Requests, RequestGrantUpsert(r) PROVE Inv'
<1> USE DEF RequestGrantUpsert, Done, agents, project
<1>1. job' = [job EXCEPT ![r] = Idle] /\ job[r].op = "request" /\ Idle.op = "idle"
  BY DEF Idle
<1>2. grant' \in [Apps -> [Caps -> {"none", "requested", "approved", "ended"}]]
  BY DEF Inv, TypeOK
<1>3. TypeOK'
  BY <1>1, <1>2, IdleFits, JobTypes DEF Inv, TypeOK
<1> QED
  BY <1>1, <1>3, IdleFits, QuietInv

LEMMA DecideGrantCheckInv ==
  ASSUME Inv, NEW r \in Requests, NEW a \in Apps, NEW c \in Caps, NEW d \in Decisions,
         DecideGrantCheck(r, a, c, d)
  PROVE  Inv'
<1> USE DEF DecideGrantCheck, Begin, agents, project, Decisions
<1>1. [Idle EXCEPT !.op = d, !.app = a, !.cap = c] \in Jobs /\ Idle.op = "idle"
  BY DEF Jobs, Idle
<1>2. PICK j \in Jobs : job' = [job EXCEPT ![r] = j] /\ j.op \in Decisions
  BY <1>1 DEF Idle
<1>3. TypeOK'
  BY <1>1, <1>2, JobTypes DEF Inv, TypeOK
<1> QED
  BY <1>2, <1>3, QuietInv DEF Fits

LEMMA DecideGrantWriteInv == ASSUME Inv, NEW r \in Requests, DecideGrantWrite(r) PROVE Inv'
<1> USE DEF DecideGrantWrite, Done, agents, project
<1>1. job' = [job EXCEPT ![r] = Idle] /\ job[r].op \in {"approved", "denied"} /\ Idle.op = "idle"
  BY DEF Idle
<1>2. grant' \in [Apps -> [Caps -> {"none", "requested", "approved", "ended"}]]
  BY DEF Inv, TypeOK
<1>3. TypeOK'
  BY <1>1, <1>2, IdleFits, JobTypes DEF Inv, TypeOK
<1> QED
  BY <1>1, <1>3, IdleFits, QuietInv

LEMMA DecideGrantRevokeInv == ASSUME Inv, NEW r \in Requests, DecideGrantRevoke(r) PROVE Inv'
<1> USE DEF DecideGrantRevoke, Done, agents, project
<1>0. PICK G, left : RevokeBeyondHost(G, allowance, left, svc)
  OBVIOUS
<1>1. job' = [job EXCEPT ![r] = Idle] /\ job[r].op = "revoked" /\ Idle.op = "idle"
  BY DEF Idle
<1>2. grant' \in [Apps -> [Caps -> {"none", "requested", "approved", "ended"}]]
  BY DEF Inv, TypeOK
<1>3. TypeOK'
  BY <1>0, <1>1, <1>2, IdleFits, JobTypes, BeyondHost DEF Inv, TypeOK
<1>4. ASSUME NEW g \in Agents PROVE AgentOK(g)'
  <2>1. AgentOK(g) /\ delegated'[g] \subseteq delegated[g]
    BY <1>0, BeyondHost DEF Inv
  <2> QED
    BY <2>1 DEF AgentOK, LeaverErased, Live, Held, AllowanceFor
<1>5. \A s \in Requests \ {r} : Fits(job[s])'
  BY DEF Inv, Fits, Live, Held, AllowanceFor, TypeOK
<1> QED
  BY <1>1, <1>3, <1>4, <1>5, IdleFits, StepInv

----------------------------------------------------------------------------
(* Agents and what is delegated to them *)

\* A job that begins with the free lock takes it; one that ends with it frees it.
LEMMA LockTaken ==
  ASSUME TypeOK, LockFree, NEW r \in Requests, NEW j \in Jobs, job' = [job EXCEPT ![r] = j],
         j.op \in {"createAgent", "putGrant"}, lock' = r
  PROVE  /\ lock' \in Requests \cup {NoOne} /\ job' \in [Requests -> Jobs]
         /\ \A s \in Requests : lock' = s <=> job'[s].op \in {"createAgent", "putGrant"}
BY LockFreeFits DEF TypeOK

LEMMA LockFreed ==
  ASSUME TypeOK, NEW r \in Requests, job' = [job EXCEPT ![r] = Idle],
         job[r].op \in {"createAgent", "putGrant"}, lock' = IF lock = r THEN NoOne ELSE lock
  PROVE  /\ lock' \in Requests \cup {NoOne} /\ job' \in [Requests -> Jobs]
         /\ \A s \in Requests : lock' = s <=> job'[s].op \in {"createAgent", "putGrant"}
<1>1. Idle \in Jobs /\ Idle.op = "idle"
  BY IdleFits DEF Idle
<1>2. lock = r /\ lock' = NoOne
  BY DEF TypeOK
<1>3. \A s \in Requests \ {r} : job[s].op \notin {"createAgent", "putGrant"}
  BY <1>2 DEF TypeOK
<1> QED
  BY <1>1, <1>2, <1>3, DevProjectsAssumption DEF TypeOK

LEMMA CreateAgentLockInv ==
  ASSUME Inv, NEW r \in Requests, NEW p \in People, NEW h \in Hosts, CreateAgentLock(r, p, h)
  PROVE  Inv'
<1> USE DEF CreateAgentLock, Begin, agents, project
<1>1. [Idle EXCEPT !.op = "createAgent", !.who = p, !.app = h] \in Jobs
  BY DEF Jobs, Idle, Hosts
<1>2. PICK j \in Jobs : job' = [job EXCEPT ![r] = j] /\ j.op = "createAgent" /\ j.who = p /\ j.app = h
  BY <1>1 DEF Idle
<1>3. TypeOK'
  BY <1>2, LockTaken DEF Inv, TypeOK
<1>4. Fits(j)
  <2>1. role[p] # "none"
    BY RoleOrder DEF Inv
  <2> QED
    BY <1>2, <2>1 DEF Fits, HostFor, Hosts
<1> QED
  BY <1>2, <1>3, <1>4, QuietInv

LEMMA CreateAgentInsertInv ==
  ASSUME Inv, NEW r \in Requests, NEW g \in Agents, CreateAgentInsert(r, g)
  PROVE  Inv'
<1> USE DEF CreateAgentInsert, Done, project
<1>1. PICK j \in Jobs : j = job[r]
  BY DEF Inv, TypeOK
<1>2. /\ ~archived /\ j.who \in People /\ role[j.who] # "none" /\ j.app \in Hosts
      /\ j.app = Service \/ app[j.app] = "live"
  BY <1>1 DEF Inv, Fits
<1>3. TypeOK'
  <2>1. /\ lock' \in Requests \cup {NoOne} /\ job' \in [Requests -> Jobs]
        /\ \A s \in Requests : lock' = s <=> job'[s].op \in {"createAgent", "putGrant"}
    BY LockFreed DEF Inv
  <2>2. j.who # NoOne /\ j.app # NoOne
    BY <1>2, DevProjectsAssumption DEF Hosts
  <2> QED
    BY <1>1, <1>2, <2>1, <2>2 DEF Inv, TypeOK
<1>4. ASSUME NEW k \in Agents PROVE AgentOK(k)'
  <2>1. AgentOK(k) /\ AgentOK(g)
    BY DEF Inv
  <2>2. CASE k # g
    <3>1. status'[k] = status[k] /\ person'[k] = person[k] /\ host'[k] = host[k]
      BY <2>2 DEF Inv, TypeOK
    <3> QED
      BY <2>1, <3>1 DEF AgentOK, LeaverErased, Live, Held, AllowanceFor
  <2>3. CASE k = g
    <3>1. status'[g] = "active" /\ person'[g] = j.who /\ host'[g] = j.app /\ delegated'[g] = {}
      BY <1>1, <2>1 DEF Inv, TypeOK, AgentOK
    <3> QED
      BY <1>2, <2>3, <3>1 DEF AgentOK, Live
  <2> QED
    BY <2>2, <2>3
<1>5. ASSUME NEW s \in Requests \ {r} PROVE Fits(job[s])'
  <2>1. job'[s] = job[s] /\ job[s].op \notin {"createAgent", "putGrant"} /\ Fits(job[s])
    BY DEF Inv, TypeOK
  <2> QED
    BY <2>1 DEF Fits
<1> QED
  BY <1>3, <1>4, <1>5, IdleFits, StepInv

LEMMA ChangeStatusInv ==
  ASSUME Inv, NEW g \in Agents, NEW to \in {"active", "paused", "revoked"}, ChangeStatus(g, to)
  PROVE  Inv'
<1> USE DEF ChangeStatus, project
<1>1. TypeOK'
  BY DEF Inv, TypeOK
<1>2. Live(g) /\ \A k \in Agents : /\ Live(k)' => Live(k)
                                   /\ status'[k] = "none" => status[k] = "none"
                                   /\ status[k] # "none" => status'[k] # "none"
  BY DEF Inv, TypeOK, Live
<1>3. ASSUME NEW k \in Agents PROVE AgentOK(k)'
  <2>1. AgentOK(k)
    BY DEF Inv
  <2> QED
    BY <1>2, <2>1 DEF AgentOK, LeaverErased, Held, AllowanceFor
<1>4. ASSUME NEW r \in Requests PROVE Fits(job[r])'
  <2>1. Fits(job[r])
    BY DEF Inv
  <2> QED
    BY <1>2, <2>1 DEF Fits, Held, AllowanceFor
<1> QED
  BY <1>1, <1>3, <1>4 DEF Inv

LEMMA CeilingHeld ==
  ASSUME Inv, NEW g \in Agents, NEW c \in Ceiling(g)
  PROVE  c \in Caps => Held(g, c)
BY DEF Ceiling, CeilingOver, Held

LEMMA PutGrantLockInv ==
  ASSUME Inv, NEW r \in Requests, NEW g \in Agents, NEW c \in Caps, PutGrantLock(r, g, c)
  PROVE  Inv'
<1> USE DEF PutGrantLock, Begin, agents, project
<1>0. host[g] \in Hosts /\ status[g] # "none"
  BY LiveHost DEF Inv, Live
<1>1. [Idle EXCEPT !.op = "putGrant", !.who = g, !.cap = c, !.app = host[g]] \in Jobs
  BY <1>0 DEF Jobs, Idle, Hosts
<1>2. PICK j \in Jobs : /\ job' = [job EXCEPT ![r] = j] /\ j.op = "putGrant"
                        /\ j.who = g /\ j.cap = c /\ j.app = host[g]
  BY <1>1 DEF Idle
<1>3. TypeOK'
  <2>1. /\ lock' \in Requests \cup {NoOne} /\ job' \in [Requests -> Jobs]
        /\ \A s \in Requests : lock' = s <=> job'[s].op \in {"createAgent", "putGrant"}
    BY <1>2, LockTaken DEF Inv
  <2> QED
    BY <2>1 DEF Inv, TypeOK
<1>4. Fits(j)
  BY <1>0, <1>2, CeilingHeld DEF Fits
<1> QED
  BY <1>2, <1>3, <1>4, QuietInv

LEMMA PutGrantWriteInv == ASSUME Inv, NEW r \in Requests, PutGrantWrite(r) PROVE Inv'
<1> USE DEF PutGrantWrite, Done, agents, project
<1>1. PICK j \in Jobs : j = job[r]
  BY DEF Inv, TypeOK
<1>2. /\ j.who \in Agents /\ j.cap \in Caps /\ status[j.who] # "none"
      /\ Live(j.who) => Held(j.who, j.cap)
  BY <1>1 DEF Inv, Fits
<1>3. TypeOK'
  <2>1. /\ lock' \in Requests \cup {NoOne} /\ job' \in [Requests -> Jobs]
        /\ \A s \in Requests : lock' = s <=> job'[s].op \in {"createAgent", "putGrant"}
    BY LockFreed DEF Inv
  <2>2. delegated' \in [Agents -> SUBSET Caps]
    BY <1>1, <1>2 DEF Inv, TypeOK
  <2> QED
    BY <2>1, <2>2 DEF Inv, TypeOK
<1>4. ASSUME NEW k \in Agents PROVE AgentOK(k)'
  <2>1. AgentOK(k)
    BY DEF Inv
  <2>2. /\ k # j.who => delegated'[k] = delegated[k]
        /\ k = j.who => delegated'[k] = delegated[k] \cup {j.cap}
    BY <1>1 DEF Inv, TypeOK
  <2> QED
    BY <1>2, <2>1, <2>2 DEF AgentOK, LeaverErased, Live, Held, AllowanceFor
<1>5. \A s \in Requests \ {r} : Fits(job[s])'
  BY DEF Inv, Fits, Live, Held, AllowanceFor, TypeOK
<1> QED
  BY <1>3, <1>4, <1>5, IdleFits, StepInv

LEMMA DeleteGrantInv == ASSUME Inv, NEW g \in Agents, NEW c \in Caps, DeleteGrant(g, c)
                        PROVE  Inv'
<1> USE DEF DeleteGrant, agents, project
<1>1. TypeOK'
  BY DEF Inv, TypeOK
<1>2. ASSUME NEW k \in Agents PROVE AgentOK(k)'
  <2>1. AgentOK(k) /\ delegated'[k] \subseteq delegated[k]
    BY DEF Inv, TypeOK
  <2> QED
    BY <2>1 DEF AgentOK, LeaverErased, Live, Held, AllowanceFor
<1>3. \A r \in Requests : Fits(job[r])'
  BY DEF Inv, Fits, Live, Held, AllowanceFor
<1> QED
  BY <1>1, <1>2, <1>3 DEF Inv

----------------------------------------------------------------------------
(* The service's grants *)

\* A capability of the service that stays held, or that nobody is about to use.
LEMMA ServiceInv ==
  ASSUME Inv, TypeOK', NEW d \in Caps, \A c \in Caps \ {d} : svc'[c] = svc[c],
         UNCHANGED <<archived, allowance, owner, role, app, status, person, host>>,
         \/ svc'[d] \in {"open", "timed", "lapsed"}
         \/ ServiceGrantFree(d) /\ \A g \in Agents : Live(g) /\ host[g] = Service => d \notin delegated'[g],
         \A g \in Agents : delegated'[g] \subseteq delegated[g],
         \/ UNCHANGED job
         \/ \E r \in Requests : job' = [job EXCEPT ![r] = Idle]
  PROVE  Inv'
<1>1. ASSUME NEW g \in Agents PROVE AgentOK(g)'
  <2>1. AgentOK(g) /\ delegated[g] \subseteq Caps
    BY DEF Inv, TypeOK
  <2> QED
    BY <2>1 DEF AgentOK, LeaverErased, Live, Held, AllowanceFor
<1>2. ASSUME NEW r \in Requests PROVE Fits(job[r])'
  <2>1. job'[r] = job[r] \/ job'[r] = Idle
    BY DEF Inv, TypeOK
  <2>2. CASE job'[r] = job[r]
    <3>1. Fits(job[r])
      BY DEF Inv
    <3>2. job[r].op = "putGrant" /\ host[job[r].who] = Service =>
             job[r].cap # d \/ svc'[d] \in {"open", "timed", "lapsed"}
      BY <3>1 DEF ServiceGrantFree, Fits
    <3> QED
      BY <2>2, <3>1, <3>2 DEF Fits, Live, Held, AllowanceFor
  <2>3. CASE job'[r] = Idle
    BY <2>3 DEF Fits, Idle
  <2> QED
    BY <2>1, <2>2, <2>3
<1> QED
  BY <1>1, <1>2 DEF Inv

LEMMA GrantServiceInv == ASSUME Inv, NEW c \in Caps, NEW to \in {"open", "timed"}, GrantService(c, to)
                         PROVE  Inv'
<1> USE DEF GrantService, agents, project
<1>1. TypeOK'
  BY DEF Inv, TypeOK
<1> QED
  BY <1>1, ServiceInv DEF Inv, TypeOK

LEMMA LapseInv == ASSUME Inv, NEW c \in Caps, Lapse(c) PROVE Inv'
<1> USE DEF Lapse, agents, project
<1>1. TypeOK'
  BY DEF Inv, TypeOK
<1> QED
  BY <1>1, ServiceInv DEF Inv, TypeOK

LEMMA RevokeServiceInv == ASSUME Inv, NEW c \in Caps, RevokeService(c) PROVE Inv'
<1> USE DEF RevokeService, agents, project
<1>0. PICK G, left : /\ RevokeBeyondHost(G, allowance, grant, left) /\ G = HostedBy(Service)
                     /\ left = [svc EXCEPT ![c] = "revoked"]
  OBVIOUS
<1>1. TypeOK'
  BY <1>0, BeyondHost DEF Inv, TypeOK
<1>2. ASSUME NEW g \in Agents, Live(g), host[g] = Service PROVE c \notin delegated'[g]
  <2>1. delegated'[g] \subseteq CeilingOver(g, allowance, grant, left)
    BY <1>0, <1>2, BeyondHost DEF Inv, HostedBy
  <2>2. left[c] = "revoked"
    BY <1>0 DEF Inv, TypeOK
  <2> QED
    BY <1>2, <2>1, <2>2 DEF CeilingOver
<1>3. \A g \in Agents : delegated'[g] \subseteq delegated[g]
  BY <1>0, BeyondHost DEF Inv
<1> QED
  BY <1>1, <1>2, <1>3, ServiceInv DEF Inv, TypeOK

LEMMA ExpireDueSelectInv == ASSUME Inv, NEW r \in Requests, NEW c \in Caps, ExpireDueSelect(r, c)
                            PROVE  Inv'
<1> USE DEF ExpireDueSelect, Begin, agents, project
<1>1. [Idle EXCEPT !.op = "expire", !.cap = c] \in Jobs /\ Idle.op = "idle"
  BY DEF Jobs, Idle
<1>2. PICK j \in Jobs : job' = [job EXCEPT ![r] = j] /\ j.op = "expire" /\ j.cap = c
  BY <1>1 DEF Idle
<1>3. TypeOK'
  BY <1>1, <1>2, JobTypes DEF Inv, TypeOK
<1> QED
  BY <1>2, <1>3, QuietInv DEF Fits

LEMMA ExpireDueRecordInv == ASSUME Inv, NEW r \in Requests, ExpireDueRecord(r) PROVE Inv'
<1> USE DEF ExpireDueRecord, Done, agents, project
<1>0. PICK c \in Caps : c = job[r].cap
  BY DEF Inv, Fits
<1>1. Idle \in Jobs /\ Idle.op = "idle" /\ job' = [job EXCEPT ![r] = Idle] /\ job[r].op = "expire"
  BY IdleFits DEF Idle
<1>2. CASE svc[c] = "revoked"
  <2>1. TypeOK'
    BY <1>0, <1>1, <1>2, JobTypes DEF Inv, TypeOK
  <2> QED
    BY <1>0, <1>1, <1>2, <2>1, QuietInv, IdleFits DEF Inv, TypeOK
<1>3. CASE svc[c] # "revoked"
  <2>0. PICK G, left : /\ RevokeBeyondHost(G, allowance, grant, left) /\ G = HostedBy(Service)
                       /\ left = (IF svc[c] \in {"timed", "lapsed"}
                                  THEN [svc EXCEPT ![c] = "revoked"] ELSE svc)
                       /\ svc' = left
    BY <1>0, <1>3
  <2>1. TypeOK'
    BY <1>1, <2>0, BeyondHost, JobTypes DEF Inv, TypeOK
  <2>2. ASSUME NEW g \in Agents, Live(g), host[g] = Service
        PROVE  svc'[c] \in {"open", "timed", "lapsed"} \/ c \notin delegated'[g]
    <3>1. delegated'[g] \subseteq CeilingOver(g, allowance, grant, left)
      BY <2>0, <2>2, BeyondHost DEF Inv, HostedBy
    <3> QED
      BY <2>0, <2>2, <3>1 DEF CeilingOver
  <2>3. \A g \in Agents : delegated'[g] \subseteq delegated[g]
    BY <2>0, BeyondHost DEF Inv
  <2>4. ServiceGrantFree(c)
    BY <1>0
  <2>5. \/ svc'[c] \in {"open", "timed", "lapsed"}
        \/ ServiceGrantFree(c) /\ \A g \in Agents : Live(g) /\ host[g] = Service => c \notin delegated'[g]
    BY <2>2, <2>4
  <2>6. \A d \in Caps \ {c} : svc'[d] = svc[d]
    BY <2>0 DEF Inv, TypeOK
  <2> QED
    BY <1>1, <2>1, <2>3, <2>5, <2>6, ServiceInv
<1> QED
  BY <1>2, <1>3

----------------------------------------------------------------------------
(* The theorems *)

LEMMA NextInv == Inv /\ [Next]_vars => Inv'
<1> SUFFICES ASSUME Inv, [Next]_vars PROVE Inv'
  OBVIOUS
<1>1. CASE MemberStep
  BY <1>1, AddMemberInv, UpdateMemberInv, RemoveMemberInv DEF MemberStep
<1>2. CASE AppStep
  BY <1>2, ArchiveProjectInv, EraseAccountInv, SetAllowanceInv, RevokeAppInv DEF AppStep
<1>3. CASE AgentStep
  BY <1>3, ChangeStatusInv, DeleteGrantInv DEF AgentStep
<1>4. CASE ServiceStep
  BY <1>4, GrantServiceInv, RevokeServiceInv, LapseInv DEF ServiceStep
<1>5. ASSUME NEW r \in Requests, RequestStep(r) PROVE Inv'
  BY <1>5, CreateAppCheckInv, CreateAppInsertInv, EraseLeaverInv, EraseLeaverCommitInv,
     RequestGrantCheckInv, RequestGrantUpsertInv, DecideGrantCheckInv, DecideGrantWriteInv,
     DecideGrantRevokeInv, CreateAgentLockInv, CreateAgentInsertInv, PutGrantLockInv,
     PutGrantWriteInv, ExpireDueSelectInv, ExpireDueRecordInv DEF RequestStep
<1>6. CASE UNCHANGED vars
  <2>1. TypeOK'
    BY <1>6 DEF Inv, TypeOK, vars, project, agents
  <2>2. \A g \in Agents : AgentOK(g)'
    BY <1>6 DEF Inv, AgentOK, LeaverErased, Live, Held, AllowanceFor, vars, project, agents
  <2>3. \A r \in Requests : Fits(job[r])'
    BY <1>6 DEF Inv, Fits, Live, Held, AllowanceFor, vars, project, agents
  <2> QED
    BY <2>1, <2>2, <2>3 DEF Inv
<1> QED
  BY <1>1, <1>2, <1>3, <1>4, <1>5, <1>6 DEF Next

LEMMA Invariance == Spec => []Inv
<1>1. Init => Inv
  BY InitInv
<1>2. Inv /\ [Next]_vars => Inv'
  BY NextInv
<1> QED
  BY <1>1, <1>2, PTL DEF Spec

\* The variables keep their types, and the lock is held by exactly the requests
\* that are about to write under it.
THEOREM TypesHold == Spec => []TypeOK
<1>1. Inv => TypeOK
  BY DEF Inv
<1> QED
  BY <1>1, Invariance, PTL

\* No agent outlives its project, its person's membership or its host.
THEOREM NoOrphans == Spec => []NoOrphanAgents
<1>1. Inv => NoOrphanAgents
  BY DEF Inv, AgentOK, NoOrphanAgents
<1> QED
  BY <1>1, Invariance, PTL

\* What is delegated lies within the allowance of the project.
THEOREM WithinAllowance == Spec => []DelegatedWithinAllowance
<1>1. Inv => DelegatedWithinAllowance
  BY DEF Inv, AgentOK, Held, DelegatedWithinAllowance
<1> QED
  BY <1>1, Invariance, PTL

\* What is delegated to an agent of the service is granted to the service.
THEOREM OfService == Spec => []DelegatedOfService
<1>1. Inv => DelegatedOfService
  BY DEF Inv, AgentOK, Held, DelegatedOfService
<1> QED
  BY <1>1, Invariance, PTL

LEMMA RevokedStays ==
  ASSUME Inv, NEW G, RevokeAgents(G)
  PROVE  \A g \in Agents : status[g] = "revoked" => status'[g] = "revoked"
BY DEF RevokeAgents, Live

Ends ==
    /\ archived => archived'
    /\ \A a \in Apps : app[a] = "revoked" => app'[a] = "revoked"
    /\ \A g \in Agents : status[g] = "revoked" => status'[g] = "revoked"

LEMMA StepEnds == ASSUME Inv, Next PROVE Ends
<1> USE DEF project, agents, Ends
<1>1. CASE MemberStep
  BY <1>1, RevokedStays DEF MemberStep, AddMember, UpdateMember, RemoveMember
<1>2. CASE AppStep
  <2>1. ASSUME ArchiveProject PROVE Ends
    BY <2>1, RevokedStays DEF ArchiveProject, Inv, TypeOK
  <2>2. ASSUME NEW p \in People, EraseAccount(p) PROVE Ends
    BY <2>2, RevokedStays DEF EraseAccount, Inv, TypeOK
  <2>3. ASSUME NEW list \in SUBSET Caps, SetAllowance(list) PROVE Ends
    BY <2>3 DEF SetAllowance
  <2>4. ASSUME NEW a \in Apps, RevokeApp(a) PROVE Ends
    BY <2>4, RevokedStays DEF RevokeApp, Inv, TypeOK
  <2> QED
    BY <1>2, <2>1, <2>2, <2>3, <2>4 DEF AppStep
<1>3. CASE AgentStep
  <2>1. ASSUME NEW g \in Agents, NEW to \in {"active", "paused", "revoked"}, ChangeStatus(g, to)
        PROVE  Ends
    BY <2>1 DEF ChangeStatus, Inv, TypeOK
  <2>2. ASSUME NEW g \in Agents, NEW c \in Caps, DeleteGrant(g, c) PROVE Ends
    BY <2>2 DEF DeleteGrant
  <2> QED
    BY <1>3, <2>1, <2>2 DEF AgentStep
<1>4. CASE ServiceStep
  BY <1>4 DEF ServiceStep, GrantService, RevokeService, Lapse
<1>5. ASSUME NEW r \in Requests, RequestStep(r) PROVE Ends
  <2>1. ASSUME NEW a \in Apps, CreateAppInsert(r, a) PROVE Ends
    BY <2>1 DEF CreateAppInsert, Inv, TypeOK
  <2>2. ASSUME NEW p \in People, EraseLeaver(r, p) PROVE Ends
    BY <2>2 DEF EraseLeaver
  <2>3. ASSUME EraseLeaverCommit(r) PROVE Ends
    BY <2>3, RevokedStays DEF EraseLeaverCommit, Inv, TypeOK
  <2>4. ASSUME NEW g \in Agents, CreateAgentInsert(r, g) PROVE Ends
    BY <2>4 DEF CreateAgentInsert, Inv, TypeOK
  <2>5. ASSUME \/ CreateAppCheck(r) \/ RequestGrantUpsert(r) \/ DecideGrantWrite(r)
               \/ DecideGrantRevoke(r) \/ PutGrantWrite(r) \/ ExpireDueRecord(r)
        PROVE  Ends
    BY <2>5 DEF CreateAppCheck, RequestGrantUpsert, DecideGrantWrite, DecideGrantRevoke,
                PutGrantWrite, ExpireDueRecord
  <2>6. ASSUME NEW p \in People, NEW h \in Hosts, CreateAgentLock(r, p, h) PROVE Ends
    BY <2>6 DEF CreateAgentLock
  <2>7. ASSUME NEW g \in Agents, NEW c \in Caps, PutGrantLock(r, g, c) PROVE Ends
    BY <2>7 DEF PutGrantLock
  <2>8. ASSUME NEW c \in Caps, ExpireDueSelect(r, c) PROVE Ends
    BY <2>8 DEF ExpireDueSelect
  <2>9. ASSUME NEW a \in Apps, NEW c \in Caps, NEW p \in People, RequestGrantCheck(r, p, a, c)
         PROVE  Ends
    BY <2>9 DEF RequestGrantCheck
  <2>10. ASSUME NEW a \in Apps, NEW c \in Caps, NEW d \in Decisions, DecideGrantCheck(r, a, c, d)
         PROVE  Ends
    BY <2>10 DEF DecideGrantCheck
  <2> QED
    BY <1>5, <2>1, <2>2, <2>3, <2>4, <2>5, <2>6, <2>7, <2>8, <2>9, <2>10 DEF RequestStep
<1> QED
  BY <1>1, <1>2, <1>3, <1>4, <1>5 DEF Next

\* Revoked agents and apps and an archived project stay so.
THEOREM EndsStay == Spec => EndsAreFinal
<1>1. Inv /\ [Next]_vars => [Ends]_vars
  BY StepEnds
<1>2. [Ends]_vars => [/\ archived => archived'
                      /\ \A a \in Apps : app[a] = "revoked" => app'[a] = "revoked"
                      /\ \A g \in Agents : status[g] = "revoked" => status'[g] = "revoked"]_vars
  BY DEF Ends
<1> QED
  BY <1>1, <1>2, Invariance, PTL DEF Spec, EndsAreFinal

=============================================================================
