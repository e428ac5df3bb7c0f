------------------------ MODULE Confirmations_proofs ------------------------
(***************************************************************************)
(* Theorems about Confirmations, for any number of transactions, rows,     *)
(* rules and capabilities.                                                 *)
(*                                                                         *)
(* Of the row locks a transaction holds no other holds one (Apart), so the *)
(* others spare what it goes by: the rows it locked and, while it has the  *)
(* agent, the set of what is usable does not grow (Spares).  Fits says     *)
(* what each transaction may go by at its next statement; a cascade that   *)
(* has the agent has every usable row still to do or already cut.          *)
(*                                                                         *)
(* For the deadlocks LockOrder adds in which order a cascade takes its     *)
(* locks: grants by capability, and for one grant, or for the agent, first *)
(* confirmations and then rules by id.                                     *)
(***************************************************************************)
EXTENDS Confirmations, FiniteSetTheorems, WellFoundedInduction, TLAPS

----------------------------------------------------------------------------
(* The inductive invariant *)

Current(c) == Usable(c) /\ Unexpired(c, clock)

Apart == \A r, q \in Requests : r # q =>
    /\ ~(req[r].agent /\ req[q].agent)
    /\ req[r].confs \cap req[q].confs = {}

Cascade(job) ==
    /\ job.agent => job.to \in {"paused", "revoked"} /\ job.cap = NoCap /\ job.caps = {}
    /\ job.cut \subseteq job.confs
    /\ \A c \in job.cut : Usable(c)

\* What a transaction may go by at its next statement.
Fits(step, job) ==
    /\ step \in {"conf", "check", "read", "insert", "spend"} => job.agent
    /\ step \in {"read", "insert", "spend"} => agent = "active"
    /\ step = "conf" => job.conf \in Confirmations /\ job.op = "consume"
    /\ step = "check" /\ job.op = "create" => job.confs = {}
    /\ step = "check" /\ job.op # "create" => job.conf \in Confirmations /\ job.confs = {job.conf}
    /\ step = "insert" => job.now <= clock /\ Cardinality(Pending(clock)) < MaxPending
    /\ step = "spend" => job.conf \in Confirmations /\ job.confs = {job.conf}
    /\ step = "rule" => /\ job.conf \in Confirmations /\ job.confs = {job.conf}
                        /\ conf[job.conf].state = "pending"
    /\ step = "grant" => job.cap \in Capabilities
    /\ step = "select" => Cascade(job)
    /\ step = "cancel" => /\ Cascade(job) /\ job.now <= clock
                          /\ job.agent => \A c \in Confirmations :
                                            Current(c) => c \in job.todo \cup job.cut
    /\ step = "revoke" => /\ Cascade(job)
                          /\ job.agent => \A c \in Confirmations : Current(c) => c \in job.cut
    /\ \A c \in job.confs : conf[c].state # "none"
    /\ job.confs # {} => step \in {"check", "spend", "rule", "select", "cancel", "revoke"}

\* A row and what was written of it to the outbox.
RowOK(c) ==
    /\ \A change \in Changes : events[c][change] <= 1
    /\ (conf[c].state # "none") <=> (events[c]["created"] = 1)
    /\ conf[c].used <=> (events[c]["used"] = 1)
    /\ \A end \in {"denied", "expired", "cancelled"} :
          (conf[c].state = end) <=> (events[c][end] = 1)
    /\ conf[c].used => conf[c].state = "approved"
    /\ conf[c].state \in {"none", "pending"} => events[c]["approved"] = 0

Inbox == IsFiniteSet(Pending(clock)) /\ PendingBounded

Inv ==
    /\ TypeOK /\ Apart /\ PausedLeavesNothing /\ Inbox
    /\ \A c \in Confirmations : RowOK(c)
    /\ \A r \in Requests : Fits(pc[r], req[r])

----------------------------------------------------------------------------
(* Steps *)

\* Nothing becomes usable, nothing pending.
Shrinks == \A c \in Confirmations :
    /\ Current(c)' => Current(c)
    /\ c \in Pending(clock)' => c \in Pending(clock)

Spares(job) ==
    /\ \A c \in job.confs : conf'[c] = conf[c]
    /\ job.agent => Shrinks /\ (agent = "active" => agent' = "active")

LEMMA InitInv == Init => Inv
<1> SUFFICES ASSUME Init PROVE Inv
  OBVIOUS
<1> USE ConfirmationsAssumption DEF Init
<1>1. TypeOK
  <2>1. grant \in SUBSET Capabilities
    OBVIOUS
  <2>2. conf \in [Confirmations -> ConfRow] /\ rule \in [Rules -> RuleRow]
    BY DEF ConfRow, NoRow, RuleRow, NoRule
  <2>3. events \in [Confirmations -> [Changes -> Nat]]
    OBVIOUS
  <2>4. NoJob \in Job
    BY DEF NoJob, Job, Ops
  <2>5. pc \in [Requests -> PCs] /\ req \in [Requests -> Job]
    BY <2>4 DEF PCs
  <2> QED
    BY <2>1, <2>2, <2>3, <2>5 DEF TypeOK
<1>2. Apart /\ \A r \in Requests : Fits(pc[r], req[r])
  BY DEF Apart, Fits, NoJob
<1>3. PausedLeavesNothing
  BY DEF PausedLeavesNothing
<1>4. Inbox
  <2>1. Pending(clock) = {}
    BY DEF Pending, NoRow
  <2> QED
    BY <2>1, FS_EmptySet DEF Inbox, PendingBounded
<1>5. \A c \in Confirmations : RowOK(c)
  BY DEF RowOK, NoRow, Changes
<1> QED
  BY <1>1, <1>2, <1>3, <1>4, <1>5 DEF Inv

\* The inbox when nothing new is pending.
LEMMA InboxShrinks ==
  ASSUME Inbox, Shrinks
  PROVE  Inbox' /\ Cardinality(Pending(clock)') <= Cardinality(Pending(clock))
<1>1. Pending(clock)' \in SUBSET Pending(clock)
  BY DEF Shrinks, Pending
<1>2. /\ IsFiniteSet(Pending(clock)')
      /\ Cardinality(Pending(clock)') <= Cardinality(Pending(clock))
  BY <1>1, FS_Subset DEF Inbox
<1>3. Cardinality(Pending(clock)) \in Nat /\ Cardinality(Pending(clock)') \in Nat
  BY <1>2, FS_CardinalityType DEF Inbox
<1> QED
  BY <1>2, <1>3, ConfirmationsAssumption DEF Inbox, PendingBounded

\* A transaction another one spares goes by what it went by.
LEMMA FitsStays ==
  ASSUME Inv, NEW step \in PCs, NEW job \in Job, Fits(step, job), Spares(job), clock' \in Nat,
         clock <= clock'
  PROVE  Fits(step, job)'
<1> USE DEF Fits, Spares
<1>0. clock \in Nat /\ job.now \in Nat
  BY DEF Inv, TypeOK, Job
<1>1. step = "insert" => job.now <= clock' /\ Cardinality(Pending(clock)') < MaxPending
  <2> SUFFICES ASSUME step = "insert" PROVE job.now <= clock' /\ Cardinality(Pending(clock)') < MaxPending
    OBVIOUS
  <2>1. Shrinks /\ job.now <= clock /\ Cardinality(Pending(clock)) < MaxPending
    OBVIOUS
  <2>2. Cardinality(Pending(clock)') <= Cardinality(Pending(clock))
    BY <2>1, InboxShrinks DEF Inv
  <2>3. Inbox'
    BY <2>1, InboxShrinks DEF Inv
  <2>4. Cardinality(Pending(clock)) \in Nat /\ Cardinality(Pending(clock)') \in Nat
    BY <2>3, FS_CardinalityType DEF Inv, Inbox
  <2> QED
    BY <1>0, <2>1, <2>2, <2>4, ConfirmationsAssumption
<1>2. step \in {"select", "cancel", "revoke"} => Cascade(job)'
  BY DEF Cascade, Usable
<1>3. step = "cancel" => /\ job.now <= clock'
                         /\ job.agent => \A c \in Confirmations :
                                            Current(c)' => c \in job.todo \cup job.cut
  BY <1>0 DEF Shrinks
<1>4. step = "revoke" => (job.agent => \A c \in Confirmations : Current(c)' => c \in job.cut)
  BY DEF Shrinks
<1>5. step \in {"read", "insert", "spend"} => agent' = "active"
  OBVIOUS
<1> QED
  BY <1>1, <1>2, <1>3, <1>4, <1>5

\* The transactions after a step of r that leaves it at step with job.
LEMMA JobStep ==
  ASSUME Inv, TypeOK', NEW r \in Requests, NEW step \in PCs, NEW job \in Job,
         pc' = [pc EXCEPT ![r] = step], req' = [req EXCEPT ![r] = job],
         Fits(step, job)', clock <= clock',
         \A q \in Requests \ {r} : /\ ~(job.agent /\ req[q].agent)
                                   /\ job.confs \cap req[q].confs = {}
                                   /\ Spares(req[q])
  PROVE  Apart' /\ \A q \in Requests : Fits(pc[q], req[q])'
<1>0. pc \in [Requests -> PCs] /\ req \in [Requests -> Job] /\ clock' \in Nat
  BY DEF Inv, TypeOK
<1>1. pc'[r] = step /\ req'[r] = job
  BY <1>0
<1>2. \A q \in Requests \ {r} : pc'[q] = pc[q] /\ req'[q] = req[q]
  BY <1>0
<1>3. Apart'
  <2> SUFFICES ASSUME NEW a \in Requests, NEW b \in Requests, a # b
               PROVE  ~(req'[a].agent /\ req'[b].agent) /\ req'[a].confs \cap req'[b].confs = {}
    BY DEF Apart
  <2>1. CASE a # r /\ b # r
    BY <1>2, <2>1 DEF Apart, Inv
  <2>2. CASE a = r
    BY <1>1, <1>2, <2>2
  <2>3. CASE b = r
    BY <1>1, <1>2, <2>3
  <2> QED
    BY <2>1, <2>2, <2>3
<1>4. ASSUME NEW q \in Requests PROVE Fits(pc[q], req[q])'
  <2>1. CASE q = r
    BY <1>1, <2>1
  <2>2. CASE q # r
    <3>1. PICK s \in PCs, j \in Job : s = pc[q] /\ j = req[q]
      BY <1>0
    <3>2. Fits(s, j) /\ Spares(j)
      BY <2>2, <3>1 DEF Inv
    <3>3. Fits(s, j)'
      BY <1>0, <3>2, FitsStays
    <3> QED
      BY <1>2, <2>2, <3>1, <3>3
  <2> QED
    BY <2>1, <2>2
<1> QED
  BY <1>3, <1>4

\* Time passes, a rule ends, the agent resumes: no row of the
\* confirmations moves.
LEMMA OutsideInv ==
  ASSUME Inv, TypeOK', UNCHANGED <<conf, events, pc, req>>, clock <= clock',
         agent' \in {agent, "active"}
  PROVE  Inv'
<1>0. clock \in Nat /\ clock' \in Nat /\ \A c \in Confirmations : conf[c].expires \in Nat
  BY DEF Inv, TypeOK, ConfRow
<1>1. Shrinks
  BY <1>0 DEF Shrinks, Current, Usable, Unexpired, Pending
<1>2. Inbox'
  BY <1>1, InboxShrinks DEF Inv
<1>3. PausedLeavesNothing'
  BY <1>1 DEF Inv, PausedLeavesNothing, Shrinks, Current
<1>4. \A c \in Confirmations : RowOK(c)'
  BY DEF Inv, RowOK
<1>5. ASSUME NEW q \in Requests PROVE Fits(pc[q], req[q])'
  <2>1. PICK s \in PCs, j \in Job : s = pc[q] /\ j = req[q]
    BY DEF Inv, TypeOK
  <2>2. Fits(s, j) /\ Spares(j)
    BY <1>1, <2>1 DEF Inv, Spares
  <2>3. Fits(s, j)'
    BY <1>0, <2>2, FitsStays
  <2> QED
    BY <2>1, <2>3
<1>6. Apart'
  BY DEF Inv, Apart
<1> QED
  BY <1>2, <1>3, <1>4, <1>5, <1>6 DEF Inv

\* A step of r that writes no confirmation and not the agent.
LEMMA QuietInv ==
  ASSUME Inv, NEW r \in Requests, NEW step \in PCs, NEW job \in Job,
         pc' = [pc EXCEPT ![r] = step], req' = [req EXCEPT ![r] = job], Fits(step, job),
         UNCHANGED <<clock, agent, conf, rule, events>>,
         grant' \in SUBSET Capabilities,
         \A q \in Requests \ {r} : /\ ~(job.agent /\ req[q].agent)
                                   /\ job.confs \cap req[q].confs = {}
  PROVE  Inv'
<1>0. TypeOK'
  BY DEF Inv, TypeOK
<1>1. \A c \in Confirmations : /\ Current(c)' <=> Current(c)
                               /\ Usable(c)' <=> Usable(c)
  BY DEF Current, Usable, Unexpired
<1>2. Pending(clock)' = Pending(clock)
  BY DEF Pending, Unexpired
<1>3. \A q \in Requests : Spares(req[q])
  BY <1>1, <1>2 DEF Spares, Shrinks
<1>4. Fits(step, job)'
  BY <1>1, <1>2 DEF Fits, Cascade, Current, Usable, Unexpired
<1>5. clock <= clock'
  BY DEF Inv, TypeOK
<1>6. Apart' /\ \A q \in Requests : Fits(pc[q], req[q])'
  BY <1>0, <1>3, <1>4, <1>5, JobStep
<1>7. Inbox' /\ PausedLeavesNothing'
  BY <1>1, <1>2 DEF Inv, Inbox, PendingBounded, PausedLeavesNothing, Current
<1>8. \A c \in Confirmations : RowOK(c)'
  BY DEF Inv, RowOK
<1> QED
  BY <1>0, <1>6, <1>7, <1>8 DEF Inv

LEMMA NoJobFits == NoJob \in Job /\ "idle" \in PCs /\ Fits("idle", NoJob) /\ Fits("idle", NoJob)'
<1>1. NoJob \in Job /\ "idle" \in PCs
  BY DEF NoJob, Job, Ops, PCs
<1>2. NoJob.confs = {}
  BY DEF NoJob
<1>3. Fits("idle", NoJob)
  BY <1>2 DEF Fits
<1>4. Fits("idle", NoJob)'
  BY <1>2 DEF Fits
<1> QED
  BY <1>1, <1>3, <1>4

\* A transaction ends without a row to show for it.
LEMMA FinishInv ==
  ASSUME Inv, NEW r \in Requests, Finish(r),
         UNCHANGED <<clock, agent, conf, rule, events>>,
         grant' \in SUBSET Capabilities
  PROVE  Inv'
<1>1. ~NoJob.agent /\ NoJob.confs = {}
  BY DEF NoJob
<1> QED
  BY <1>1, NoJobFits, QuietInv DEF Finish

\* A transaction begins: it locks at most the agent, which was free.
LEMMA BeginInv ==
  ASSUME Inv, NEW r \in Requests, NEW step \in PCs, NEW job \in Job, Begin(r, job, step),
         Fits(step, job), UNCHANGED <<clock, rows>>,
         job.agent => AgentFree(r), \A c \in job.confs : ConfFree(r, c)
  PROVE  Inv'
<1>1. UNCHANGED <<clock, agent, conf, rule, events>> /\ grant' = grant
  BY DEF rows
<1>2. \A q \in Requests \ {r} : ~(job.agent /\ req[q].agent) /\ job.confs \cap req[q].confs = {}
  BY DEF AgentFree, ConfFree
<1> QED
  BY <1>1, <1>2, QuietInv DEF Begin, Inv, TypeOK

\* A transaction goes on with the locks it has.
LEMMA GoOnInv ==
  ASSUME Inv, NEW r \in Requests, NEW step \in PCs, NEW job \in Job,
         pc' = [pc EXCEPT ![r] = step], req' = [req EXCEPT ![r] = job], Fits(step, job),
         UNCHANGED <<clock, rows>>, job.agent => req[r].agent, job.confs \subseteq req[r].confs
  PROVE  Inv'
<1>1. UNCHANGED <<clock, agent, conf, rule, events>> /\ grant' = grant
  BY DEF rows
<1>2. \A q \in Requests \ {r} : ~(job.agent /\ req[q].agent) /\ job.confs \cap req[q].confs = {}
  BY DEF Inv, Apart
<1> QED
  BY <1>1, <1>2, QuietInv DEF Inv, TypeOK

----------------------------------------------------------------------------
(* The steps that write no confirmation *)

LEMMA AroundInv ==
  ASSUME Inv, Tick \/ \E k \in Rules : RevokeRule(k)
  PROVE  Inv'
<1>0. clock \in Nat
  BY DEF Inv, TypeOK
<1>1. CASE Tick
  <2>1. clock' = clock + 1 /\ UNCHANGED <<agent, grant, conf, rule, events, pc, req>>
    BY <1>1 DEF Tick, rows
  <2>2. TypeOK'
    BY <1>0, <2>1 DEF Inv, TypeOK
  <2> QED
    BY <1>0, <2>1, <2>2, OutsideInv
<1>2. ASSUME NEW k \in Rules, RevokeRule(k) PROVE Inv'
  <2>1. UNCHANGED <<clock, agent, grant, conf, events, pc, req>>
    BY <1>2 DEF RevokeRule
  <2>2. rule' \in [Rules -> RuleRow]
    <3>1. rule \in [Rules -> RuleRow]
      BY DEF Inv, TypeOK
    <3>2. [rule[k] EXCEPT !.status = "revoked"] \in RuleRow
      BY <3>1 DEF RuleRow
    <3>3. rule' = [rule EXCEPT ![k] = [rule[k] EXCEPT !.status = "revoked"]]
      BY <1>2 DEF RevokeRule
    <3> QED
      BY <3>1, <3>2, <3>3
  <2>3. TypeOK'
    BY <2>1, <2>2 DEF Inv, TypeOK
  <2> QED
    BY <1>0, <2>1, <2>3, OutsideInv
<1> QED
  BY <1>1, <1>2

LEMMA CreateInv ==
  ASSUME Inv, NEW r \in Requests, NEW cap \in Capabilities, Create(r, cap) PROVE Inv'
<1>1. [NoJob EXCEPT !.op = "create", !.cap = cap, !.agent = TRUE] \in Job
  BY DEF NoJob, Job, Ops
<1>2. PICK job \in Job : job = [NoJob EXCEPT !.op = "create", !.cap = cap, !.agent = TRUE]
  BY <1>1
<1>3. job.op = "create" /\ job.agent /\ job.confs = {}
  BY <1>2 DEF NoJob
<1>4. Fits("check", job) /\ "check" \in PCs
  BY <1>3 DEF Fits, PCs
<1> QED
  BY <1>2, <1>3, <1>4, BeginInv DEF Create

LEMMA ConsumeInv ==
  ASSUME Inv, NEW r \in Requests, NEW c \in Confirmations, Consume(r, c) PROVE Inv'
<1>1. [NoJob EXCEPT !.op = "consume", !.conf = c, !.agent = TRUE] \in Job
  BY DEF NoJob, Job, Ops
<1>2. PICK job \in Job : job = [NoJob EXCEPT !.op = "consume", !.conf = c, !.agent = TRUE]
  BY <1>1
<1>3. job.op = "consume" /\ job.conf = c /\ job.agent /\ job.confs = {}
  BY <1>2 DEF NoJob
<1>4. Fits("conf", job) /\ "conf" \in PCs
  BY <1>3 DEF Fits, PCs
<1> QED
  BY <1>2, <1>3, <1>4, BeginInv DEF Consume

LEMMA LockConfInv == ASSUME Inv, NEW r \in Requests, LockConf(r) PROVE Inv'
<1> PICK c \in Confirmations : c = req[r].conf
  BY DEF Inv, Fits, LockConf
<1> DEFINE i == [req[r] EXCEPT !.confs = {c}, !.cap = conf[c].cap, !.now = clock]
<1>1. /\ req[r] \in Job /\ clock \in Nat /\ req[r].agent /\ req[r].op = "consume"
      /\ conf[c].cap \in Capabilities \cup {NoCap}
  BY DEF Inv, TypeOK, Fits, LockConf, ConfRow
<1>2. i \in Job
  BY <1>1 DEF Job
<1>3. PICK job \in Job : job = i
  BY <1>2
<1>4. /\ job.op = "consume" /\ job.conf = c /\ job.agent /\ job.confs = {c}
     
  BY <1>1, <1>3 DEF Job
<1>5. UNCHANGED <<clock, agent, conf, rule, events>> /\ grant' = grant
  BY DEF LockConf, rows
<1>6. CASE Finish(r)
  BY <1>5, <1>6, FinishInv DEF Inv, TypeOK
<1>7. CASE /\ conf[c].state = "approved" /\ Goto(r, "check")
           /\ req' = [req EXCEPT ![r].confs = {c}, ![r].cap = conf[c].cap, ![r].now = clock]
  <2>1. Fits("check", job) /\ "check" \in PCs
    BY <1>1, <1>4, <1>7 DEF Fits, PCs
  <2>2. req' = [req EXCEPT ![r] = job] /\ pc' = [pc EXCEPT ![r] = "check"]
    BY <1>3, <1>7 DEF Goto
  <2>3. \A q \in Requests \ {r} : ~(job.agent /\ req[q].agent) /\ job.confs \cap req[q].confs = {}
    BY <1>1, <1>4 DEF Inv, Apart, LockConf, ConfFree
  <2> QED
    BY <1>5, <2>1, <2>2, <2>3, QuietInv DEF Inv, TypeOK
<1> QED
  BY <1>6, <1>7 DEF LockConf

LEMMA CheckAuthorityInv == ASSUME Inv, NEW r \in Requests, CheckAuthority(r) PROVE Inv'
<1>1. pc[r] = "check" /\ Fits("check", req[r]) /\ UNCHANGED <<clock, rows>>
  BY DEF CheckAuthority, Inv
<1>2. CASE Finish(r)
  <2>1. UNCHANGED <<clock, agent, conf, rule, events>> /\ grant' = grant
    BY <1>1 DEF rows
  <2> QED
    BY <1>2, <2>1, FinishInv DEF Inv, TypeOK
<1>3. ASSUME ~Finish(r) PROVE Inv'
  <2>1. PICK job \in Job : job = req[r]
    BY DEF Inv, TypeOK
  <2>2. PICK step \in PCs : step = IF job.op = "create" THEN "read" ELSE "spend"
    BY DEF PCs
  <2>3. Authority(job.cap) /\ pc' = [pc EXCEPT ![r] = step] /\ req' = req
    BY <1>3, <2>1, <2>2 DEF CheckAuthority, Goto
  <2>4. Fits(step, job)
    BY <1>1, <2>1, <2>2, <2>3 DEF Fits, Authority
  <2>5. req' = [req EXCEPT ![r] = job]
    BY <2>1, <2>3 DEF Inv, TypeOK
  <2> QED
    BY <1>1, <2>1, <2>3, <2>4, <2>5, GoOnInv
<1> QED
  BY <1>2, <1>3

LEMMA ReadRulesInv == ASSUME Inv, NEW r \in Requests, ReadRules(r) PROVE Inv'
<1>1. /\ pc[r] = "read" /\ Fits("read", req[r]) /\ UNCHANGED <<clock, rows>>
      /\ req[r] \in Job /\ clock \in Nat
  BY DEF ReadRules, Inv, TypeOK
<1>2. CASE Finish(r)
  <2>1. UNCHANGED <<clock, agent, conf, rule, events>> /\ grant' = grant
    BY <1>1 DEF rows
  <2> QED
    BY <1>2, <2>1, FinishInv DEF Inv, TypeOK
<1>3. ASSUME Cardinality(Pending(clock)) < MaxPending, Goto(r, "insert"), NEW byRule \in BOOLEAN,
             req' = [req EXCEPT ![r].now = clock, ![r].byRule = byRule]
      PROVE  Inv'
  <2> DEFINE i == [req[r] EXCEPT !.now = clock, !.byRule = byRule]
  <2>1. i \in Job
    BY <1>1 DEF Job
  <2>2. PICK job \in Job : job = i
    BY <2>1
  <2>3. job.now = clock /\ job.agent = req[r].agent /\ job.confs = req[r].confs
    BY <1>1, <2>2 DEF Job
  <2>4. Fits("insert", job) /\ "insert" \in PCs
    BY <1>1, <1>3, <2>3 DEF Fits, PCs
  <2>5. req' = [req EXCEPT ![r] = job]
    BY <1>3, <2>2
  <2> QED
    BY <1>1, <1>3, <2>3, <2>4, <2>5, GoOnInv DEF Goto
<1> QED
  BY <1>2, <1>3 DEF ReadRules

LEMMA DecideStandingInv ==
  ASSUME Inv, NEW r \in Requests, NEW c \in Confirmations, DecideStanding(r, c) PROVE Inv'
<1> DEFINE i == [NoJob EXCEPT !.op = "decide", !.conf = c, !.cap = conf[c].cap, !.confs = {c}]
<1>0. conf[c].cap \in Capabilities \cup {NoCap} /\ clock \in Nat
  BY DEF Inv, TypeOK, ConfRow
<1>1. i \in Job
  BY <1>0 DEF NoJob, Job, Ops
<1>2. PICK job \in Job : job = i
  BY <1>1
<1>3. job.op = "decide" /\ job.conf = c /\ ~job.agent /\ job.confs = {c}
  BY <1>2 DEF NoJob
<1>4. Fits("rule", job) /\ "rule" \in PCs
  BY <1>3 DEF Fits, PCs, DecideStanding
<1> QED
  BY <1>2, <1>3, <1>4, BeginInv DEF DecideStanding

LEMMA ResumeInv == ASSUME Inv, NEW r \in Requests, Resume(r) PROVE Inv'
<1>1. TypeOK'
  BY DEF Resume, Inv, TypeOK
<1>2. clock <= clock'
  BY DEF Resume, Inv, TypeOK
<1> QED
  BY <1>1, <1>2, OutsideInv DEF Resume

\* A change of the agent begins with its row locked.
LEMMA TakeAgentInv ==
  ASSUME Inv, NEW r \in Requests, NEW op \in {"status", "retire"}, NEW to \in {"paused", "revoked"},
         AgentFree(r), Begin(r, [NoJob EXCEPT !.op = op, !.to = to, !.agent = TRUE], "select"),
         UNCHANGED <<clock, rows>>
  PROVE  Inv'
<1>1. [NoJob EXCEPT !.op = op, !.to = to, !.agent = TRUE] \in Job
  BY DEF NoJob, Job, Ops
<1>2. PICK job \in Job : job = [NoJob EXCEPT !.op = op, !.to = to, !.agent = TRUE]
  BY <1>1
<1>3. /\ job.agent /\ job.to = to /\ job.cap = NoCap /\ job.caps = {}
      /\ job.confs = {} /\ job.cut = {}
  BY <1>2 DEF NoJob
<1>4. Fits("select", job) /\ "select" \in PCs
  BY <1>3 DEF Fits, Cascade, PCs
<1> QED
  BY <1>2, <1>3, <1>4, BeginInv

LEMMA ChangeStatusInv ==
  ASSUME Inv, NEW r \in Requests, NEW to \in {"paused", "revoked"}, ChangeStatus(r, to)
  PROVE  Inv'
BY TakeAgentInv DEF ChangeStatus

LEMMA RetireAgentInv == ASSUME Inv, NEW r \in Requests, RetireAgent(r) PROVE Inv'
BY TakeAgentInv DEF RetireAgent

LEMMA PutGrantInv ==
  ASSUME Inv, NEW r \in Requests, NEW cap \in Capabilities, PutGrant(r, cap) PROVE Inv'
<1> DEFINE i == [NoJob EXCEPT !.op = "put_grant", !.cap = cap, !.agent = TRUE]
<1>1. i \in Job
  BY DEF NoJob, Job, Ops
<1>2. PICK job \in Job : job = i
  BY <1>1
<1>3. job.agent /\ job.confs = {} /\ job.cap = cap
  BY <1>2 DEF NoJob
<1>4. Fits("grant", job) /\ "grant" \in PCs
  BY <1>3 DEF Fits, PCs
<1> QED
  BY <1>2, <1>3, <1>4, BeginInv DEF PutGrant

\* ORDER BY id: the first of a set of rows is one of it.
LEMMA MinExists ==
  ASSUME NEW T \in SUBSET Nat, T # {}
  PROVE  Min(T) \in T /\ \A y \in T : Min(T) <= y
<1>1. PICK R : R = OpToRel(<, Nat)
  OBVIOUS
<1>2. IsWellFoundedOn(R, Nat)
  BY <1>1, NatLessThanWellFounded, Zenon
<1>3. \A m, n \in Nat : m < n => <<m, n>> \in R
  BY <1>1, Zenon DEF OpToRel
<1>4. PICK x \in T : \A y \in T : ~(<<y, x>> \in R)
  BY <1>2, WFMin
<1>5. ASSUME NEW y \in T PROVE x <= y
  <2>1. x \in Nat /\ y \in Nat
    OBVIOUS
  <2>2. ~(y < x)
    BY <1>3, <1>4, <2>1, Zenon
  <2> QED
    BY <2>1, <2>2
<1> QED
  BY <1>5 DEF Min

LEMMA WriteGrantInv == ASSUME Inv, NEW r \in Requests, WriteGrant(r) PROVE Inv'
<1>1. req[r].cap \in Capabilities
  BY DEF WriteGrant, Inv, Fits
<1>2. grant' \in SUBSET Capabilities
  BY <1>1 DEF WriteGrant, Inv, TypeOK
<1> QED
  BY <1>2, FinishInv DEF WriteGrant

LEMMA DeleteGrantInv ==
  ASSUME Inv, NEW r \in Requests, NEW cap \in Capabilities, DeleteGrant(r, cap) PROVE Inv'
<1> DEFINE i == [NoJob EXCEPT !.op = "delete_grant", !.cap = cap, !.grants = {cap}]
<1>1. i \in Job
  BY DEF NoJob, Job, Ops
<1>2. PICK job \in Job : job = i
  BY <1>1
<1>3. ~job.agent /\ job.confs = {} /\ job.cut = {}
  BY <1>2 DEF NoJob
<1>4. Fits("select", job) /\ "select" \in PCs
  BY <1>3 DEF Fits, Cascade, PCs
<1> QED
  BY <1>2, <1>3, <1>4, BeginInv DEF DeleteGrant

LEMMA RevokeBeyondHostInv ==
  ASSUME Inv, NEW r \in Requests, NEW caps \in SUBSET Capabilities, RevokeBeyondHost(r, caps)
  PROVE  Inv'
<1> DEFINE i == [NoJob EXCEPT !.op = "beyond_host", !.caps = caps]
<1>1. i \in Job
  BY DEF NoJob, Job, Ops
<1>2. PICK job \in Job : job = i
  BY <1>1
<1>3. ~job.agent /\ job.confs = {} /\ job.cut = {}
  BY <1>2 DEF NoJob
<1>4. Fits("revoke", job) /\ "revoke" \in PCs
  BY <1>3 DEF Fits, Cascade, PCs
<1> QED
  BY <1>2, <1>3, <1>4, BeginInv DEF RevokeBeyondHost

LEMMA RevokeNextGrantInv == ASSUME Inv, NEW r \in Requests, RevokeNextGrant(r) PROVE Inv'
<1> DEFINE cap == Min(req[r].caps)
           gone == [req[r] EXCEPT !.caps = @ \ {cap}]
           taken == [gone EXCEPT !.cap = cap, !.grants = @ \cup {cap}]
<1>1. /\ Fits("revoke", req[r]) /\ UNCHANGED <<clock, rows>> /\ pc[r] = "revoke"
      /\ req[r] \in Job /\ req[r].caps # {} /\ req[r].caps \subseteq Capabilities /\ ~req[r].agent
  BY DEF RevokeNextGrant, Inv, TypeOK, Job, Fits, Cascade
<1>2. cap \in Capabilities
  BY <1>1, MinExists, ConfirmationsAssumption
<1> HIDE DEF cap
<1>3. gone \in Job /\ taken \in Job
  BY <1>1, <1>2 DEF Job
<1>4. CASE req' = [req EXCEPT ![r].caps = @ \ {cap}] /\ UNCHANGED pc
  <2>1. PICK job \in Job : job = gone
    BY <1>3
  <2>2. /\ job.agent = req[r].agent /\ job.confs = req[r].confs /\ job.cut = req[r].cut
        /\ job.to = req[r].to /\ job.cap = req[r].cap
    BY <1>1, <2>1 DEF Job
  <2>3. Fits("revoke", job) /\ "revoke" \in PCs
    BY <1>1, <2>2 DEF Fits, Cascade, PCs
  <2>4. req' = [req EXCEPT ![r] = job] /\ pc' = [pc EXCEPT ![r] = "revoke"]
    BY <1>1, <1>4, <2>1 DEF Inv, TypeOK
  <2> QED
    BY <1>1, <2>2, <2>3, <2>4, GoOnInv
<1>5. CASE /\ req' = [req EXCEPT ![r].caps = @ \ {cap}, ![r].cap = cap, ![r].grants = @ \cup {cap}]
           /\ Goto(r, "select")
  <2>1. PICK job \in Job : job = taken
    BY <1>3
  <2>2. /\ job.agent = req[r].agent /\ job.confs = req[r].confs /\ job.cut = req[r].cut
        /\ job.to = req[r].to
    BY <1>1, <2>1 DEF Job
  <2>3. Fits("select", job) /\ "select" \in PCs
    BY <1>1, <2>2 DEF Fits, Cascade, PCs
  <2>4. req' = [req EXCEPT ![r] = job] /\ pc' = [pc EXCEPT ![r] = "select"]
    BY <1>5, <2>1 DEF Goto
  <2> QED
    BY <1>1, <2>2, <2>3, <2>4, GoOnInv
<1> QED
  BY <1>4, <1>5 DEF RevokeNextGrant, cap

LEMMA SelectRulesInv == ASSUME Inv, NEW r \in Requests, SelectRules(r) PROVE Inv'
<1> DEFINE live == {k \in Rules : rule[k].status = "live" /\ Affects(r, rule[k].cap)}
           i == [req[r] EXCEPT !.live = live]
<1>1. /\ Fits("cancel", req[r]) /\ req[r].todo = {} /\ UNCHANGED <<clock, rows>>
      /\ Goto(r, "revoke") /\ req[r] \in Job /\ req' = [req EXCEPT ![r] = i]
  BY DEF SelectRules, Inv, TypeOK
<1>2. live \in SUBSET Rules
  OBVIOUS
<1> HIDE DEF live
<1>3. PICK job \in Job : job = i
  BY <1>1, <1>2 DEF Job
<1>4. /\ job.agent = req[r].agent /\ job.confs = req[r].confs /\ job.cut = req[r].cut
      /\ job.to = req[r].to /\ job.cap = req[r].cap /\ job.caps = req[r].caps
  BY <1>1, <1>3 DEF Job
<1>5. Fits("revoke", job) /\ "revoke" \in PCs
  BY <1>1, <1>4 DEF Fits, Cascade, PCs
<1> QED
  BY <1>1, <1>3, <1>4, <1>5, GoOnInv DEF Goto

LEMMA RevokeNextRuleInv == ASSUME Inv, NEW r \in Requests, RevokeNextRule(r) PROVE Inv'
<1> DEFINE k == Min(req[r].live)
           locked == IF rule[k].status = "live" THEN req[r].rules \cup {k} ELSE req[r].rules
           i == [req[r] EXCEPT !.live = @ \ {k}, !.rules = locked]
<1>1. /\ Fits("revoke", req[r]) /\ UNCHANGED <<clock, rows, pc>> /\ pc[r] = "revoke"
      /\ req[r] \in Job /\ req[r].live # {} /\ req[r].live \subseteq Rules
      /\ req' = [req EXCEPT ![r] = i]
  BY DEF RevokeNextRule, Inv, TypeOK, Job
<1>2. k \in Rules
  BY <1>1, MinExists, ConfirmationsAssumption
<1> HIDE DEF k
<1>3. PICK job \in Job : job = i
  BY <1>1, <1>2 DEF Job
<1>4. /\ job.agent = req[r].agent /\ job.confs = req[r].confs /\ job.cut = req[r].cut
      /\ job.to = req[r].to /\ job.cap = req[r].cap /\ job.caps = req[r].caps
  BY <1>1, <1>3 DEF Job
<1>5. Fits("revoke", job) /\ "revoke" \in PCs
  BY <1>1, <1>4 DEF Fits, Cascade, PCs
<1>6. req' = [req EXCEPT ![r] = job] /\ pc' = [pc EXCEPT ![r] = "revoke"] /\ UNCHANGED <<clock, rows>>
  BY <1>1, <1>3 DEF Inv, TypeOK
<1> QED
  BY <1>4, <1>5, <1>6, GoOnInv

LEMMA SelectUsableInv == ASSUME Inv, NEW r \in Requests, SelectUsable(r) PROVE Inv'
<1> DEFINE todo == {c \in Confirmations : Affects(r, conf[c].cap) /\ Usable(c) /\ Unexpired(c, clock)}
           i == [req[r] EXCEPT !.now = clock, !.todo = todo]
<1>1. /\ Fits("select", req[r]) /\ UNCHANGED <<clock, rows>> /\ Goto(r, "cancel")
      /\ req[r] \in Job /\ clock \in Nat /\ req' = [req EXCEPT ![r] = i]
  BY DEF SelectUsable, Inv, TypeOK
<1>2. todo \in SUBSET Confirmations /\ \A c \in todo : Current(c)
  BY DEF Current
<1>3. req[r].cap = NoCap => \A c \in Confirmations : Current(c) => c \in todo
  BY DEF Current, Affects
<1> HIDE DEF todo
<1>4. i \in Job
  BY <1>1, <1>2 DEF Job
<1>5. PICK job \in Job : job = i
  BY <1>4
<1>6. /\ job.now = clock /\ job.todo = todo /\ job.agent = req[r].agent /\ job.confs = req[r].confs
      /\ job.cut = req[r].cut /\ job.to = req[r].to /\ job.cap = req[r].cap /\ job.caps = req[r].caps
  BY <1>1, <1>5 DEF Job
<1>7. Cascade(job)
  BY <1>1, <1>6 DEF Fits, Cascade
<1>8. job.agent => \A c \in Confirmations : Current(c) => c \in job.todo \cup job.cut
  BY <1>3, <1>6, <1>7 DEF Cascade
<1>9. Fits("cancel", job) /\ "cancel" \in PCs
  BY <1>1, <1>6, <1>7, <1>8 DEF Fits, PCs
<1> QED
  BY <1>1, <1>5, <1>6, <1>9, GoOnInv DEF Goto

LEMMA CancelNextInv == ASSUME Inv, NEW r \in Requests, CancelNext(r) PROVE Inv'
<1>1. /\ Fits("cancel", req[r]) /\ UNCHANGED <<clock, rows, pc>> /\ pc[r] = "cancel"
      /\ req[r] \in Job /\ req[r].todo # {} /\ req[r].todo \subseteq Confirmations
      /\ clock \in Nat /\ req[r].now \in Nat /\ \A d \in Confirmations : conf[d].expires \in Nat
  BY DEF CancelNext, Inv, TypeOK, Job, ConfRow
<1>2. PICK c \in req[r].todo : c = Min(req[r].todo) /\ \A d \in req[r].todo : c <= d
  BY <1>1, MinExists, ConfirmationsAssumption
<1> DEFINE still == Usable(c) /\ Unexpired(c, req[r].now)
           confs == IF still THEN req[r].confs \cup {c} ELSE req[r].confs
           cut == IF still THEN req[r].cut \cup {c} ELSE req[r].cut
           i == [req[r] EXCEPT !.todo = @ \ {c}, !.confs = confs, !.cut = cut]
<1>3. req' = [req EXCEPT ![r] = i] /\ ConfFree(r, c)
  BY <1>1, <1>2 DEF CancelNext
<1>4. i \in Job
  BY <1>1 DEF Job
<1>5. PICK job \in Job : job = i
  BY <1>4
<1>6. /\ job.todo = req[r].todo \ {c} /\ job.confs = confs /\ job.cut = cut
      /\ job.agent = req[r].agent
      /\ job.now = req[r].now /\ job.to = req[r].to /\ job.cap = req[r].cap /\ job.caps = req[r].caps
  BY <1>1, <1>5 DEF Job
<1>7. Cascade(job)
  BY <1>1, <1>6 DEF Fits, Cascade
<1>8. job.agent => \A d \in Confirmations : Current(d) => d \in job.todo \cup job.cut
  <2>1. Current(c) => still
    BY <1>1, <1>2 DEF Current, Unexpired, Fits
  <2>2. Current(c) => c \in job.cut
    BY <1>6, <2>1
  <2>3. req[r].cut \subseteq job.cut
    BY <1>6
  <2>4. job.agent => \A d \in Confirmations : Current(d) => d \in req[r].todo \cup req[r].cut
    BY <1>1, <1>6 DEF Fits
  <2> QED
    BY <1>6, <2>2, <2>3, <2>4
<1>9. Fits("cancel", job) /\ "cancel" \in PCs
  <2>1. \A held \in job.confs : conf[held].state # "none"
    BY <1>1, <1>6 DEF Fits, Usable
  <2>2. job.now <= clock
    BY <1>1, <1>6 DEF Fits
  <2> QED
    BY <1>7, <1>8, <2>1, <2>2 DEF Fits, PCs
<1>10. \A q \in Requests \ {r} : ~(job.agent /\ req[q].agent) /\ job.confs \cap req[q].confs = {}
  BY <1>3, <1>6 DEF Inv, Apart, ConfFree
<1>11. pc' = [pc EXCEPT ![r] = "cancel"] /\ UNCHANGED <<clock, agent, conf, rule, events>>
       /\ grant' = grant
  BY <1>1 DEF Inv, TypeOK, rows
<1> HIDE DEF i
<1> QED
  BY <1>3, <1>5, <1>9, <1>10, <1>11, QuietInv DEF Inv, TypeOK

LEMMA AbortInv == ASSUME Inv, NEW r \in Requests, Abort(r) PROVE Inv'
<1>1. UNCHANGED <<clock, agent, conf, rule, events>> /\ grant' = grant
  BY DEF Abort, rows
<1> QED
  BY <1>1, FinishInv DEF Abort, Inv, TypeOK

----------------------------------------------------------------------------
(* The steps that write a confirmation *)

\* One row is written, and one change of it to the outbox.
LEMMA RowWritten ==
  ASSUME Inv, NEW c \in Confirmations, NEW row \in ConfRow, NEW change \in Changes,
         conf' = [conf EXCEPT ![c] = row], Emit(c, change)
  PROVE  /\ conf' \in [Confirmations -> ConfRow] /\ events' \in [Confirmations -> [Changes -> Nat]]
         /\ conf'[c] = row /\ events'[c][change] = events[c][change] + 1
         /\ \A other \in Changes \ {change} : events'[c][other] = events[c][other]
         /\ \A d \in Confirmations \ {c} : conf'[d] = conf[d] /\ events'[d] = events[d]
         /\ RowOK(c)' => \A d \in Confirmations : RowOK(d)'
<1>1. conf \in [Confirmations -> ConfRow] /\ events \in [Confirmations -> [Changes -> Nat]]
  BY DEF Inv, TypeOK
<1>2. events' = [events EXCEPT ![c][change] = @ + 1]
  BY DEF Emit
<1>3. events[c] \in [Changes -> Nat] /\ events[c][change] + 1 \in Nat
  BY <1>1
<1>4. events'[c] = [events[c] EXCEPT ![change] = @ + 1]
  BY <1>1, <1>2
<1>5. \A d \in Confirmations \ {c} : conf'[d] = conf[d] /\ events'[d] = events[d]
  BY <1>1, <1>2
<1>6. \A d \in Confirmations \ {c} : RowOK(d)'
  BY <1>5 DEF Inv, RowOK
<1>7. events' \in [Confirmations -> [Changes -> Nat]]
  BY <1>1, <1>2, <1>3
<1> QED
  BY <1>1, <1>3, <1>4, <1>5, <1>6, <1>7

\* Nobody's transaction writes rows that nobody has locked.
LEMMA WroteInv ==
  ASSUME Inv, TypeOK', Shrinks, UNCHANGED <<clock, agent, pc, req>>,
         \A c \in Confirmations : RowOK(c)',
         \A q \in Requests : \A c \in req[q].confs : conf'[c] = conf[c]
  PROVE  Inv'
<1>0. clock <= clock' /\ clock' \in Nat
  BY DEF Inv, TypeOK
<1>1. Inbox'
  BY InboxShrinks DEF Inv
<1>2. PausedLeavesNothing'
  BY DEF Inv, PausedLeavesNothing, Shrinks, Current
<1>3. ASSUME NEW q \in Requests PROVE Fits(pc[q], req[q])'
  <2>1. PICK s \in PCs, j \in Job : s = pc[q] /\ j = req[q]
    BY DEF Inv, TypeOK
  <2>2. Fits(s, j) /\ Spares(j)
    BY <2>1 DEF Inv, Spares
  <2>3. Fits(s, j)'
    BY <1>0, <2>2, FitsStays
  <2> QED
    BY <2>1, <2>3
<1>4. Apart'
  BY DEF Inv, Apart
<1> QED
  BY <1>1, <1>2, <1>3, <1>4 DEF Inv

\* A transaction ends with a write of rows the others have not locked.
LEMMA CommitInv ==
  ASSUME Inv, TypeOK', Shrinks, clock' = clock, PausedLeavesNothing',
         \A c \in Confirmations : RowOK(c)', NEW r \in Requests, Finish(r),
         \A q \in Requests \ {r} : /\ \A c \in req[q].confs : conf'[c] = conf[c]
                                   /\ req[q].agent => agent' = agent
  PROVE  Inv'
<1>1. clock <= clock'
  BY DEF Inv, TypeOK
<1>2. Inbox'
  BY InboxShrinks DEF Inv
<1>3. ~NoJob.agent /\ NoJob.confs = {}
  BY DEF NoJob
<1>4. \A q \in Requests \ {r} : Spares(req[q])
  BY DEF Spares
<1>5. Apart' /\ \A q \in Requests : Fits(pc[q], req[q])'
  BY <1>1, <1>3, <1>4, NoJobFits, JobStep DEF Finish
<1> QED
  BY <1>2, <1>5 DEF Inv

\* What was not written yet of a row at some state.
LEMMA NotYet ==
  ASSUME Inv, NEW c \in Confirmations, Usable(c)
  PROVE  /\ events[c]["created"] = 1 /\ ~conf[c].used /\ events[c]["used"] = 0
         /\ \A end \in {"denied", "expired", "cancelled"} : events[c][end] = 0
         /\ conf[c].state = "pending" => events[c]["approved"] = 0
<1>1. RowOK(c) /\ events[c] \in [Changes -> Nat]
  BY DEF Inv, TypeOK
<1>2. \A change \in Changes : events[c][change] = 0 \/ events[c][change] = 1
  BY <1>1 DEF RowOK
<1>3. ~conf[c].used /\ conf[c].state \in {"pending", "approved"}
  BY <1>1 DEF RowOK, Usable
<1> QED
  BY <1>1, <1>2, <1>3 DEF RowOK, Changes

LEMMA MoveInv ==
  ASSUME Inv, NEW c \in Confirmations, NEW to \in {"approved", "denied", "expired", "cancelled"},
         Unlocked(c), Usable(c), to = "approved" => conf[c].state = "pending",
         conf' = [conf EXCEPT ![c].state = to], Emit(c, to),
         UNCHANGED <<clock, agent, grant, rule, pc, req>>
  PROVE  Inv'
<1>1. conf[c] \in ConfRow /\ [conf[c] EXCEPT !.state = to] \in ConfRow /\ to \in Changes
  BY DEF Inv, TypeOK, ConfRow, Changes
<1>2. PICK row \in ConfRow : row = [conf[c] EXCEPT !.state = to]
  BY <1>1
<1>3. row.state = to /\ row.used = conf[c].used /\ row.expires = conf[c].expires
  BY <1>1, <1>2 DEF ConfRow
<1>4. /\ conf' \in [Confirmations -> ConfRow] /\ events' \in [Confirmations -> [Changes -> Nat]]
      /\ conf'[c] = row /\ events'[c][to] = events[c][to] + 1
      /\ \A other \in Changes \ {to} : events'[c][other] = events[c][other]
      /\ \A d \in Confirmations \ {c} : conf'[d] = conf[d] /\ events'[d] = events[d]
      /\ RowOK(c)' => \A d \in Confirmations : RowOK(d)'
  <2>1. conf' = [conf EXCEPT ![c] = row] /\ Emit(c, to) /\ to \in Changes
    BY <1>1, <1>2
  <2> QED
    BY <2>1, RowWritten
<1>5. RowOK(c)'
  <2>1. events[c][to] = 0
    BY NotYet
  <2>2. events'[c][to] = 1 /\ \A other \in Changes \ {to} : events'[c][other] = events[c][other]
    BY <1>4, <2>1
  <2>3. \A change \in Changes : events'[c][change] <= 1
    BY <1>1, <2>2 DEF Inv, RowOK
  <2>4. conf'[c].state = to /\ ~conf'[c].used /\ events'[c]["created"] = 1 /\ events'[c]["used"] = 0
    BY <1>3, <1>4, <2>2, NotYet DEF Changes
  <2>5. \A end \in {"denied", "expired", "cancelled"} : (to = end) <=> (events'[c][end] = 1)
    BY <2>2, NotYet DEF Changes
  <2> QED
    BY <2>3, <2>4, <2>5 DEF RowOK
<1>6. Shrinks
  <2>1. Unexpired(c, clock)' => Unexpired(c, clock)
    BY <1>3, <1>4 DEF Unexpired
  <2>2. Usable(c) /\ conf'[c].state # "pending"
    BY <1>3, <1>4
  <2>3. ASSUME NEW d \in Confirmations \ {c} PROVE conf'[d] = conf[d]
    BY <1>4
  <2> QED
    BY <2>1, <2>2, <2>3 DEF Shrinks, Current, Usable, Unexpired, Pending
<1>7. TypeOK'
  BY <1>4 DEF Inv, TypeOK
<1>8. ASSUME NEW q \in Requests, NEW d \in req[q].confs PROVE conf'[d] = conf[d]
  <2>1. d \in Confirmations
    BY DEF Inv, TypeOK, Job
  <2>2. d # c
    BY DEF Unlocked
  <2> QED
    BY <1>4, <2>1, <2>2
<1> QED
  BY <1>4, <1>5, <1>6, <1>7, <1>8, WroteInv

LEMMA DecideInv ==
  ASSUME Inv, NEW c \in Confirmations, NEW to \in {"approved", "denied"}, Decide(c, to) PROVE Inv'
BY MoveInv DEF Decide, Usable

LEMMA ExpireInv == ASSUME Inv, NEW c \in Confirmations, Expire(c) PROVE Inv'
BY MoveInv DEF Expire, Usable

LEMMA CancelInv == ASSUME Inv, NEW c \in Confirmations, Cancel(c) PROVE Inv'
BY MoveInv DEF Cancel

LEMMA SpendInv == ASSUME Inv, NEW r \in Requests, Spend(r) PROVE Inv'
<1> PICK c \in Confirmations : c = req[r].conf
  BY DEF Spend, Inv, Fits
<1>1. /\ c \in req[r].confs /\ UNCHANGED <<clock, agent, grant, rule>> /\ Finish(r)
  BY DEF Spend, Inv, Fits
<1>2. CASE UNCHANGED <<conf, events>>
  BY <1>1, <1>2, FinishInv DEF Inv, TypeOK
<1>3. CASE /\ conf[c].state = "approved" /\ ~conf[c].used
           /\ conf' = [conf EXCEPT ![c].used = TRUE] /\ Emit(c, "used")
  <2>1. conf[c] \in ConfRow /\ [conf[c] EXCEPT !.used = TRUE] \in ConfRow /\ "used" \in Changes
    <3>1. conf[c] \in ConfRow
      BY DEF Inv, TypeOK
    <3> QED
      BY <3>1 DEF ConfRow, Changes
  <2>2. PICK row \in ConfRow : row = [conf[c] EXCEPT !.used = TRUE]
    BY <2>1
  <2>3. row.state = "approved" /\ row.used /\ row.expires = conf[c].expires
    BY <1>3, <2>1, <2>2 DEF ConfRow
  <2>4. /\ conf' \in [Confirmations -> ConfRow] /\ events' \in [Confirmations -> [Changes -> Nat]]
        /\ conf'[c] = row /\ events'[c]["used"] = events[c]["used"] + 1
        /\ \A other \in Changes \ {"used"} : events'[c][other] = events[c][other]
        /\ \A d \in Confirmations \ {c} : conf'[d] = conf[d] /\ events'[d] = events[d]
        /\ RowOK(c)' => \A d \in Confirmations : RowOK(d)'
    <3>1. conf' = [conf EXCEPT ![c] = row] /\ Emit(c, "used") /\ "used" \in Changes
      BY <1>3, <2>1, <2>2
    <3> QED
      BY <3>1, RowWritten
  <2>5. RowOK(c)'
    <3>1. events[c]["created"] = 1 /\ events[c]["used"] = 0
          /\ \A end \in {"denied", "expired", "cancelled"} : events[c][end] = 0
      BY <1>3, NotYet DEF Usable
    <3>2. events'[c]["used"] = 1
      BY <2>4, <3>1
    <3>3. \A change \in Changes : events'[c][change] <= 1
      BY <2>1, <2>4, <3>2 DEF Inv, RowOK
    <3>4. events'[c]["created"] = 1 /\ \A end \in {"denied", "expired", "cancelled"} : events'[c][end] = 0
      BY <2>4, <3>1 DEF Changes
    <3> QED
      BY <2>3, <2>4, <3>2, <3>3, <3>4 DEF RowOK
  <2>6. Shrinks
    <3>1. ~Usable(c)' /\ conf'[c].state # "pending"
      BY <2>3, <2>4 DEF Usable
    <3>2. \A d \in Confirmations \ {c} : conf'[d] = conf[d]
      BY <2>4
    <3> QED
      BY <1>1, <3>1, <3>2 DEF Shrinks, Current, Usable, Unexpired, Pending
  <2>7. TypeOK'
    BY <1>1, <2>4, NoJobFits DEF Inv, TypeOK, Finish
  <2>8. PausedLeavesNothing'
    BY <1>1, <2>6 DEF Inv, PausedLeavesNothing, Shrinks, Current
  <2>9. ASSUME NEW q \in Requests \ {r}, NEW d \in req[q].confs PROVE conf'[d] = conf[d]
    <3>1. d \in Confirmations /\ d # c
      BY <1>1 DEF Inv, TypeOK, Job, Apart
    <3> QED
      BY <2>4, <3>1
  <2> QED
    BY <1>1, <2>4, <2>5, <2>6, <2>7, <2>8, <2>9, CommitInv
<1> QED
  BY <1>2, <1>3 DEF Spend

LEMMA InsertRuleInv == ASSUME Inv, NEW r \in Requests, InsertRule(r) PROVE Inv'
<1> PICK c \in Confirmations : c = req[r].conf
  BY DEF InsertRule, Inv, Fits
<1>1. /\ c \in req[r].confs /\ UNCHANGED <<clock, agent, grant>> /\ Finish(r)
      /\ conf[c].state = "pending"
      /\ conf' = [conf EXCEPT ![c].state = "approved"] /\ Emit(c, "approved")
  BY DEF InsertRule, Inv, Fits
<1>2. rule' \in [Rules -> RuleRow]
  <2>1. PICK k \in Rules : rule' = [rule EXCEPT ![k] = [status |-> "live", cap |-> req[r].cap]]
    BY DEF InsertRule
  <2>2. req[r] \in Job
    BY DEF Inv, TypeOK
  <2>3. req[r].cap \in Capabilities \cup {NoCap}
    BY <2>2 DEF Job
  <2>4. [status |-> "live", cap |-> req[r].cap] \in RuleRow
    BY <2>3 DEF RuleRow
  <2> QED
    BY <2>1, <2>4 DEF Inv, TypeOK
<1>3. conf[c] \in ConfRow /\ [conf[c] EXCEPT !.state = "approved"] \in ConfRow /\ "approved" \in Changes
  <2>1. conf[c] \in ConfRow
    BY DEF Inv, TypeOK
  <2> QED
    BY <2>1 DEF ConfRow, Changes
<1>4. PICK row \in ConfRow : row = [conf[c] EXCEPT !.state = "approved"]
  BY <1>3
<1>5. row.state = "approved" /\ row.used = conf[c].used /\ row.expires = conf[c].expires
  BY <1>3, <1>4 DEF ConfRow
<1>6. /\ conf' \in [Confirmations -> ConfRow] /\ events' \in [Confirmations -> [Changes -> Nat]]
      /\ conf'[c] = row /\ events'[c]["approved"] = events[c]["approved"] + 1
      /\ \A other \in Changes \ {"approved"} : events'[c][other] = events[c][other]
      /\ \A d \in Confirmations \ {c} : conf'[d] = conf[d] /\ events'[d] = events[d]
      /\ RowOK(c)' => \A d \in Confirmations : RowOK(d)'
  <2>1. conf' = [conf EXCEPT ![c] = row] /\ Emit(c, "approved")
    BY <1>1, <1>4
  <2>2. "approved" \in Changes
    BY DEF Changes
  <2> QED
    BY <2>1, <2>2, RowWritten
<1>7. RowOK(c)'
  <2>1. events[c]["created"] = 1 /\ events[c]["used"] = 0 /\ ~conf[c].used
        /\ events[c]["approved"] = 0
        /\ \A end \in {"denied", "expired", "cancelled"} : events[c][end] = 0
    BY <1>1, NotYet DEF Usable
  <2>2. events'[c]["approved"] = 1
    BY <1>6, <2>1
  <2>3. \A change \in Changes : events'[c][change] <= 1
    BY <1>3, <1>6, <2>2 DEF Inv, RowOK
  <2>4. /\ events'[c]["created"] = 1 /\ events'[c]["used"] = 0
        /\ \A end \in {"denied", "expired", "cancelled"} : events'[c][end] = 0
    BY <1>6, <2>1 DEF Changes
  <2> QED
    BY <1>5, <1>6, <2>1, <2>3, <2>4 DEF RowOK
<1>8. Shrinks
  <2>1. conf'[c].state # "pending" /\ conf'[c].expires = conf[c].expires /\ Usable(c)
    BY <1>1, <1>5, <1>6 DEF Usable
  <2>2. \A d \in Confirmations \ {c} : conf'[d] = conf[d]
    BY <1>6
  <2> QED
    BY <1>1, <2>1, <2>2 DEF Shrinks, Current, Usable, Unexpired, Pending
<1>9. TypeOK'
  BY <1>1, <1>2, <1>6, NoJobFits DEF Inv, TypeOK, Finish
<1>10. PausedLeavesNothing'
  BY <1>1, <1>8 DEF Inv, PausedLeavesNothing, Shrinks, Current
<1>11. ASSUME NEW q \in Requests \ {r}, NEW d \in req[q].confs PROVE conf'[d] = conf[d]
  <2>1. d \in Confirmations /\ d # c
    BY <1>1 DEF Inv, TypeOK, Job, Apart
  <2> QED
    BY <1>6, <2>1
<1> QED
  BY <1>1, <1>6, <1>7, <1>8, <1>9, <1>10, <1>11, CommitInv

\* A request is created while its agent is locked and active, so that no
\* cascade is under way which would have had to cancel it.
LEMMA InsertConfInv == ASSUME Inv, NEW r \in Requests, InsertConf(r) PROVE Inv'
<1>1. PICK c \in Confirmations :
        /\ conf[c].state = "none"
        /\ conf' = [conf EXCEPT ![c] =
                      [state |-> IF req[r].byRule THEN "approved" ELSE "pending",
                       used |-> FALSE, cap |-> req[r].cap, expires |-> req[r].now + TTL]]
        /\ Emit(c, "created")
  BY DEF InsertConf
<1>2. /\ UNCHANGED <<clock, agent, grant, rule>> /\ Finish(r)
      /\ agent = "active" /\ req[r].agent /\ Cardinality(Pending(clock)) < MaxPending
  BY DEF InsertConf, Inv, Fits
<1>3. PICK row \in ConfRow :
        row = [state |-> IF req[r].byRule THEN "approved" ELSE "pending",
               used |-> FALSE, cap |-> req[r].cap, expires |-> req[r].now + TTL]
  <2>1. req[r].cap \in Capabilities \cup {NoCap} /\ req[r].now + TTL \in Nat
    <3>1. req[r] \in Job
      BY DEF Inv, TypeOK
    <3>2. req[r].cap \in Capabilities \cup {NoCap} /\ req[r].now \in Nat
      BY <3>1 DEF Job
    <3>3. TTL \in Nat
      BY ConfirmationsAssumption
    <3> QED
      BY <3>2, <3>3
  <2>2. (IF req[r].byRule THEN "approved" ELSE "pending") \in {"approved", "pending"}
    OBVIOUS
  <2> QED
    BY <2>1, <2>2 DEF ConfRow
<1>4. row.state \in {"approved", "pending"} /\ ~row.used
  BY <1>3
<1>5. /\ conf' \in [Confirmations -> ConfRow] /\ events' \in [Confirmations -> [Changes -> Nat]]
      /\ conf'[c] = row /\ events'[c]["created"] = events[c]["created"] + 1
      /\ \A other \in Changes \ {"created"} : events'[c][other] = events[c][other]
      /\ \A d \in Confirmations \ {c} : conf'[d] = conf[d] /\ events'[d] = events[d]
      /\ RowOK(c)' => \A d \in Confirmations : RowOK(d)'
  <2>1. conf' = [conf EXCEPT ![c] = row] /\ Emit(c, "created")
    BY <1>1, <1>3
  <2>2. "created" \in Changes
    BY DEF Changes
  <2> QED
    BY <2>1, <2>2, RowWritten
<1>6. RowOK(c)'
  <2>1. RowOK(c) /\ events[c] \in [Changes -> Nat]
    BY DEF Inv, TypeOK
  <2>2. \A change \in Changes : events[c][change] = 0 \/ events[c][change] = 1
    BY <2>1 DEF RowOK
  <2>3. /\ events[c]["created"] = 0 /\ events[c]["used"] = 0 /\ events[c]["approved"] = 0
        /\ \A end \in {"denied", "expired", "cancelled"} : events[c][end] = 0
    BY <1>1, <2>1, <2>2 DEF RowOK, Changes
  <2>4. /\ events'[c]["created"] = 1 /\ events'[c]["used"] = 0 /\ events'[c]["approved"] = 0
        /\ \A end \in {"denied", "expired", "cancelled"} : events'[c][end] = 0
    BY <1>5, <2>3 DEF Changes
  <2>5. \A change \in Changes : events'[c][change] <= 1
    BY <1>5, <2>2, <2>4
  <2> QED
    BY <1>4, <1>5, <2>4, <2>5 DEF RowOK
<1>7. TypeOK'
  BY <1>2, <1>5, NoJobFits DEF Inv, TypeOK, Finish
<1>8. Inbox'
  <2>1. Pending(clock)' \in SUBSET (Pending(clock) \cup {c})
    BY <1>2, <1>5 DEF Pending, Unexpired
  <2>2. /\ IsFiniteSet(Pending(clock) \cup {c})
        /\ Cardinality(Pending(clock) \cup {c}) <= Cardinality(Pending(clock)) + 1
    <3>1. PICK pending : pending = Pending(clock)
      OBVIOUS
    <3>2. IsFiniteSet(pending) /\ Cardinality(pending) \in Nat
      BY <3>1, FS_CardinalityType DEF Inv, Inbox
    <3>3. /\ IsFiniteSet(pending \cup {c})
          /\ Cardinality(pending \cup {c}) =
                IF c \in pending THEN Cardinality(pending) ELSE Cardinality(pending) + 1
      BY <3>2, FS_AddElement
    <3>4. Cardinality(pending \cup {c}) <= Cardinality(pending) + 1
      BY <3>2, <3>3
    <3> QED
      BY <3>1, <3>3, <3>4
  <2>3. /\ IsFiniteSet(Pending(clock)')
        /\ Cardinality(Pending(clock)') <= Cardinality(Pending(clock) \cup {c})
    BY <2>1, <2>2, FS_Subset
  <2>4. /\ Cardinality(Pending(clock)) \in Nat /\ Cardinality(Pending(clock)') \in Nat
        /\ Cardinality(Pending(clock) \cup {c}) \in Nat
    BY <2>2, <2>3, FS_CardinalityType DEF Inv, Inbox
  <2>5. Cardinality(Pending(clock)') <= MaxPending
    BY <1>2, <2>2, <2>3, <2>4, ConfirmationsAssumption
  <2> QED
    BY <2>3, <2>5 DEF Inbox, PendingBounded
<1>9. PausedLeavesNothing'
  BY <1>2 DEF PausedLeavesNothing
<1>10. ASSUME NEW q \in Requests \ {r} PROVE Spares(req[q])
  <2>1. ~req[q].agent
    BY <1>2 DEF Inv, Apart
  <2>2. ASSUME NEW d \in req[q].confs PROVE conf'[d] = conf[d]
    <3>1. d \in Confirmations
      BY DEF Inv, TypeOK, Job
    <3>2. conf[d].state # "none"
      BY DEF Inv, Fits
    <3> QED
      BY <1>1, <1>5, <3>1, <3>2
  <2> QED
    BY <2>1, <2>2 DEF Spares
<1>11. clock <= clock' /\ ~NoJob.agent /\ NoJob.confs = {}
  BY <1>2 DEF Inv, TypeOK, NoJob
<1>12. Apart' /\ \A q \in Requests : Fits(pc[q], req[q])'
  BY <1>2, <1>7, <1>10, <1>11, NoJobFits, JobStep DEF Finish
<1> QED
  BY <1>5, <1>6, <1>7, <1>8, <1>9, <1>12 DEF Inv

\* A cascade cancels what it cut; when it has the agent that is all there was.
LEMMA CommitCascadeInv == ASSUME Inv, NEW r \in Requests, CommitCascade(r) PROVE Inv'
<1> PICK cut \in SUBSET Confirmations : cut = req[r].cut
  <2>1. req[r] \in Job
    BY DEF Inv, TypeOK
  <2> QED
    BY <2>1 DEF Job
<1>1. /\ Fits("revoke", req[r]) /\ Finish(r) /\ UNCHANGED clock
      /\ conf' = [c \in Confirmations |->
                    IF c \in cut THEN [conf[c] EXCEPT !.state = "cancelled"] ELSE conf[c]]
      /\ events' = [c \in Confirmations |->
                      IF c \in cut THEN [events[c] EXCEPT !["cancelled"] = @ + 1] ELSE events[c]]
      /\ agent' = IF req[r].agent THEN req[r].to ELSE agent
  BY DEF CommitCascade, Inv
<1>2. cut \subseteq req[r].confs /\ \A c \in cut : Usable(c)
  BY <1>1 DEF Fits, Cascade
<1>3. ASSUME NEW c \in Confirmations
      PROVE  conf'[c] \in ConfRow /\ events'[c] \in [Changes -> Nat] /\ RowOK(c)'
  <2>1. conf[c] \in ConfRow /\ events[c] \in [Changes -> Nat] /\ RowOK(c)
    BY DEF Inv, TypeOK
  <2>2. CASE c \notin cut
    <3>1. conf'[c] = conf[c] /\ events'[c] = events[c]
      BY <1>1, <2>2
    <3> QED
      BY <2>1, <3>1 DEF RowOK
  <2>3. CASE c \in cut
    <3>1. /\ events[c]["created"] = 1 /\ ~conf[c].used /\ events[c]["used"] = 0
          /\ \A end \in {"denied", "expired", "cancelled"} : events[c][end] = 0
      BY <1>2, <2>3, NotYet
    <3>2. /\ conf'[c] = [conf[c] EXCEPT !.state = "cancelled"]
          /\ events'[c] = [events[c] EXCEPT !["cancelled"] = @ + 1]
      BY <1>1, <2>3
    <3>3. conf'[c] \in ConfRow /\ conf'[c].state = "cancelled" /\ ~conf'[c].used
      BY <2>1, <3>1, <3>2 DEF ConfRow
    <3>4. /\ events'[c] \in [Changes -> Nat] /\ events'[c]["cancelled"] = 1
          /\ \A other \in Changes \ {"cancelled"} : events'[c][other] = events[c][other]
      BY <2>1, <3>1, <3>2 DEF Changes
    <3>5. \A change \in Changes : events'[c][change] <= 1
      BY <2>1, <3>4 DEF RowOK
    <3>6. /\ events'[c]["created"] = 1 /\ events'[c]["used"] = 0
          /\ events'[c]["denied"] = 0 /\ events'[c]["expired"] = 0
      BY <3>1, <3>4 DEF Changes
    <3> QED
      BY <3>3, <3>4, <3>5, <3>6 DEF RowOK
  <2> QED
    BY <2>2, <2>3
<1>4. Shrinks
  <2>1. ASSUME NEW c \in cut PROVE ~Usable(c)' /\ conf'[c].state # "pending"
    <3>1. conf'[c].state = "cancelled"
      BY <1>1, <2>1 DEF Inv, TypeOK, ConfRow
    <3> QED
      BY <3>1 DEF Usable
  <2>2. \A c \in Confirmations \ cut : conf'[c] = conf[c]
    BY <1>1
  <2> QED
    BY <1>1, <2>1, <2>2 DEF Shrinks, Current, Usable, Unexpired, Pending
<1>5. TypeOK'
  <2>1. conf' \in [Confirmations -> ConfRow] /\ events' \in [Confirmations -> [Changes -> Nat]]
    BY <1>1, <1>3
  <2>2. rule' \in [Rules -> RuleRow]
    <3>1. rule \in [Rules -> RuleRow]
      BY DEF Inv, TypeOK
    <3> QED
      BY <3>1 DEF CommitCascade, RuleRow
  <2>3. agent' \in {"active", "paused", "revoked"}
    BY <1>1 DEF Fits, Cascade, Inv, TypeOK
  <2>4. grant' \in SUBSET Capabilities
    BY DEF CommitCascade, Inv, TypeOK
  <2>5. pc' \in [Requests -> PCs] /\ req' \in [Requests -> Job]
    BY <1>1, NoJobFits DEF Finish, Inv, TypeOK
  <2> QED
    BY <1>1, <2>1, <2>2, <2>3, <2>4, <2>5 DEF Inv, TypeOK
<1>6. PausedLeavesNothing'
  <2>1. CASE req[r].agent
    <3>1. \A c \in Confirmations : Current(c) => c \in cut
      BY <1>1, <2>1 DEF Fits
    <3>2. ASSUME NEW c \in Confirmations, Current(c)' PROVE FALSE
      <4>1. c \in cut /\ Usable(c)'
        BY <1>4, <3>1, <3>2 DEF Shrinks, Current
      <4>2. conf'[c].state = "cancelled"
        BY <1>1, <4>1 DEF Inv, TypeOK, ConfRow
      <4> QED
        BY <4>1, <4>2 DEF Usable
    <3> QED
      BY <3>2 DEF PausedLeavesNothing, Current
  <2>2. CASE ~req[r].agent
    BY <1>1, <1>4, <2>2 DEF Inv, PausedLeavesNothing, Shrinks, Current
  <2> QED
    BY <2>1, <2>2
<1>7. ASSUME NEW q \in Requests \ {r} PROVE req[q].agent => agent' = agent
  BY <1>1 DEF Inv, Apart
<1>8. ASSUME NEW q \in Requests \ {r}, NEW c \in req[q].confs PROVE conf'[c] = conf[c]
  <2>1. c \in Confirmations
    BY DEF Inv, TypeOK, Job
  <2>2. c \notin cut
    BY <1>2 DEF Inv, Apart
  <2> QED
    BY <1>1, <2>1, <2>2
<1> QED
  BY <1>1, <1>3, <1>4, <1>5, <1>6, <1>7, <1>8, CommitInv

----------------------------------------------------------------------------
(* The theorems *)

LEMMA NextInv == Inv /\ [Next]_vars => Inv'
<1> SUFFICES ASSUME Inv, [Next]_vars PROVE Inv'
  OBVIOUS
<1>1. CASE UNCHANGED vars
  <2>1. UNCHANGED <<clock, agent, grant, conf, rule, events, pc, req>>
    BY <1>1 DEF vars
  <2>2. TypeOK' /\ clock <= clock'
    BY <2>1 DEF Inv, TypeOK
  <2> QED
    BY <2>1, <2>2, OutsideInv
<1>2. CASE Single
  BY <1>2, AroundInv, DecideInv, ExpireInv, CancelInv DEF Single
<1>3. ASSUME NEW r \in Requests, Begins(r) PROVE Inv'
  BY <1>3, CreateInv, PutGrantInv, DeleteGrantInv, RevokeBeyondHostInv, ConsumeInv, DecideStandingInv,
     ChangeStatusInv, RetireAgentInv, ResumeInv DEF Begins
<1>4. ASSUME NEW r \in Requests, Continues(r) PROVE Inv'
  BY <1>4, LockConfInv, CheckAuthorityInv, ReadRulesInv, InsertConfInv, SpendInv, InsertRuleInv,
     WriteGrantInv, SelectUsableInv, CancelNextInv, SelectRulesInv, RevokeNextRuleInv,
     RevokeNextGrantInv, CommitCascadeInv DEF Continues
<1>5. ASSUME NEW r \in Requests, Abort(r) PROVE Inv'
  BY <1>5, AbortInv
<1> QED
  BY <1>1, <1>2, <1>3, <1>4, <1>5 DEF Next

THEOREM Invariant == Spec => []Inv
BY InitInv, NextInv, PTL DEF Spec

\* Every change of a confirmation is written to the outbox once, and what was
\* written tells its state, for any number of racing transactions.
THEOREM ChangesOnce == Spec => []EachChangeOnce
<1>1. Inv => EachChangeOnce
  BY DEF Inv, RowOK, EachChangeOnce
<1> QED
  BY <1>1, Invariant, PTL

\* While its agent is paused or revoked nothing of it can be spent or decided.
THEOREM PauseCutsAll == Spec => []PausedLeavesNothing
<1>1. Inv => PausedLeavesNothing
  BY DEF Inv
<1> QED
  BY <1>1, Invariant, PTL

\* The owner's inbox is bounded, however many services ask at once.
THEOREM InboxBounded == Spec => []PendingBounded
<1>1. Inv => PendingBounded
  BY DEF Inv, Inbox
<1> QED
  BY <1>1, Invariant, PTL

LEMMA OnlySpendUses ==
  ASSUME Inv, [Next]_vars, NEW c \in Confirmations, ~conf[c].used, conf'[c].used
  PROVE  agent = "active"
<1>1. ASSUME NEW r \in Requests, Spend(r) PROVE agent = "active"
  BY <1>1 DEF Spend, Inv, Fits
<1>2. conf' # conf
  OBVIOUS
<1>3. conf \in [Confirmations -> ConfRow]
  BY DEF Inv, TypeOK
<1>4. ASSUME NEW d \in Confirmations, NEW to, conf' = [conf EXCEPT ![d].state = to] PROVE FALSE
  BY <1>3, <1>4 DEF ConfRow
<1>5. CASE Single
  BY <1>2, <1>4, <1>5 DEF Single, Tick, Decide, Expire, Cancel, RevokeRule, rows
<1>6. ASSUME NEW r \in Requests, Begins(r) PROVE FALSE
  BY <1>2, <1>6 DEF Begins, Create, PutGrant, DeleteGrant, RevokeBeyondHost, Consume, DecideStanding, ChangeStatus,
     RetireAgent, Resume, rows
<1>7. ASSUME NEW r \in Requests, InsertConf(r) PROVE FALSE
  BY <1>3, <1>7 DEF InsertConf
<1>8. ASSUME NEW r \in Requests, InsertRule(r) PROVE FALSE
  <2>1. req[r].conf \in Confirmations
    BY <1>8 DEF InsertRule, Inv, Fits
  <2> QED
    BY <1>4, <1>8, <2>1 DEF InsertRule
<1>9. ASSUME NEW r \in Requests, CommitCascade(r) PROVE FALSE
  BY <1>3, <1>9 DEF CommitCascade, ConfRow
<1>10. ASSUME NEW r \in Requests, Continues(r) PROVE Spend(r)
  BY <1>2, <1>7, <1>8, <1>9, <1>10 DEF Continues, LockConf, CheckAuthority, ReadRules, WriteGrant,
     SelectUsable, CancelNext, SelectRules, RevokeNextRule, RevokeNextGrant, rows
<1>11. ASSUME NEW r \in Requests, Abort(r) PROVE FALSE
  BY <1>2, <1>11 DEF Abort, rows
<1>12. ~UNCHANGED vars
  BY <1>2 DEF vars
<1> QED
  BY <1>1, <1>5, <1>6, <1>10, <1>11, <1>12 DEF Next

\* An approval is spent only while its agent is active.
THEOREM SpendsWhileActive == Spec => SpentWhileActive
<1>1. Inv /\ [Next]_vars =>
        \A c \in Confirmations : (~conf[c].used /\ conf[c].used') => agent = "active"
  BY OnlySpendUses
<1> QED
  BY <1>1, Invariant, PTL DEF Spec, SpentWhileActive

----------------------------------------------------------------------------
(* The order of locks *)

Cascading == {"select", "cancel", "revoke"}

\* What its cascade may write: all of an agent it has locked, and what is of a
\* capability whose grant it has.
Owns(job, cap) == job.agent \/ cap \in job.grants

Several(job) == \E first, second \in job.grants : first # second

\* Grants are taken in the order of capabilities, and for one grant, or for the
\* agent, first confirmations and then rules in the order of ids.
Climbs(step, job) ==
    /\ \A held \in job.grants, cap \in job.caps : held < cap
    /\ step \in {"select", "revoke"} => job.todo = {}
    /\ step = "select" => Several(job) \/ (job.confs = {} /\ job.rules = {})
    /\ step = "cancel" => \/ Several(job)
                          \/ /\ job.rules = {}
                             /\ \A held \in job.confs, c \in job.todo : held < c
    /\ step = "revoke" => \/ Several(job)
                          \/ \A held \in job.rules, k \in job.live : held < k

Ordered(step, job) ==
    /\ step \notin Cascading => job.grants = {} /\ job.rules = {} /\ job.caps = {}
    /\ step \in Cascading =>
          /\ job.agent => job.op \in {"status", "retire"} /\ job.grants = {}
          /\ job.op # "beyond_host" => job.caps = {} /\ ~Several(job)
          /\ \A c \in job.confs \cup job.todo : conf[c].state # "none" /\ Owns(job, conf[c].cap)
          /\ \A k \in job.rules \cup job.live : rule[k].status # "none" /\ Owns(job, rule[k].cap)
          /\ Climbs(step, job)
    /\ step \in {"select", "cancel"} => Owns(job, job.cap)

LocksApart == \A r, q \in Requests : r # q =>
    /\ req[r].grants \cap req[q].grants = {}
    /\ req[r].rules \cap req[q].rules = {}

LockOrder == Inv /\ LocksApart /\ \A r \in Requests : Ordered(pc[r], req[r])

\* What a row is about does not change.
Stands ==
    /\ \A c \in Confirmations :
          conf[c].state # "none" => conf'[c].state # "none" /\ conf'[c].cap = conf[c].cap
    /\ \A k \in Rules :
          rule[k].status # "none" => rule'[k].status # "none" /\ rule'[k].cap = rule[k].cap

LEMMA RowsStand == ASSUME Inv, [Next]_vars PROVE Stands
<1>0. conf \in [Confirmations -> ConfRow] /\ rule \in [Rules -> RuleRow]
  BY DEF Inv, TypeOK
<1>1. ASSUME UNCHANGED <<conf, rule>> PROVE Stands
  BY <1>1 DEF Stands
<1>2. ASSUME NEW c \in Confirmations, NEW to \in Changes \ {"created", "used"},
             conf' = [conf EXCEPT ![c].state = to],
             \A k \in Rules : rule[k].status # "none" => rule'[k] = rule[k]
      PROVE  Stands
  BY <1>0, <1>2 DEF Stands, ConfRow, Changes
<1>3. CASE UNCHANGED vars
  BY <1>1, <1>3 DEF vars
<1>4. CASE Single
  <2>1. CASE Tick
    BY <1>1, <2>1 DEF Tick, rows
  <2>2. ASSUME NEW c \in Confirmations, NEW to \in {"approved", "denied"}, Decide(c, to) PROVE Stands
    BY <1>2, <2>2 DEF Decide, Changes
  <2>3. ASSUME NEW c \in Confirmations, Expire(c) \/ Cancel(c) PROVE Stands
    BY <1>2, <2>3 DEF Expire, Cancel, Changes
  <2>4. ASSUME NEW k \in Rules, RevokeRule(k) PROVE Stands
    BY <1>0, <2>4 DEF RevokeRule, Stands, RuleRow
  <2> QED
    BY <1>4, <2>1, <2>2, <2>3, <2>4 DEF Single
<1>5. ASSUME NEW r \in Requests, Begins(r) \/ Abort(r) PROVE Stands
  BY <1>1, <1>5 DEF Begins, Abort, Create, PutGrant, DeleteGrant, RevokeBeyondHost, Consume,
     DecideStanding, ChangeStatus, RetireAgent, Resume, rows
<1>6. ASSUME NEW r \in Requests, InsertConf(r) PROVE Stands
  BY <1>0, <1>6 DEF InsertConf, Stands
<1>7. ASSUME NEW r \in Requests, Spend(r) PROVE Stands
  BY <1>0, <1>7 DEF Spend, Stands, ConfRow
<1>8. ASSUME NEW r \in Requests, InsertRule(r) PROVE Stands
  <2>1. req[r].conf \in Confirmations
    BY <1>8 DEF InsertRule, Inv, Fits
  <2>2. PICK k \in Rules : /\ rule[k].status = "none"
                           /\ rule' = [rule EXCEPT ![k] = [status |-> "live", cap |-> req[r].cap]]
    BY <1>8 DEF InsertRule
  <2>3. \A j \in Rules : rule[j].status # "none" => rule'[j] = rule[j]
    BY <1>0, <2>2
  <2>4. conf' = [conf EXCEPT ![req[r].conf].state = "approved"]
    BY <1>8 DEF InsertRule
  <2>5. "approved" \in Changes \ {"created", "used"}
    BY DEF Changes
  <2> QED
    BY <1>2, <2>1, <2>3, <2>4, <2>5
<1>9. ASSUME NEW r \in Requests, CommitCascade(r) PROVE Stands
  BY <1>0, <1>9 DEF CommitCascade, Stands, ConfRow, RuleRow
<1>10. ASSUME NEW r \in Requests, Continues(r) PROVE Stands
  BY <1>1, <1>6, <1>7, <1>8, <1>9, <1>10 DEF Continues, LockConf, CheckAuthority, ReadRules,
     WriteGrant, SelectUsable, CancelNext, SelectRules, RevokeNextRule, RevokeNextGrant, rows
<1> QED
  BY <1>3, <1>4, <1>5, <1>10 DEF Next

\* The transactions after a step of r that leaves it at step with job.
LEMMA OrderStep ==
  ASSUME LockOrder, Inv', Stands, NEW r \in Requests, NEW step, NEW job \in Job,
         pc' = [pc EXCEPT ![r] = step], req' = [req EXCEPT ![r] = job], Ordered(step, job),
         \A q \in Requests \ {r} : /\ job.grants \cap req[q].grants = {}
                                   /\ job.rules \cap req[q].rules = {}
  PROVE  LockOrder'
<1>1. pc \in [Requests -> PCs] /\ req \in [Requests -> Job]
  BY DEF LockOrder, Inv, TypeOK
<1>2. pc'[r] = step /\ req'[r] = job
  BY <1>1
<1>3. \A q \in Requests \ {r} : pc'[q] = pc[q] /\ req'[q] = req[q]
  BY <1>1
<1>4. LocksApart'
  <2> SUFFICES ASSUME NEW a \in Requests, NEW b \in Requests, a # b
               PROVE  /\ req'[a].grants \cap req'[b].grants = {}
                      /\ req'[a].rules \cap req'[b].rules = {}
    BY DEF LocksApart
  <2>1. CASE a # r /\ b # r
    BY <1>3, <2>1 DEF LockOrder, LocksApart
  <2>2. CASE a = r
    BY <1>2, <1>3, <2>2
  <2>3. CASE b = r
    BY <1>2, <1>3, <2>3
  <2> QED
    BY <2>1, <2>2, <2>3
<1>5. ASSUME NEW s, NEW j \in Job, Ordered(s, j) PROVE Ordered(s, j)'
  <2>1. j.confs \cup j.todo \subseteq Confirmations /\ j.rules \cup j.live \subseteq Rules
    BY DEF Job
  <2> QED
    BY <1>5, <2>1 DEF Ordered, Stands, Owns, Several, Climbs
<1>6. ASSUME NEW q \in Requests PROVE Ordered(pc[q], req[q])'
  <2>1. Ordered(step, job)'
    BY <1>5
  <2>2. CASE q = r
    BY <1>2, <2>1, <2>2
  <2>3. CASE q # r
    <3>1. PICK s \in PCs, j \in Job : s = pc[q] /\ j = req[q] /\ Ordered(s, j)
      BY <1>1 DEF LockOrder
    <3>2. Ordered(s, j)'
      BY <1>5, <3>1
    <3> QED
      BY <1>3, <2>3, <3>1, <3>2
  <2> QED
    BY <2>2, <2>3
<1> QED
  BY <1>4, <1>6 DEF LockOrder

\* A transaction that has ended, or nobody's step, leaves nothing to order.
LEMMA FinishOrder ==
  ASSUME LockOrder, Inv', Stands, NEW r \in Requests, Finish(r)
  PROVE  LockOrder'
<1>1. NoJob \in Job /\ NoJob.grants = {} /\ NoJob.rules = {} /\ NoJob.caps = {}
  BY NoJobFits DEF NoJob
<1>2. Ordered("idle", NoJob)
  BY <1>1 DEF Ordered, Cascading
<1> QED
  BY <1>1, <1>2, OrderStep DEF Finish

LEMMA OutsideOrder ==
  ASSUME LockOrder, Inv', Stands, UNCHANGED <<pc, req>>
  PROVE  LockOrder'
<1>1. CASE Requests = {}
  BY <1>1 DEF LockOrder, LocksApart
<1>2. CASE Requests # {}
  <2>1. PICK r \in Requests : TRUE
    BY <1>2
  <2>2. pc \in [Requests -> PCs] /\ req \in [Requests -> Job]
    BY DEF LockOrder, Inv, TypeOK
  <2>3. PICK job \in Job : job = req[r]
    BY <2>2
  <2>4. PICK step \in PCs : step = pc[r]
    BY <2>2
  <2>5. pc' = [pc EXCEPT ![r] = step] /\ req' = [req EXCEPT ![r] = job]
    BY <2>2, <2>3, <2>4
  <2>6. Ordered(step, job) /\ \A q \in Requests \ {r} : /\ job.grants \cap req[q].grants = {}
                                                        /\ job.rules \cap req[q].rules = {}
    BY <2>3, <2>4 DEF LockOrder, LocksApart
  <2> QED
    BY <2>5, <2>6, OrderStep
<1> QED
  BY <1>1, <1>2

\* A transaction that is no cascade has no grant and no rule.
LEMMA PlainOrder ==
  ASSUME LockOrder, Inv', Stands, NEW r \in Requests, NEW step, step \notin Cascading,
         NEW job \in Job, job.grants = {}, job.rules = {}, job.caps = {},
         pc' = [pc EXCEPT ![r] = step], req' = [req EXCEPT ![r] = job]
  PROVE  LockOrder'
<1>1. Ordered(step, job)
  BY DEF Ordered, Cascading
<1> QED
  BY <1>1, OrderStep

LEMMA BeginsOrder ==
  ASSUME LockOrder, Inv', Stands, NEW r \in Requests, Begins(r)
  PROVE  LockOrder'
<1>0. req' \in [Requests -> Job] /\ req \in [Requests -> Job]
  BY DEF LockOrder, Inv, TypeOK
<1>1. ASSUME NEW step, step \notin Cascading, NEW job, Begin(r, job, step),
             job.grants = {}, job.rules = {}, job.caps = {}
      PROVE  LockOrder'
  <2>1. req' = [req EXCEPT ![r] = job]
    BY <1>1 DEF Begin
  <2>2. job \in Job
    BY <1>0, <2>1
  <2> QED
    BY <1>1, <2>1, <2>2, PlainOrder DEF Begin
<1>2. ASSUME NEW cap \in Capabilities, Create(r, cap) PROVE LockOrder'
  BY <1>1, <1>2 DEF Create, NoJob, Cascading
<1>3. ASSUME NEW cap \in Capabilities, PutGrant(r, cap) PROVE LockOrder'
  BY <1>1, <1>3 DEF PutGrant, NoJob, Cascading
<1>4. ASSUME NEW c \in Confirmations, Consume(r, c) PROVE LockOrder'
  BY <1>1, <1>4 DEF Consume, NoJob, Cascading
<1>5. ASSUME NEW c \in Confirmations, DecideStanding(r, c) PROVE LockOrder'
  BY <1>1, <1>5 DEF DecideStanding, NoJob, Cascading
<1>6. ASSUME NEW cap \in Capabilities, DeleteGrant(r, cap) PROVE LockOrder'
  <2>1. req' = [req EXCEPT ![r] = [NoJob EXCEPT !.op = "delete_grant", !.cap = cap, !.grants = {cap}]]
    BY <1>6 DEF DeleteGrant, Begin
  <2>2. PICK job \in Job : job = [NoJob EXCEPT !.op = "delete_grant", !.cap = cap, !.grants = {cap}]
    BY <1>0, <2>1
  <2>3. /\ job.op = "delete_grant" /\ ~job.agent /\ job.grants = {cap} /\ job.caps = {} /\ job.cap = cap
        /\ job.confs = {} /\ job.todo = {} /\ job.rules = {} /\ job.live = {}
    BY <2>2 DEF NoJob
  <2>4. Ordered("select", job)
    BY <2>3 DEF Ordered, Climbs, Owns, Several, Cascading
  <2>5. \A q \in Requests \ {r} : /\ job.grants \cap req[q].grants = {}
                                  /\ job.rules \cap req[q].rules = {}
    BY <1>6, <2>3 DEF DeleteGrant, GrantFree
  <2> QED
    BY <1>6, <2>1, <2>2, <2>4, <2>5, OrderStep DEF DeleteGrant, Begin
<1>7. ASSUME NEW caps \in SUBSET Capabilities, RevokeBeyondHost(r, caps) PROVE LockOrder'
  <2>1. req' = [req EXCEPT ![r] = [NoJob EXCEPT !.op = "beyond_host", !.caps = caps]]
    BY <1>7 DEF RevokeBeyondHost, Begin
  <2>2. PICK job \in Job : job = [NoJob EXCEPT !.op = "beyond_host", !.caps = caps]
    BY <1>0, <2>1
  <2>3. /\ job.op = "beyond_host" /\ ~job.agent /\ job.grants = {}
        /\ job.confs = {} /\ job.todo = {} /\ job.rules = {} /\ job.live = {}
    BY <2>2 DEF NoJob
  <2>4. Ordered("revoke", job)
    BY <2>3 DEF Ordered, Climbs, Owns, Several, Cascading
  <2> QED
    BY <1>7, <2>1, <2>2, <2>3, <2>4, OrderStep DEF RevokeBeyondHost, Begin
<1>8. ASSUME NEW op \in {"status", "retire"}, NEW to,
             Begin(r, [NoJob EXCEPT !.op = op, !.to = to, !.agent = TRUE], "select")
      PROVE  LockOrder'
  <2>1. req' = [req EXCEPT ![r] = [NoJob EXCEPT !.op = op, !.to = to, !.agent = TRUE]]
    BY <1>8 DEF Begin
  <2>2. PICK job \in Job : job = [NoJob EXCEPT !.op = op, !.to = to, !.agent = TRUE]
    BY <1>0, <2>1
  <2>3. /\ job.op \in {"status", "retire"} /\ job.agent /\ job.grants = {} /\ job.caps = {}
        /\ job.confs = {} /\ job.todo = {} /\ job.rules = {} /\ job.live = {}
    BY <1>8, <2>2 DEF NoJob
  <2>4. Ordered("select", job)
    BY <2>3 DEF Ordered, Climbs, Owns, Several, Cascading
  <2> QED
    BY <1>8, <2>1, <2>2, <2>3, <2>4, OrderStep DEF Begin
<1>9. ASSUME NEW to \in {"paused", "revoked"}, ChangeStatus(r, to) PROVE LockOrder'
  BY <1>8, <1>9 DEF ChangeStatus
<1>10. CASE RetireAgent(r)
  BY <1>8, <1>10 DEF RetireAgent
<1>11. CASE Resume(r)
  BY <1>11, OutsideOrder DEF Resume
<1> QED
  BY <1>2, <1>3, <1>4, <1>5, <1>6, <1>7, <1>9, <1>10, <1>11 DEF Begins

\* ORDER BY: the first of a set is below the others.
LEMMA FirstBelow ==
  ASSUME NEW T \in SUBSET Nat, T # {}
  PROVE  Min(T) \in T /\ \A y \in T \ {Min(T)} : Min(T) < y
<1>1. PICK m \in T : m = Min(T) /\ \A y \in T : m <= y
  BY MinExists
<1>2. ASSUME NEW y \in T \ {m} PROVE m < y
  <2>1. m \in Nat /\ y \in Nat /\ m <= y /\ m # y
    BY <1>1
  <2> QED
    BY <2>1
<1> QED
  BY <1>1, <1>2

\* A transaction goes on with the grants and rules it has.
LEMMA GoOnOrder ==
  ASSUME LockOrder, Inv', Stands, NEW r \in Requests, NEW step, NEW job \in Job,
         pc' = [pc EXCEPT ![r] = step], req' = [req EXCEPT ![r] = job], Ordered(step, job),
         job.grants = req[r].grants, job.rules = req[r].rules
  PROVE  LockOrder'
<1>1. \A q \in Requests \ {r} : /\ job.grants \cap req[q].grants = {}
                                /\ job.rules \cap req[q].rules = {}
  BY DEF LockOrder, LocksApart
<1> QED
  BY <1>1, OrderStep

\* The steps of a cascade, each of which takes at most one lock more.
LEMMA SelectOrder ==
  ASSUME LockOrder, Inv', Stands, NEW r \in Requests, SelectUsable(r)
  PROVE  LockOrder'
<1> DEFINE todo == {c \in Confirmations : Affects(r, conf[c].cap) /\ Usable(c) /\ Unexpired(c, clock)}
<1>0. req' \in [Requests -> Job] /\ req \in [Requests -> Job] /\ req[r] \in Job
  BY DEF LockOrder, Inv, TypeOK
<1>1. /\ Ordered("select", req[r])
      /\ pc' = [pc EXCEPT ![r] = "cancel"]
      /\ req' = [req EXCEPT ![r] = [req[r] EXCEPT !.now = clock, !.todo = todo]]
  BY <1>0 DEF SelectUsable, Goto, LockOrder
<1>2. ASSUME NEW c \in todo PROVE conf[c].state # "none" /\ Owns(req[r], conf[c].cap)
  <2>1. Owns(req[r], req[r].cap) /\ (req[r].cap = NoCap \/ conf[c].cap = req[r].cap)
    BY <1>1 DEF Ordered, Affects
  <2>2. req[r].grants \subseteq Capabilities
    BY <1>0 DEF Job
  <2>3. Owns(req[r], conf[c].cap)
    BY <2>1, <2>2, ConfirmationsAssumption DEF Owns
  <2> QED
    BY <2>3 DEF Usable
<1>3. todo \subseteq Confirmations
  OBVIOUS
<1> HIDE DEF todo
<1>4. PICK job \in Job : job = [req[r] EXCEPT !.now = clock, !.todo = todo]
  BY <1>0, <1>1
<1>5. /\ job.op = req[r].op /\ job.agent = req[r].agent /\ job.cap = req[r].cap
      /\ job.grants = req[r].grants /\ job.caps = req[r].caps
      /\ job.confs = req[r].confs /\ job.todo = todo
      /\ job.rules = req[r].rules /\ job.live = req[r].live
  BY <1>0, <1>4 DEF Job
<1>6. Climbs("cancel", job)
  BY <1>1, <1>5 DEF Ordered, Climbs, Cascading, Several
<1>7. Ordered("cancel", job)
  BY <1>1, <1>2, <1>5, <1>6 DEF Ordered, Cascading, Several, Owns
<1>8. req' = [req EXCEPT ![r] = job]
  BY <1>1, <1>4
<1> QED
  BY <1>1, <1>5, <1>7, <1>8, GoOnOrder

LEMMA CancelOrder ==
  ASSUME LockOrder, Inv', Stands, NEW r \in Requests, CancelNext(r)
  PROVE  LockOrder'
<1>0. req' \in [Requests -> Job] /\ req \in [Requests -> Job] /\ req[r] \in Job
      /\ req[r].todo \subseteq Confirmations /\ req[r].confs \subseteq Confirmations
      /\ pc \in [Requests -> PCs]
  BY DEF LockOrder, Inv, TypeOK, Job
<1>1. PICK c \in req[r].todo : c = Min(req[r].todo) /\ \A d \in req[r].todo \ {c} : c < d
  BY <1>0, FirstBelow, ConfirmationsAssumption DEF CancelNext
<1> DEFINE still == Usable(c) /\ Unexpired(c, req[r].now)
           confs == IF still THEN req[r].confs \cup {c} ELSE req[r].confs
           cut == IF still THEN req[r].cut \cup {c} ELSE req[r].cut
           i == [req[r] EXCEPT !.todo = @ \ {c}, !.confs = confs, !.cut = cut]
<1>2. /\ Ordered("cancel", req[r]) /\ pc' = [pc EXCEPT ![r] = "cancel"]
      /\ req' = [req EXCEPT ![r] = i]
  BY <1>0, <1>1 DEF CancelNext, LockOrder
<1>3. PICK job \in Job : job = i
  BY <1>0, <1>2
<1>4. /\ job.op = req[r].op /\ job.agent = req[r].agent /\ job.cap = req[r].cap
      /\ job.grants = req[r].grants /\ job.caps = req[r].caps
      /\ job.confs = confs /\ job.todo = req[r].todo \ {c}
      /\ job.rules = req[r].rules /\ job.live = req[r].live
  BY <1>0, <1>3 DEF Job
<1>5. confs \subseteq req[r].confs \cup {c}
  OBVIOUS
<1>6. req' = [req EXCEPT ![r] = job]
  BY <1>2, <1>3
<1> HIDE DEF i, confs, cut
<1>7. Climbs("cancel", job)
  <2>1. Climbs("cancel", req[r])
    BY <1>2 DEF Ordered, Cascading
  <2>3. CASE Several(req[r])
    BY <1>4, <2>1, <2>3 DEF Climbs, Several
  <2>4. CASE ~Several(req[r])
    BY <1>1, <1>4, <1>5, <2>1, <2>4 DEF Climbs
  <2> QED
    BY <2>3, <2>4
<1>8. Ordered("cancel", job)
  BY <1>1, <1>2, <1>4, <1>5, <1>7 DEF Ordered, Cascading, Several, Owns
<1> QED
  BY <1>2, <1>4, <1>6, <1>8, GoOnOrder

LEMMA SelectRulesOrder ==
  ASSUME LockOrder, Inv', Stands, NEW r \in Requests, SelectRules(r)
  PROVE  LockOrder'
<1> DEFINE live == {k \in Rules : rule[k].status = "live" /\ Affects(r, rule[k].cap)}
<1>0. req' \in [Requests -> Job] /\ req \in [Requests -> Job] /\ req[r] \in Job
  BY DEF LockOrder, Inv, TypeOK
<1>1. /\ Ordered("cancel", req[r]) /\ pc' = [pc EXCEPT ![r] = "revoke"] /\ req[r].todo = {}
      /\ req' = [req EXCEPT ![r] = [req[r] EXCEPT !.live = live]]
  BY <1>0 DEF SelectRules, Goto, LockOrder
<1>2. ASSUME NEW k \in live PROVE rule[k].status # "none" /\ Owns(req[r], rule[k].cap)
  <2>1. Owns(req[r], req[r].cap) /\ (req[r].cap = NoCap \/ rule[k].cap = req[r].cap)
    BY <1>1 DEF Ordered, Affects
  <2>2. req[r].grants \subseteq Capabilities
    BY <1>0 DEF Job
  <2> QED
    BY <2>1, <2>2, ConfirmationsAssumption DEF Owns
<1> HIDE DEF live
<1>3. PICK job \in Job : job = [req[r] EXCEPT !.live = live]
  BY <1>0, <1>1
<1>4. /\ job.op = req[r].op /\ job.agent = req[r].agent /\ job.cap = req[r].cap
      /\ job.grants = req[r].grants /\ job.caps = req[r].caps
      /\ job.confs = req[r].confs /\ job.todo = {}
      /\ job.rules = req[r].rules /\ job.live = live
  BY <1>0, <1>1, <1>3 DEF Job
<1>5. Climbs("revoke", job)
  BY <1>1, <1>4 DEF Ordered, Climbs, Cascading, Several
<1>6. Ordered("revoke", job)
  BY <1>1, <1>2, <1>4, <1>5 DEF Ordered, Cascading, Several, Owns
<1>7. req' = [req EXCEPT ![r] = job]
  BY <1>1, <1>3
<1> QED
  BY <1>1, <1>4, <1>6, <1>7, GoOnOrder

LEMMA RevokeRuleOrder ==
  ASSUME LockOrder, Inv', Stands, NEW r \in Requests, RevokeNextRule(r)
  PROVE  LockOrder'
<1>0. req' \in [Requests -> Job] /\ req \in [Requests -> Job] /\ req[r] \in Job
      /\ req[r].live \subseteq Rules /\ req[r].rules \subseteq Rules /\ pc \in [Requests -> PCs]
  BY DEF LockOrder, Inv, TypeOK, Job
<1>1. PICK k \in req[r].live : k = Min(req[r].live) /\ \A j \in req[r].live \ {k} : k < j
  BY <1>0, FirstBelow, ConfirmationsAssumption DEF RevokeNextRule
<1> DEFINE rules == IF rule[k].status = "live" THEN req[r].rules \cup {k} ELSE req[r].rules
           i == [req[r] EXCEPT !.live = @ \ {k}, !.rules = rules]
<1>2. /\ Ordered("revoke", req[r]) /\ pc' = [pc EXCEPT ![r] = "revoke"]
      /\ req' = [req EXCEPT ![r] = i] /\ RuleFree(r, k)
  BY <1>0, <1>1 DEF RevokeNextRule, LockOrder
<1>3. PICK job \in Job : job = i
  BY <1>0, <1>2
<1>4. /\ job.op = req[r].op /\ job.agent = req[r].agent /\ job.cap = req[r].cap
      /\ job.grants = req[r].grants /\ job.caps = req[r].caps
      /\ job.confs = req[r].confs /\ job.todo = req[r].todo
      /\ job.rules = rules /\ job.live = req[r].live \ {k}
  BY <1>0, <1>3 DEF Job
<1>5. rules \subseteq req[r].rules \cup {k}
  OBVIOUS
<1>6. req' = [req EXCEPT ![r] = job]
  BY <1>2, <1>3
<1> HIDE DEF i, rules
<1>7. Climbs("revoke", job)
  <2>1. Climbs("revoke", req[r])
    BY <1>2 DEF Ordered, Cascading
  <2>3. CASE Several(req[r])
    BY <1>4, <2>1, <2>3 DEF Climbs, Several
  <2>4. CASE ~Several(req[r])
    BY <1>1, <1>4, <1>5, <2>1, <2>4 DEF Climbs
  <2> QED
    BY <2>3, <2>4
<1>8. Ordered("revoke", job)
  BY <1>1, <1>2, <1>4, <1>5, <1>7 DEF Ordered, Cascading, Several, Owns
<1>9. \A q \in Requests \ {r} : /\ job.grants \cap req[q].grants = {}
                                /\ job.rules \cap req[q].rules = {}
  BY <1>2, <1>4, <1>5 DEF LockOrder, LocksApart, RuleFree
<1> QED
  BY <1>2, <1>6, <1>8, <1>9, OrderStep

\* The next capability of a ceiling's cascade is above those it has.
LEMMA RevokeGrantOrder ==
  ASSUME LockOrder, Inv', Stands, NEW r \in Requests, RevokeNextGrant(r)
  PROVE  LockOrder'
<1>0. req' \in [Requests -> Job] /\ req \in [Requests -> Job] /\ req[r] \in Job
      /\ req[r].caps \subseteq Capabilities /\ req[r].grants \subseteq Capabilities
      /\ pc \in [Requests -> PCs]
  BY DEF LockOrder, Inv, TypeOK, Job
<1>1. PICK cap \in req[r].caps : cap = Min(req[r].caps) /\ \A d \in req[r].caps \ {cap} : cap < d
  BY <1>0, FirstBelow, ConfirmationsAssumption DEF RevokeNextGrant
<1>2. /\ pc[r] = "revoke" /\ Ordered("revoke", req[r]) /\ req[r].live = {}
      /\ Cascade(req[r]) /\ GrantFree(r, cap)
  BY <1>1 DEF RevokeNextGrant, LockOrder, Inv, Fits
<1>3. ~req[r].agent /\ req[r].op = "beyond_host"
  BY <1>2 DEF Ordered, Cascading, Cascade
<1>4. CASE req' = [req EXCEPT ![r].caps = @ \ {cap}] /\ UNCHANGED pc
  <2>1. req' = [req EXCEPT ![r] = [req[r] EXCEPT !.caps = @ \ {cap}]]
    BY <1>0, <1>4
  <2>2. PICK job \in Job : job = [req[r] EXCEPT !.caps = @ \ {cap}]
    BY <1>0, <2>1
  <2>3. /\ job.op = req[r].op /\ job.agent = req[r].agent /\ job.cap = req[r].cap
        /\ job.grants = req[r].grants /\ job.caps = req[r].caps \ {cap}
        /\ job.confs = req[r].confs /\ job.todo = req[r].todo
        /\ job.rules = req[r].rules /\ job.live = req[r].live
    BY <1>0, <2>2 DEF Job
  <2>4. Ordered("revoke", job)
    BY <1>2, <1>3, <2>3 DEF Ordered, Climbs, Cascading, Several, Owns
  <2>5. pc' = [pc EXCEPT ![r] = "revoke"] /\ req' = [req EXCEPT ![r] = job]
    BY <1>0, <1>2, <1>4, <2>1, <2>2
  <2> QED
    BY <2>3, <2>4, <2>5, GoOnOrder
<1>5. CASE /\ req' = [req EXCEPT ![r].caps = @ \ {cap}, ![r].cap = cap, ![r].grants = @ \cup {cap}]
           /\ Goto(r, "select")
  <2>1. req' = [req EXCEPT ![r] =
                  [req[r] EXCEPT !.caps = @ \ {cap}, !.cap = cap, !.grants = @ \cup {cap}]]
    BY <1>0, <1>5
  <2>2. PICK job \in Job :
          job = [req[r] EXCEPT !.caps = @ \ {cap}, !.cap = cap, !.grants = @ \cup {cap}]
    BY <1>0, <2>1
  <2>3. /\ job.op = req[r].op /\ job.agent = req[r].agent /\ job.cap = cap
        /\ job.grants = req[r].grants \cup {cap} /\ job.caps = req[r].caps \ {cap}
        /\ job.confs = req[r].confs /\ job.todo = req[r].todo
        /\ job.rules = req[r].rules /\ job.live = req[r].live
    BY <1>0, <2>2 DEF Job
  <2>4. \A held \in job.grants, d \in job.caps : held < d
    <3>1. \A held \in req[r].grants, d \in req[r].caps : held < d
      BY <1>2 DEF Ordered, Climbs, Cascading
    <3> QED
      BY <1>1, <2>3, <3>1
  <2>5. Several(job) \/ (job.confs = {} /\ job.rules = {})
    <3>1. CASE req[r].grants = {}
      BY <1>2, <1>3, <2>3, <3>1 DEF Ordered, Cascading, Owns
    <3>2. CASE req[r].grants # {}
      <4>1. Climbs("revoke", req[r])
        BY <1>2 DEF Ordered, Cascading
      <4>2. PICK held \in req[r].grants : held < cap
        BY <1>1, <3>2, <4>1 DEF Climbs
      <4>3. held \in Nat /\ cap \in Nat
        BY <1>0, ConfirmationsAssumption
      <4>4. held # cap
        BY <4>2, <4>3
      <4> QED
        BY <2>3, <4>4 DEF Several
    <3> QED
      BY <3>1, <3>2
  <2>6. job.todo = {}
    BY <1>2, <2>3 DEF Ordered, Climbs, Cascading
  <2>7. Ordered("select", job)
    BY <1>2, <1>3, <2>3, <2>4, <2>5, <2>6 DEF Ordered, Climbs, Cascading, Owns
  <2>8. \A q \in Requests \ {r} : /\ job.grants \cap req[q].grants = {}
                                  /\ job.rules \cap req[q].rules = {}
    BY <1>2, <2>3 DEF LockOrder, LocksApart, GrantFree
  <2>9. pc' = [pc EXCEPT ![r] = "select"] /\ req' = [req EXCEPT ![r] = job]
    BY <1>5, <2>1, <2>2 DEF Goto
  <2> QED
    BY <2>7, <2>8, <2>9, OrderStep
<1> QED
  BY <1>1, <1>4, <1>5 DEF RevokeNextGrant

LEMMA ContinuesOrder ==
  ASSUME LockOrder, Inv', Stands, NEW r \in Requests, Continues(r)
  PROVE  LockOrder'
<1>0. req' \in [Requests -> Job] /\ req \in [Requests -> Job] /\ req[r] \in Job
      /\ pc \in [Requests -> PCs] /\ Ordered(pc[r], req[r])
  BY DEF LockOrder, Inv, TypeOK
<1>1. ASSUME NEW job, NEW step, step \notin Cascading, pc[r] \notin Cascading,
             pc' = [pc EXCEPT ![r] = step], req' = [req EXCEPT ![r] = job],
             job.grants = req[r].grants, job.rules = req[r].rules, job.caps = req[r].caps
      PROVE  LockOrder'
  <2>1. job \in Job
    BY <1>0, <1>1
  <2>2. job.grants = {} /\ job.rules = {} /\ job.caps = {}
    BY <1>0, <1>1 DEF Ordered
  <2> QED
    BY <1>1, <2>1, <2>2, PlainOrder
<1>2. CASE LockConf(r)
  <2>1. CASE Finish(r)
    BY <2>1, FinishOrder
  <2>2. CASE ~Finish(r)
    <3> DEFINE i == [req[r] EXCEPT !.confs = {req[r].conf}, !.cap = conf[req[r].conf].cap,
                                   !.now = clock]
    <3>1. req' = [req EXCEPT ![r] = i]
      BY <1>0, <1>2, <2>2 DEF LockConf
    <3>2. pc[r] = "conf" /\ pc' = [pc EXCEPT ![r] = "check"]
      BY <1>2, <2>2 DEF LockConf, Goto
    <3>3. i.grants = req[r].grants /\ i.rules = req[r].rules /\ i.caps = req[r].caps
      BY <1>0 DEF Job
    <3> HIDE DEF i
    <3> QED
      BY <1>1, <3>1, <3>2, <3>3 DEF Cascading
  <2> QED
    BY <2>1, <2>2
<1>3. CASE CheckAuthority(r)
  <2>1. CASE Finish(r)
    BY <2>1, FinishOrder
  <2>2. CASE ~Finish(r)
    <3>1. PICK step \in {"read", "spend"} : pc' = [pc EXCEPT ![r] = step]
      BY <1>3, <2>2 DEF CheckAuthority, Goto
    <3>2. pc[r] = "check" /\ req' = [req EXCEPT ![r] = req[r]]
      BY <1>0, <1>3, <2>2 DEF CheckAuthority
    <3> QED
      BY <1>1, <3>1, <3>2 DEF Cascading
  <2> QED
    BY <2>1, <2>2
<1>4. CASE ReadRules(r)
  <2>1. CASE Finish(r)
    BY <2>1, FinishOrder
  <2>2. CASE ~Finish(r)
    <3>1. PICK byRule : req' = [req EXCEPT ![r].now = clock, ![r].byRule = byRule]
      BY <1>4, <2>2 DEF ReadRules
    <3> DEFINE i == [req[r] EXCEPT !.now = clock, !.byRule = byRule]
    <3>2. req' = [req EXCEPT ![r] = i]
      BY <1>0, <3>1
    <3>3. pc[r] = "read" /\ pc' = [pc EXCEPT ![r] = "insert"]
      BY <1>4, <2>2 DEF ReadRules, Goto
    <3>4. i.grants = req[r].grants /\ i.rules = req[r].rules /\ i.caps = req[r].caps
      BY <1>0 DEF Job
    <3> HIDE DEF i
    <3> QED
      BY <1>1, <3>2, <3>3, <3>4 DEF Cascading
  <2> QED
    BY <2>1, <2>2
<1>5. CASE InsertConf(r) \/ Spend(r) \/ InsertRule(r) \/ WriteGrant(r) \/ CommitCascade(r)
  BY <1>5, FinishOrder DEF InsertConf, Spend, InsertRule, WriteGrant, CommitCascade
<1> QED
  BY <1>2, <1>3, <1>4, <1>5, SelectOrder, CancelOrder, SelectRulesOrder, RevokeRuleOrder,
     RevokeGrantOrder DEF Continues

LEMMA InitOrder == Init => LockOrder
<1> SUFFICES ASSUME Init PROVE LockOrder
  OBVIOUS
<1>1. NoJob.grants = {} /\ NoJob.rules = {} /\ NoJob.caps = {}
  BY DEF NoJob
<1>2. \A r \in Requests : Ordered(pc[r], req[r])
  BY <1>1 DEF Init, Ordered, Cascading
<1> QED
  BY <1>1, <1>2, InitInv DEF Init, LockOrder, LocksApart

LEMMA NextOrder == LockOrder /\ [Next]_vars => LockOrder'
<1> SUFFICES ASSUME LockOrder, [Next]_vars PROVE LockOrder'
  OBVIOUS
<1>1. Inv' /\ Stands
  BY NextInv, RowsStand DEF LockOrder
<1>2. CASE UNCHANGED vars
  BY <1>1, <1>2, OutsideOrder DEF vars
<1>3. CASE Single
  <2>1. UNCHANGED <<pc, req>>
    BY <1>3 DEF Single, Tick, Decide, Expire, Cancel, RevokeRule
  <2> QED
    BY <1>1, <2>1, OutsideOrder
<1>4. ASSUME NEW r \in Requests, Abort(r) PROVE LockOrder'
  BY <1>1, <1>4, FinishOrder DEF Abort
<1> QED
  BY <1>1, <1>2, <1>3, <1>4, BeginsOrder, ContinuesOrder DEF Next

----------------------------------------------------------------------------
(* Circles *)

\* In a circle without an approval that leaves a rule, everyone waits for a
\* cascade: who waits elsewhere holds the agent at most, and only such an
\* approval waits for that.
LEMMA HoldersCascade ==
  ASSUME LockOrder, NEW circle \in SUBSET Requests, IsCircle(circle),
         \A r \in circle : pc[r] # "rule",
         NEW r \in circle
  PROVE  \E o \in circle : Waits(r, o) /\ pc[o] \in {"cancel", "revoke"}
<1>1. PICK o \in circle : Waits(r, o)
  BY DEF IsCircle
<1>2. PICK p \in circle : Waits(o, p)
  BY DEF IsCircle
<1>3. Ordered(pc[o], req[o]) /\ Fits(pc[o], req[o])
  BY DEF LockOrder, Inv
<1>4. pc[o] \in {"conf", "cancel", "revoke", "grant"}
  BY <1>2 DEF Waits
<1>5. pc[r] # "rule"
  OBVIOUS
<1>6. req[o].confs # {} \/ req[o].rules # {} \/ req[o].grants # {} \/ req[o].caps # {}
  BY <1>1, <1>5 DEF Waits
<1>7. pc[o] \notin {"conf", "grant"}
  BY <1>3, <1>6 DEF Ordered, Cascading, Fits
<1> QED
  BY <1>1, <1>4, <1>7

\* What a cascade waits for.
LEMMA CascadeWaits ==
  ASSUME LockOrder, NEW r \in Requests, NEW o \in Requests, Waits(r, o),
         pc[r] \in {"cancel", "revoke"}, pc[o] \in {"cancel", "revoke"}
  PROVE  /\ r # o
         /\ \/ /\ pc[r] = "cancel"
               /\ \E c \in req[r].todo \cap req[o].confs :
                     Owns(req[r], conf[c].cap) /\ Owns(req[o], conf[c].cap)
            \/ /\ pc[r] = "revoke"
               /\ \E k \in req[r].live \cap req[o].rules :
                     Owns(req[r], rule[k].cap) /\ Owns(req[o], rule[k].cap)
            \/ /\ pc[r] = "revoke" /\ req[r].live = {} /\ req[r].caps # {}
               /\ ~req[r].agent /\ req[r].op = "beyond_host"
               /\ Min(req[r].caps) \in req[r].caps \cap req[o].grants
<1>1. /\ Ordered(pc[r], req[r]) /\ Ordered(pc[o], req[o]) /\ Fits(pc[r], req[r])
      /\ req[r] \in Job
  BY DEF LockOrder, Inv, TypeOK
<1>2. /\ req[r].todo \in SUBSET Nat /\ req[r].live \in SUBSET Nat
      /\ req[r].caps \in SUBSET Nat
  BY <1>1, ConfirmationsAssumption DEF Job
<1>3. CASE pc[r] = "cancel"
  <2>1. Min(req[r].todo) \in req[r].todo \cap req[o].confs
    BY <1>2, <1>3, MinExists DEF Waits
  <2> QED
    BY <1>1, <1>3, <2>1 DEF Waits, Ordered, Cascading
<1>4. CASE pc[r] = "revoke" /\ req[r].live # {}
  <2>1. Min(req[r].live) \in req[r].live \cap req[o].rules
    BY <1>2, <1>4, MinExists DEF Waits
  <2> QED
    BY <1>1, <1>4, <2>1 DEF Waits, Ordered, Cascading
<1>5. CASE pc[r] = "revoke" /\ req[r].live = {}
  <2>1. Min(req[r].caps) \in req[r].caps \cap req[o].grants /\ req[r].caps # {}
    BY <1>2, <1>5, MinExists DEF Waits
  <2>2. ~req[r].agent /\ req[r].op = "beyond_host"
    BY <1>1, <1>5, <2>1 DEF Fits, Cascade, Ordered, Cascading
  <2> QED
    BY <1>5, <2>1, <2>2 DEF Waits
<1> QED
  BY <1>3, <1>4, <1>5

\* Two cascades of capabilities never meet at a confirmation or a rule: the
\* grant of its capability is with one of them.
LEMMA GrantsApart ==
  ASSUME LockOrder, NEW r \in Requests, NEW o \in Requests, r # o,
         ~req[r].agent, ~req[o].agent, NEW cap, Owns(req[r], cap), Owns(req[o], cap)
  PROVE  FALSE
BY DEF LockOrder, LocksApart, Owns

\* They wait for a grant, and every one for a higher one than it is waited for.
LEMMA CapabilitiesClimb ==
  ASSUME LockOrder, NEW N \in Nat, Capabilities \subseteq 0..N,
         NEW ring \in SUBSET Requests, ring # {},
         \A r \in ring : /\ pc[r] \in {"cancel", "revoke"} /\ ~req[r].agent
                         /\ \E o \in ring : Waits(r, o)
  PROVE  FALSE
<1>0. \A r \in ring : /\ req[r].caps \subseteq Capabilities /\ req[r].grants \subseteq Capabilities
                      /\ Ordered(pc[r], req[r])
  <2>1. \A r \in ring : req[r] \in Job /\ Ordered(pc[r], req[r])
    BY DEF LockOrder, Inv, TypeOK
  <2> QED
    BY <2>1 DEF Job
<1>1. ASSUME NEW r \in ring
      PROVE  /\ req[r].caps # {}
             /\ \E o \in ring : Min(req[r].caps) \in req[r].caps \cap req[o].grants
  <2>1. PICK o \in ring : Waits(r, o)
    OBVIOUS
  <2>2. r # o
    BY <2>1 DEF Waits
  <2>3. ASSUME NEW cap, Owns(req[r], cap), Owns(req[o], cap) PROVE FALSE
    BY <2>2, <2>3, GrantsApart
  <2>4. req[r].caps # {} /\ Min(req[r].caps) \in req[r].caps \cap req[o].grants
    BY <2>1, <2>3, CascadeWaits
  <2> QED
    BY <2>4
<1> DEFINE below == {N - Min(req[r].caps) : r \in ring}
<1>2. ASSUME NEW r \in ring PROVE Min(req[r].caps) \in 0..N
  BY <1>0, <1>1
<1>3. below \in SUBSET Nat /\ below # {}
  BY <1>2
<1>4. PICK low \in below : \A m \in below : low <= m
  BY <1>3, MinExists
<1>5. PICK r \in ring : low = N - Min(req[r].caps)
  BY <1>4
<1>6. PICK o \in ring : Min(req[r].caps) \in req[o].grants
  BY <1>1
<1>7. Min(req[r].caps) < Min(req[o].caps)
  <2>1. \A held \in req[o].grants, cap \in req[o].caps : held < cap
    BY <1>0 DEF Ordered, Climbs, Cascading
  <2>2. Min(req[o].caps) \in req[o].caps
    BY <1>1
  <2> QED
    BY <1>6, <2>1, <2>2
<1>8. low <= N - Min(req[o].caps)
  BY <1>4
<1> QED
  BY <1>2, <1>5, <1>7, <1>8

\* One that has the agent and one that does not, past no first capability: both
\* go by ids, so they do not wait for each other.
LEMMA IdsClimb ==
  ASSUME LockOrder, NEW w \in Requests, NEW r \in Requests, ~Several(req[w]), ~Several(req[r]),
         NEW c \in req[w].todo \cap req[r].confs, NEW d \in req[r].todo \cap req[w].confs,
         pc[w] = "cancel", pc[r] = "cancel"
  PROVE  FALSE
<1>1. c < d /\ d < c
  BY DEF LockOrder, Ordered, Climbs, Cascading
<1>2. req[w] \in Job /\ req[r] \in Job
  BY DEF LockOrder, Inv, TypeOK
<1>3. c \in Nat /\ d \in Nat
  BY <1>2, ConfirmationsAssumption DEF Job
<1> QED
  BY <1>1, <1>3

LEMMA RulesClimb ==
  ASSUME LockOrder, NEW w \in Requests, NEW r \in Requests, ~Several(req[w]), ~Several(req[r]),
         NEW k \in req[w].live \cap req[r].rules, NEW j \in req[r].live \cap req[w].rules,
         pc[w] = "revoke", pc[r] = "revoke"
  PROVE  FALSE
<1>1. k < j /\ j < k
  BY DEF LockOrder, Ordered, Climbs, Cascading
<1>2. req[w] \in Job /\ req[r] \in Job
  BY DEF LockOrder, Inv, TypeOK
<1>3. k \in Nat /\ j \in Nat
  BY <1>2, ConfirmationsAssumption DEF Job
<1> QED
  BY <1>1, <1>3

LEMMA AgentMeetsOne ==
  ASSUME LockOrder, NEW ring \in SUBSET Requests,
         \A r \in ring : /\ pc[r] \in {"cancel", "revoke"}
                         /\ \E o \in ring : Waits(r, o),
         NEW w \in ring, req[w].agent
  PROVE  \E r \in ring : WentOn(r)
<1> SUFFICES ASSUME \A r \in ring : ~WentOn(r) PROVE FALSE
  OBVIOUS
<1>1. \A r \in ring : Ordered(pc[r], req[r]) /\ pc[r] \in Cascading
  BY DEF LockOrder, Cascading
<1>2. \A r \in ring : ~Several(req[r])
  BY <1>1 DEF Ordered, WentOn, Several
<1>3. \A r \in ring \ {w} : ~req[r].agent
  BY DEF LockOrder, Inv, Apart
<1>4. PICK r \in ring : Waits(w, r)
  OBVIOUS
<1>5. /\ r # w
      /\ \/ pc[w] = "cancel" /\ \E c \in req[w].todo \cap req[r].confs : Owns(req[r], conf[c].cap)
         \/ pc[w] = "revoke" /\ \E k \in req[w].live \cap req[r].rules : Owns(req[r], rule[k].cap)
  BY <1>4, CascadeWaits
<1>6. ~req[r].agent /\ req[r].grants # {}
  BY <1>3, <1>5 DEF Owns
<1>7. PICK o \in ring : Waits(r, o)
  OBVIOUS
<1>8. ~(pc[r] = "revoke" /\ req[r].live = {} /\ req[r].op = "beyond_host")
  BY <1>6 DEF WentOn
<1>9. \/ /\ pc[r] = "cancel"
         /\ \E c \in req[r].todo \cap req[o].confs :
               Owns(req[r], conf[c].cap) /\ Owns(req[o], conf[c].cap)
      \/ /\ pc[r] = "revoke"
         /\ \E k \in req[r].live \cap req[o].rules :
               Owns(req[r], rule[k].cap) /\ Owns(req[o], rule[k].cap)
  BY <1>7, <1>8, CascadeWaits
<1>10. r # o
  BY <1>7 DEF Waits
<1>11. o = w
  BY <1>3, <1>6, <1>9, <1>10, GrantsApart
<1>12. CASE pc[w] = "cancel" /\ pc[r] = "cancel"
  BY <1>2, <1>5, <1>9, <1>11, <1>12, IdsClimb
<1>13. CASE pc[w] = "revoke" /\ pc[r] = "revoke"
  BY <1>2, <1>5, <1>9, <1>11, <1>13, RulesClimb
<1>14. ASSUME NEW q \in ring, pc[q] = "cancel" PROVE req[q].rules = {}
  BY <1>1, <1>2, <1>14 DEF Ordered, Climbs
<1>15. CASE pc[w] = "cancel" /\ pc[r] = "revoke"
  BY <1>9, <1>11, <1>14, <1>15
<1>16. CASE pc[w] = "revoke" /\ pc[r] = "cancel"
  BY <1>5, <1>14, <1>16
<1> QED
  BY <1>5, <1>9, <1>12, <1>13, <1>15, <1>16

\* Transactions wait for each other in a circle only through an approval that
\* leaves a standing rule, or through a change of the whole agent and a ceiling's
\* cascade past its first capability.
THEOREM DeadlocksHaveOrigin ==
  ASSUME NEW N \in Nat, Capabilities \subseteq 0..N
  PROVE  Spec => []DeadlockOrigins
<1>1. LockOrder => DeadlockOrigins
  <2> SUFFICES ASSUME LockOrder, NEW circle \in SUBSET Requests, IsCircle(circle),
                      \A r \in circle : pc[r] # "rule"
               PROVE  /\ \E r \in circle : req[r].op \in {"status", "retire"}
                      /\ \E r \in circle : WentOn(r)
    BY DEF DeadlockOrigins
  <2> DEFINE ring == {r \in circle : pc[r] \in {"cancel", "revoke"}}
  <2>1. \A r \in ring : \E o \in ring : Waits(r, o)
    BY HoldersCascade
  <2>2. ring \in SUBSET Requests /\ ring # {}
    BY HoldersCascade DEF IsCircle
  <2>3. \A r \in ring : r \in circle /\ pc[r] \in {"cancel", "revoke"}
    OBVIOUS
  <2> HIDE DEF ring
  <2>4. PICK w \in ring : req[w].agent
    BY <2>1, <2>2, <2>3, CapabilitiesClimb
  <2>5. Ordered(pc[w], req[w])
    BY <2>2 DEF LockOrder
  <2>6. req[w].op \in {"status", "retire"}
    BY <2>3, <2>4, <2>5 DEF Ordered, Cascading
  <2>7. \E r \in ring : WentOn(r)
    BY <2>1, <2>2, <2>3, <2>4, AgentMeetsOne
  <2> QED
    BY <2>3, <2>6, <2>7
<1> QED
  BY <1>1, InitOrder, NextOrder, PTL DEF Spec

=============================================================================
