-------------------------- MODULE Consents_proofs --------------------------
(***************************************************************************)
(* Theorems about Consents, for any number of calls, rows and apps.        *)
(*                                                                         *)
(* A row is used once: it leaves "none" by the call its id was drawn for   *)
(* and is turned off for good.  A row that a call has locked is changed by *)
(* no other (Apart, Steady), and a slot that a screen has inserted into    *)
(* stays empty for everybody else until its commit (Fits).  So each row    *)
(* keeps to its trail (RowOK), a slot has one active row at most           *)
(* (AtMostOne), and a commit names in its events every slot it touched.    *)
(***************************************************************************)
EXTENDS Consents, FiniteSetTheorems, TLAPS

RowType == [state: {"none", "on", "off"}, slot: Slots \cup {<<AppData, Own>>}, expires: Nat]
TrailType == [granted: 0..1, ended: 0..1, gone: 0..1]

\* What the trail says of a row.
RowOK(k) ==
    /\ row[k].state = "none" => trail[k] = NoTrail
    /\ row[k].state # "none" => trail[k].granted = 1 /\ row[k].slot \in Slots
    /\ row[k].state = "on" <=> trail[k].granted = 1 /\ trail[k].ended = 0 /\ trail[k].gone = 0
    /\ ~gone => trail[k].gone = 0

AtMostOne ==
    \A k, l \in Rows : row[k].state = "on" /\ row[l].state = "on" /\ row[k].slot = row[l].slot => k = l

\* What a call may rely on when it resumes.
Fits(j) ==
    /\ \A k \in j.ids : row[k].state = "none"
    /\ \A k \in j.saw \cup j.held : row[k].state # "none"
    /\ \A k \in j.held : row[k].state = "on"
    /\ j.op = "on" => \A s \in j.slots : s \in OwnSlots /\ \A k \in j.saw \cup j.held : row[k].slot = s
    /\ j.op = "end" /\ j.at = "select" => ~gone
    /\ j.op = "decide" => j.slots \subseteq AppSlots /\ j.refuse \subseteq AppSlots
    /\ j.op = "decide" /\ j.at = "answer" => j.todo \subseteq j.slots
    /\ \A x \in j.ins : /\ x[1] \in j.ids /\ x[2] \in AppSlots /\ x[2] \notin j.slots
                        /\ \A k \in Rows : row[k].state = "on" => row[k].slot # x[2]
    /\ \A x, y \in j.ins : x[1] = y[1] \/ x[2] = y[2] => x = y

\* What two calls never share.
Apart(i, j) ==
    /\ i.ids \cap j.ids = {} /\ i.held \cap j.held = {}
    /\ \A x \in i.ins, y \in j.ins : x[2] # y[2]
    /\ ~(i.op = "end" /\ j.op = "end")

Inv ==
    /\ TypeOK
    /\ \A k \in Rows : RowOK(k)
    /\ AtMostOne
    /\ \A r \in Requests : Fits(job[r])
    /\ \A r, q \in Requests : r # q => Apart(job[r], job[q])
    /\ ServiceKnows

----------------------------------------------------------------------------
(* Initial states *)

LEMMA IdleFits ==
  /\ Idle \in Jobs /\ Fits(Idle) /\ Idle.op = "idle" /\ Idle.at = "select"
  /\ Idle.ids = {} /\ Idle.held = {} /\ Idle.saw = {} /\ Idle.ins = {} /\ Idle.slots = {} /\ Idle.todo = {}
  /\ Idle.refuse = {}
<1>1. Idle \in Jobs
  BY DEF Idle, Jobs, Ops
<1> QED
  BY <1>1 DEF Idle, Fits

LEMMA SlotsDiffer == OwnSlots \cap AppSlots = {} /\ OwnSlots \subseteq Slots /\ AppSlots \subseteq Slots
                     /\ <<AppData, Own>> \notin Slots
BY ConsentsAssumption DEF OwnSlots, AppSlots, Slots

LEMMA InitInv == Init => Inv
<1> SUFFICES ASSUME Init PROVE Inv
  OBVIOUS
<1>1. PICK S \in SUBSET AppSlots, f \in [AppSlots -> Rows] :
        /\ \A s, t \in S : f[s] = f[t] => s = t
        /\ row = [k \in Rows |-> IF \E s \in S : f[s] = k
                                 THEN [state |-> "on", slot |-> CHOOSE s \in S : f[s] = k, expires |-> Expiry]
                                 ELSE NoRow]
  BY DEF Init
<1>2. ASSUME NEW k \in Rows, \E s \in S : f[s] = k
      PROVE  \E s \in S : f[s] = k /\ row[k] = [state |-> "on", slot |-> s, expires |-> Expiry]
  <2>1. PICK s \in S : s = CHOOSE t \in S : f[t] = k
    BY <1>2
  <2>2. f[s] = k
    BY <1>2, <2>1
  <2>3. row[k] = [state |-> "on", slot |-> s, expires |-> Expiry]
    BY <1>1, <1>2, <2>1
  <2> QED
    BY <2>2, <2>3
<1>3. ASSUME NEW k \in Rows, ~\E s \in S : f[s] = k PROVE row[k] = NoRow
  BY <1>1, <1>3
<1>4. \A k \in Rows : trail[k] = IF row[k].state = "on" THEN [NoTrail EXCEPT !.granted = 1] ELSE NoTrail
  BY DEF Init
<1>5. \A k \in Rows : row[k] \in RowType
  <2>1. Expiry \in Nat /\ S \subseteq Slots
    BY ConsentsAssumption, SlotsDiffer
  <2>2. NoRow \in RowType
    BY DEF NoRow, RowType
  <2>3. \A s \in S : [state |-> "on", slot |-> s, expires |-> Expiry] \in RowType
    BY <2>1 DEF RowType
  <2> QED
    BY <1>2, <1>3, <2>2, <2>3
<1>6. \A k \in Rows : trail[k] \in TrailType
  BY <1>4 DEF NoTrail, TrailType
<1>7. job \in [Requests -> Jobs] /\ \A r \in Requests : job[r] = Idle
  BY IdleFits DEF Init
<1>8. cache \in [Slots -> BOOLEAN]
  BY DEF Init, Allowed
<1>9. clock \in 0..MaxClock
  BY ConsentsAssumption DEF Init
<1>10. TypeOK
  <2>1. row \in [Rows -> RowType]
    BY <1>1, <1>5
  <2>2. trail \in [Rows -> TrailType]
    BY <1>6 DEF Init
  <2> QED
    BY <1>7, <1>8, <1>9, <2>1, <2>2 DEF TypeOK, RowType, TrailType, Init
<1>11. ASSUME NEW k \in Rows PROVE RowOK(k)
  <2>1. CASE \E s \in S : f[s] = k
    <3>0. PICK s \in S : row[k] = [state |-> "on", slot |-> s, expires |-> Expiry]
      BY <1>2, <2>1
    <3>1. row[k].state = "on" /\ row[k].slot \in Slots
      BY <3>0, SlotsDiffer
    <3>2. trail[k].granted = 1 /\ trail[k].ended = 0 /\ trail[k].gone = 0
      BY <1>4, <3>1 DEF NoTrail
    <3> QED
      BY <3>1, <3>2 DEF RowOK
  <2>2. CASE ~\E s \in S : f[s] = k
    BY <1>3, <1>4, <2>2 DEF RowOK, NoRow, NoTrail
  <2> QED
    BY <2>1, <2>2
<1>12. AtMostOne
  <2>1. ASSUME NEW k \in Rows, row[k].state = "on" PROVE row[k].slot \in S /\ f[row[k].slot] = k
    <3>1. \E s \in S : f[s] = k
      BY <1>3, <2>1 DEF NoRow
    <3>2. PICK s \in S : f[s] = k /\ row[k] = [state |-> "on", slot |-> s, expires |-> Expiry]
      BY <1>2, <3>1
    <3> QED
      BY <3>2
  <2> QED
    BY <2>1 DEF AtMostOne
<1>13. \A r, q \in Requests : r # q => Apart(job[r], job[q])
  BY <1>7, IdleFits DEF Apart
<1>14. ServiceKnows
  BY DEF Init, ServiceKnows, Allowed
<1> QED
  BY <1>7, <1>10, <1>11, <1>12, <1>13, <1>14, IdleFits DEF Inv

----------------------------------------------------------------------------
(* What steps have in common *)

LEMMA JobType ==
  ASSUME Inv, NEW r \in Requests
  PROVE  /\ job[r] \in Jobs /\ Fits(job[r])
         /\ job[r].op \in Ops /\ job[r].at \in {"select", "write", "ask", "answer", "send"}
         /\ job[r].slots \subseteq Slots /\ job[r].allow \subseteq Slots /\ job[r].ids \subseteq Rows
         /\ job[r].saw \subseteq Rows /\ job[r].held \subseteq Rows /\ job[r].now \in Nat
         /\ job[r].ins \subseteq Rows \X Slots /\ job[r].refuse \subseteq Slots
         /\ job[r].drop \subseteq Slots /\ job[r].todo \subseteq Slots
BY DEF Inv, TypeOK, Jobs

LEMMA RowTypes ==
  ASSUME Inv
  PROVE  row \in [Rows -> RowType] /\ trail \in [Rows -> TrailType] /\ \A k \in Rows : RowOK(k)
BY DEF Inv, TypeOK, RowType, TrailType

\* What the service knows depends on the clock, on the rows and on the events
\* under way.
LEMMA KnowsStays ==
  ASSUME Inv, NEW S \in SUBSET Slots, UNCHANGED <<clock, service>>, row' \in [Rows -> RowType],
         \A k \in Rows : row'[k] # row[k] => row'[k].slot \in S /\ (row[k].state = "none" \/ row[k].slot \in S),
         \A s \in Slots : Told(s)' => Told(s) /\ s \notin S
  PROVE  ServiceKnows'
<1> SUFFICES ASSUME NEW s \in Slots, Told(s)' PROVE (cache[s] => On(s) # {})' /\ (Allowed(s) => cache[s])'
  BY DEF ServiceKnows
<1>1. Told(s) /\ s \notin S /\ cache' = cache
  BY DEF service
<1>2. \A k \in Rows : row'[k] # row[k] => row'[k].slot # s /\ (row[k].state = "none" \/ row[k].slot # s)
  BY <1>1
<1>3. On(s)' = On(s) /\ \A k \in On(s) : row'[k] = row[k]
  BY <1>2 DEF On
<1>4. Allowed(s)' = Allowed(s)
  BY <1>3 DEF Allowed
<1> QED
  BY <1>1, <1>3, <1>4 DEF Inv, ServiceKnows

\* A step that writes no row, but for what the service knows after it.
LEMMA JobInv ==
  ASSUME Inv, NEW r \in Requests, NEW j \in Jobs, job' = [job EXCEPT ![r] = j],
         UNCHANGED <<clock, gone, db>>, queue' \subseteq Slots, cache' = cache, lost' \in BOOLEAN,
         Fits(j), \A q \in Requests \ {r} : Apart(j, job[q]), ServiceKnows'
  PROVE  Inv'
<1>1. UNCHANGED <<row, trail, refused>>
  BY DEF db
<1>2. job' \in [Requests -> Jobs] /\ job'[r] = j /\ \A q \in Requests \ {r} : job'[q] = job[q]
  BY DEF Inv, TypeOK
<1>3. TypeOK'
  BY <1>1, <1>2 DEF Inv, TypeOK
<1>4. (\A k \in Rows : RowOK(k)') /\ AtMostOne'
  BY <1>1 DEF Inv, RowOK, AtMostOne
<1>5. ASSUME NEW q \in Requests PROVE Fits(job[q])'
  <2>1. Fits(job'[q])
    BY <1>2 DEF Inv
  <2> QED
    BY <1>1, <2>1 DEF Fits
<1>6. ASSUME NEW p \in Requests, NEW q \in Requests, p # q PROVE Apart(job[p], job[q])'
  <2>1. CASE p = r
    BY <1>2, <1>6, <2>1 DEF Apart
  <2>2. CASE q = r
    BY <1>2, <1>6, <2>2 DEF Apart
  <2>3. CASE p # r /\ q # r
    BY <1>2, <1>6, <2>3 DEF Inv, Apart
  <2> QED
    BY <2>1, <2>2, <2>3
<1> QED
  BY <1>3, <1>4, <1>5, <1>6 DEF Inv

\* If whatever the service was told holds is told no more than before, and no
\* row has changed, it knows as before.
LEMMA KnowsQuiet ==
  ASSUME Inv, UNCHANGED <<clock, row, cache>>, \A s \in Slots : Told(s)' => Told(s)
  PROVE  ServiceKnows'
BY DEF Inv, ServiceKnows, Allowed, On

\* A step of one call that writes nothing.
LEMMA QuietInv ==
  ASSUME Inv, NEW r \in Requests, NEW j \in Jobs, job' = [job EXCEPT ![r] = j],
         UNCHANGED <<clock, gone, db, service>>,
         job[r].at # "send", j.at # "send", Fits(j),
         \A q \in Requests \ {r} : Apart(j, job[q])
  PROVE  Inv'
<1>1. UNCHANGED <<row, queue, cache, lost>>
  BY DEF db, service
<1>2. \A q \in Requests \ {r} : job'[q] = job[q]
  BY DEF Inv, TypeOK
<1>3. ASSUME NEW s \in Slots, Told(s)' PROVE Told(s)
  <2>1. \A q \in Requests : ~(job[q].at = "send" /\ s \in job[q].todo)
    BY <1>2, <1>3 DEF Told
  <2> QED
    BY <1>1, <1>3, <2>1 DEF Told
<1>4. ServiceKnows'
  BY <1>1, <1>3, KnowsQuiet
<1> QED
  BY <1>1, <1>4, JobInv DEF Inv, TypeOK

\* What other calls may rely on of the rows a call writes.
Steady(r) ==
    /\ \A k \in Rows :
          /\ row[k].state # "none" => /\ row'[k].state # "none" /\ row'[k].slot = row[k].slot
                                      /\ row'[k].state = "on" => row'[k] = row[k]
          /\ row[k].state = "none" /\ row'[k].state # "none" =>
                k \in job[r].ids /\ row'[k].slot \in Slots
    /\ \A q \in Requests \ {r} :
          /\ \A k \in job[q].held : row'[k] = row[k]
          /\ \A x \in job[q].ins, k \in Rows :
                row[k].state = "none" /\ row'[k].state = "on" => row'[k].slot # x[2]
          /\ job[q].op = "end" /\ job[q].at = "select" => gone' = gone

\* The commit of a call, which names the slots it touched in its events.
LEMMA CommitInv ==
  ASSUME Inv, NEW r \in Requests, NEW S \in SUBSET Slots, Sending(r, S), job[r].at # "send",
         UNCHANGED <<clock, service>>, gone' \in BOOLEAN, refused' \subseteq AppSlots,
         row' \in [Rows -> RowType], trail' \in [Rows -> TrailType],
         \A k \in Rows : row'[k] # row[k] => row'[k].slot \in S,
         Steady(r), \A k \in Rows : RowOK(k)', AtMostOne'
  PROVE  Inv'
<1>1. PICK j \in Jobs : /\ j = IF S = {} THEN Idle ELSE [Idle EXCEPT !.op = job[r].op, !.at = "send", !.todo = S]
                        /\ j.op \in {"idle", job[r].op} /\ j.ids = {} /\ j.held = {} /\ j.saw = {}
                        /\ j.ins = {} /\ j.slots = {} /\ j.refuse = {}
                        /\ S # {} => j.at = "send" /\ j.todo = S
                        /\ S = {} => j = Idle
                        /\ j.at \in {"select", "send"} /\ (j.at = "select" => j.op = "idle")
  <2>1. CASE S = {}
    BY <2>1, IdleFits
  <2>2. CASE S # {}
    <3>1. [Idle EXCEPT !.op = job[r].op, !.at = "send", !.todo = S] \in Jobs
      BY JobType DEF Idle, Jobs
    <3> QED
      BY <2>2, <3>1 DEF Idle
  <2> QED
    BY <2>1, <2>2
<1>2. job' = [job EXCEPT ![r] = j]
  BY <1>1 DEF Sending
<1>3. job' \in [Requests -> Jobs] /\ job'[r] = j /\ \A q \in Requests \ {r} : job'[q] = job[q]
  BY <1>2 DEF Inv, TypeOK
<1>4. TypeOK'
  BY <1>3 DEF Inv, TypeOK, service, RowType, TrailType
<1>5. ASSUME NEW q \in Requests PROVE Fits(job[q])'
  <2>1. CASE q = r
    BY <1>1, <1>3, <2>1 DEF Fits
  <2>2. CASE q # r
    <3>1. Fits(job[q]) /\ job'[q] = job[q] /\ Apart(job[r], job[q])
      BY <1>3, <2>2 DEF Inv
    <3>2. \A k \in job[q].ids : row'[k].state = "none"
      BY <3>1, JobType, <2>2 DEF Fits, Apart, Steady, Inv
    <3>3. \A k \in job[q].saw \cup job[q].held : row'[k].state # "none" /\ row'[k].slot = row[k].slot
      BY <3>1, JobType DEF Fits, Steady
    <3>4. \A k \in job[q].held : row'[k] = row[k]
      BY <2>2 DEF Steady
    <3>5. job[q].op = "end" /\ job[q].at = "select" => ~gone'
      BY <2>2, <3>1 DEF Steady, Fits
    <3>6. ASSUME NEW x \in job[q].ins, NEW k \in Rows, row'[k].state = "on" PROVE row'[k].slot # x[2]
      BY <2>2, <3>1, <3>6 DEF Steady, Fits
    <3> QED
      BY <3>1, <3>2, <3>3, <3>4, <3>5, <3>6 DEF Fits
  <2> QED
    BY <2>1, <2>2
<1>6. ASSUME NEW p \in Requests, NEW q \in Requests, p # q PROVE Apart(job[p], job[q])'
  <2>1. ASSUME NEW o \in Requests \ {r} PROVE Apart(j, job[o]) /\ Apart(job[o], j)
    <3>1. Apart(job[r], job[o])
      BY DEF Inv
    <3> QED
      BY <1>1, <3>1 DEF Apart
  <2>2. CASE p # r /\ q # r
    BY <1>3, <1>6, <2>2 DEF Inv, Apart
  <2>3. CASE p = r \/ q = r
    BY <1>3, <1>6, <2>1, <2>3 DEF Apart
  <2> QED
    BY <2>2, <2>3
<1>7. ASSUME NEW s \in Slots, Told(s)' PROVE Told(s) /\ s \notin S
  <2>1. \A q \in Requests : ~(job[q].at = "send" /\ s \in job[q].todo)
    BY <1>3, <1>7 DEF Told
  <2>2. s \notin S
    BY <1>1, <1>3, <1>7 DEF Told
  <2> QED
    BY <1>7, <2>1, <2>2 DEF Told, service
<1>8. \A k \in Rows : row'[k] # row[k] => row'[k].slot \in S /\ (row[k].state = "none" \/ row[k].slot \in S)
  BY DEF Steady
<1>9. ServiceKnows'
  BY <1>7, <1>8, KnowsStays
<1> QED
  BY <1>4, <1>5, <1>6, <1>9 DEF Inv

----------------------------------------------------------------------------
(* Calls that begin *)

\* A call that begins with ids nobody else has and with nothing locked.
LEMMA BeginInv ==
  ASSUME Inv, NEW r \in Requests, NEW j \in Jobs, Begin(r, j), UNCHANGED <<clock, gone, db, service>>,
         j.at # "send", Fits(j), j.ids \subseteq Unused, j.held = {}, j.ins = {},
         j.op = "end" => \A q \in Requests : job[q].op # "end"
  PROVE  Inv'
<1>1. job[r].at # "send" /\ job' = [job EXCEPT ![r] = j]
  BY IdleFits DEF Begin
<1>2. \A q \in Requests \ {r} : Apart(j, job[q])
  BY DEF Apart, Unused
<1> QED
  BY <1>1, <1>2, QuietInv

LEMMA SawOn == ASSUME Inv, NEW S PROVE OnIn(S) \subseteq Rows /\ \A k \in OnIn(S) : row[k].state = "on"
BY DEF OnIn

LEMMA ChooseOnInv ==
  ASSUME Inv, NEW r \in Requests, NEW s \in OwnSlots, NEW k \in Rows, ChooseOn(r, s, k) PROVE Inv'
<1>1. On(s) \subseteq Rows /\ (\A l \in On(s) : row[l].state = "on" /\ row[l].slot = s) /\ s \in Slots
      /\ row[k].state = "none" /\ k \in Unused
  BY SlotsDiffer DEF On, ChooseOn, Unused
<1>2. PICK j \in Jobs : j = [Idle EXCEPT !.op = "on", !.slots = {s}, !.ids = {k}, !.saw = On(s)]
  BY <1>1 DEF Jobs, Idle, Ops
<1>3. j.op = "on" /\ j.at = "select" /\ j.slots = {s} /\ j.ids = {k} /\ j.saw = On(s) /\ j.held = {}
      /\ j.ins = {}
  BY <1>2 DEF Idle
<1>4. Fits(j)
  BY <1>1, <1>3 DEF Fits
<1>5. Begin(r, j) /\ UNCHANGED <<clock, gone, db, service>>
  BY <1>2 DEF ChooseOn
<1> QED
  BY <1>1, <1>3, <1>4, <1>5, BeginInv

LEMMA ChooseOffInv ==
  ASSUME Inv, NEW r \in Requests, NEW S \in {{s} : s \in Slots} \cup {{AppData} \X Clients},
         ChooseOff(r, S)
  PROVE  Inv'
<1>1. S \subseteq Slots
  BY ConsentsAssumption DEF Slots, AppSlots
<1>2. PICK j \in Jobs : j = [Idle EXCEPT !.op = "off", !.slots = S, !.saw = OnIn(S)]
  BY <1>1, SawOn DEF Jobs, Idle, Ops
<1>3. j.op = "off" /\ j.at = "select" /\ j.ids = {} /\ j.saw = OnIn(S) /\ j.held = {} /\ j.ins = {}
  BY <1>2 DEF Idle
<1>4. Fits(j)
  BY <1>3, SawOn DEF Fits
<1>5. Begin(r, j) /\ UNCHANGED <<clock, gone, db, service>>
  BY <1>2 DEF ChooseOff
<1> QED
  BY <1>3, <1>4, <1>5, BeginInv

LEMMA SweepInv == ASSUME Inv, NEW r \in Requests, NEW k \in Rows, Sweep(r, k) PROVE Inv'
<1>1. clock \in Nat
  BY ConsentsAssumption DEF Inv, TypeOK
<1>2. PICK j \in Jobs : j = [Idle EXCEPT !.op = "sweep", !.now = clock, !.saw = {k}]
  BY <1>1 DEF Jobs, Idle, Ops
<1>3. j.op = "sweep" /\ j.at = "select" /\ j.ids = {} /\ j.saw = {k} /\ j.held = {} /\ j.ins = {}
  BY <1>2 DEF Idle
<1>4. Fits(j)
  BY <1>3 DEF Fits, Sweep
<1>5. Begin(r, j) /\ UNCHANGED <<clock, gone, db, service>>
  BY <1>2 DEF Sweep
<1> QED
  BY <1>3, <1>4, <1>5, BeginInv

LEMMA DecideAppInv ==
  ASSUME Inv, NEW r \in Requests, NEW a \in Clients, NEW P \in SUBSET Purposes, NEW T \in SUBSET Purposes,
         NEW K \in SUBSET Rows, DecideApp(r, a, P, T, K)
  PROVE  Inv'
<1>1. P \X {a} \subseteq AppSlots /\ T \X {a} \subseteq AppSlots /\ AppSlots \subseteq Slots
  BY SlotsDiffer DEF AppSlots
<1>2. PICK show \in SUBSET AppSlots, allow \in SUBSET AppSlots : show = P \X {a} /\ allow = T \X {a}
  BY <1>1
<1>3. PICK j \in Jobs : j = [Idle EXCEPT !.op = "decide", !.at = "ask", !.slots = show, !.allow = allow, !.ids = K]
  BY <1>1 DEF Jobs, Idle, Ops
<1>4. j.op = "decide" /\ j.at = "ask" /\ j.slots = show /\ j.ids = K /\ j.saw = {} /\ j.held = {} /\ j.ins = {}
      /\ j.refuse = {}
  BY <1>3 DEF Idle
<1>5. K \subseteq Unused /\ \A k \in K : row[k].state = "none"
  BY DEF DecideApp, Unused
<1>6. Fits(j)
  BY <1>4, <1>5 DEF Fits
<1>7. Begin(r, j) /\ UNCHANGED <<clock, gone, db, service>>
  BY <1>2, <1>3 DEF DecideApp
<1> QED
  BY <1>4, <1>5, <1>6, <1>7, BeginInv

LEMMA EndAccountInv == ASSUME Inv, NEW r \in Requests, EndAccount(r) PROVE Inv'
<1>1. PICK j \in Jobs : j = [Idle EXCEPT !.op = "end", !.saw = OnIn(Slots)]
  BY SawOn DEF Jobs, Idle, Ops
<1>2. j.op = "end" /\ j.at = "select" /\ j.ids = {} /\ j.saw = OnIn(Slots) /\ j.held = {} /\ j.ins = {}
  BY <1>1 DEF Idle
<1>3. Fits(j)
  BY <1>2, SawOn DEF Fits, EndAccount
<1>4. Begin(r, j) /\ UNCHANGED <<clock, gone, db, service>>
  BY <1>1 DEF EndAccount
<1> QED
  BY <1>2, <1>3, <1>4, BeginInv DEF EndAccount

----------------------------------------------------------------------------
(* Calls that lock, ask and answer *)

LEMMA LockInv == ASSUME Inv, NEW r \in Requests, Lock(r) PROVE Inv'
<1>1. PICK held \in SUBSET Rows : held = {k \in job[r].saw : row[k].state = "on"}
  BY JobType
<1>2. PICK j \in Jobs : j = [job[r] EXCEPT !.at = "write", !.held = held]
  BY JobType DEF Jobs
<1>3. /\ j.op = job[r].op /\ j.at = "write" /\ j.ids = job[r].ids /\ j.saw = job[r].saw /\ j.held = held
      /\ j.ins = job[r].ins /\ j.slots = job[r].slots /\ j.todo = job[r].todo
  BY <1>2, JobType DEF Jobs
<1>4. job' = [job EXCEPT ![r] = j]
  BY <1>1, <1>2 DEF Lock, Inv, TypeOK
<1>5. Fits(j)
  BY <1>1, <1>3, JobType DEF Fits, Lock
<1>6. ASSUME NEW q \in Requests \ {r} PROVE Apart(j, job[q])
  <2>1. Apart(job[r], job[q])
    BY DEF Inv
  <2>2. held \cap job[q].held = {}
    BY <1>1 DEF Lock, LockedByOthers
  <2> QED
    BY <1>3, <2>1, <2>2 DEF Apart
<1> QED
  BY <1>3, <1>4, <1>5, <1>6, QuietInv DEF Lock

LEMMA AskActiveInv == ASSUME Inv, NEW r \in Requests, NEW s \in AppSlots, AskActive(r, s) PROVE Inv'
<1>1. On(s) \subseteq Rows /\ \A k \in On(s) : row[k].state = "on"
  BY DEF On
<1>2. CASE On(s) # {}
  <2>1. PICK held \in SUBSET Rows : held = job[r].held \cup On(s)
    BY <1>1, JobType
  <2>2. PICK j \in Jobs : j = [job[r] EXCEPT !.held = held, !.slots = job[r].slots \ {s}]
    BY JobType DEF Jobs
  <2>3. /\ j.op = job[r].op /\ j.at = job[r].at /\ j.ids = job[r].ids /\ j.saw = job[r].saw /\ j.held = held
        /\ j.ins = job[r].ins /\ j.slots = job[r].slots \ {s} /\ j.todo = job[r].todo
        /\ j.refuse = job[r].refuse
    BY <2>2, JobType DEF Jobs
  <2>4. job' = [job EXCEPT ![r] = j]
    BY <1>2, <2>1, <2>2 DEF AskActive, Inv, TypeOK
  <2>5. Fits(j)
    BY <1>1, <2>1, <2>3, JobType DEF Fits, AskActive
  <2>6. ASSUME NEW q \in Requests \ {r} PROVE Apart(j, job[q])
    <3>1. Apart(job[r], job[q])
      BY DEF Inv
    <3>2. On(s) \cap job[q].held = {}
      BY DEF AskActive, LockedByOthers
    <3> QED
      BY <2>1, <2>3, <3>1, <3>2 DEF Apart
  <2> QED
    BY <2>3, <2>4, <2>5, <2>6, QuietInv DEF AskActive
<1>3. CASE On(s) = {}
  <2>1. s \in Slots
    BY SlotsDiffer
  <2>2. PICK j \in Jobs : j = [job[r] EXCEPT !.at = "answer", !.saw = {}, !.todo = {s}]
    BY <2>1, JobType DEF Jobs
  <2>3. /\ j.op = job[r].op /\ j.at = "answer" /\ j.ids = job[r].ids /\ j.saw = {} /\ j.held = job[r].held
        /\ j.ins = job[r].ins /\ j.slots = job[r].slots /\ j.todo = {s} /\ j.refuse = job[r].refuse
    BY <2>2, JobType DEF Jobs
  <2>4. job' = [job EXCEPT ![r] = j]
    BY <1>3, <2>2 DEF AskActive, Inv, TypeOK
  <2>5. Fits(j)
    BY <2>3, JobType DEF Fits, AskActive
  <2>6. ASSUME NEW q \in Requests \ {r} PROVE Apart(j, job[q])
    <3>1. Apart(job[r], job[q])
      BY DEF Inv
    <3> QED
      BY <2>3, <3>1 DEF Apart
  <2> QED
    BY <2>3, <2>4, <2>5, <2>6, QuietInv DEF AskActive
<1> QED
  BY <1>2, <1>3

\* The INSERT of a screen goes into a slot where nobody else has an active row
\* or an INSERT under way.
LEMMA AnswerSlotInv == ASSUME Inv, NEW r \in Requests, AnswerSlot(r) PROVE Inv'
<1>1. PICK s \in job[r].todo :
        LET j == [job[r] EXCEPT !.at = "ask", !.slots = @ \ {s}, !.todo = {}]
            allowed == [j EXCEPT !.drop = @ \cup ({s} \cap refused)]
        IN  IF s \notin j.allow THEN job' = [job EXCEPT ![r] = [j EXCEPT !.refuse = @ \cup {s}]]
            ELSE /\ ~InsertedByOthers(r, s)
                 /\ IF On(s) # {} THEN job' = [job EXCEPT ![r] = allowed]
                    ELSE \E k \in FreeIds(r) : job' = [job EXCEPT ![r] =
                            [allowed EXCEPT !.ins = @ \cup {<<k, s>>}]]
  BY DEF AnswerSlot
<1>2. job[r].op = "decide" /\ job[r].at = "answer" /\ UNCHANGED <<clock, gone, db, service>>
  BY DEF AnswerSlot
<1>3. s \in AppSlots /\ s \in Slots
  BY <1>2, JobType, SlotsDiffer DEF Fits
<1>4. PICK base \in Jobs : base = [job[r] EXCEPT !.at = "ask", !.slots = job[r].slots \ {s}, !.todo = {}]
  BY JobType DEF Jobs
<1>5. /\ base.op = "decide" /\ base.at = "ask" /\ base.ids = job[r].ids /\ base.saw = job[r].saw
      /\ base.held = job[r].held /\ base.ins = job[r].ins /\ base.slots = job[r].slots \ {s}
      /\ base.allow = job[r].allow /\ base.refuse = job[r].refuse
  BY <1>2, <1>4, JobType DEF Jobs
<1>6. Fits(base) /\ \A q \in Requests \ {r} : Apart(base, job[q])
  <2>1. Fits(base)
    <3>1. Fits(job[r])
      BY DEF Inv
    <3> QED
      BY <1>2, <1>5, <3>1 DEF Fits
  <2>2. ASSUME NEW q \in Requests \ {r} PROVE Apart(base, job[q])
    <3>1. Apart(job[r], job[q])
      BY DEF Inv
    <3> QED
      BY <1>2, <1>5, <3>1 DEF Apart
  <2> QED
    BY <2>1, <2>2
<1>7. PICK refusing \in Jobs : refusing = [base EXCEPT !.refuse = base.refuse \cup {s}]
  BY <1>3 DEF Jobs
<1>8. PICK allowing \in Jobs : allowing = [base EXCEPT !.drop = base.drop \cup ({s} \cap refused)]
  BY <1>3 DEF Jobs
<1>9. ASSUME NEW j \in {refusing, allowing} PROVE
        /\ j \in Jobs /\ j.op = "decide" /\ j.at = "ask" /\ j.ids = job[r].ids /\ j.saw = job[r].saw
        /\ j.held = job[r].held /\ j.ins = job[r].ins /\ j.slots = job[r].slots \ {s}
        /\ j.refuse \subseteq job[r].refuse \cup {s}
  BY <1>5, <1>7, <1>8 DEF Jobs
<1>10. ASSUME NEW j \in {refusing, allowing} PROVE Fits(j) /\ \A q \in Requests \ {r} : Apart(j, job[q])
  <2>1. Fits(job[r]) /\ j.refuse \subseteq AppSlots
    BY <1>2, <1>3, <1>9, JobType DEF Fits
  <2> QED
    BY <1>5, <1>6, <1>9, <2>1 DEF Fits, Apart
<1>11. ASSUME NEW j \in {refusing, allowing}, job' = [job EXCEPT ![r] = j] PROVE Inv'
  BY <1>2, <1>9, <1>10, <1>11, QuietInv
<1>12. CASE s \notin job[r].allow
  <2>1. job' = [job EXCEPT ![r] = refusing]
    BY <1>1, <1>4, <1>5, <1>7, <1>12
  <2> QED
    BY <1>11, <2>1
<1>13. CASE s \in job[r].allow /\ On(s) # {}
  <2>1. job' = [job EXCEPT ![r] = allowing]
    BY <1>1, <1>4, <1>5, <1>8, <1>13
  <2> QED
    BY <1>11, <2>1
<1>14. CASE s \in job[r].allow /\ On(s) = {}
  <2>1. PICK k \in FreeIds(r) : job' = [job EXCEPT ![r] = [allowing EXCEPT !.ins = allowing.ins \cup {<<k, s>>}]]
    BY <1>1, <1>4, <1>5, <1>8, <1>14
  <2>2. ~InsertedByOthers(r, s) /\ k \in job[r].ids /\ k \in Rows /\ \A x \in job[r].ins : x[1] # k
    BY <1>1, <1>4, <1>5, <1>14, JobType DEF FreeIds
  <2>3. PICK new \in Rows \X Slots : new = <<k, s>> /\ new[1] = k /\ new[2] = s
    <3>1. <<k, s>> \in Rows \X Slots
      BY <1>3, <2>2
    <3>2. <<k, s>>[1] = k /\ <<k, s>>[2] = s
      OBVIOUS
    <3> QED
      BY <3>1, <3>2
  <2>4. PICK ins \in SUBSET (Rows \X Slots) : ins = job[r].ins \cup {new}
    BY <2>3, JobType
  <2>5. PICK j \in Jobs : j = [allowing EXCEPT !.ins = ins]
    BY DEF Jobs
  <2>6. job' = [job EXCEPT ![r] = j]
    BY <1>9, <2>1, <2>3, <2>4, <2>5
  <2>7. /\ j.op = "decide" /\ j.at = "ask" /\ j.ids = job[r].ids /\ j.saw = job[r].saw
        /\ j.held = job[r].held /\ j.ins = ins /\ j.slots = job[r].slots \ {s}
        /\ j.refuse \subseteq job[r].refuse \cup {s}
    BY <1>9, <2>5 DEF Jobs
  <2>8. \A l \in Rows : row[l].state = "on" => row[l].slot # s
    BY <1>14 DEF On
  <2>9. Fits(job[r]) /\ s \in job[r].slots
    BY <1>2, JobType DEF Fits
  <2>10. Fits(j)
    <3>1. \A x \in ins : /\ x[1] \in j.ids /\ x[2] \in AppSlots /\ x[2] \notin j.slots
                          /\ \A l \in Rows : row[l].state = "on" => row[l].slot # x[2]
      BY <1>3, <2>2, <2>3, <2>4, <2>7, <2>8, <2>9 DEF Fits
    <3>2. \A x, y \in ins : x[1] = y[1] \/ x[2] = y[2] => x = y
      <4>1. \A x \in job[r].ins : x[1] # k /\ x[2] # s
        BY <2>2, <2>9 DEF Fits
      <4> QED
        BY <2>3, <2>4, <2>9, <4>1 DEF Fits
    <3>3. /\ \A l \in j.ids : row[l].state = "none"
          /\ \A l \in j.saw \cup j.held : row[l].state # "none"
          /\ \A l \in j.held : row[l].state = "on"
          /\ j.slots \subseteq AppSlots /\ j.refuse \subseteq AppSlots
      BY <1>2, <1>3, <2>7, <2>9 DEF Fits
    <3> QED
      BY <2>7, <3>1, <3>2, <3>3 DEF Fits
  <2>11. ASSUME NEW q \in Requests \ {r} PROVE Apart(j, job[q])
    <3>1. Apart(job[r], job[q])
      BY DEF Inv
    <3>2. \A y \in job[q].ins : y[2] # s
      BY <2>2 DEF InsertedByOthers
    <3> QED
      BY <2>3, <2>4, <2>7, <3>1, <3>2 DEF Apart
  <2> QED
    BY <1>2, <2>6, <2>7, <2>10, <2>11, QuietInv
<1> QED
  BY <1>5, <1>12, <1>13, <1>14

----------------------------------------------------------------------------
(* Commits *)

\* Rows that are turned off: each was active, and its trail has one end more.
LEMMA TurnedOff ==
  ASSUME Inv, NEW r \in Requests, NEW old \in SUBSET job[r].held
  PROVE  /\ RowsOff(old) \in [Rows -> RowType] /\ TrailsEnd(old) \in [Rows -> TrailType]
         /\ \A k \in old : /\ k \in Rows /\ row[k].state = "on" /\ row[k].slot \in Slots
                           /\ RowsOff(old)[k].state = "off" /\ RowsOff(old)[k].slot = row[k].slot
                           /\ TrailsEnd(old)[k].granted = 1 /\ TrailsEnd(old)[k].ended = 1
                           /\ TrailsEnd(old)[k].gone = 0
         /\ \A k \in Rows \ old : RowsOff(old)[k] = row[k] /\ TrailsEnd(old)[k] = trail[k]
<1>1. \A k \in old : k \in Rows /\ row[k].state = "on"
  BY JobType DEF Fits
<1>2. ASSUME NEW k \in old PROVE /\ row[k] \in RowType /\ trail[k] \in TrailType
                                 /\ row[k].slot \in Slots /\ trail[k].granted = 1 /\ trail[k].ended = 0
                                 /\ trail[k].gone = 0
  BY <1>1, RowTypes DEF RowOK
<1>3. ASSUME NEW k \in old PROVE
        /\ [row[k] EXCEPT !.state = "off"] \in RowType
        /\ [row[k] EXCEPT !.state = "off"].state = "off"
        /\ [row[k] EXCEPT !.state = "off"].slot = row[k].slot
  BY <1>2 DEF RowType
<1>4. ASSUME NEW k \in old PROVE
        /\ [trail[k] EXCEPT !.ended = trail[k].ended + 1] \in TrailType
        /\ [trail[k] EXCEPT !.ended = trail[k].ended + 1].granted = 1
        /\ [trail[k] EXCEPT !.ended = trail[k].ended + 1].ended = 1
        /\ [trail[k] EXCEPT !.ended = trail[k].ended + 1].gone = 0
  BY <1>2 DEF TrailType
<1>5. \A k \in Rows : /\ RowsOff(old)[k] = IF k \in old THEN [row[k] EXCEPT !.state = "off"] ELSE row[k]
                      /\ TrailsEnd(old)[k] = IF k \in old THEN [trail[k] EXCEPT !.ended = trail[k].ended + 1]
                                             ELSE trail[k]
  BY DEF RowsOff, TrailsEnd
<1>6. RowsOff(old) \in [Rows -> RowType]
  <2>1. \A k \in Rows : RowsOff(old)[k] \in RowType
    BY <1>3, <1>5, RowTypes
  <2> QED
    BY <2>1 DEF RowsOff
<1>7. TrailsEnd(old) \in [Rows -> TrailType]
  <2>1. \A k \in Rows : TrailsEnd(old)[k] \in TrailType
    BY <1>4, <1>5, RowTypes
  <2> QED
    BY <2>1 DEF TrailsEnd
<1>8. \A k \in old : /\ RowsOff(old)[k].state = "off" /\ RowsOff(old)[k].slot = row[k].slot
                     /\ TrailsEnd(old)[k].granted = 1 /\ TrailsEnd(old)[k].ended = 1
                     /\ TrailsEnd(old)[k].gone = 0
  BY <1>1, <1>3, <1>4, <1>5
<1>9. \A k \in Rows \ old : RowsOff(old)[k] = row[k] /\ TrailsEnd(old)[k] = trail[k]
  BY <1>5
<1> QED
  BY <1>1, <1>2, <1>6, <1>7, <1>8, <1>9

\* WriteOff and WriteSweep: locked rows are turned off.
LEMMA OffInv ==
  ASSUME Inv, NEW r \in Requests, NEW old \in SUBSET job[r].held, job[r].at = "write",
         row' = RowsOff(old), trail' = TrailsEnd(old), Sending(r, SlotsOf(old)),
         UNCHANGED <<clock, gone, refused, service>>
  PROVE  Inv'
<1>1. /\ row' \in [Rows -> RowType] /\ trail' \in [Rows -> TrailType]
      /\ \A k \in old : /\ k \in Rows /\ row[k].state = "on" /\ row[k].slot \in Slots
                        /\ row'[k].state = "off" /\ row'[k].slot = row[k].slot
                        /\ trail'[k].granted = 1 /\ trail'[k].ended = 1 /\ trail'[k].gone = 0
      /\ \A k \in Rows \ old : row'[k] = row[k] /\ trail'[k] = trail[k]
  BY TurnedOff
<1>2. PICK S \in SUBSET Slots : S = SlotsOf(old)
  <2>1. SlotsOf(old) \subseteq Slots
    BY <1>1 DEF SlotsOf
  <2> QED
    BY <2>1
<1>3. \A k \in Rows : row'[k] # row[k] => row'[k].slot \in S
  BY <1>1, <1>2 DEF SlotsOf
<1>4. Steady(r)
  <2>1. ASSUME NEW q \in Requests \ {r} PROVE old \cap job[q].held = {} /\ job[q].held \subseteq Rows
    BY JobType DEF Inv, Apart
  <2>2. \A k \in Rows : row[k].state = "none" => row'[k] = row[k]
    BY <1>1
  <2>3. \A k \in Rows : row'[k].state = "on" => row'[k] = row[k]
    BY <1>1
  <2> QED
    BY <1>1, <2>1, <2>2, <2>3 DEF Steady
<1>5. ASSUME NEW k \in Rows PROVE RowOK(k)'
  <2>1. CASE k \in old
    BY <1>1, <2>1 DEF RowOK
  <2>2. CASE k \notin old
    BY <1>1, <2>2, RowTypes DEF RowOK
  <2> QED
    BY <2>1, <2>2
<1>6. AtMostOne'
  <2>1. \A k \in Rows : row'[k].state = "on" => row'[k] = row[k]
    BY <1>1
  <2> QED
    BY <2>1 DEF Inv, AtMostOne
<1>7. Sending(r, S) /\ gone' \in BOOLEAN /\ refused' \subseteq AppSlots
  BY <1>2 DEF Inv, TypeOK
<1> QED
  BY <1>1, <1>3, <1>4, <1>5, <1>6, <1>7, CommitInv

LEMMA WriteOffInv == ASSUME Inv, NEW r \in Requests, WriteOff(r) PROVE Inv'
BY OffInv DEF WriteOff

LEMMA WriteSweepInv == ASSUME Inv, NEW r \in Requests, WriteSweep(r) PROVE Inv'
<1>1. PICK old \in SUBSET job[r].held : old = {k \in job[r].held : row[k].expires <= job[r].now}
  OBVIOUS
<1> QED
  BY <1>1, OffInv DEF WriteSweep

\* choose, on: its own rows end and one begins; what another tab put there
\* meanwhile rolls it back.
LEMMA WriteOnInv == ASSUME Inv, NEW r \in Requests, WriteOn(r) PROVE Inv'
<1>1. PICK s \in job[r].slots, k \in job[r].ids :
        IF On(s) \subseteq job[r].held
        THEN /\ row' = [RowsOff(job[r].held) EXCEPT ![k] = [state |-> "on", slot |-> s, expires |-> Never]]
             /\ trail' = [TrailsEnd(job[r].held) EXCEPT ![k].granted = @ + 1]
             /\ Sending(r, {s})
        ELSE UNCHANGED <<row, trail>> /\ job' = [job EXCEPT ![r] = Idle]
  BY DEF WriteOn
<1>2. job[r].op = "on" /\ job[r].at = "write" /\ UNCHANGED <<clock, gone, refused, service>>
  BY DEF WriteOn
<1>3. /\ s \in OwnSlots /\ s \in Slots /\ s \notin AppSlots /\ k \in Rows /\ row[k].state = "none"
      /\ \A l \in job[r].held : row[l].slot = s
  BY <1>2, JobType, SlotsDiffer DEF Fits
<1>4. CASE ~(On(s) \subseteq job[r].held)
  <2>1. \A q \in Requests \ {r} : Apart(Idle, job[q])
    BY IdleFits DEF Apart
  <2> QED
    BY <1>1, <1>2, <1>4, <2>1, IdleFits, QuietInv DEF db
<1>5. CASE On(s) \subseteq job[r].held
  <2> DEFINE old == job[r].held
  <2>1. /\ RowsOff(old) \in [Rows -> RowType] /\ TrailsEnd(old) \in [Rows -> TrailType]
        /\ \A l \in old : /\ l \in Rows /\ row[l].state = "on" /\ row[l].slot \in Slots
                          /\ RowsOff(old)[l].state = "off" /\ RowsOff(old)[l].slot = row[l].slot
                          /\ TrailsEnd(old)[l].granted = 1 /\ TrailsEnd(old)[l].ended = 1
                          /\ TrailsEnd(old)[l].gone = 0
        /\ \A l \in Rows \ old : RowsOff(old)[l] = row[l] /\ TrailsEnd(old)[l] = trail[l]
    BY TurnedOff
  <2>2. k \notin old /\ TrailsEnd(old)[k] = NoTrail
    BY <1>3, <2>1, RowTypes DEF RowOK
  <2>3. PICK new \in RowType : new = [state |-> "on", slot |-> s, expires |-> Never]
    BY <1>3, ConsentsAssumption DEF RowType
  <2>4. PICK begun \in TrailType : begun = [NoTrail EXCEPT !.granted = 1]
    <3>1. 0 \in 0..1 /\ 1 \in 0..1
      OBVIOUS
    <3>2. [NoTrail EXCEPT !.granted = 1] \in TrailType
      BY <3>1 DEF TrailType, NoTrail
    <3> QED
      BY <3>2
  <2>5. row' = [RowsOff(old) EXCEPT ![k] = new]
    BY <1>1, <1>5, <2>3
  <2>6. trail' = [TrailsEnd(old) EXCEPT ![k] = begun]
    BY <1>1, <1>5, <2>2, <2>4 DEF NoTrail
  <2>7. /\ row' \in [Rows -> RowType] /\ row'[k] = new /\ \A l \in Rows \ {k} : row'[l] = RowsOff(old)[l]
        /\ trail' \in [Rows -> TrailType] /\ trail'[k] = begun
        /\ \A l \in Rows \ {k} : trail'[l] = TrailsEnd(old)[l]
    BY <1>3, <2>1, <2>5, <2>6
  <2>8. new.state = "on" /\ new.slot = s /\ begun.granted = 1 /\ begun.ended = 0 /\ begun.gone = 0
    BY <2>3, <2>4 DEF NoTrail
  <2>9. \A l \in Rows : row'[l] # row[l] => row'[l].slot = s
    BY <1>3, <2>1, <2>7, <2>8
  <2>10. \A l \in Rows \ {k} : row'[l].state = "on" => row'[l] = row[l] /\ row[l].slot # s
    BY <1>5, <2>1, <2>7 DEF On
  <2>11. Steady(r)
    <3>1. ASSUME NEW q \in Requests \ {r}, NEW l \in job[q].held PROVE row'[l] = row[l]
      <4>1. l \in Rows /\ l \notin old /\ row[l].state = "on"
        BY <3>1, JobType DEF Inv, Apart, Fits
      <4> QED
        BY <1>3, <2>1, <2>7, <4>1
    <3>2. ASSUME NEW q \in Requests \ {r}, NEW x \in job[q].ins PROVE x[2] # s
      BY <1>3, <3>2, JobType DEF Fits
    <3>3. \A l \in Rows : row[l].state = "none" /\ row'[l].state # "none" => l = k
      BY <2>1, <2>7
    <3>4. \A l \in Rows : row[l].state # "none" =>
             /\ row'[l].state # "none" /\ row'[l].slot = row[l].slot
             /\ row'[l].state = "on" => row'[l] = row[l]
      BY <1>3, <2>1, <2>7
    <3> QED
      BY <1>2, <1>3, <2>7, <2>8, <3>1, <3>2, <3>3, <3>4 DEF Steady
  <2>12. ASSUME NEW l \in Rows PROVE RowOK(l)'
    <3>1. CASE l = k
      BY <1>3, <2>7, <2>8, <3>1 DEF RowOK
    <3>2. CASE l # k /\ l \in old
      BY <2>1, <2>7, <3>2 DEF RowOK
    <3>3. CASE l # k /\ l \notin old
      BY <1>2, <2>1, <2>7, <3>3, RowTypes DEF RowOK
    <3> QED
      BY <3>1, <3>2, <3>3
  <2>13. AtMostOne'
    BY <2>7, <2>8, <2>10 DEF Inv, AtMostOne
  <2>14. PICK S \in SUBSET Slots : S = {s}
    BY <1>3
  <2>15. Sending(r, S) /\ gone' \in BOOLEAN /\ refused' \subseteq AppSlots
    BY <1>1, <1>2, <1>5, <2>14 DEF Inv, TypeOK
  <2>16. \A l \in Rows : row'[l] # row[l] => row'[l].slot \in S
    BY <2>9, <2>14
  <2> QED
    BY <1>2, <2>7, <2>11, <2>12, <2>13, <2>15, <2>16, CommitInv
<1> QED
  BY <1>4, <1>5

\* An answered screen: every slot it inserted into is still empty.
LEMMA CommitDecisionInv == ASSUME Inv, NEW r \in Requests, CommitDecision(r) PROVE Inv'
<1> DEFINE ins == job[r].ins
<1>1. job[r].op = "decide" /\ job[r].at = "ask" /\ UNCHANGED <<clock, gone, service>>
      /\ Sending(r, {x[2] : x \in ins}) /\ refused' = (refused \cup job[r].refuse) \ job[r].drop
  BY DEF CommitDecision
<1>2. ASSUME NEW k \in Rows, \A x \in ins : x[1] # k PROVE row'[k] = row[k] /\ trail'[k] = trail[k]
  <2>1. {x \in ins : x[1] = k} = {}
    BY <1>2
  <2> QED
    BY <2>1 DEF CommitDecision
<1>3. ASSUME NEW k \in Rows, \E x \in ins : x[1] = k
      PROVE  \E x \in ins : /\ x[1] = k /\ row'[k] = [state |-> "on", slot |-> x[2], expires |-> Never]
                            /\ trail'[k] = [trail[k] EXCEPT !.granted = trail[k].granted + 1]
  <2>1. {x \in ins : x[1] = k} # {}
    BY <1>3
  <2>2. PICK x \in ins : x[1] = k /\ x = CHOOSE y \in {z \in ins : z[1] = k} : TRUE
    BY <2>1
  <2>3. row'[k] = [state |-> "on", slot |-> x[2], expires |-> Never]
    BY <2>1, <2>2 DEF CommitDecision
  <2>4. trail'[k] = [trail[k] EXCEPT !.granted = trail[k].granted + 1]
    BY <2>1 DEF CommitDecision
  <2> QED
    BY <2>2, <2>3, <2>4
<1>4. ASSUME NEW x \in ins
      PROVE  /\ x[1] \in job[r].ids /\ x[1] \in Rows /\ row[x[1]].state = "none" /\ x[2] \in Slots
             /\ \A k \in Rows : row[k].state = "on" => row[k].slot # x[2]
  <2>1. Fits(job[r]) /\ ins \subseteq Rows \X Slots
    BY JobType
  <2> QED
    BY <2>1 DEF Fits
<1>5. ASSUME NEW k \in Rows, NEW x \in ins, x[1] = k
      PROVE  /\ row'[k] \in RowType /\ row'[k].state = "on" /\ row'[k].slot = x[2]
             /\ trail'[k] \in TrailType /\ trail'[k].granted = 1 /\ trail'[k].ended = 0 /\ trail'[k].gone = 0
  <2>1. PICK y \in ins : /\ y[1] = k /\ row'[k] = [state |-> "on", slot |-> y[2], expires |-> Never]
                         /\ trail'[k] = [trail[k] EXCEPT !.granted = trail[k].granted + 1]
    BY <1>3, <1>5
  <2>2. y = x
    BY <1>5, <2>1, JobType DEF Fits
  <2>3. Never \in Nat /\ x[2] \in Slots
    BY <1>4, ConsentsAssumption
  <2>4. row'[k] \in RowType /\ row'[k].state = "on" /\ row'[k].slot = x[2]
    BY <2>1, <2>2, <2>3 DEF RowType
  <2>5. trail[k] = NoTrail
    BY <1>4, <1>5, RowTypes DEF RowOK
  <2>6. [granted |-> 1, ended |-> 0, gone |-> 0] \in TrailType
    BY DEF TrailType
  <2>7. trail'[k] = [granted |-> 1, ended |-> 0, gone |-> 0]
    BY <2>1, <2>5 DEF NoTrail
  <2> QED
    BY <2>4, <2>6, <2>7
<1>6. row' \in [Rows -> RowType] /\ trail' \in [Rows -> TrailType]
  <2>1. \A k \in Rows : row'[k] \in RowType /\ trail'[k] \in TrailType
    BY <1>2, <1>5, RowTypes
  <2> QED
    BY <2>1 DEF CommitDecision
<1>7. PICK S \in SUBSET Slots : S = {x[2] : x \in ins}
  <2>1. {x[2] : x \in ins} \subseteq Slots
    BY <1>4
  <2> QED
    BY <2>1
<1>8. \A k \in Rows : row'[k] # row[k] => row'[k].slot \in S
  BY <1>2, <1>5, <1>7
<1>9. Steady(r)
  <2>1. \A k \in Rows : row[k].state # "none" => row'[k] = row[k]
    BY <1>2, <1>4
  <2>2. \A k \in Rows : row[k].state = "none" /\ row'[k].state # "none" => k \in job[r].ids /\ row'[k].slot \in Slots
    BY <1>2, <1>4, <1>5
  <2>3. ASSUME NEW q \in Requests \ {r}, NEW l \in job[q].held PROVE row'[l] = row[l]
    BY <2>1, JobType DEF Fits
  <2>4. ASSUME NEW q \in Requests \ {r}, NEW y \in job[q].ins, NEW k \in Rows,
               row[k].state = "none", row'[k].state = "on"
        PROVE  row'[k].slot # y[2]
    <3>1. PICK x \in ins : x[1] = k
      BY <1>2, <2>4
    <3>2. Apart(job[r], job[q])
      BY DEF Inv
    <3> QED
      BY <1>5, <3>1, <3>2 DEF Apart
  <2> QED
    BY <1>1, <2>1, <2>2, <2>3, <2>4 DEF Steady
<1>10. ASSUME NEW k \in Rows PROVE RowOK(k)'
  <2>1. CASE \E x \in ins : x[1] = k
    <3>1. row'[k].state = "on" /\ row'[k].slot \in Slots
          /\ trail'[k].granted = 1 /\ trail'[k].ended = 0 /\ trail'[k].gone = 0
      BY <1>4, <1>5, <2>1
    <3> QED
      BY <3>1 DEF RowOK
  <2>2. CASE \A x \in ins : x[1] # k
    BY <1>1, <1>2, <2>2, RowTypes DEF RowOK
  <2> QED
    BY <2>1, <2>2
<1>11. AtMostOne'
  <2> SUFFICES ASSUME NEW k \in Rows, NEW l \in Rows, row'[k].state = "on", row'[l].state = "on",
                      row'[k].slot = row'[l].slot
               PROVE  k = l
    BY DEF AtMostOne
  <2>1. CASE (\A x \in ins : x[1] # k) /\ (\A x \in ins : x[1] # l)
    BY <1>2, <2>1 DEF Inv, AtMostOne
  <2>2. CASE (\E x \in ins : x[1] = k) /\ (\E x \in ins : x[1] = l)
    BY <1>5, <2>2, JobType DEF Fits
  <2>3. CASE (\E x \in ins : x[1] = k) /\ (\A x \in ins : x[1] # l)
    BY <1>2, <1>4, <1>5, <2>3
  <2>4. CASE (\E x \in ins : x[1] = l) /\ (\A x \in ins : x[1] # k)
    BY <1>2, <1>4, <1>5, <2>4
  <2> QED
    BY <2>1, <2>2, <2>3, <2>4
<1>12. refused' \subseteq AppSlots
  BY <1>1, JobType DEF Fits, Inv, TypeOK
<1>13. Sending(r, S) /\ gone' \in BOOLEAN
  BY <1>1, <1>7 DEF Inv, TypeOK
<1> QED
  BY <1>1, <1>6, <1>8, <1>9, <1>10, <1>11, <1>12, <1>13, CommitInv

\* revokeForSubject: every row it saw is off afterwards, whoever else ended it.
LEMMA WriteEndInv == ASSUME Inv, NEW r \in Requests, WriteEnd(r) PROVE Inv'
<1> DEFINE old == job[r].saw
<1>1. /\ job[r].op = "end" /\ job[r].at = "select" /\ old \cap LockedByOthers(r) = {}
      /\ gone' = TRUE /\ refused' = {} /\ Sending(r, SlotsOf(old)) /\ UNCHANGED <<clock, service>>
  BY DEF WriteEnd
<1>2. ~gone /\ old \subseteq Rows /\ \A k \in old : row[k].state # "none"
  BY <1>1, JobType DEF Fits
<1>3. \A k \in Rows : /\ row'[k] = IF k \in old THEN [row[k] EXCEPT !.state = "off"] ELSE row[k]
                      /\ trail'[k] = IF k \in old THEN [trail[k] EXCEPT !.gone = trail[k].gone + 1] ELSE trail[k]
  BY DEF WriteEnd, RowsOff
<1>4. ASSUME NEW k \in old
      PROVE  /\ row'[k] \in RowType /\ row'[k].state = "off" /\ row'[k].slot = row[k].slot
             /\ row[k].slot \in Slots
             /\ trail'[k] \in TrailType /\ trail'[k].granted = 1 /\ trail'[k].gone = 1
  <2>1. /\ row[k] \in RowType /\ trail[k] \in TrailType /\ row[k].slot \in Slots
        /\ trail[k].granted = 1 /\ trail[k].gone = 0
    BY <1>2, RowTypes DEF RowOK
  <2>2. row'[k] = [row[k] EXCEPT !.state = "off"] /\ trail'[k] = [trail[k] EXCEPT !.gone = trail[k].gone + 1]
    BY <1>2, <1>3
  <2>3. row'[k] \in RowType /\ row'[k].state = "off" /\ row'[k].slot = row[k].slot
    BY <2>1, <2>2 DEF RowType
  <2>4. trail'[k] \in TrailType /\ trail'[k].granted = 1 /\ trail'[k].gone = 1
    BY <2>1, <2>2 DEF TrailType
  <2> QED
    BY <2>1, <2>3, <2>4
<1>5. \A k \in Rows \ old : row'[k] = row[k] /\ trail'[k] = trail[k]
  BY <1>3
<1>6. row' \in [Rows -> RowType] /\ trail' \in [Rows -> TrailType]
  <2>1. \A k \in Rows : row'[k] \in RowType /\ trail'[k] \in TrailType
    BY <1>4, <1>5, RowTypes
  <2> QED
    BY <2>1 DEF WriteEnd, RowsOff
<1>7. PICK S \in SUBSET Slots : S = SlotsOf(old)
  <2>1. SlotsOf(old) \subseteq Slots
    BY <1>4 DEF SlotsOf
  <2> QED
    BY <2>1
<1>8. \A k \in Rows : row'[k] # row[k] => row'[k].slot \in S
  BY <1>4, <1>5, <1>7 DEF SlotsOf
<1>9. Steady(r)
  <2>1. \A k \in Rows : row[k].state = "none" => row'[k] = row[k]
    BY <1>2, <1>5
  <2>2. \A k \in Rows : row[k].state # "none" =>
           /\ row'[k].state # "none" /\ row'[k].slot = row[k].slot
           /\ row'[k].state = "on" => row'[k] = row[k]
    BY <1>4, <1>5
  <2>3. ASSUME NEW q \in Requests \ {r}, NEW k \in job[q].held PROVE row'[k] = row[k]
    <3>1. k \in Rows \ old
      BY <1>1, JobType DEF LockedByOthers
    <3> QED
      BY <1>5, <3>1
  <2>4. ASSUME NEW q \in Requests \ {r} PROVE job[q].op # "end"
    BY <1>1 DEF Inv, Apart
  <2> QED
    BY <2>1, <2>2, <2>3, <2>4 DEF Steady
<1>10. ASSUME NEW k \in Rows PROVE RowOK(k)'
  <2>1. CASE k \in old
    BY <1>1, <1>4, <2>1 DEF RowOK
  <2>2. CASE k \notin old
    BY <1>1, <1>5, <2>2, RowTypes DEF RowOK
  <2> QED
    BY <2>1, <2>2
<1>11. AtMostOne'
  <2>1. \A k \in Rows : row'[k].state = "on" => row'[k] = row[k]
    BY <1>4, <1>5
  <2> QED
    BY <2>1 DEF Inv, AtMostOne
<1>12. Sending(r, S) /\ job[r].at # "send"
  BY <1>1, <1>7
<1> QED
  BY <1>1, <1>6, <1>8, <1>9, <1>10, <1>11, <1>12, CommitInv

----------------------------------------------------------------------------
(* Events, failures and time *)

LEMMA SendInv == ASSUME Inv, NEW r \in Requests, Send(r) PROVE Inv'
<1>1. PICK s \in job[r].todo : queue' = queue \cup {s} /\ Sending(r, job[r].todo \ {s})
  BY DEF Send
<1>2. job[r].at = "send" /\ UNCHANGED <<clock, gone, db, cache, lost>>
  BY DEF Send
<1>3. PICK S \in SUBSET Slots : S = job[r].todo \ {s}
  BY JobType
<1>4. PICK j \in Jobs : /\ j = IF S = {} THEN Idle ELSE [Idle EXCEPT !.op = job[r].op, !.at = "send", !.todo = S]
                        /\ j.op \in {"idle", job[r].op} /\ j.ids = {} /\ j.held = {} /\ j.saw = {}
                        /\ j.ins = {} /\ j.slots = {} /\ j.refuse = {}
                        /\ S # {} => j.at = "send" /\ j.todo = S
                        /\ j.at \in {"select", "send"} /\ (j.at = "select" => j.op = "idle")
  <2>1. CASE S = {}
    BY <2>1, IdleFits
  <2>2. CASE S # {}
    <3>1. [Idle EXCEPT !.op = job[r].op, !.at = "send", !.todo = S] \in Jobs
      BY JobType DEF Idle, Jobs
    <3> QED
      BY <2>2, <3>1 DEF Idle
  <2> QED
    BY <2>1, <2>2
<1>5. job' = [job EXCEPT ![r] = j]
  BY <1>1, <1>3, <1>4 DEF Sending
<1>6. job'[r] = j /\ \A q \in Requests \ {r} : job'[q] = job[q]
  BY <1>5 DEF Inv, TypeOK
<1>7. Fits(j)
  BY <1>4 DEF Fits
<1>8. ASSUME NEW q \in Requests \ {r} PROVE Apart(j, job[q])
  <2>1. Apart(job[r], job[q])
    BY DEF Inv
  <2> QED
    BY <1>4, <2>1 DEF Apart
<1>9. ASSUME NEW t \in Slots, Told(t)' PROVE Told(t)
  <2>1. t # s /\ t \notin queue /\ ~lost
    BY <1>1, <1>2, <1>9 DEF Told
  <2>2. t \notin job[r].todo
    BY <1>3, <1>4, <1>6, <1>9, <2>1 DEF Told
  <2>3. \A q \in Requests \ {r} : ~(job[q].at = "send" /\ t \in job[q].todo)
    BY <1>6, <1>9 DEF Told
  <2> QED
    BY <2>1, <2>2, <2>3 DEF Told
<1>10. ServiceKnows'
  BY <1>2, <1>9, KnowsQuiet DEF db
<1>11. queue' \subseteq Slots /\ cache' = cache /\ lost' \in BOOLEAN
  BY <1>1, <1>2, JobType DEF Inv, TypeOK
<1> QED
  BY <1>2, <1>5, <1>7, <1>8, <1>10, <1>11, JobInv

LEMMA LearnInv == ASSUME Inv, NEW s \in Slots, Learn(s) PROVE Inv'
<1>1. queue' = queue \ {s} /\ cache' = [cache EXCEPT ![s] = Allowed(s)]
      /\ UNCHANGED <<clock, gone, row, trail, refused, lost, job>>
  BY DEF Learn, db
<1>2. Allowed(s) \in BOOLEAN
  BY DEF Allowed
<1>3. cache'[s] = Allowed(s) /\ \A t \in Slots \ {s} : cache'[t] = cache[t]
  BY <1>1 DEF Inv, TypeOK
<1>4. TypeOK'
  BY <1>1, <1>2 DEF Inv, TypeOK
<1>5. \A t \in Slots : On(t)' = On(t) /\ Allowed(t)' = Allowed(t)
  BY <1>1 DEF On, Allowed
<1>6. \A t \in Slots \ {s} : Told(t)' => Told(t)
  BY <1>1 DEF Told
<1>7. Allowed(s) => On(s) # {}
  BY DEF Allowed
<1>8. ServiceKnows'
  BY <1>3, <1>5, <1>6, <1>7 DEF Inv, ServiceKnows
<1> QED
  BY <1>1, <1>4, <1>8 DEF Inv, RowOK, AtMostOne, Fits, Apart

LEMMA FailInv == ASSUME Inv, NEW r \in Requests, Fail(r) PROVE Inv'
<1>1. /\ lost' = (lost \/ job[r].at = "send") /\ job' = [job EXCEPT ![r] = Idle]
      /\ UNCHANGED <<clock, gone, db, queue, cache>>
  BY DEF Fail
<1>2. \A q \in Requests \ {r} : job'[q] = job[q]
  BY <1>1 DEF Inv, TypeOK
<1>3. ASSUME NEW s \in Slots, Told(s)' PROVE Told(s)
  <2>1. ~lost /\ job[r].at # "send" /\ s \notin queue
    BY <1>1, <1>3 DEF Told
  <2>2. \A q \in Requests : ~(job[q].at = "send" /\ s \in job[q].todo)
    BY <1>2, <1>3, <2>1 DEF Told
  <2> QED
    BY <2>1, <2>2 DEF Told
<1>4. ServiceKnows'
  BY <1>1, <1>3, KnowsQuiet DEF db
<1>5. lost' \in BOOLEAN /\ queue' \subseteq Slots
  BY <1>1 DEF Inv, TypeOK
<1>6. \A q \in Requests \ {r} : Apart(Idle, job[q])
  BY IdleFits DEF Apart
<1> QED
  BY <1>1, <1>4, <1>5, <1>6, IdleFits, JobInv

\* Time and a forgotten refusal: what was allowed may no longer be.
LEMMA AroundInv == ASSUME Inv, Tick \/ (\E s \in AppSlots : ForgetRefusal(s)) \/ UNCHANGED vars PROVE Inv'
<1>1. UNCHANGED <<gone, row, trail, queue, cache, lost, job>> /\ refused' \subseteq AppSlots
  BY DEF Tick, ForgetRefusal, vars, db, service, Inv, TypeOK
<1>2. clock \in Nat /\ clock' \in 0..MaxClock /\ clock' >= clock
  BY ConsentsAssumption DEF Tick, ForgetRefusal, vars, Inv, TypeOK
<1>3. TypeOK'
  BY <1>1, <1>2 DEF Inv, TypeOK
<1>4. ASSUME NEW s \in Slots, Allowed(s)' PROVE Allowed(s)
  <2>1. PICK k \in On(s) : row[k].expires > clock'
    BY <1>1, <1>4 DEF Allowed, On
  <2>2. row[k].expires \in Nat
    BY RowTypes DEF On, RowType
  <2>3. row[k].expires > clock
    BY <1>2, <2>1, <2>2
  <2> QED
    BY <2>3 DEF Allowed
<1>5. \A s \in Slots : On(s)' = On(s) /\ Told(s)' = Told(s)
  BY <1>1 DEF On, Told
<1>6. ServiceKnows'
  BY <1>1, <1>4, <1>5 DEF Inv, ServiceKnows
<1> QED
  BY <1>1, <1>3, <1>6 DEF Inv, RowOK, AtMostOne, Fits, Apart

----------------------------------------------------------------------------
(* Theorems *)

LEMMA NextInv == Inv /\ [Next]_vars => Inv'
<1> SUFFICES ASSUME Inv, [Next]_vars PROVE Inv'
  OBVIOUS
<1>1. ASSUME NEW r \in Requests, Begins(r) PROVE Inv'
  BY <1>1, ChooseOnInv, ChooseOffInv, DecideAppInv, EndAccountInv DEF Begins
<1>2. ASSUME NEW r \in Requests, Continues(r) PROVE Inv'
  BY <1>2, LockInv, WriteOnInv, WriteOffInv, WriteSweepInv, AskActiveInv, AnswerSlotInv,
     CommitDecisionInv, WriteEndInv, SendInv
  DEF Continues
<1> QED
  BY <1>1, <1>2, FailInv, SweepInv, LearnInv, AroundInv DEF Next

LEMMA Invariant == Spec => []Inv
BY InitInv, NextInv, PTL DEF Spec

\* The record of what was allowed and of its ends agrees with the rows, however
\* many tabs, screens, sweeps and the end of the account race.
THEOREM RecordHolds == Spec => []RecordProves
<1>1. Inv => RecordProves
  <2> SUFFICES ASSUME Inv PROVE RecordProves
    OBVIOUS
  <2>1. ASSUME NEW k \in Rows
        PROVE  /\ trail[k].granted = IF row[k].state = "none" THEN 0 ELSE 1
               /\ row[k].state = "on" <=> trail[k].granted = 1 /\ trail[k].ended + trail[k].gone = 0
               /\ trail[k].ended <= 1 /\ trail[k].gone <= 1
    <3>1. trail[k].ended \in 0..1 /\ trail[k].gone \in 0..1 /\ RowOK(k)
      BY RowTypes DEF TrailType
    <3> QED
      BY <3>1 DEF RowOK, NoTrail
  <2> QED
    BY <2>1 DEF Inv, RecordProves
<1> QED
  BY <1>1, Invariant, PTL

\* A purpose and a client have one active choice at most.
THEOREM ChoiceIsOne == Spec => []OneChoice
<1>1. Inv => OneChoice
  <2> SUFFICES ASSUME Inv, NEW s \in Slots PROVE Cardinality(On(s)) <= 1
    BY DEF OneChoice
  <2>1. CASE On(s) = {}
    BY <2>1, FS_EmptySet
  <2>2. CASE On(s) # {}
    <3>1. PICK k \in On(s) : On(s) = {k}
      BY <2>2 DEF Inv, AtMostOne, On
    <3>2. Cardinality({k}) = 1
      BY FS_Singleton
    <3> QED
      BY <3>1, <3>2
  <2> QED
    BY <2>1, <2>2
<1> QED
  BY <1>1, Invariant, PTL

\* A service that has heard every event knows what holds.
THEOREM ServiceIsTold == Spec => []ServiceKnows
<1>1. Inv => ServiceKnows
  BY DEF Inv
<1> QED
  BY <1>1, Invariant, PTL
=============================================================================
