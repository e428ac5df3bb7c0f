------------------------------ MODULE Consents ------------------------------
(* The consents of one person: server/consent/index.js, with the end of    *)
(* the account by a merge or a deletion (revokeForSubject), and a service  *)
(* that keeps what check() answered until a network.consent.changed event  *)
(* tells it to ask again.                                                  *)
(*                                                                         *)
(* A handler is one READ COMMITTED transaction and then, after its commit, *)
(* the events, each queued by a statement of its own.  A SELECT FOR UPDATE *)
(* that waited returns what it saw and is still active; it does not see    *)
(* the row that was put in its place (Select, Lock).                       *)
(* Left out: wording, kinds, options, the question of age, and the limit   *)
(* of writes per minute, which refuse a call before it reads anything.     *)
EXTENDS Naturals, FiniteSets

CONSTANTS
    Requests,         \* calls that may be under way at once
    Rows,             \* ids of consents
    Purposes, AppData,\* the purposes; the one that is only ever given to apps
    Clients, Own,     \* apps; OpenVibe itself (client NULL)
    Expiry,           \* expires_at of an imported choice
    Never,            \* an expires_at of NULL
    MaxClock          \* bound: the end of modelled time

ASSUME ConsentsAssumption ==
    /\ AppData \in Purposes /\ Own \notin Clients
    /\ MaxClock \in Nat /\ Expiry \in Nat /\ Never \in Nat /\ Never > MaxClock

\* (purpose, client): the key of the index consents_active, for one person.
AppSlots == Purposes \X Clients
OwnSlots == (Purposes \ {AppData}) \X {Own}
Slots == AppSlots \cup OwnSlots

VARIABLES
    clock,
    gone,     \* the account has been merged away or deleted
    row,      \* consents: state, slot and expires_at
    trail,    \* consent_events: how many of each kind a row has
    refused,  \* consent_refusals
    queue,    \* the slots of the events queued and not yet read by the service
    cache,    \* what the service last heard from check()
    lost,     \* history: an event was never queued
    job       \* the calls under way

db == <<row, trail, refused>>
service == <<queue, cache, lost>>
vars == <<clock, gone, db, service, job>>

Ops == {"idle", "on", "off", "sweep", "decide", "end"}
Jobs == [op: Ops, at: {"select", "write", "ask", "answer", "send"}, now: Nat,   \* sweep: its time
         slots: SUBSET Slots,   \* on, off: what is chosen; decide: shown, not yet answered
         allow: SUBSET Slots,   \* decide: ticked
         ids: SUBSET Rows,      \* ids for the rows to be inserted
         saw: SUBSET Rows,      \* what the SELECT saw
         held: SUBSET Rows,     \* rows it has locked
         ins: SUBSET (Rows \X Slots), refuse: SUBSET Slots, drop: SUBSET Slots,
         todo: SUBSET Slots]    \* payloads to be published
Idle == [op |-> "idle", at |-> "select", now |-> 0, slots |-> {}, allow |-> {},
         ids |-> {}, saw |-> {}, held |-> {}, ins |-> {}, refuse |-> {}, drop |-> {}, todo |-> {}]

NoRow == [state |-> "none", slot |-> <<AppData, Own>>, expires |-> 0]
NoTrail == [granted |-> 0, ended |-> 0, gone |-> 0]

TypeOK ==
    /\ clock \in 0..MaxClock /\ {gone, lost} \subseteq BOOLEAN
    /\ row \in [Rows -> [state: {"none", "on", "off"}, slot: Slots \cup {<<AppData, Own>>},
                         expires: Nat]]
    /\ trail \in [Rows -> [granted: 0..1, ended: 0..1, gone: 0..1]]
    /\ refused \subseteq AppSlots /\ queue \subseteq Slots 
    /\ cache \in [Slots -> BOOLEAN]
    /\ job \in [Requests -> Jobs]

On(s) == {k \in Rows : row[k].state = "on" /\ row[k].slot = s}
OnIn(S) == {k \in Rows : row[k].state = "on" /\ row[k].slot \in S}
\* check: an active row whose end has not passed.
Allowed(s) == \E k \in On(s) : row[k].expires > clock

\* Nothing is chosen yet, except what was imported, with an end.
Init ==
    /\ clock = 0 /\ gone = FALSE
    /\ \E S \in SUBSET AppSlots, f \in [AppSlots -> Rows] :
          /\ \A s, t \in S : f[s] = f[t] => s = t
          /\ row = [k \in Rows |-> IF \E s \in S : f[s] = k
                                   THEN [state |-> "on", slot |-> CHOOSE s \in S : f[s] = k, expires |-> Expiry]
                                   ELSE NoRow]
    /\ trail = [k \in Rows |-> IF row[k].state = "on" THEN [NoTrail EXCEPT !.granted = 1] ELSE NoTrail]
    /\ refused = {} /\ queue = {} /\ lost = FALSE
    /\ cache = [s \in Slots |-> Allowed(s)]
    /\ job = [r \in Requests |-> Idle]

Tick ==
    /\ clock < MaxClock /\ clock' = clock + 1
    /\ UNCHANGED <<gone, db, service, job>>

----------------------------------------------------------------------------
(* Transactions *)

Unused == {k \in Rows : row[k].state = "none" /\ \A r \in Requests : k \notin job[r].ids}
LockedByOthers(r) == UNION {job[q].held : q \in Requests \ {r}}
Begin(r, j) == job[r] = Idle /\ job' = [job EXCEPT ![r] = j]

\* After the commit what was queued for publish() is sent, or the call is over.
Sending(r, S) == job' = [job EXCEPT ![r] = IF S = {} THEN Idle
                                           ELSE [Idle EXCEPT !.op = job[r].op, !.at = "send", !.todo = S]]

\* The rows K are revoked with an event each.
RowsOff(K) == [k \in Rows |-> IF k \in K THEN [row[k] EXCEPT !.state = "off"] ELSE row[k]]
TrailsEnd(K) == [k \in Rows |-> IF k \in K THEN [trail[k] EXCEPT !.ended = @ + 1] ELSE trail[k]]
SlotsOf(K) == {row[k].slot : k \in K}

\* The SELECT FOR UPDATE has waited: of what it saw, it locks what is still active.
Lock(r) ==
    /\ job[r].op \in {"on", "off", "sweep"} /\ job[r].at = "select"
    /\ job[r].saw \cap LockedByOthers(r) = {}
    /\ job' = [job EXCEPT ![r].at = "write", ![r].held = {k \in job[r].saw : row[k].state = "on"}]
    /\ UNCHANGED <<clock, gone, db, service>>

----------------------------------------------------------------------------
(* The person's own choices *)

\* choose, on: never app.data, and its SELECT names client IS NULL.
ChooseOn(r, s, k) ==
    /\ ~gone /\ s \in OwnSlots /\ k \in Unused
    /\ Begin(r, [Idle EXCEPT !.op = "on", !.slots = {s}, !.ids = {k}, !.saw = On(s)])
    /\ UNCHANGED <<clock, gone, db, service>>

\* The old row is revoked, the new one inserted. If another tab put an active
\* row there meanwhile the index refuses the INSERT and all is rolled back.
WriteOn(r) ==
    \E s \in job[r].slots, k \in job[r].ids :
        LET old == job[r].held
        IN  /\ job[r].op = "on" /\ job[r].at = "write"
            /\ IF On(s) \subseteq old
               THEN /\ row' = [RowsOff(old) EXCEPT ![k] = [state |-> "on", slot |-> s, expires |-> Never]]
                    /\ trail' = [TrailsEnd(old) EXCEPT ![k].granted = @ + 1]
                    /\ Sending(r, {s})
               ELSE UNCHANGED <<row, trail>> /\ job' = [job EXCEPT ![r] = Idle]
            /\ UNCHANGED <<clock, gone, refused, service>>

\* choose, off: OpenVibe's own row, or for app.data the row of every app; and
\* revokeApp: the row of one app, by the person or because the app was revoked.
ChooseOff(r, S) ==
    /\ ~gone
    /\ \/ \E s \in Slots : S = {s}
       \/ S = {AppData} \X Clients
    /\ Begin(r, [Idle EXCEPT !.op = "off", !.slots = S, !.saw = OnIn(S)])
    /\ UNCHANGED <<clock, gone, db, service>>

\* Mutant: the events are queued inside the transaction, before its commit.
WriteOffInside(r) ==
    LET old == job[r].held
    IN  /\ job[r].op = "off"
        /\ \/ /\ job[r].at = "write" /\ job' = [job EXCEPT ![r].at = "answer"]
              /\ queue' = queue \cup SlotsOf(old) /\ UNCHANGED <<row, trail>>
           \/ /\ job[r].at = "answer" /\ job' = [job EXCEPT ![r] = Idle]
              /\ row' = RowsOff(old) /\ trail' = TrailsEnd(old) /\ UNCHANGED queue
        /\ UNCHANGED <<clock, gone, refused, cache, lost>>

WriteOff(r) ==
    LET old == job[r].held
    IN  /\ job[r].op = "off" /\ job[r].at = "write"
        /\ row' = RowsOff(old) /\ trail' = TrailsEnd(old)
        /\ Sending(r, SlotsOf(old))
        /\ UNCHANGED <<clock, gone, refused, service>>

\* forgetRefusal.
ForgetRefusal(s) ==
    /\ ~gone /\ s \in refused /\ refused' = refused \ {s}
    /\ UNCHANGED <<clock, gone, row, trail, service, job>>

----------------------------------------------------------------------------
(* The expiry sweep *)

\* The rows past their end, read outside any transaction; one is taken up. The
\* timer does not run beside itself for long: of two runs one finds nothing.
Sweep(r, k) ==
    /\ row[k].state = "on" /\ row[k].expires <= clock
    /\ Begin(r, [Idle EXCEPT !.op = "sweep", !.now = clock, !.saw = {k}])
    /\ UNCHANGED <<clock, gone, db, service>>

\* Mutant: the row is marked as it was read, without asking again under the lock.
WriteSweepBlindly(r) ==
    LET old == job[r].saw
    IN  /\ job[r].op = "sweep" /\ job[r].at = "write"
        /\ row' = RowsOff(old) /\ trail' = TrailsEnd(old)
        /\ Sending(r, SlotsOf(old))
        /\ UNCHANGED <<clock, gone, refused, service>>

\* The locked row, if it is still active and past its end, is marked as expired.
WriteSweep(r) ==
    LET old == {k \in job[r].held : row[k].expires <= job[r].now}
    IN  /\ job[r].op = "sweep" /\ job[r].at = "write"
        /\ row' = RowsOff(old) /\ trail' = TrailsEnd(old)
        /\ Sending(r, SlotsOf(old))
        /\ UNCHANGED <<clock, gone, refused, service>>

----------------------------------------------------------------------------
(* The answer on an app's sign-in screen *)

\* decideApp: what the screen showed (it may be old) and what was ticked of it.
DecideApp(r, a, P, T, K) ==
    /\ ~gone /\ P # {} /\ T \subseteq P /\ K \subseteq Unused /\ Cardinality(K) = Cardinality(T)
    /\ Begin(r, [Idle EXCEPT !.op = "decide", !.at = "ask",
                             !.slots = P \X {a}, !.allow = T \X {a}, !.ids = K])
    /\ UNCHANGED <<clock, gone, db, service>>

\* activeRow: already allowed, and the screen changes nothing; or none is there.
AskActive(r, s) ==
    /\ job[r].op = "decide" /\ job[r].at = "ask" /\ s \in job[r].slots
    /\ On(s) \cap LockedByOthers(r) = {}
    /\ job' = IF On(s) # {}
              THEN [job EXCEPT ![r].held = @ \cup On(s), ![r].slots = @ \ {s}]
              ELSE [job EXCEPT ![r].at = "answer", ![r].saw = {}, ![r].todo = {s}]
    /\ UNCHANGED <<clock, gone, db, service>>

FreeIds(r) == {k \in job[r].ids : \A x \in job[r].ins : x[1] # k}
InsertedByOthers(r, s) == \E q \in Requests \ {r} : \E x \in job[q].ins : x[2] = s

\* Mutant: an INSERT with no regard to what another tab granted meanwhile.
AnswerSlotTwice(r) ==
    \E s \in job[r].todo :
        /\ job[r].op = "decide" /\ job[r].at = "answer"
        /\ LET j == [job[r] EXCEPT !.at = "ask", !.slots = @ \ {s}, !.todo = {}]
           IN  IF s \notin j.allow THEN job' = [job EXCEPT ![r] = [j EXCEPT !.refuse = @ \cup {s}]]
               ELSE /\ ~InsertedByOthers(r, s)
                    /\ \E k \in FreeIds(r) : job' = [job EXCEPT ![r] =
                          [j EXCEPT !.ins = @ \cup {<<k, s>>}, !.drop = @ \cup ({s} \cap refused)]]
        /\ UNCHANGED <<clock, gone, db, service>>

\* Unticked: a refusal. Ticked: the INSERT waits for another tab that has
\* inserted the same, does nothing if that one committed, and drops the refusal.
AnswerSlot(r) ==
    \E s \in job[r].todo :
        /\ job[r].op = "decide" /\ job[r].at = "answer"
        /\ LET j == [job[r] EXCEPT !.at = "ask", !.slots = @ \ {s}, !.todo = {}]
               allowed == [j EXCEPT !.drop = @ \cup ({s} \cap refused)]
           IN  IF s \notin j.allow THEN job' = [job EXCEPT ![r] = [j EXCEPT !.refuse = @ \cup {s}]]
               ELSE /\ ~InsertedByOthers(r, s)
                    /\ IF On(s) # {} THEN job' = [job EXCEPT ![r] = allowed]
                       ELSE \E k \in FreeIds(r) : job' = [job EXCEPT ![r] =
                               [allowed EXCEPT !.ins = @ \cup {<<k, s>>}]]
        /\ UNCHANGED <<clock, gone, db, service>>

\* Every purpose shown is answered: the commit.
CommitDecision(r) ==
    LET new(k) == {x \in job[r].ins : x[1] = k}
        slot(k) == (CHOOSE x \in new(k) : TRUE)[2]
    IN  /\ job[r].op = "decide" /\ job[r].at = "ask" /\ job[r].slots = {}
        /\ row' = [k \in Rows |-> IF new(k) = {} THEN row[k]
                                  ELSE [state |-> "on", slot |-> slot(k), expires |-> Never]]
        /\ trail' = [k \in Rows |-> IF new(k) = {} THEN trail[k] ELSE [trail[k] EXCEPT !.granted = @ + 1]]
        /\ refused' = (refused \cup job[r].refuse) \ job[r].drop
        /\ Sending(r, {x[2] : x \in job[r].ins})
        /\ UNCHANGED <<clock, gone, service>>

----------------------------------------------------------------------------
(* The end of the account *)

\* revokeForSubject in the transaction of a merge or a deletion: an unlocked SELECT.
EndAccount(r) ==
    /\ ~gone /\ \A q \in Requests : job[q].op # "end"
    /\ Begin(r, [Idle EXCEPT !.op = "end", !.saw = OnIn(Slots)])
    /\ UNCHANGED <<clock, gone, db, service>>

\* Its UPDATEs wait for locks and look at no row count: the event is written
\* although another call revoked the row first. Then the rest of the end.
WriteEnd(r) ==
    LET old == job[r].saw
    IN  /\ job[r].op = "end" /\ job[r].at = "select" /\ old \cap LockedByOthers(r) = {}
        /\ row' = RowsOff(old)
        /\ trail' = [k \in Rows |-> IF k \in old THEN [trail[k] EXCEPT !.gone = @ + 1] ELSE trail[k]]
        /\ refused' = {} /\ gone' = TRUE
        /\ Sending(r, SlotsOf(old))
        /\ UNCHANGED <<clock, service>>

----------------------------------------------------------------------------
(* Events *)

\* publish: one payload into the outbox.
Send(r) ==
    /\ job[r].at = "send"
    /\ \E s \in job[r].todo :
          /\ queue' = queue \cup {s}
          /\ Sending(r, job[r].todo \ {s})
    /\ UNCHANGED <<clock, gone, db, cache, lost>>

\* The service reads an event, in any order, and asks check() again.
Learn(s) ==
    /\ s \in queue
    /\ queue' = queue \ {s} /\ cache' = [cache EXCEPT ![s] = Allowed(s)]
    /\ UNCHANGED <<clock, gone, db, lost, job>>

\* A crash, a deadlock or an exception: an open transaction leaves nothing, and
\* what was committed and not yet queued is never queued.
Fail(r) ==
    /\ job[r] # Idle
    /\ lost' = (lost \/ job[r].at = "send")
    /\ job' = [job EXCEPT ![r] = Idle]
    /\ UNCHANGED <<clock, gone, db, queue, cache>>

----------------------------------------------------------------------------
Begins(r) ==
    \/ \E s \in OwnSlots, k \in Rows : ChooseOn(r, s, k)
    \/ \E S \in {{s} : s \in Slots} \cup {{AppData} \X Clients} : ChooseOff(r, S)
    \/ \E a \in Clients, P, T \in SUBSET Purposes, K \in SUBSET Rows : DecideApp(r, a, P, T, K)
    \/ EndAccount(r)

Continues(r) ==
    \/ Lock(r) \/ WriteOn(r) \/ WriteOff(r) \/ WriteSweep(r)
    \/ \E s \in AppSlots : AskActive(r, s)
    \/ AnswerSlot(r) \/ CommitDecision(r) \/ WriteEnd(r) \/ Send(r)

Next ==
    \/ Tick
    \/ \E r \in Requests : Begins(r) \/ Continues(r) \/ Fail(r)
    \/ \E r \in Requests, k \in Rows : Sweep(r, k)
    \/ \E s \in AppSlots : ForgetRefusal(s)
    \/ \E s \in Slots : Learn(s)

Spec == Init /\ [][Next]_vars

----------------------------------------------------------------------------
(* Properties *)

\* The record proves what was allowed: a row has the event of its grant, and it
\* is active exactly as long as it has no event of an end. An end by the person
\* or the clock is recorded once, whoever else revokes the row meanwhile (the
\* locks of choose, revokeApp and sweep); the end of the account, which asks no
\* row count, may add its own.
RecordProves == TypeOK /\ \A k \in Rows :
    /\ trail[k].granted = IF row[k].state = "none" THEN 0 ELSE 1
    /\ row[k].state = "on" <=> trail[k].granted = 1 /\ trail[k].ended + trail[k].gone = 0
    /\ trail[k].ended <= 1 /\ trail[k].gone <= 1

\* Two tabs, two apps' screens and an import leave one active choice for a
\* purpose and a client at most (consents_active, ON CONFLICT in decideApp).
OneChoice == \A s \in Slots : Cardinality(On(s)) <= 1

\* When no event is under way, and none was lost in a crash, the service knows
\* what holds: what it takes as allowed was not revoked (the sweep may be late),
\* and what is allowed it takes as allowed. Events go out after the commit.
Told(s) == ~lost /\ s \notin queue /\ \A r \in Requests : ~(job[r].at = "send" /\ s \in job[r].todo)
ServiceKnows == \A s \in Slots : Told(s) =>
    /\ cache[s] => On(s) # {}
    /\ Allowed(s) => cache[s]

=============================================================================
