----------------------- MODULE DevCredentials_proofs -----------------------
(***************************************************************************)
(* Theorems about DevCredentials, for any number of calls, secrets, keys   *)
(* and codes.                                                              *)
(*                                                                         *)
(* An app and a project end once and for ever, so what a call has asked of *)
(* them says whether it began before the end (JobOK); and a put that has   *)
(* read the version holds the lock of the project until it writes, so that *)
(* nothing but a removal comes in between.                                 *)
(***************************************************************************)
EXTENDS DevCredentials, TLAPS

Steps == {"", "select", "write", "app", "project", "mint", "authenticate", "burn", "lock",
          "row", "grant"}
Jobs == [op: Ops, at: Steps, id: Keys \cup Codes \cup {NoOne}, n: Nat,
         saw: SUBSET (Creds \X Nat), begun: BOOLEAN]
Secrets == [version: 0..MaxVersion, sealed: BOOLEAN, by: Requests \cup {NoOne}]
CredRow == [state: {"none", "valid", "revoked"}, exp: Nat]
KeyRow == [state: {"none", "active", "revoked"}, gen: 0..MaxGen]
CodeRow == [state: {"none", "unused", "used"}, exp: Nat]

\* What a call has made sure of when it resumes.
JobOK(j) ==
    /\ j.op \in {"credential", "code", "secret"} => j.begun
    /\ j.op = "key" => \/ j.begun
                       \/ j.at = "app" /\ ~Usable
                       \/ j.at = "project" /\ archived
    /\ j.at \in {"mint", "authenticate"} => j.op \in {"credential", "code", "key"}
    /\ j.at = "authenticate" => j.op # "key"
    /\ j.at = "grant" => j.op = "secret"
    /\ j.op = "put" /\ j.at = "write" => j.n < MaxVersion /\ secret.version \in {0, j.n}

Typed ==
    /\ clock \in 0..MaxClock /\ archived \in BOOLEAN /\ live \in BOOLEAN /\ granted \in BOOLEAN
    /\ cred \in [Creds -> CredRow] /\ key \in [Keys -> KeyRow] /\ code \in [Codes -> CodeRow]
    /\ secret \in Secrets
    /\ lock \in Requests \cup {NoOne}
    /\ job \in [Requests -> Jobs]

Inv ==
    /\ Typed /\ late = {}
    /\ \A r \in Requests : lock = r <=> job[r].op = "put" /\ job[r].at = "write"
    /\ \A r \in Requests : JobOK(job[r])
    /\ NeverLockedOut

----------------------------------------------------------------------------
(* What steps have in common *)

LEMMA IdleOK == Idle \in Jobs /\ JobOK(Idle) /\ Idle.op = "idle" /\ Idle.at = ""
BY DEF Idle, Jobs, Steps, Ops, Kinds, JobOK

LEMMA InitInv == Init => Inv
<1> SUFFICES ASSUME Init PROVE Inv
  OBVIOUS
<1> USE DevCredentialsAssumption
<1>1. cred \in [Creds -> CredRow] /\ key \in [Keys -> KeyRow] /\ code \in [Codes -> CodeRow]
  BY DEF Init, CredRow, KeyRow, CodeRow
<1>2. secret \in Secrets /\ secret.version = 0
  BY DEF Init, NoSecret, Secrets
<1>3. job \in [Requests -> Jobs] /\ lock = NoOne /\ \A r \in Requests : job[r] = Idle
  BY IdleOK DEF Init
<1>4. Typed
  <2>1. clock \in 0..MaxClock /\ {archived, live, granted} \subseteq BOOLEAN
    <3>1. 0 \in 0..MaxClock
      OBVIOUS
    <3> QED
      BY <3>1 DEF Init
  <2> QED
    BY <1>1, <1>2, <1>3, <2>1 DEF Typed
<1>5. \A r \in Requests : JobOK(job[r])
  BY <1>3, IdleOK
<1>6. \A r \in Requests : lock = r <=> job[r].op = "put" /\ job[r].at = "write"
  BY <1>3, IdleOK
<1>7. NeverLockedOut
  BY DEF Init, NeverLockedOut
<1> QED
  BY <1>4, <1>5, <1>6, <1>7 DEF Init, Inv

\* A step outside the calls: nothing revives, and the version stays or goes.
LEMMA OutsideInv ==
  ASSUME Inv, Typed', NeverLockedOut', UNCHANGED <<job, lock, late>>,
         archived => archived', live' => live,
         secret'.version = secret.version \/ secret'.version = 0
  PROVE  Inv'
<1>1. ASSUME NEW r \in Requests PROVE JobOK(job[r])'
  <2>1. JobOK(job[r]) /\ job'[r] = job[r]
    BY DEF Inv
  <2> QED
    BY <2>1 DEF JobOK, Usable, Inv, Typed
<1> QED
  BY <1>1 DEF Inv

\* A step of one call that takes or gives back no lock of another.
LEMMA CallInv ==
  ASSUME Inv, NEW r \in Requests, NEW j \in Jobs, job' = [job EXCEPT ![r] = j],
         UNCHANGED <<archived, live, late>>,
         clock' \in 0..MaxClock, granted' \in BOOLEAN, cred' \in [Creds -> CredRow],
         key' \in [Keys -> KeyRow], code' \in [Codes -> CodeRow], secret' \in Secrets,
         \/ lock' = lock /\ (lock = r <=> j.op = "put" /\ j.at = "write")
         \/ lock = NoOne /\ lock' = r /\ j.op = "put" /\ j.at = "write"
         \/ lock = r /\ lock' = NoOne /\ ~(j.op = "put" /\ j.at = "write"),
         secret' = secret \/ lock = r,
         JobOK(j)', NeverLockedOut'
  PROVE  Inv'
<1>1. job' \in [Requests -> Jobs] /\ job'[r] = j /\ \A q \in Requests \ {r} : job'[q] = job[q]
  BY DEF Inv, Typed
<1>2. NoOne \notin Requests
  BY DevCredentialsAssumption
<1>3. Typed'
  BY <1>1 DEF Inv, Typed
<1>4. \A q \in Requests : lock' = q <=> job'[q].op = "put" /\ job'[q].at = "write"
  BY <1>1, <1>2 DEF Inv
<1>5. ASSUME NEW q \in Requests PROVE JobOK(job[q])'
  <2>1. CASE q = r
    BY <1>1, <2>1
  <2>2. CASE q # r
    <3>1. JobOK(job[q]) /\ job'[q] = job[q]
      BY <1>1, <2>2 DEF Inv
    <3>2. lock = r => ~(job[q].op = "put" /\ job[q].at = "write")
      BY <2>2 DEF Inv
    <3> QED
      BY <3>1, <3>2 DEF JobOK, Usable
  <2> QED
    BY <2>1, <2>2
<1> QED
  BY <1>3, <1>4, <1>5 DEF Inv

\* A step of one call that writes nothing.
LEMMA QuietInv ==
  ASSUME Inv, NEW r \in Requests, NEW j \in Jobs, job' = [job EXCEPT ![r] = j],
         UNCHANGED <<clock, archived, live, rows, lock, late>>,
         lock # r, ~(j.op = "put" /\ j.at = "write"), JobOK(j)
  PROVE  Inv'
<1>1. UNCHANGED <<cred, key, code, secret, granted>>
  BY DEF rows
<1>2. JobOK(j)' /\ NeverLockedOut'
  BY <1>1 DEF JobOK, Usable, NeverLockedOut, Inv
<1> QED
  BY <1>1, <1>2, CallInv DEF Inv, Typed

\* A call that has begun, seen from its row of job.
LEMMA CallOK ==
  ASSUME Inv, NEW r \in Requests
  PROVE  /\ job[r] \in Jobs /\ JobOK(job[r]) /\ job[r].op \in Ops /\ job[r].at \in Steps
         /\ job[r].n \in Nat /\ job[r].saw \subseteq Creds \X Nat /\ job[r].begun \in BOOLEAN
         /\ lock = r <=> job[r].op = "put" /\ job[r].at = "write"
BY DEF Inv, Typed, Jobs

----------------------------------------------------------------------------
(* Steps outside the calls *)

LEMMA TickInv == ASSUME Inv, Tick PROVE Inv'
<1>1. UNCHANGED <<archived, live, cred, key, code, secret, granted, lock, job, late>>
  BY DEF Tick, rows, Quiet
<1>2. clock' \in 0..MaxClock
  BY DevCredentialsAssumption DEF Tick, Inv, Typed
<1>3. Typed' /\ NeverLockedOut'
  BY <1>1, <1>2 DEF Inv, Typed, NeverLockedOut
<1> QED
  BY <1>1, <1>3, OutsideInv

\* Statements that only turn states off.
LEMMA EndApps ==
  ASSUME Inv, EndApp
  PROVE  /\ cred' \in [Creds -> CredRow] /\ key' \in [Keys -> KeyRow] /\ code' \in [Codes -> CodeRow]
         /\ live' = FALSE /\ NeverLockedOut'
<1>1. \A c \in Creds : cred'[c] \in CredRow
  BY DEF EndApp, Inv, Typed, CredRow
<1>2. \A k \in Keys : key'[k] \in KeyRow
  BY DEF EndApp, Inv, Typed, KeyRow
<1>3. \A d \in Codes : code'[d] \in CodeRow
  BY DEF EndApp, Inv, Typed, CodeRow
<1> QED
  BY <1>1, <1>2, <1>3 DEF EndApp, NeverLockedOut

LEMMA RevokeAppInv == ASSUME Inv, RevokeApp PROVE Inv'
<1>1. UNCHANGED <<clock, archived, secret, granted, lock, job, late>>
  BY DEF RevokeApp, Quiet
<1>2. Typed' /\ NeverLockedOut' /\ live' = FALSE
  BY <1>1, EndApps DEF RevokeApp, Inv, Typed
<1> QED
  BY <1>1, <1>2, OutsideInv

LEMMA Unsealed ==
  ASSUME Inv, secret' = [secret EXCEPT !.sealed = FALSE]
  PROVE  secret' \in Secrets /\ secret'.version = secret.version
BY DEF Inv, Typed, Secrets

LEMMA ArchiveProjectInv == ASSUME Inv, ArchiveProject PROVE Inv'
<1>1. UNCHANGED <<clock, granted, lock, job, late>> /\ archived' = TRUE
  BY DEF ArchiveProject, Quiet
<1>2. secret' \in Secrets /\ secret'.version = secret.version
  BY Unsealed DEF ArchiveProject
<1>3. CASE EndApp
  BY <1>1, <1>2, <1>3, EndApps, OutsideInv DEF Inv, Typed
<1>4. CASE UNCHANGED <<live, cred, code, key>>
  <2>1. NeverLockedOut'
    BY <1>4 DEF Inv, NeverLockedOut
  <2> QED
    BY <1>1, <1>2, <1>4, <2>1, OutsideInv DEF Inv, Typed
<1> QED
  BY <1>3, <1>4 DEF ArchiveProject

LEMMA EraseOwnerInv == ASSUME Inv, EraseOwner PROVE Inv'
<1>1. UNCHANGED <<clock, key, code, granted, lock, job, late>> /\ archived' = TRUE /\ live' = FALSE
  BY DEF EraseOwner, Quiet
<1>2. secret' \in Secrets /\ secret'.version = secret.version
  BY Unsealed DEF EraseOwner
<1>3. cred' \in [Creds -> CredRow]
  <2>1. \A c \in Creds : cred'[c] \in CredRow
    BY DEF EraseOwner, Inv, Typed, CredRow
  <2> QED
    BY <2>1 DEF EraseOwner
<1>4. NeverLockedOut'
  BY <1>1 DEF NeverLockedOut
<1> QED
  BY <1>1, <1>2, <1>3, <1>4, OutsideInv DEF Inv, Typed

LEMMA RevokeCredentialInv == ASSUME Inv, NEW c \in Creds, RevokeCredential(c) PROVE Inv'
<1>1. UNCHANGED <<clock, archived, live, key, code, secret, granted, lock, job, late>>
  BY DEF RevokeCredential, Quiet
<1>2. PICK row \in CredRow : row = [cred[c] EXCEPT !.state = "revoked"]
  BY DEF Inv, Typed, CredRow
<1>3. cred' = [cred EXCEPT ![c] = row] /\ row.state = "revoked"
  BY <1>2 DEF RevokeCredential, Inv, Typed, CredRow
<1>4. cred' \in [Creds -> CredRow] /\ cred'[c].state = "revoked"
  BY <1>3 DEF Inv, Typed
<1>5. Typed' /\ NeverLockedOut'
  BY <1>1, <1>4 DEF Inv, Typed, NeverLockedOut
<1> QED
  BY <1>1, <1>5, OutsideInv

LEMMA KeyRevokeInv == ASSUME Inv, NEW k \in Keys, KeyRevoke(k) PROVE Inv'
<1>1. UNCHANGED <<clock, archived, live, cred, code, secret, granted, lock, job, late>>
  BY DEF KeyRevoke, Quiet
<1>2. PICK row \in KeyRow : row = [key[k] EXCEPT !.state = "revoked"]
  BY DEF Inv, Typed, KeyRow
<1>3. key' = [key EXCEPT ![k] = row]
  BY <1>2 DEF KeyRevoke, Inv, Typed
<1>4. Typed' /\ NeverLockedOut'
  BY <1>1, <1>3 DEF Inv, Typed, NeverLockedOut
<1> QED
  BY <1>1, <1>4, OutsideInv

LEMMA SecretRowInv == ASSUME Inv, RemoveSecret \/ PutSecretGrant \/ RemoveSecretGrant PROVE Inv'
<1>1. UNCHANGED <<clock, archived, live, cred, key, code, lock, job, late>> /\ granted' \in BOOLEAN
  BY DEF RemoveSecret, PutSecretGrant, RemoveSecretGrant, Quiet
<1>2. NoSecret \in Secrets /\ NoSecret.version = 0
  BY DevCredentialsAssumption DEF NoSecret, Secrets
<1>3. secret' = NoSecret \/ secret' = secret
  BY DEF RemoveSecret, PutSecretGrant, RemoveSecretGrant
<1>4. Typed' /\ NeverLockedOut'
  BY <1>1, <1>2, <1>3 DEF Inv, Typed, NeverLockedOut
<1> QED
  BY <1>1, <1>2, <1>3, <1>4, OutsideInv

----------------------------------------------------------------------------
(* Steps of a call that write nothing *)

\* A call that begins.
LEMMA BeginInv ==
  ASSUME Inv, NEW r \in Requests, NEW j \in Jobs, Begin(r, j),
         UNCHANGED <<clock, archived, live, rows, lock, late>>,
         ~(j.op = "put" /\ j.at = "write"), JobOK(j)
  PROVE  Inv'
<1>1. lock # r
  BY CallOK, IdleOK DEF Begin
<1> QED
  BY <1>1, QuietInv DEF Begin

LEMMA MoveInv ==
  ASSUME Inv, NEW r \in Requests, NEW at \in Steps, Move(r, at),
         UNCHANGED <<clock, archived, live, rows, lock, late>>,
         lock # r, at # "write",
         NEW j \in Jobs, j = [job[r] EXCEPT !.at = at], JobOK(j)
  PROVE  Inv'
<1>1. job' = [job EXCEPT ![r] = j]
  BY DEF Move, Inv, Typed
<1>2. j.at = at
  BY CallOK DEF Jobs
<1> QED
  BY <1>1, <1>2, QuietInv

LEMMA Moved ==
  ASSUME Inv, NEW r \in Requests, NEW at \in Steps
  PROVE  \E j \in Jobs : /\ j = [job[r] EXCEPT !.at = at]
                         /\ j.op = job[r].op /\ j.at = at /\ j.begun = job[r].begun
<1> DEFINE j == [job[r] EXCEPT !.at = at]
<1>1. job[r] \in Jobs
  BY CallOK
<1>2. j \in Jobs /\ j.op = job[r].op /\ j.at = at /\ j.begun = job[r].begun
  BY <1>1 DEF Jobs
<1> QED
  BY <1>2

LEMMA BeginsInv ==
  ASSUME Inv, NEW r \in Requests,
         \/ \E o \in Overlaps : RotateCheck(r, o)
         \/ \E k \in Keys : KeyCreateCheck(r, k) \/ KeyRotateCheck(r, k) \/ ExchangeKey(r, k)
         \/ \E kind \in {"credential", "code"} : TokenApp(r, kind)
         \/ \E d \in Codes : Authorize(r, d)
         \/ PutCheck(r) \/ UseProject(r)
  PROVE  Inv'
<1>1. UNCHANGED <<clock, archived, live, rows, lock, late>>
  BY DEF RotateCheck, KeyCreateCheck, KeyRotateCheck, ExchangeKey, TokenApp, Authorize, PutCheck,
         UseProject, Quiet
<1>2. ASSUME NEW o \in Overlaps, RotateCheck(r, o) PROVE Inv'
  <2>1. clock + o \in Nat
    BY DevCredentialsAssumption DEF Inv, Typed
  <2>2. PICK j \in Jobs : j = [Idle EXCEPT !.op = "rotate", !.at = "select", !.n = clock + o]
    BY <2>1 DEF Jobs, Idle, Ops, Kinds, Steps
  <2>3. j.op = "rotate" /\ j.at = "select"
    BY <2>2 DEF Idle
  <2>4. JobOK(j)
    BY <2>1, <2>3 DEF JobOK
  <2>5. Begin(r, j)
    BY <1>2, <2>1, <2>2 DEF RotateCheck
  <2> QED
    BY <1>1, <2>3, <2>4, <2>5, BeginInv
<1>3. ASSUME NEW k \in Keys, KeyCreateCheck(r, k) PROVE Inv'
  <2>1. PICK j \in Jobs : j = [Idle EXCEPT !.op = "keyCreate", !.id = k]
    BY DEF Jobs, Idle, Ops, Kinds, Steps
  <2>2. j.op = "keyCreate" /\ j.at = ""
    BY <2>1 DEF Idle
  <2>3. JobOK(j)
    BY <2>2 DEF JobOK
  <2>4. Begin(r, j)
    BY <1>3, <2>1 DEF KeyCreateCheck
  <2> QED
    BY <1>1, <2>2, <2>3, <2>4, BeginInv
<1>4. ASSUME NEW k \in Keys, KeyRotateCheck(r, k) PROVE Inv'
  <2>1. PICK j \in Jobs : j = [Idle EXCEPT !.op = "keyRotate", !.id = k]
    BY DEF Jobs, Idle, Ops, Kinds, Steps
  <2>2. j.op = "keyRotate" /\ j.at = ""
    BY <2>1 DEF Idle
  <2>3. JobOK(j)
    BY <2>2 DEF JobOK
  <2>4. Begin(r, j)
    BY <1>4, <2>1 DEF KeyRotateCheck
  <2> QED
    BY <1>1, <2>2, <2>3, <2>4, BeginInv
<1>5. ASSUME NEW k \in Keys, ExchangeKey(r, k) PROVE Inv'
  <2>1. PICK begun \in BOOLEAN : begun = Usable
    BY DEF Usable, Inv, Typed
  <2>2. PICK j \in Jobs : j = [Idle EXCEPT !.op = "key", !.at = "app", !.id = k, !.begun = begun]
    BY <2>1 DEF Jobs, Idle, Ops, Kinds, Steps
  <2>3. j.op = "key" /\ j.at = "app" /\ j.begun = begun
    BY <2>2 DEF Idle
  <2>4. JobOK(j)
    BY <2>1, <2>3 DEF JobOK
  <2>5. Begin(r, j)
    BY <1>5, <2>1, <2>2 DEF ExchangeKey
  <2> QED
    BY <1>1, <2>3, <2>4, <2>5, BeginInv
<1>6. ASSUME NEW kind \in {"credential", "code"}, TokenApp(r, kind) PROVE Inv'
  <2>1. PICK begun \in BOOLEAN : begun = Usable /\ begun
    BY <1>6 DEF TokenApp, Usable, Inv, Typed
  <2>2. PICK j \in Jobs : j = [Idle EXCEPT !.op = kind, !.at = "authenticate", !.begun = begun]
    BY <2>1 DEF Jobs, Idle, Ops, Kinds, Steps
  <2>3. j.op = kind /\ j.at = "authenticate" /\ j.begun = begun
    BY <2>2 DEF Idle
  <2>4. JobOK(j)
    BY <2>1, <2>3 DEF JobOK
  <2>5. Begin(r, j)
    BY <1>6, <2>1, <2>2 DEF TokenApp
  <2> QED
    BY <1>1, <2>3, <2>4, <2>5, BeginInv
<1>7. ASSUME NEW d \in Codes, Authorize(r, d) PROVE Inv'
  <2>1. PICK j \in Jobs : j = [Idle EXCEPT !.op = "authorize", !.id = d]
    BY DEF Jobs, Idle, Ops, Kinds, Steps
  <2>2. j.op = "authorize" /\ j.at = ""
    BY <2>1 DEF Idle
  <2>3. JobOK(j)
    BY <2>2 DEF JobOK
  <2>4. Begin(r, j)
    BY <1>7, <2>1 DEF Authorize
  <2> QED
    BY <1>1, <2>2, <2>3, <2>4, BeginInv
<1>8. ASSUME PutCheck(r) PROVE Inv'
  <2>1. PICK j \in Jobs : j = [Idle EXCEPT !.op = "put", !.at = "lock"]
    BY DEF Jobs, Idle, Ops, Kinds, Steps
  <2>2. j.op = "put" /\ j.at = "lock"
    BY <2>1 DEF Idle
  <2>3. JobOK(j)
    BY <2>2 DEF JobOK
  <2>4. Begin(r, j)
    BY <1>8, <2>1 DEF PutCheck
  <2> QED
    BY <1>1, <2>2, <2>3, <2>4, BeginInv
<1>9. ASSUME UseProject(r) PROVE Inv'
  <2>1. PICK begun \in BOOLEAN : begun = ~archived /\ begun
    BY <1>9 DEF UseProject, Inv, Typed
  <2>2. PICK j \in Jobs : j = [Idle EXCEPT !.op = "secret", !.at = "row", !.begun = begun]
    BY <2>1 DEF Jobs, Idle, Ops, Kinds, Steps
  <2>3. j.op = "secret" /\ j.at = "row" /\ j.begun = begun
    BY <2>2 DEF Idle
  <2>4. JobOK(j)
    BY <2>1, <2>3 DEF JobOK
  <2>5. Begin(r, j)
    BY <1>9, <2>1, <2>2 DEF UseProject
  <2> QED
    BY <1>1, <2>3, <2>4, <2>5, BeginInv
<1> QED
  BY <1>2, <1>3, <1>4, <1>5, <1>6, <1>7, <1>8, <1>9

LEMMA MovesInv ==
  ASSUME Inv, NEW r \in Requests,
         ExchangeApp(r) \/ ExchangeProject(r) \/ Authenticate(r) \/ UseRow(r)
  PROVE  Inv'
<1>1. UNCHANGED <<clock, archived, live, rows, lock, late>> /\ lock # r
  BY CallOK DEF ExchangeApp, ExchangeProject, Authenticate, UseRow, At, Quiet
<1>2. {"project", "mint", "burn", "grant"} \subseteq Steps
  BY DEF Steps
<1>3. JobOK(job[r])
  BY CallOK
<1>4. CASE ExchangeApp(r)
  <2>1. PICK j \in Jobs : /\ j = [job[r] EXCEPT !.at = "project"]
                          /\ j.op = job[r].op /\ j.at = "project" /\ j.begun = job[r].begun
    BY <1>2, Moved
  <2>2. JobOK(j)
    BY <1>3, <1>4, <2>1 DEF ExchangeApp, At, JobOK, Usable
  <2>3. Move(r, "project")
    BY <1>4 DEF ExchangeApp
  <2> QED
    BY <1>1, <1>2, <2>1, <2>2, <2>3, MoveInv
<1>5. CASE ExchangeProject(r)
  <2>1. PICK j \in Jobs : /\ j = [job[r] EXCEPT !.at = "mint"]
                          /\ j.op = job[r].op /\ j.at = "mint" /\ j.begun = job[r].begun
    BY <1>2, Moved
  <2>2. JobOK(j)
    BY <1>3, <1>5, <2>1 DEF ExchangeProject, At, JobOK, Usable
  <2>3. Move(r, "mint")
    BY <1>5 DEF ExchangeProject
  <2> QED
    BY <1>1, <1>2, <2>1, <2>2, <2>3, MoveInv
<1>6. CASE Authenticate(r)
  <2>1. PICK at \in {"burn", "mint"} : at = IF job[r].op = "code" THEN "burn" ELSE "mint"
    OBVIOUS
  <2>2. PICK j \in Jobs : /\ j = [job[r] EXCEPT !.at = at]
                          /\ j.op = job[r].op /\ j.at = at /\ j.begun = job[r].begun
    BY <1>2, <2>1, Moved
  <2>3. JobOK(j)
    BY <1>3, <1>6, <2>1, <2>2 DEF Authenticate, At, JobOK, Usable
  <2>4. Move(r, at)
    BY <1>6, <2>1 DEF Authenticate
  <2> QED
    BY <1>1, <1>2, <2>1, <2>2, <2>3, <2>4, MoveInv
<1>7. CASE UseRow(r)
  <2>1. PICK j \in Jobs : /\ j = [job[r] EXCEPT !.at = "grant"]
                          /\ j.op = job[r].op /\ j.at = "grant" /\ j.begun = job[r].begun
    BY <1>2, Moved
  <2>2. JobOK(j)
    BY <1>3, <1>7, <2>1 DEF UseRow, At, JobOK, Usable
  <2>3. Move(r, "grant")
    BY <1>7 DEF UseRow
  <2> QED
    BY <1>1, <1>2, <2>1, <2>2, <2>3, MoveInv
<1> QED
  BY <1>4, <1>5, <1>6, <1>7

LEMMA RotateSelectInv == ASSUME Inv, NEW r \in Requests, RotateSelect(r) PROVE Inv'
<1>1. PICK saw \in SUBSET (Creds \X Nat) : saw = {<<c, cred[c].exp>> : c \in {d \in Creds : Valid(d)}}
  <2>1. \A c \in Creds : <<c, cred[c].exp>> \in Creds \X Nat
    BY DEF Inv, Typed, CredRow
  <2> DEFINE S == {<<c, cred[c].exp>> : c \in {d \in Creds : Valid(d)}}
  <2>2. S \subseteq Creds \X Nat
    BY <2>1
  <2> QED
    BY <2>2
<1>2. PICK j \in Jobs : j = [job[r] EXCEPT !.at = "write", !.saw = saw]
  BY CallOK DEF Jobs, Steps
<1>3. j.op = "rotate" /\ j.at = "write"
  BY <1>2, CallOK DEF RotateSelect, At, Jobs
<1>4. job' = [job EXCEPT ![r] = j]
  BY <1>1, <1>2 DEF RotateSelect, Inv, Typed
<1>5. JobOK(j)
  BY <1>3 DEF JobOK
<1>6. lock # r
  BY CallOK DEF RotateSelect, At
<1> QED
  BY <1>3, <1>4, <1>5, <1>6, QuietInv DEF RotateSelect, Quiet

\* A call that serves began before the end.
LEMMA ServesInv == ASSUME Inv, NEW r \in Requests, Mint(r) \/ UseGrant(r) PROVE Inv'
<1>1. UNCHANGED <<clock, archived, live, rows, lock>> /\ Serve(r) /\ job' = [job EXCEPT ![r] = Idle]
  BY DEF Mint, UseGrant, Done
<1>2. job[r].begun /\ lock # r
  BY CallOK DEF Mint, UseGrant, At, JobOK
<1>3. late' = late
  BY <1>1, <1>2 DEF Serve
<1> QED
  BY <1>1, <1>2, <1>3, IdleOK, QuietInv

LEMMA RefusedInv == ASSUME Inv, NEW r \in Requests, Refused(r) PROVE Inv'
BY IdleOK, QuietInv DEF Refused, Done, Quiet

----------------------------------------------------------------------------
(* Steps of a call that write *)

LEMMA RotateWriteInv == ASSUME Inv, NEW r \in Requests, NEW new \in Creds, RotateWrite(r, new) PROVE Inv'
<1>1. UNCHANGED <<clock, archived, live, key, code, secret, granted, lock, late>>
      /\ job' = [job EXCEPT ![r] = Idle] /\ lock # r
  BY CallOK DEF RotateWrite, Done, Quiet, At
<1>2. ASSUME NEW c \in Saw(r) PROVE NewExpiry(r, c) \in Nat
  <2>1. \E x \in job[r].saw : x[1] = c
    BY <1>2 DEF Saw
  <2>2. (CHOOSE x \in job[r].saw : x[1] = c) \in job[r].saw
    BY <2>1
  <2>3. PICK e \in Creds \X Nat : e = CHOOSE x \in job[r].saw : x[1] = c
    BY <2>2, CallOK
  <2>4. e[2] \in Nat /\ job[r].n \in Nat
    BY <2>3, CallOK
  <2> QED
    BY <2>3, <2>4 DEF NewExpiry
<1>3. cred' \in [Creds -> CredRow]
  <2>1. Never \in Nat /\ cred \in [Creds -> CredRow]
    BY DevCredentialsAssumption DEF Inv, Typed
  <2>2. ASSUME NEW c \in Creds PROVE cred'[c] \in CredRow
    <3>1. CASE c = new
      BY <2>1, <3>1 DEF RotateWrite, CredRow
    <3>2. CASE c # new /\ c \in Saw(r)
      <4>1. PICK e \in Nat : e = NewExpiry(r, c)
        BY <1>2, <3>2
      <4>2. cred'[c] = [cred[c] EXCEPT !.exp = e]
        BY <3>2, <4>1 DEF RotateWrite
      <4> QED
        BY <2>1, <4>2 DEF CredRow
    <3>3. CASE c # new /\ c \notin Saw(r)
      BY <2>1, <3>3 DEF RotateWrite
    <3> QED
      BY <3>1, <3>2, <3>3
  <2> QED
    BY <2>2 DEF RotateWrite
<1>4. NeverLockedOut'
  BY DEF RotateWrite, NeverLockedOut
<1>5. JobOK(Idle)'
  BY DEF JobOK, Idle
<1> QED
  BY <1>1, <1>3, <1>4, <1>5, IdleOK, CallInv DEF Inv, Typed

\* A call that writes rows other than those of the secrets, and ends.
LEMMA EndsInv ==
  ASSUME Inv, NEW r \in Requests, NEW j \in Jobs, job' = [job EXCEPT ![r] = j],
         UNCHANGED <<clock, archived, live, cred, secret, granted, lock, late>>,
         lock # r, ~(j.op = "put" /\ j.at = "write"), JobOK(j),
         key' \in [Keys -> KeyRow], code' \in [Codes -> CodeRow]
  PROVE  Inv'
<1>1. JobOK(j)' /\ NeverLockedOut'
  BY DEF JobOK, Usable, NeverLockedOut, Inv
<1> QED
  BY <1>1, CallInv DEF Inv, Typed

LEMMA KeyWritesInv == ASSUME Inv, NEW r \in Requests, KeyCreateInsert(r) \/ KeyRotateWrite(r) PROVE Inv'
<1>1. /\ UNCHANGED <<clock, archived, live, cred, code, secret, granted, lock, late>>
      /\ job' = [job EXCEPT ![r] = Idle] /\ lock # r
  BY CallOK DEF KeyCreateInsert, KeyRotateWrite, Done, Quiet
<1>2. \A k \in Keys : key[k] \in KeyRow /\ key[k].gen \in 0..MaxGen
  BY DEF Inv, Typed, KeyRow
<1>3. key' \in [Keys -> KeyRow]
  <2>1. CASE KeyCreateInsert(r)
    <3>1. [state |-> "active", gen |-> 1] \in KeyRow
      BY DevCredentialsAssumption DEF KeyRow
    <3> QED
      BY <2>1, <3>1 DEF KeyCreateInsert, Inv, Typed
  <2>2. CASE KeyRotateWrite(r)
    <3>1. ASSUME NEW k \in Keys, key[k].gen < MaxGen PROVE [key[k] EXCEPT !.gen = key[k].gen + 1] \in KeyRow
      <4>1. key[k].gen + 1 \in 0..MaxGen
        BY <1>2, <3>1, DevCredentialsAssumption
      <4> QED
        BY <1>2, <4>1 DEF KeyRow
    <3>2. key' = [key EXCEPT ![job[r].id] = [key[job[r].id] EXCEPT !.gen = key[job[r].id].gen + 1]]
      BY <2>2 DEF KeyRotateWrite
    <3>3. key[job[r].id].gen < MaxGen /\ key \in [Keys -> KeyRow]
      BY <2>2 DEF KeyRotateWrite, Inv, Typed
    <3> QED
      BY <3>1, <3>2, <3>3
  <2> QED
    BY <2>1, <2>2
<1> QED
  BY <1>1, <1>3, IdleOK, EndsInv DEF Inv, Typed

LEMMA IssueCodeInv == ASSUME Inv, NEW r \in Requests, IssueCode(r) PROVE Inv'
<1>1. clock + CodeTTL \in Nat
  BY DevCredentialsAssumption DEF Inv, Typed
<1>2. PICK row \in CodeRow : row = [state |-> "unused", exp |-> clock + CodeTTL]
  BY <1>1 DEF CodeRow
<1>3. code' \in [Codes -> CodeRow]
  BY <1>2 DEF IssueCode, Inv, Typed
<1>4. lock # r
  BY CallOK DEF IssueCode
<1> QED
  BY <1>3, <1>4, IdleOK, EndsInv DEF IssueCode, Done, Quiet, Inv, Typed

LEMMA BurnCodeInv == ASSUME Inv, NEW r \in Requests, NEW d \in Codes, BurnCode(r, d) PROVE Inv'
<1>1. PICK row \in CodeRow : row = [code[d] EXCEPT !.state = "used"]
  BY DEF Inv, Typed, CodeRow
<1>2. code' = [code EXCEPT ![d] = row]
  BY <1>1 DEF BurnCode, Inv, Typed
<1>3. code' \in [Codes -> CodeRow]
  BY <1>2 DEF Inv, Typed
<1>4. PICK next \in Jobs : next = [job[r] EXCEPT !.at = "mint", !.id = d]
  BY CallOK DEF Jobs, Steps
<1>5. next.op = "code" /\ next.at = "mint" /\ next.begun
  BY <1>4, CallOK DEF BurnCode, At, Jobs, JobOK
<1>6. JobOK(next)
  BY <1>5 DEF JobOK
<1>7. PICK j \in Jobs : j = IF code[d].exp < clock THEN Idle ELSE next
  BY IdleOK
<1>8. job' = [job EXCEPT ![r] = j]
  BY <1>4, <1>7 DEF BurnCode
<1>9. lock # r /\ JobOK(j) /\ j.op # "put"
  BY <1>5, <1>6, <1>7, IdleOK, CallOK DEF BurnCode, At
<1> QED
  BY <1>3, <1>8, <1>9, EndsInv DEF BurnCode, Quiet, Inv, Typed

LEMMA PutReadInv == ASSUME Inv, NEW r \in Requests, PutRead(r) PROVE Inv'
<1>1. UNCHANGED <<clock, archived, live, cred, key, code, secret, granted, late>>
  BY DEF PutRead, rows, Quiet
<1>2. secret.version \in Nat /\ secret.version < MaxVersion
  BY DEF PutRead, Inv, Typed, Secrets
<1>3. PICK j \in Jobs : j = [job[r] EXCEPT !.at = "write", !.n = secret.version]
  BY <1>2, CallOK DEF Jobs, Steps
<1>4. j.op = "put" /\ j.at = "write" /\ j.n = secret.version
  BY <1>3, CallOK DEF PutRead, At, Jobs
<1>5. job' = [job EXCEPT ![r] = j]
  BY <1>3 DEF PutRead, Inv, Typed
<1>6. JobOK(j)' /\ NeverLockedOut'
  BY <1>1, <1>2, <1>4 DEF JobOK, NeverLockedOut, Inv
<1> QED
  BY <1>1, <1>4, <1>5, <1>6, CallInv DEF PutRead, Inv, Typed

\* The version written, under the lock of the read.
LEMMA Written ==
  ASSUME Inv, NEW r \in Requests, PutWrite(r)
  PROVE  /\ lock = r /\ job[r].n < MaxVersion /\ secret.version \in {0, job[r].n}
         /\ secret' = secret \/ secret' = [version |-> job[r].n + 1, sealed |-> TRUE, by |-> r]
BY CallOK DEF PutWrite, At, JobOK

LEMMA PutWriteInv == ASSUME Inv, NEW r \in Requests, PutWrite(r) PROVE Inv'
<1>1. UNCHANGED <<clock, archived, live, cred, key, code, granted, late>>
      /\ job' = [job EXCEPT ![r] = Idle] /\ lock' = NoOne
  BY Written DEF PutWrite, Done, Quiet
<1>2. job[r].n + 1 \in 0..MaxVersion
  BY Written, CallOK, DevCredentialsAssumption
<1>3. secret' \in Secrets
  <2>1. [version |-> job[r].n + 1, sealed |-> TRUE, by |-> r] \in Secrets
    BY <1>2 DEF Secrets
  <2>2. secret \in Secrets
    BY DEF Inv, Typed
  <2> QED
    BY <2>1, <2>2, Written
<1>4. JobOK(Idle)' /\ NeverLockedOut'
  BY <1>1 DEF JobOK, Idle, NeverLockedOut, Inv
<1> QED
  BY <1>1, <1>3, <1>4, Written, IdleOK, CallInv DEF Inv, Typed

----------------------------------------------------------------------------
(* Theorems *)

LEMMA NextInv == Inv /\ [Next]_vars => Inv'
<1> SUFFICES ASSUME Inv, [Next]_vars PROVE Inv'
  OBVIOUS
<1>1. ASSUME NEW r \in Requests,
             CredentialStep(r) \/ KeyStep(r) \/ TokenStep(r) \/ SecretStep(r) \/ Refused(r)
      PROVE  Inv'
  BY <1>1, BeginsInv, MovesInv, RotateSelectInv, RotateWriteInv, ServesInv, RefusedInv, KeyWritesInv,
     IssueCodeInv, BurnCodeInv, PutReadInv, PutWriteInv
  DEF CredentialStep, KeyStep, TokenStep, SecretStep
<1>2. CASE UNCHANGED vars
  <2>1. UNCHANGED <<clock, archived, live, cred, key, code, secret, granted, lock, job, late>>
    BY <1>2 DEF vars, rows
  <2>2. Typed' /\ NeverLockedOut'
    BY <2>1 DEF Inv, Typed, NeverLockedOut
  <2> QED
    BY <2>1, <2>2, OutsideInv
<1> QED
  BY <1>1, <1>2, TickInv, RevokeAppInv, ArchiveProjectInv, EraseOwnerInv, RevokeCredentialInv,
     KeyRevokeInv, SecretRowInv
  DEF Next

LEMMA Invariant == Spec => []Inv
BY InitInv, NextInv, PTL DEF Spec

\* The variables keep their types, and the lock is held by the put that has read.
THEOREM TypesHold == Spec => []TypeOK
<1>1. Inv => TypeOK
  <2> SUFFICES ASSUME Inv PROVE TypeOK
    OBVIOUS
  <2>1. secret.version \in 0..MaxVersion /\ late \subseteq Kinds /\ {archived, live, granted} \subseteq BOOLEAN
    BY DEF Inv, Typed, Secrets
  <2>2. \A r \in Requests : job[r].op \in Ops
    BY CallOK
  <2> QED
    BY <2>1, <2>2 DEF Inv, Typed, TypeOK, CredRow, KeyRow, CodeRow
<1> QED
  BY <1>1, Invariant, PTL

\* Nothing is served to a call that begins after the end of the app or project.
THEOREM EndedGetNothing == Spec => []NothingForTheEnded
<1>1. Inv /\ TypeOK => NothingForTheEnded
  BY DEF Inv, NothingForTheEnded
<1> QED
  BY <1>1, Invariant, TypesHold, PTL

\* Rotation alone leaves a secret that lasts, however many rotations race.
THEOREM NobodyLockedOut == Spec => []NeverLockedOut
<1>1. Inv => NeverLockedOut
  BY DEF Inv
<1> QED
  BY <1>1, Invariant, PTL

\* No put of the project secret is lost under another of the same version.
THEOREM EachPutAdvances == Spec => VersionsAdvance
<1>1. ASSUME Inv, [Next]_vars, secret.version > 0, secret'.version > 0, secret'.by # secret.by
      PROVE  secret'.version > secret.version
  <2>1. secret \in Secrets /\ secret.version \in Nat
    BY <1>1 DEF Inv, Typed, Secrets
  <2>2. PICK r \in Requests : PutWrite(r)
    <3>1. secret' # secret /\ secret' # NoSecret /\ secret' # [secret EXCEPT !.sealed = FALSE]
      BY <1>1, <2>1 DEF NoSecret, Secrets
    <3> QED
      BY <1>1, <3>1
      DEF Next, vars, rows, Tick, RevokeApp, ArchiveProject, EraseOwner, RevokeCredential, KeyRevoke,
          RemoveSecret, PutSecretGrant, RemoveSecretGrant, CredentialStep, KeyStep, TokenStep, SecretStep,
          Refused, RotateCheck, RotateSelect, RotateWrite, KeyCreateCheck, KeyRotateCheck, ExchangeKey,
          KeyCreateInsert, KeyRotateWrite, ExchangeApp, ExchangeProject, TokenApp, Authorize, BurnCode,
          IssueCode, Authenticate, Mint, PutCheck, PutRead, UseProject, UseRow, UseGrant
  <2>3. secret' = [version |-> job[r].n + 1, sealed |-> TRUE, by |-> r] /\ secret.version = job[r].n
    BY <1>1, <2>1, <2>2, Written
  <2> QED
    BY <2>1, <2>3
<1>2. Inv /\ [Next]_vars
      => [secret.version > 0 /\ secret'.version > 0 /\ secret'.by # secret.by
            => secret'.version > secret.version]_vars
  BY <1>1
<1> QED
  BY <1>2, Invariant, PTL DEF Spec, VersionsAdvance
=============================================================================
