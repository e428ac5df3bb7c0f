--------------------------- MODULE DevCredentials ---------------------------
(* The credentials of one confidential developer app: its client secrets   *)
(* with rotation and overlap (server/developer/store.js), its API keys     *)
(* (server/developer/api-keys.js), the authorization codes and tokens      *)
(* (server/developer/tokens.js), and the secrets of its project            *)
(* (server/developer/secrets.js). Every call reads in several statements;  *)
(* the app may be revoked or the project archived between any two of them. *)
EXTENDS Naturals, FiniteSets, TLC

CONSTANTS
    Requests,       \* calls that may be under way at once
    Creds, First,   \* ids of dev_credentials; the one createApp inserted
    Keys, Codes,    \* ids of dev_api_keys, hashes of dev_auth_codes
    Overlaps,       \* overlap_seconds of a rotation
    CodeTTL,        \* CODE_TTL_MS
    MaxGen,         \* bound: secrets an API key has had
    MaxVersion,     \* bound: versions of the project secret
    MaxClock,       \* bound: the end of modelled time
    Never,          \* an expires_at of NULL, past every time that is named
    NoOne

ASSUME DevCredentialsAssumption ==
    /\ First \in Creds /\ Overlaps \subseteq Nat /\ CodeTTL \in Nat
    /\ MaxGen \in Nat \ {0} /\ MaxVersion \in Nat /\ MaxClock \in Nat
    /\ Never \in Nat /\ \A o \in Overlaps : MaxClock + o < Never
    /\ NoOne \notin Requests \cup Creds \cup Keys \cup Codes

VARIABLES
    clock,      \* the time, in units of the overlaps
    archived,   \* dev_projects.archived_at is set
    live,       \* dev_apps.revoked_at is not set
    cred,       \* dev_credentials
    key,        \* dev_api_keys
    code,       \* dev_auth_codes
    secret,     \* the row of dev_project_secrets
    granted,    \* the service has its row in dev_project_secret_grants
    lock,       \* the transaction that holds the project's row
    job,        \* what each call has read
    late        \* history: what was served to calls begun after the end

rows == <<cred, key, code, secret, granted>>
vars == <<clock, archived, live, rows, lock, job, late>>

Kinds == {"credential", "code", "key", "secret"}
Ops == {"idle", "rotate", "keyCreate", "keyRotate", "authorize", "put"} \cup Kinds
Idle == [op |-> "idle", at |-> "", id |-> NoOne, n |-> 0, saw |-> {}, begun |-> FALSE]

TypeOK ==
    /\ clock \in 0..MaxClock /\ {archived, live, granted} \subseteq BOOLEAN
    /\ cred \in [Creds -> [state: {"none", "valid", "revoked"}, exp: Nat]]
    /\ key \in [Keys -> [state: {"none", "active", "revoked"}, gen: 0..MaxGen]]
    /\ code \in [Codes -> [state: {"none", "unused", "used"}, exp: Nat]]
    /\ secret.version \in 0..MaxVersion
    /\ late \subseteq Kinds
    /\ lock \in Requests \cup {NoOne}
    /\ \A r \in Requests : job[r].op \in Ops
    /\ \A r \in Requests : lock = r <=> job[r].op = "put" /\ job[r].at = "write"

NoSecret == [version |-> 0, sealed |-> FALSE, by |-> NoOne]

\* createApp has answered; nobody has done anything else in the project yet.
Init ==
    /\ clock = 0 /\ archived = FALSE /\ live = TRUE /\ granted = FALSE
    /\ cred = [c \in Creds |-> [state |-> IF c = First THEN "valid" ELSE "none", exp |-> Never]]
    /\ key = [k \in Keys |-> [state |-> "none", gen |-> 0]]
    /\ code = [d \in Codes |-> [state |-> "none", exp |-> 0]]
    /\ secret = NoSecret
    /\ lock = NoOne /\ job = [r \in Requests |-> Idle]
    /\ late = {}

Usable == live /\ ~archived
\* credentialState: expires_at <= now is expired.
Valid(c) == cred[c].state = "valid" /\ cred[c].exp > clock

Begin(r, j) == job[r] = Idle /\ job' = [job EXCEPT ![r] = j]
At(r, op, at) == job[r].op = op /\ job[r].at = at
Move(r, at) == job' = [job EXCEPT ![r].at = at]
Done(r) == job' = [job EXCEPT ![r] = Idle]
Quiet == UNCHANGED late
Serve(r) == late' = late \cup (IF job[r].begun THEN {} ELSE {job[r].op})

Tick ==
    /\ clock < MaxClock /\ clock' = clock + 1
    /\ UNCHANGED <<archived, live, rows, lock, job>> /\ Quiet

----------------------------------------------------------------------------
(* Client secrets *)

\* rotateCredential: access and the app are read, the end of the overlap taken.
RotateCheck(r, o) ==
    /\ Usable /\ Begin(r, [Idle EXCEPT !.op = "rotate", !.at = "select", !.n = clock + o])
    /\ UNCHANGED <<clock, archived, live, rows, lock>> /\ Quiet

\* The SELECT of its transaction: the secrets that are neither revoked nor expired.
RotateSelect(r) ==
    /\ At(r, "rotate", "select")
    /\ job' = [job EXCEPT ![r].at = "write",
                          ![r].saw = {<<c, cred[c].exp>> : c \in {d \in Creds : Valid(d)}}]
    /\ UNCHANGED <<clock, archived, live, rows, lock>> /\ Quiet

\* The least of the end of the overlap and of the expiry that was read.
NewExpiry(r, c) == LET e == CHOOSE x \in job[r].saw : x[1] = c
                   IN  IF e[2] < job[r].n THEN e[2] ELSE job[r].n
Saw(r) == {x[1] : x \in job[r].saw}

\* Mutant: the new secret is inserted before the previous ones are given an end.
RotateWriteAll(r, new) ==
    /\ At(r, "rotate", "write") /\ cred[new].state = "none"
    /\ cred' = [c \in Creds |-> IF c = new THEN [state |-> "valid", exp |-> job[r].n]
                                ELSE IF c \in Saw(r) THEN [cred[c] EXCEPT !.exp = NewExpiry(r, c)]
                                ELSE cred[c]]
    /\ Done(r)
    /\ UNCHANGED <<clock, archived, live, key, code, secret, granted, lock>> /\ Quiet

\* Its UPDATEs, by id and without a condition, and insertCredential.
RotateWrite(r, new) ==
    /\ At(r, "rotate", "write") /\ cred[new].state = "none"
    /\ cred' = [c \in Creds |-> IF c = new THEN [state |-> "valid", exp |-> Never]
                                ELSE IF c \in Saw(r) THEN [cred[c] EXCEPT !.exp = NewExpiry(r, c)]
                                ELSE cred[c]]
    /\ Done(r)
    /\ UNCHANGED <<clock, archived, live, key, code, secret, granted, lock>> /\ Quiet

\* revokeCredential.
RevokeCredential(c) ==
    /\ cred[c].state = "valid"
    /\ cred' = [cred EXCEPT ![c].state = "revoked"]
    /\ UNCHANGED <<clock, archived, live, key, code, secret, granted, lock, job>> /\ Quiet

----------------------------------------------------------------------------
(* The end of the app and of the project *)

\* revokeAppTx: its secrets, its codes and its keys.
EndApp ==
    /\ live' = FALSE
    /\ cred' = [c \in Creds |-> IF cred[c].state = "valid"
                                THEN [cred[c] EXCEPT !.state = "revoked"] ELSE cred[c]]
    /\ code' = [d \in Codes |-> IF code[d].state = "unused"
                                THEN [code[d] EXCEPT !.state = "used"] ELSE code[d]]
    /\ key' = [k \in Keys |-> IF key[k].state = "active"
                              THEN [key[k] EXCEPT !.state = "revoked"] ELSE key[k]]

RevokeApp ==
    /\ live /\ lock = NoOne /\ EndApp
    /\ UNCHANGED <<clock, archived, secret, granted, lock, job>> /\ Quiet

\* archiveProject: the app if it is live, then the project and shredProject.
ArchiveProject ==
    /\ ~archived /\ lock = NoOne
    /\ archived' = TRUE
    /\ secret' = [secret EXCEPT !.sealed = FALSE]
    /\ IF live THEN EndApp ELSE UNCHANGED <<live, cred, code, key>>
    /\ UNCHANGED <<clock, granted, lock, job>> /\ Quiet

\* erase, of an owner without an heir: the secrets end, the keys and codes stay.
EraseOwner ==
    /\ ~archived /\ lock = NoOne
    /\ archived' = TRUE /\ live' = FALSE
    /\ cred' = [c \in Creds |-> IF live /\ cred[c].state = "valid"
                                THEN [cred[c] EXCEPT !.state = "revoked"] ELSE cred[c]]
    /\ secret' = [secret EXCEPT !.sealed = FALSE]
    /\ UNCHANGED <<clock, key, code, granted, lock, job>> /\ Quiet

----------------------------------------------------------------------------
(* API keys *)

\* create: the app is read; archived projects may (allowArchived).
KeyCreateCheck(r, k) ==
    /\ live /\ key[k].state = "none"
    /\ Begin(r, [Idle EXCEPT !.op = "keyCreate", !.id = k])
    /\ UNCHANGED <<clock, archived, live, rows, lock>> /\ Quiet

KeyCreateInsert(r) ==
    LET k == job[r].id
    IN  /\ job[r].op = "keyCreate" /\ key[k].state = "none"
        /\ key' = [key EXCEPT ![k] = [state |-> "active", gen |-> 1]] /\ Done(r)
        /\ UNCHANGED <<clock, archived, live, cred, code, secret, granted, lock>> /\ Quiet

\* rotate: the status is read, then the hash is replaced whatever it is by then.
KeyRotateCheck(r, k) ==
    /\ key[k].state = "active"
    /\ Begin(r, [Idle EXCEPT !.op = "keyRotate", !.id = k])
    /\ UNCHANGED <<clock, archived, live, rows, lock>> /\ Quiet

KeyRotateWrite(r) ==
    LET k == job[r].id
    IN  /\ job[r].op = "keyRotate" /\ key[k].gen < MaxGen
        /\ key' = [key EXCEPT ![k].gen = @ + 1] /\ Done(r)
        /\ UNCHANGED <<clock, archived, live, cred, code, secret, granted, lock>> /\ Quiet

KeyRevoke(k) ==
    /\ key[k].state = "active"
    /\ key' = [key EXCEPT ![k].state = "revoked"]
    /\ UNCHANGED <<clock, archived, live, cred, code, secret, granted, lock, job>> /\ Quiet

\* exchange: matchKey, by the hash of the secret presented.
ExchangeKey(r, k) ==
    /\ key[k].state = "active"
    /\ Begin(r, [Idle EXCEPT !.op = "key", !.at = "app", !.id = k, !.begun = Usable])
    /\ UNCHANGED <<clock, archived, live, rows, lock>> /\ Quiet

\* Mutant: exchange does not read the app again.
ExchangeAnyApp(r) ==
    /\ At(r, "key", "app") /\ Move(r, "project")
    /\ UNCHANGED <<clock, archived, live, rows, lock>> /\ Quiet

\* A presented secret that no longer matches, or an app or project that is not
\* usable, ends the call; only the calls that go on are shown.
ExchangeApp(r) ==
    /\ At(r, "key", "app") /\ live /\ Move(r, "project")
    /\ UNCHANGED <<clock, archived, live, rows, lock>> /\ Quiet

ExchangeProject(r) ==
    /\ At(r, "key", "project") /\ ~archived /\ Move(r, "mint")
    /\ UNCHANGED <<clock, archived, live, rows, lock>> /\ Quiet

----------------------------------------------------------------------------
(* Codes and tokens *)

\* checkAuthorizeRequest, then the person's answer and issueCode.
Authorize(r, d) ==
    /\ Usable /\ code[d].state = "none"
    /\ Begin(r, [Idle EXCEPT !.op = "authorize", !.id = d])
    /\ UNCHANGED <<clock, archived, live, rows, lock>> /\ Quiet

IssueCode(r) ==
    LET d == job[r].id
    IN  /\ job[r].op = "authorize" /\ code[d].state = "none"
        /\ code' = [code EXCEPT ![d] = [state |-> "unused", exp |-> clock + CodeTTL]] /\ Done(r)
        /\ UNCHANGED <<clock, archived, live, cred, key, secret, granted, lock>> /\ Quiet

\* handleTokenRequest: usableApp reads the app and its project.
TokenApp(r, kind) ==
    /\ kind \in {"credential", "code"} /\ Usable
    /\ Begin(r, [Idle EXCEPT !.op = kind, !.at = "authenticate", !.begun = Usable])
    /\ UNCHANGED <<clock, archived, live, rows, lock>> /\ Quiet

\* authenticate and matchSecret: one of the app's valid secrets is presented.
Authenticate(r) ==
    /\ job[r].at = "authenticate" /\ \E c \in Creds : Valid(c)
    /\ Move(r, IF job[r].op = "code" THEN "burn" ELSE "mint")
    /\ UNCHANGED <<clock, archived, live, rows, lock>> /\ Quiet

\* The conditional UPDATE; a code past its time is burnt too, without a token.
BurnCode(r, d) ==
    /\ At(r, "code", "burn") /\ code[d].state = "unused"
    /\ code' = [code EXCEPT ![d].state = "used"]
    /\ job' = [job EXCEPT ![r] = IF code[d].exp < clock THEN Idle
                                 ELSE [@ EXCEPT !.at = "mint", !.id = d]]
    /\ UNCHANGED <<clock, archived, live, cred, key, secret, granted, lock>> /\ Quiet

\* mint reads the grants and signs; for a key, scopesForApp reads them. A call
\* that finds no scope to give is refused.
Mint(r) ==
    /\ job[r].at = "mint"
    /\ Serve(r) /\ Done(r)
    /\ UNCHANGED <<clock, archived, live, rows, lock>>

----------------------------------------------------------------------------
(* Project secrets *)

\* put: access, then the project's lock.
PutCheck(r) ==
    /\ ~archived /\ Begin(r, [Idle EXCEPT !.op = "put", !.at = "lock"])
    /\ UNCHANGED <<clock, archived, live, rows, lock>> /\ Quiet

\* Mutant: put reads the version without the lock.
PutReadUnlocked(r) ==
    /\ At(r, "put", "lock") /\ secret.version < MaxVersion
    /\ job' = [job EXCEPT ![r].at = "write", ![r].n = secret.version]
    /\ UNCHANGED <<clock, archived, live, rows, lock>> /\ Quiet

\* The version is read under the lock; whether the project is archived is not.
PutRead(r) ==
    /\ At(r, "put", "lock") /\ lock = NoOne /\ lock' = r /\ secret.version < MaxVersion
    /\ job' = [job EXCEPT ![r].at = "write", ![r].n = secret.version]
    /\ UNCHANGED <<clock, archived, live, rows>> /\ Quiet

\* An UPDATE of a row that is gone by then changes nothing.
PutWrite(r) ==
    /\ At(r, "put", "write")
    /\ secret' = IF job[r].n > 0 /\ secret.version = 0 THEN secret
                 ELSE [version |-> job[r].n + 1, sealed |-> TRUE, by |-> r]
    /\ lock' = IF lock = r THEN NoOne ELSE lock
    /\ Done(r)
    /\ UNCHANGED <<clock, archived, live, cred, key, code, granted>> /\ Quiet

\* remove: the row and its grants, without the lock, of an archived project too.
RemoveSecret ==
    /\ secret.version > 0 /\ secret' = NoSecret /\ granted' = FALSE
    /\ UNCHANGED <<clock, archived, live, cred, key, code, lock, job>> /\ Quiet

\* putGrant and removeGrant; a grant needs the row of the secret (foreign key).
PutSecretGrant ==
    /\ secret.version > 0 /\ ~granted /\ granted' = TRUE
    /\ UNCHANGED <<clock, archived, live, cred, key, code, secret, lock, job>> /\ Quiet
RemoveSecretGrant ==
    /\ granted /\ granted' = FALSE
    /\ UNCHANGED <<clock, archived, live, cred, key, code, secret, lock, job>> /\ Quiet

\* use: the project, the row, then the service's grant.
UseProject(r) ==
    /\ ~archived
    /\ Begin(r, [Idle EXCEPT !.op = "secret", !.at = "row", !.begun = ~archived])
    /\ UNCHANGED <<clock, archived, live, rows, lock>> /\ Quiet

UseRow(r) ==
    /\ At(r, "secret", "row") /\ secret.sealed /\ Move(r, "grant")
    /\ UNCHANGED <<clock, archived, live, rows, lock>> /\ Quiet

UseGrant(r) ==
    /\ At(r, "secret", "grant") /\ granted /\ Serve(r) /\ Done(r)
    /\ UNCHANGED <<clock, archived, live, rows, lock>>

\* A call that is refused, or whose caller is gone, ends without a change.
Refused(r) ==
    /\ job[r] # Idle /\ lock # r /\ Done(r)
    /\ UNCHANGED <<clock, archived, live, rows, lock>> /\ Quiet

----------------------------------------------------------------------------

CredentialStep(r) ==
    \/ \E o \in Overlaps : RotateCheck(r, o)
    \/ RotateSelect(r)
    \/ \E c \in Creds : RotateWrite(r, c)

KeyStep(r) ==
    \/ \E k \in Keys : KeyCreateCheck(r, k) \/ KeyRotateCheck(r, k) \/ ExchangeKey(r, k)
    \/ KeyCreateInsert(r) \/ KeyRotateWrite(r) \/ ExchangeApp(r) \/ ExchangeProject(r)

TokenStep(r) ==
    \/ \E kind \in {"credential", "code"} : TokenApp(r, kind)
    \/ \E d \in Codes : Authorize(r, d) \/ BurnCode(r, d)
    \/ IssueCode(r) \/ Authenticate(r) \/ Mint(r)

SecretStep(r) ==
    PutCheck(r) \/ PutRead(r) \/ PutWrite(r) \/ UseProject(r) \/ UseRow(r) \/ UseGrant(r)

Next ==
    \/ Tick \/ RevokeApp \/ ArchiveProject \/ EraseOwner
    \/ \E c \in Creds : RevokeCredential(c)
    \/ \E k \in Keys : KeyRevoke(k)
    \/ RemoveSecret \/ PutSecretGrant \/ RemoveSecretGrant
    \/ \E r \in Requests : CredentialStep(r) \/ KeyStep(r) \/ TokenStep(r) \/ SecretStep(r)
                           \/ Refused(r)

Spec == Init /\ [][Next]_vars

----------------------------------------------------------------------------
(* Properties *)

\* No call that begins after the app was revoked or the project archived gets a
\* token or a secret, although a rotation, a key, a code or a secret of a call
\* that began before may still be written (usableApp, exchange, use).
NothingForTheEnded == TypeOK /\ late = {}

\* Rotation alone never leaves a live app without a secret that lasts, however
\* many rotations run at once (rotateCredential).
NeverLockedOut == live /\ (\A c \in Creds : cred[c].state # "revoked") =>
    \E c \in Creds : cred[c].state = "valid" /\ cred[c].exp = Never

\* Each value written to the secret while it exists has a version of its own:
\* no put is lost under another that read the same version (put's lock).
VersionsAdvance == [][secret.version > 0 /\ secret'.version > 0 /\ secret'.by # secret.by
                        => secret'.version > secret.version]_vars

=============================================================================
