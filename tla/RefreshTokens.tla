--------------------------- MODULE RefreshTokens ---------------------------
(***************************************************************************)
(* OAuth refresh tokens of one person: server/auth/refresh-tokens.js and   *)
(* the token endpoint that uses it (server/auth/oauth-routes.js).          *)
(*                                                                         *)
(* A sign-in exchanges an authorization code for generation 0 of a new     *)
(* family; every refresh revokes the presented token ('rotated') and       *)
(* issues the next generation; a token presented again after the grace     *)
(* ends the family, as do the app's Sign out and the account page.         *)
(*                                                                         *)
(* None of these handlers opens a transaction: each is a chain of single   *)
(* SQL statements with an await between them, so one action here is one    *)
(* statement (with the synchronous code around it) and any two requests    *)
(* interleave between statements.  A request that is refused before it     *)
(* wrote anything changes nothing and is left out: it is a stuttering      *)
(* step.  Token values and family ids are fresh random bytes, so a token   *)
(* is a member of Tokens and a family is named by its first token.         *)
(*                                                                         *)
(* Time is in whole seconds, the resolution of ov_now(), which stamps      *)
(* created_at, revoked_at and token_valid_after.  The grace and the expiry *)
(* compare those stamps with a clock in milliseconds, so that at equality  *)
(* of the seconds both answers are possible.                               *)
(***************************************************************************)
EXTENDS Naturals, FiniteSets

CONSTANTS
    Requests,        \* the HTTP requests being handled at once
    Tokens,          \* refresh token values
    LegacyTokens,    \* those stored raw, before hashing was introduced
    Codes,           \* authorization codes
    Clients,         \* OAuth clients
    SessionClients,  \* the public clients with session_token = 1
    NoToken, NoCode, NoClient,
    Grace,           \* REUSE_GRACE_S
    TokenTTL,        \* TTL_MS, in seconds
    CodeTTL,         \* the five minutes of an authorization code
    MaxClock,        \* bound: the last second of a behaviour
    MaxCuts          \* bound: how often the person signs out everywhere

ASSUME ConstantsAssumption ==
    /\ LegacyTokens \subseteq Tokens
    /\ SessionClients \subseteq Clients
    /\ NoToken \notin Tokens
    /\ NoCode \notin Codes
    /\ NoClient \notin Clients
    /\ Grace \in Nat /\ TokenTTL \in Nat /\ CodeTTL \in Nat
    /\ MaxClock \in Nat /\ MaxCuts \in Nat

VARIABLES
    clock,       \* seconds
    banned,      \* users.is_banned
    validAfter,  \* users.token_valid_after (0: never set)
    cuts,        \* how many times token_valid_after was set (history)
    certs,       \* a release certificate is published (app-links.js fingerprints())
    code,        \* oauth_codes
    tok,         \* oauth_tokens
    audit,       \* the families an audit_log row says were ended, and why
    pc,          \* where each request is
    req          \* what each request carries from one statement to the next

vars == <<clock, banned, validAfter, cuts, certs, code, tok, audit, pc, req>>
account == <<clock, banned, validAfter, cuts, certs>>

----------------------------------------------------------------------------
(* Rows and requests *)

EndReasons == {"reuse", "signed_out", "revoked_by_user"}

\* origin and epoch are history: the code a family came from, and how many
\* times the person had signed out everywhere when the row was written.
TokenRow == [status: {"none", "live", "revoked"}, raw: BOOLEAN,
             client: Clients \cup {NoClient}, family: Tokens \cup {NoToken},
             generation: Nat, created: Nat, expires: Nat, session: BOOLEAN,
             reason: EndReasons \cup {"none", "rotated"}, revokedAt: Nat,
             origin: Codes \cup {NoCode}, epoch: Nat]

NoRow == [status |-> "none", raw |-> FALSE, client |-> NoClient, family |-> NoToken,
          generation |-> 0, created |-> 0, expires |-> 0, session |-> FALSE,
          reason |-> "none", revokedAt |-> 0, origin |-> NoCode, epoch |-> 0]

CodeRow == [status: {"none", "issued", "used"}, client: Clients \cup {NoClient},
            expires: Nat, appLink: BOOLEAN]

NoCodeRow == [status |-> "none", client |-> NoClient, expires |-> 0, appLink |-> FALSE]

PCs == {"idle", "burn", "take", "find", "find_raw", "hash_raw", "rotate",
        "end_family", "audit", "user", "issue"}

Ops == {"none", "code", "refresh", "sign_out", "end_app"}

Job == [op: Ops, token: Tokens \cup {NoToken}, code: Codes \cup {NoCode},
        client: Clients \cup {NoClient}, now: Nat, session: BOOLEAN, epoch: Nat]

NoJob == [op |-> "none", token |-> NoToken, code |-> NoCode, client |-> NoClient,
          now |-> 0, session |-> FALSE, epoch |-> 0]

TypeOK ==
    /\ clock \in Nat /\ validAfter \in Nat /\ cuts \in Nat
    /\ banned \in BOOLEAN /\ certs \in BOOLEAN
    /\ code \in [Codes -> CodeRow]
    /\ tok \in [Tokens -> TokenRow]
    /\ audit \subseteq [family: Tokens \cup {NoToken}, reason: EndReasons]
    /\ pc \in [Requests -> PCs]
    /\ req \in [Requests -> Job]

Live(t) == tok[t].status = "live"
Exists(t) == tok[t].status # "none"
InFamily(t, f) == Exists(t) /\ tok[t].family = f

Goto(r, step) == pc' = [pc EXCEPT ![r] = step]

\* The response is sent: the request carries nothing any more.
Finish(r) ==
    /\ Goto(r, "idle")
    /\ req' = [req EXCEPT ![r] = NoJob]

Init ==
    /\ clock = 0 /\ banned = FALSE /\ validAfter = 0 /\ cuts = 0
    /\ certs \in BOOLEAN
    /\ code = [c \in Codes |-> NoCodeRow]
    /\ \E client \in [LegacyTokens -> Clients] :
          tok = [t \in Tokens |->
                    IF t \in LegacyTokens
                    THEN [NoRow EXCEPT !.status = "live", !.raw = TRUE,
                                       !.client = client[t], !.expires = TokenTTL]
                    ELSE NoRow]
    /\ audit = {}
    /\ pc = [r \in Requests |-> "idle"]
    /\ req = [r \in Requests |-> NoJob]

----------------------------------------------------------------------------
(* The rest of the account *)

Tick ==
    /\ clock < MaxClock
    /\ clock' = clock + 1
    /\ UNCHANGED <<banned, validAfter, cuts, certs, code, tok, audit, pc, req>>

\* PUT /admin/users/:id/ban: is_banned first; the cutoff follows as its own
\* transaction (EndEverySession), or never if the process stops in between.
SetBanned ==
    /\ banned' = ~banned
    /\ UNCHANGED <<clock, validAfter, cuts, certs, code, tok, audit, pc, req>>

\* revocation.revokeTokens: a password change or reset, "sign out everywhere",
\* a ban, staff.  One transaction; the refresh token rows are not touched.  A
\* merge or a deletion of the account, which also moves or deletes those rows,
\* cuts one second further on (strict) and is outside.
EndEverySession ==
    /\ cuts < MaxCuts
    /\ cuts' = cuts + 1
    /\ validAfter' = clock
    /\ UNCHANGED <<clock, banned, certs, code, tok, audit, pc, req>>

\* LINK_ANDROID_CERT_SHA256 is set or withdrawn.
ChangeCertificates ==
    /\ certs' = ~certs
    /\ UNCHANGED <<clock, banned, validAfter, cuts, code, tok, audit, pc, req>>

\* issueCode, for a session verified when the person confirmed the sign-in.
IssueCode(c) ==
    /\ code[c].status = "none"
    /\ ~banned
    /\ \E cl \in Clients, link \in BOOLEAN :
          code' = [code EXCEPT ![c] = [status |-> "issued", client |-> cl,
                                       expires |-> clock + CodeTTL, appLink |-> link]]
    /\ UNCHANGED <<clock, banned, validAfter, cuts, certs, tok, audit, pc, req>>

----------------------------------------------------------------------------
(* POST /token, grant_type=authorization_code *)

\* The code is read and checked: not used, the right client, not expired.
\* A failed PKCE check burns it.
ExchangeCode(r, c, verified) ==
    /\ pc[r] = "idle"
    /\ code[c].status = "issued"
    /\ clock <= code[c].expires
    /\ Goto(r, IF verified THEN "take" ELSE "burn")
    /\ req' = [req EXCEPT ![r] = [NoJob EXCEPT !.op = "code", !.code = c,
                                               !.client = code[c].client]]
    /\ UNCHANGED <<account, code, tok, audit>>

BurnCode(r) ==
    /\ pc[r] = "burn"
    /\ code' = [code EXCEPT ![req[r].code].status = "used"]
    /\ Finish(r)
    /\ UNCHANGED <<account, tok, audit>>

\* Mutant: without AND used = 0, every request that read the code redeems it.
TakeCodeTwice(r) ==
    /\ pc[r] = "take"
    /\ code' = [code EXCEPT ![req[r].code].status = "used"]
    /\ Goto(r, "user")
    /\ UNCHANGED <<account, tok, audit, req>>

\* UPDATE oauth_codes SET used = 1 WHERE code = ? AND used = 0
TakeCode(r) ==
    /\ pc[r] = "take"
    /\ \/ /\ code[req[r].code].status = "issued"
          /\ code' = [code EXCEPT ![req[r].code].status = "used"]
          /\ Goto(r, "user")
          /\ UNCHANGED req
       \/ /\ code[req[r].code].status # "issued"
          /\ Finish(r)
          /\ UNCHANGED code
    /\ UNCHANGED <<account, tok, audit>>

----------------------------------------------------------------------------
(* POST /token, grant_type=refresh_token; POST /revoke; DELETE /apps/:family *)

\* A token is presented; rotate() takes its clock before its first query.
PresentToken(r, t, cl, op) ==
    /\ pc[r] = "idle"
    /\ Exists(t)
    /\ op \in {"refresh", "sign_out"}
    /\ Goto(r, "find")
    /\ req' = [req EXCEPT ![r] = [NoJob EXCEPT !.op = op, !.token = t, !.client = cl,
                                               !.now = clock, !.epoch = cuts]]
    /\ UNCHANGED <<account, code, tok, audit>>

\* The account page ends a family it lists; any row of it will do.
EndApp(r, t) ==
    /\ pc[r] = "idle"
    /\ Exists(t) /\ tok[t].family # NoToken
    /\ Goto(r, "end_family")
    /\ req' = [req EXCEPT ![r] = [NoJob EXCEPT !.op = "end_app", !.token = t,
                                               !.client = tok[t].client]]
    /\ UNCHANGED <<account, code, tok, audit>>

\* Mutant: no grace for two tabs that refresh at once.
PastNoGrace(now, row) == TRUE

\* Presented again within the grace of its own rotation: two tabs, not a replay.
WithinGrace(now, row) == row.reason = "rotated" /\ now <= row.revokedAt + Grace
PastGrace(now, row) == row.reason = "rotated" => now >= row.revokedAt + Grace

\* find: SELECT by hash; then rotate's checks on the row, with no await between.
FindToken(r) ==
    LET row == tok[req[r].token] IN
    /\ pc[r] = "find"
    /\ \/ /\ row.raw
          /\ Goto(r, "find_raw")
          /\ UNCHANGED req
       \/ /\ ~row.raw
          /\ row.client = req[r].client
          /\ \/ /\ req[r].op = "refresh" /\ row.status = "live"
                /\ req[r].now <= row.expires
                /\ Goto(r, "rotate")
             \/ /\ req[r].op = "refresh" /\ row.status = "revoked"
                /\ PastGrace(req[r].now, row)
                /\ Goto(r, "end_family")
             \/ /\ req[r].op = "sign_out"
                /\ Goto(r, "end_family")
          /\ UNCHANGED req
       \/ /\ ~row.raw
          /\ \/ row.client # req[r].client
             \/ /\ req[r].op = "refresh" /\ row.status = "live"
                /\ req[r].now >= row.expires
             \/ /\ req[r].op = "refresh" /\ row.status = "revoked"
                /\ WithinGrace(req[r].now, row)
          /\ Finish(r)
    /\ UNCHANGED <<account, code, tok, audit>>

\* SELECT by the raw value: gone if a concurrent first use hashed it meanwhile.
FindRaw(r) ==
    /\ pc[r] = "find_raw"
    /\ \/ tok[req[r].token].raw /\ Goto(r, "hash_raw") /\ UNCHANGED req
       \/ ~tok[req[r].token].raw /\ Finish(r)
    /\ UNCHANGED <<account, code, tok, audit>>

\* The raw row is hashed and gets its own family; then it is read again by id.
HashRaw(r) ==
    LET t == req[r].token IN
    /\ pc[r] = "hash_raw"
    /\ tok' = IF tok[t].raw THEN [tok EXCEPT ![t].raw = FALSE, ![t].family = t] ELSE tok
    /\ Goto(r, "find")
    /\ UNCHANGED <<account, code, audit, req>>

\* Mutant: without AND revoked = 0, a token revoked since it was read rotates.
RotateAnyToken(r) ==
    LET t == req[r].token IN
    /\ pc[r] = "rotate"
    /\ tok' = [tok EXCEPT ![t].status = "revoked", ![t].reason = "rotated",
                          ![t].revokedAt = clock]
    /\ Goto(r, "user")
    /\ UNCHANGED <<account, code, audit, req>>

\* UPDATE ... SET revoked = 1, 'rotated' WHERE id = ? AND revoked = 0
RotateToken(r) ==
    LET t == req[r].token IN
    /\ pc[r] = "rotate"
    /\ \/ /\ Live(t)
          /\ tok' = [tok EXCEPT ![t].status = "revoked", ![t].reason = "rotated",
                                ![t].revokedAt = clock]
          /\ Goto(r, "user")
          /\ UNCHANGED req
       \/ /\ ~Live(t)
          /\ Finish(r)
          /\ UNCHANGED tok
    /\ UNCHANGED <<account, code, audit>>

EndReason(op) == CASE op = "refresh" -> "reuse"
                   [] op = "sign_out" -> "signed_out"
                   [] OTHER -> "revoked_by_user"

\* revokeFamily: every live row of the family, in one UPDATE.
RevokedFamily(f, why) ==
    [t \in Tokens |-> IF Live(t) /\ tok[t].family = f
                      THEN [tok[t] EXCEPT !.status = "revoked", !.reason = why,
                                          !.revokedAt = clock]
                      ELSE tok[t]]

\* Reuse is audited when the presented token was rotated or rows were revoked.
EndFamily(r) ==
    LET f == tok[req[r].token].family
        nothing == \A t \in Tokens : ~(Live(t) /\ tok[t].family = f)
    IN
    /\ pc[r] = "end_family"
    /\ tok' = RevokedFamily(f, EndReason(req[r].op))
    /\ IF req[r].op = "refresh" /\ tok[req[r].token].reason # "rotated" /\ nothing
       THEN Finish(r)
       ELSE Goto(r, "audit") /\ UNCHANGED req
    /\ UNCHANGED <<account, code, audit>>

WriteAudit(r) ==
    /\ pc[r] = "audit"
    /\ audit' = audit \cup {[family |-> tok[req[r].token].family,
                             reason |-> EndReason(req[r].op)]}
    /\ Finish(r)
    /\ UNCHANGED <<account, code, tok>>

----------------------------------------------------------------------------
(* Both grants end here: the account is read, then the pair is issued. *)

\* Mutant: a refresh asks for the certificate only, not what kind of family it is.
EarnsSessionByClient(r) ==
    /\ req[r].client \in SessionClients
    /\ certs
    /\ req[r].op = "code" => code[req[r].code].appLink

\* A session token comes from the claimed app link, or from a session family,
\* and only while a certificate is published.
EarnsSession(r) ==
    /\ req[r].client \in SessionClients
    /\ certs
    /\ IF req[r].op = "code" THEN code[req[r].code].appLink ELSE tok[req[r].token].session

\* Mutant: the cutoff is not compared with the token's own stamp.
ReadUserUncut(r) ==
    /\ pc[r] = "user"
    /\ \/ /\ ~banned
          /\ Goto(r, "issue")
          /\ req' = [req EXCEPT ![r].session = EarnsSession(r)]
       \/ banned /\ Finish(r)
    /\ UNCHANGED <<account, code, tok, audit>>

ReadUser(r) ==
    /\ pc[r] = "user"
    /\ LET cutOff == req[r].op = "refresh" /\ tok[req[r].token].created < validAfter IN
       \/ /\ ~banned /\ ~cutOff
          /\ Goto(r, "issue")
          /\ req' = [req EXCEPT ![r].session = EarnsSession(r)]
       \/ /\ banned \/ cutOff
          /\ Finish(r)
    /\ UNCHANGED <<account, code, tok, audit>>

\* Mutant: the successor keeps its parent's generation.
NextRowUncounted(r, t) ==
    LET parent == tok[req[r].token] IN
    [NoRow EXCEPT !.status = "live", !.client = req[r].client,
                  !.family = IF req[r].op = "code" THEN t ELSE parent.family,
                  !.generation = IF req[r].op = "code" THEN 0 ELSE parent.generation,
                  !.created = clock, !.expires = clock + TokenTTL,
                  !.session = req[r].session, !.epoch = cuts,
                  !.origin = IF req[r].op = "code" THEN req[r].code ELSE parent.origin]

\* issueTokenPair: a sign-in starts a family, a refresh continues its own.
NextRow(r, t) ==
    LET parent == tok[req[r].token] IN
    [NoRow EXCEPT !.status = "live", !.client = req[r].client,
                  !.family = IF req[r].op = "code" THEN t ELSE parent.family,
                  !.generation = IF req[r].op = "code" THEN 0 ELSE parent.generation + 1,
                  !.created = clock, !.expires = clock + TokenTTL,
                  !.session = req[r].session, !.epoch = cuts,
                  !.origin = IF req[r].op = "code" THEN req[r].code ELSE parent.origin]

IssueToken(r) ==
    /\ pc[r] = "issue"
    /\ \E t \in Tokens : ~Exists(t) /\ tok' = [tok EXCEPT ![t] = NextRow(r, t)]
    /\ Finish(r)
    /\ UNCHANGED <<account, code, audit>>

\* The process stops, or a statement throws: what was written stays.
Fail(r) ==
    /\ pc[r] # "idle"
    /\ Finish(r)
    /\ UNCHANGED <<account, code, tok, audit>>

----------------------------------------------------------------------------
Account ==
    \/ Tick \/ SetBanned \/ EndEverySession \/ ChangeCertificates
    \/ \E c \in Codes : IssueCode(c)

Handle(r) ==
    \/ BurnCode(r) \/ TakeCode(r)
    \/ FindToken(r) \/ FindRaw(r) \/ HashRaw(r) \/ RotateToken(r)
    \/ EndFamily(r) \/ WriteAudit(r)
    \/ ReadUser(r) \/ IssueToken(r) \/ Fail(r)

Arrive(r) ==
    \/ \E c \in Codes, verified \in BOOLEAN : ExchangeCode(r, c, verified)
    \/ \E t \in Tokens, cl \in Clients, op \in Ops : PresentToken(r, t, cl, op)
    \/ \E t \in Tokens : EndApp(r, t)

Next == Account \/ \E r \in Requests : Arrive(r) \/ Handle(r)

Spec == Init /\ [][Next]_vars

----------------------------------------------------------------------------
(* Properties *)

\* A request between the statement that spent its token or code and the one
\* that issues the successor: it alone may add to that family.
Spent(r) == pc[r] \in {"user", "issue"}
Rotating(r, f) == Spent(r) /\ req[r].op = "refresh" /\ tok[req[r].token].family = f

\* However tabs, replays, sign-outs and crashes interleave, a family never
\* has two usable refresh tokens: rotation hands one over, it never forks.
OneLivePerFamily ==
    \A a, b \in Tokens :
        (Live(a) /\ Live(b) /\ tok[a].family = tok[b].family /\ tok[a].family # NoToken) => a = b

\* Generations of a family are never reused, and the usable token is the
\* newest one (generation is what an auditor of a reuse goes by).
LiveIsNewest ==
    \A a, b \in Tokens :
        (Exists(a) /\ Exists(b) /\ tok[a].family = tok[b].family /\ tok[a].family # NoToken)
        => /\ Live(a) => tok[b].generation <= tok[a].generation
           /\ tok[a].generation = tok[b].generation => a = b

\* One authorization code starts at most one family, whoever races to redeem it.
CodeStartsOneFamily ==
    \A a, b \in Tokens :
        (Exists(a) /\ Exists(b) /\ tok[a].origin = tok[b].origin /\ tok[a].origin # NoCode)
        => tok[a].family = tok[b].family

\* A family that came in as a read-only Dock sign-in, or fell back to one when
\* the certificate was withdrawn, never becomes a person's session again.
SessionNeverRegained ==
    \A a, b \in Tokens :
        (/\ Exists(a) /\ Exists(b)
         /\ tok[a].family = tok[b].family /\ tok[a].family # NoToken
         /\ tok[a].generation < tok[b].generation /\ tok[b].session) => tok[a].session

\* A family with no usable token and no rotation under way is over: no later
\* request, of any kind, brings it back (Dock's guard refuses its tokens too).
Over(f) ==
    /\ \E t \in Tokens : InFamily(t, f)
    /\ \A t \in Tokens : ~(InFamily(t, f) /\ Live(t))
    /\ \A r \in Requests : ~Rotating(r, f)
OverStaysOver == [][\A f \in Tokens : Over(f) => Over(f)']_vars

\* Once every token of a family is older than a sign-out-everywhere and no
\* request already past that check is about to issue, the family never issues
\* again: the cutoff needs no row of oauth_tokens to be touched.
CutOff(f) ==
    /\ \E t \in Tokens : InFamily(t, f)
    /\ \A t \in Tokens : InFamily(t, f) => tok[t].created < validAfter
    /\ \A r \in Requests : ~(pc[r] = "issue" /\ Rotating(r, f))
CutOffStaysCutOff == [][\A f \in Tokens : CutOff(f) => CutOff(f)']_vars

\* Only a replay ends a family for reuse: when a step revokes a token for
\* reuse, somebody had presented a token at least Grace seconds after it was
\* rotated away, or one whose family had already been ended.
OnlyReplayEndsFamily ==
    [][\A t \in Tokens :
          (Live(t) /\ tok[t].status' = "revoked" /\ tok[t].reason' = "reuse")
          => \E r \in Requests :
                /\ req[r].op = "refresh"
                /\ tok[req[r].token].family = tok[t].family
                /\ req[r].token # t
                /\ tok[req[r].token].status = "revoked"
                /\ tok[req[r].token].reason = "rotated"
                   => req[r].now >= tok[req[r].token].revokedAt + Grace]_vars

\* What the sources say and a race breaks: once the audit says a family was
\* ended, no token of it is usable.
EndIsFinal ==
    \A e \in audit : \A t \in Tokens : ~(InFamily(t, e.family) /\ Live(t))

\* The handlers, statement by statement, implement the promise of
\* TokenFamilies: a family is one right that is handed from generation to
\* generation, never forked and never regained, and a code starts one family.
Usable(f) == {t \in Tokens : InFamily(t, f) /\ Live(t)}
Rotators(f) == {r \in Requests : Rotating(r, f)}

HeldBy(where, t) ==
    [at |-> where, generation |-> tok[t].generation, session |-> tok[t].session]

FamilyOf(f) ==
    IF Usable(f) # {} THEN HeldBy("token", CHOOSE t \in Usable(f) : TRUE)
    ELSE IF Rotators(f) # {} THEN HeldBy("request", req[CHOOSE r \in Rotators(f) : TRUE].token)
    ELSE [at |-> IF \E t \in Tokens : InFamily(t, f) THEN "ended" ELSE "nobody",
          generation |-> 0, session |-> FALSE]

StartedCodes == {c \in Codes : \E t \in Tokens : Exists(t) /\ tok[t].origin = c}

F == INSTANCE TokenFamilies WITH
        Names <- Tokens, family <- [f \in Tokens |-> FamilyOf(f)], started <- StartedCodes
ImplementsFamilies == F!Spec

============================================================================
