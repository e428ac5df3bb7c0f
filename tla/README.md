# OpenVibe.Network in TLA+

OpenVibe.Network is the identity service of the OpenVibe network: accounts and
sign-in, OAuth clients and tokens, developer projects and delegated agents,
consents, the OpenCoins wallet, notifications, presence, and the registry of
machines. It is one Node process (restarted at any time, and able to run beside
another copy) over one PostgreSQL database.

This directory holds TLA+ modules of the parts whose correctness depends on
the order of steps, TLC runs over small instances, and theorems checked by
TLAPS.

## The system

`server/index.js` mounts the routers on one Express application.
`server/db/database.js` gives every handler the same two ways to the database:
a statement of its own (`db.prepare(...)`, committed at once), or a transaction
(`db.tx`, READ COMMITTED, rows locked only where a query says `FOR UPDATE`).
Every `await` lets another request run. Hence three semantics recur in the
models:

- a handler without a transaction is a chain of atomic statements, interleaved
  with everything else, and a crash or an exception leaves what was written;
- a transaction sees what others committed before each of its statements, and
  its own writes become visible at its commit; locked rows make others wait;
- a conditional UPDATE (`... WHERE id = ? AND revoked = 0`) is the way this code
  lets one of several writers win; its row count says who won.

| Part (`server/`) | State | Operations | Who else touches it | What is hard |
|---|---|---|---|---|
| OAuth tokens (`auth/oauth-routes.js`, `auth/refresh-tokens.js`) | `oauth_codes`, `oauth_tokens`, `audit_log` | issue and exchange a code, refresh, revoke, end an app | session cutoff, account merge, Dock guard | no transaction: races between tabs, thieves, sign-outs; lost answers; second-resolution stamps |
| Session cutoff (`auth/revocation.js`) | `users.token_valid_after` | sign out everywhere, ban, password change | every token check | a cutoff and a token in one second; two cutoffs in one second |
| QR sign-in (`auth/qr-signin.js`) | `qr_signin_transfers`, `qr_signin_starts`, `audit_log` | start, scan, status, approve, deny, sweep | two devices and a phone | one winner per approval, attempts, expiry against a late answer |
| Developer projects (`developer/store.js`) | `dev_projects`, `dev_project_members`, `dev_apps`, `dev_grants` | members, apps, app grants, allowance, archive | agents, account erasure, token endpoint | cascades that must reach rows inserted meanwhile |
| Agents and grants (`developer/agents.js`) | `dev_agents`, `dev_agent_grants`, `dev_agent_budgets` | create, pause, resume, revoke, grant, budget | projects, apps, confirmations | what an agent may do against what its host still holds |
| Credentials (`developer/store.js`, `api-keys.js`, `tokens.js`, `secrets.js`) | `dev_credentials`, `dev_api_keys`, `dev_auth_codes`, `dev_project_secrets` | rotate, revoke, exchange, put, use | the end of the app or project | calls that read in several statements while the app ends |
| Confirmations (`developer/confirmations.js`) | `dev_confirmations`, `dev_standing_rules` | create, consume, cancel, decide, expire, revoke a rule | agents, the owning services | an approval used after its authority was taken away |
| Service grants, erasure (`identity/grants-admin.js`, `account-data.js`) | `principal_grants`, `users` | grant, revoke, expire; erase an account | agents of services, projects, machines | an expiry found in one statement and recorded in another |
| Consents (`consent/`) | `consents`, `consent_events`, `consent_refusals` | choose, answer, withdraw, expire, end | apps, services that ask `check` | two tabs on one screen, events after commits, the end of an account |
| Wallet (`coins/wallet.js`) | `wallets`, `coin_transactions` | credit, debit, transfer | services with retries | one effect per idempotency key, replay of the right answer |
| Machine pools (`registry/machine-pools.js`) | candidates, pools, members | announce, propose, approve, renew, revoke | machines, Bot, node principals | several rows locked at once; a revocation in two statements |
| Node pairing (`registry/node-principals.js`) | pairings, node principals, outbox | pair, redeem, buy a token, rotate, revoke | a service, an operator, account erasure | a code redeemed twice; a write over a revocation |
| Events outbox (`developer/event-relay.js`, `identity/*-events.js`) | `dev_audit`, outbox rows | append with the change, copy | Events service | at least once, order of ids against order of commits |
| Notifications (`notifications/*.js`) | `notifications`, event inbox | apply an event, announce, digest | Events service, push | duplicated and reordered events, a daily limit |
| Account merge (`identity/account-merge.js`) | every table of a person | merge | token endpoint, consents | tokens that move to another account |
| User modules, presence, Dock state (`identity/modules.js`, `presence/`, `dock/`) | one row per person | read, write with a revision or a merge | browsers of one person | lost updates |
| Sharing (`sharing/`) | read model of shared items | apply events, open a share | services | events out of order |
| Connect gateway (`connect/`) | approvals, counters, vault | call an app, approve | agents | limits, approvals used once |
| Themes, frame, profiles, pages, statistics, status, admin, setup, domains, deploy, push, Discord | preferences, caches, files | read, render, write one row | browsers, staff | little: single statements and I/O |

What makes the parts correct is listed with their modules below; what can go
wrong in each, line by line, is the `hazards` list of `PROJECT.json`.

## Modules

| Module | What it is |
|---|---|
| `TokenFamilies` | what rotation promises: a family is one right, handed from generation to generation |
| `RefreshTokens` | OAuth codes, refresh token families, their rotation, reuse and ends, statement by statement; implements `TokenFamilies` |
| `QrSignin` | sign in on another device by a QR code |
| `DevProjects` | a developer project: members, apps, app grants, allowance, agents and what is delegated to them, with the service's grants and the erasure of accounts |
| `DevCredentials` | the secrets, API keys, codes and tokens of one app, and its project's secrets |
| `Confirmations` | one agent, its grants, confirmations and standing rules, and the cascades |
| `Consents` | the consents of one person and a service that keeps what it was told |
| `CoinLedger` | what the wallet promises: each mutation at once, once for its key |
| `CoinWallet` | the wallet's transactions statement by statement; implements `CoinLedger` |
| `MachinePools` | pools of machines of one owner: candidates, proposals, keys, revocation |
| `NodePairing` | the machines of one person: pairing codes, credentials, revocation |
| `MC...` | the instance of each for TLC: symmetry, constraints, and values a cfg cannot write |
| `..._proofs` | theorems about the module named; `Registry_proofs` about `MachinePools` and `NodePairing` |

Each component has a file of its own. Where one transaction of the code writes
tables of several components, one module has all of them: `DevProjects` has the
project and the agents, whose cascades are its subject, and the erasure of an
account as it reaches them; `Confirmations` has one agent with what is confirmed
for it. `CoinWallet` and `CoinLedger`, and `RefreshTokens` and
`TokenFamilies`, are joined by a refinement. A definition
commented `Mutant` is a variant of an action with one plausible mistake; nothing
in `Next` uses it, and `PROJECT.json` says which property finds it.

`TypeOK` is the type invariant of each module. It is checked as the first
conjunct of one of the safety invariants (`EachChangeOnce`, `WalletIsLedger`,
`NothingForTheEnded`, `RecordProves`) or proved. `MachinePools` and `NodePairing`
are extended by one proof module, so the names of the first say what they are of:
`PoolTypeOK`, `PoolInit`, `PoolNext`, `poolVars`.

### RefreshTokens and TokenFamilies

`tok` and `code` are the rows of `oauth_tokens` and `oauth_codes`; `banned`,
`validAfter` are the columns of the one person's `users` row the handlers read;
`certs` says that `app-links.fingerprints()` is not empty; `audit` keeps which
families an audit row says were ended. A request `r` is at `pc[r]` and carries
`req[r]` from statement to statement. Each action is one SQL statement with the
synchronous code after it:

| Action | Code |
|---|---|
| `ExchangeCode`, `BurnCode`, `TakeCode` | `POST /token`, authorization_code: the SELECT and its checks, the burn on a failed PKCE check, the conditional UPDATE |
| `PresentToken`, `FindToken`, `FindRaw`, `HashRaw` | `rotate` and `revokePresented` up to the checks on the row; a row stored raw is hashed |
| `RotateToken` | `UPDATE ... 'rotated' WHERE id = ? AND revoked = 0` |
| `EndFamily`, `WriteAudit` | `revokeFamily` for reuse, sign-out, or the account page; then the audit row |
| `ReadUser`, `IssueToken` | the account check (ban, cutoff, what kind of session) and `issueTokenPair` |
| `EndEverySession`, `SetBanned`, `ChangeCertificates`, `IssueCode` | the rest of the account |
| `Fail` | a crash or an exception between two statements |

Left out: the FedCM grant (it starts families like a code does), the strict cutoff of
a merge or a deletion (a second later; those also move or delete the token rows),
parsing and client authentication, the contents of the access token, and requests refused
before they write (they are stuttering steps).

`origin` and `epoch` of a row and `cuts` are history variables: no guard of a
handler reads them.

`TokenFamilies` says what all this is for. A family is one right to stay signed
in: with nobody yet, with a token, with the request that has spent that token, or
ended. `SignIn` and `Adopt` (a row stored raw) start it, `Spend` and `Renew` hand
it on, `End` loses it for good; `Renew` may lose the person's session and never
gains it; a code starts one family. `FamilyOf` reads it off the rows and requests:
the usable token if there is one, else the request between `RotateToken` and
`IssueToken`, else nobody. A request that fails there loses the right (`End`), and
ending a family whose token is spent at that moment changes nothing of it: that is
how the code is, and `end_is_final` is the claim it breaks.

### QrSignin

`xfer`, `starts`, `audit` are the rows; `sessions[x]` the devices a transfer has
signed in, in order; `confirmed` and `wrong` are history.

| Action | Code |
|---|---|
| `Start`, `LockUser`, `CountStarts`, `InsertTransfer` | `POST /start`: the transaction under the row of the person |
| `Scan`, `MarkScanned` | `POST /scan`: the read, the conditional UPDATE |
| `Approve`, `MarkApproved`, `CountWrong` | `POST /:id/approve`: the read; the right code; a wrong one, under `FOR UPDATE` |
| `Deny`, `MarkDenied` | `POST /:id/deny` |
| `Poll`, `CheckAccount`, `RefuseClosed`, `UseTransfer` | `GET /status` by the target |
| `WriteAudit` | `audit` after the commit |
| `Sweep`, `SetClosed`, `Tick`, `Fail` | the sweep; bans and deletions; time; a crash or an exception |

A match code is the device that shows it; two scans of one transfer that drew
the same two digits are left out.

### DevProjects

One project: `archived`, `allowance`, `owner`, `role`; its apps (`app`) and their
grants (`grant`); agents (`status`, `person`, `host`) and what is `delegated` to
them; `svc`, the grants of the service that hosts agents. Most handlers read the
project, the role and the row, and then open a transaction that may be much
later: where the effect depends on what was read, a `job` holds it. `lock` is the
project's row, taken by `lockProject`; an UPDATE of that row waits for it too.

| Action | Code |
|---|---|
| `AddMember`, `UpdateMember`, `RemoveMember` | the member routes; a removal revokes the person's agents |
| `CreateAppCheck`, `CreateAppInsert`, `RevokeApp`, `ArchiveProject` | `createApp` (asked first, inserted later), `revokeAppTx`, `archiveProject` with their cascades |
| `EraseAccount`, `EraseLeaver`, `EraseLeaverCommit` | `erase` of a member, and of an owner who is no member: this one takes no lock before it reads |
| `SetAllowance`, `RequestGrantCheck`, `RequestGrantUpsert`, `DecideGrant...` | allowance, `requestGrant`, `decideGrant` in its two statements |
| `CreateAgentLock`, `CreateAgentInsert`, `ChangeStatus` | `createAgent` under the lock, `changeStatus` |
| `PutGrantLock`, `PutGrantWrite`, `DeleteGrant` | `putGrant` with the project's row, the agent's row and the service grant `FOR SHARE`; `deleteGrant` |
| `GrantService`, `RevokeService`, `Lapse`, `ExpireDueSelect`, `ExpireDueRecord` | `grants-admin.js`; `expireDue` reads and then records row by row |

After an erasure a name in `People` stands for the next account. Left out: the
erasure of a person who is neither a member nor the owner (it touches nothing
here), names, limits and quotas. `NoOrphanAgents` leaves the erasure of an owner
who had left apart (`LeaverErased`): that transaction holds no lock, and what it
read may have changed.

### DevCredentials

`cred`, `key`, `code`, `secret`, `granted` are the rows of one confidential app
and one secret of its project; `live` and `archived` end them. Every call reads
in several statements and has a `job`: rotations of client secrets, creation and
rotation of API keys, the exchange of a key, `/token` with a client secret or a
code, `put` and `use` of the project secret. `begun` is history: whether the app
and the project were there when the call began; `late` collects what was served
although they were not.

| Action | Code |
|---|---|
| `RotateCheck`, `RotateSelect`, `RotateWrite`, `RevokeCredential` | `rotateCredential` with its overlap, `revokeCredential` |
| `RevokeApp`, `ArchiveProject`, `EraseOwner` | the ends and what each takes with it (an erasure leaves keys and codes) |
| `KeyCreate...`, `KeyRotate...`, `KeyRevoke`, `ExchangeKey`, `ExchangeApp`, `ExchangeProject` | `api-keys.js` |
| `Authorize`, `IssueCode`, `TokenApp`, `Authenticate`, `BurnCode`, `Mint` | `tokens.js` |
| `PutCheck`, `PutRead`, `PutWrite`, `RemoveSecret`, `PutSecretGrant`, `RemoveSecretGrant`, `UseProject`, `UseRow`, `UseGrant` | `secrets.js` |
| `Refused` | a refusal, or a caller that is gone |

Left out: hashing and sealing (a secret presented is one that was handed out),
scopes and audiences of a token, usage counters, export tokens (`mintExportToken`,
which serves archived projects too, on purpose).

### Confirmations

`agent`, `conf`, `rule` are the rows, `grant` the capabilities of the active
grants; `events` counts what was written to the outbox in the same transaction. A
request carries what it read and the rows it has locked (`agent`, `grants`,
`confs`, `rules`); its writes appear at its commit. What else decides about a use
(the mode and expiry of a grant, the owner, the catalog, a budget) is not in the
state: `CheckAuthority` may refuse at any time, and a live rule may not match (it is
of another session, or past its `until`).

| Action | Code |
|---|---|
| `Create`, `CheckAuthority`, `ReadRules`, `InsertConf` | `create`: agent row `FOR UPDATE`, `checkAuthority`, the count of pending ones and the matching rule, the INSERT |
| `Consume`, `LockConf`, `CheckAuthority`, `Spend` | `consume`: agent row, then the confirmation, the checks, the conditional UPDATE |
| `Decide`, `DecideStanding`, `InsertRule` | `decide`, without and with a standing rule |
| `Expire`, `Cancel`, `RevokeRule` | `expireDue`, `cancel`, `revokeRule` |
| `Resume`, `ChangeStatus`, `RetireAgent` | `changeStatus`, `revokeWhere` of `agents.js` |
| `PutGrant`, `WriteGrant`, `DeleteGrant` | `putGrant`, `deleteGrant` |
| `RevokeBeyondHost`, `RevokeNextGrant` | `revokeBeyondHost`: every grant outside the new ceiling, by capability, each with `revokeGrantRow` and its own `cancelFor`, in one transaction that does not lock the agent |
| `SelectUsable`, `CancelNext`, `SelectRules`, `RevokeNextRule`, `CommitCascade` | `cancelFor`: the SELECT and each UPDATE in order of id, of the confirmations and then of the rules; the commit of the whole transaction |
| `Tick`, `Abort` | time; a transaction that ends without a commit |

The order of locks is where transactions can wait in a circle. The code has two
kinds of circle. An approval with a standing rule locks its confirmation and then
needs the agent's row, which a pause, or a `consume`, takes first. And a ceiling's
cascade goes by capability, so past its first capability the ids it locks need
not climb: it may hold confirmation 5 of one capability and want 1 of the next,
while the pause or end of the agent, by id, holds 1 and wants 5. PostgreSQL
breaks either; nothing retries the error. `DeadlockOrigins` says there is no
third kind.

Left out: refusals of input (digest, audience, summary), and what a change of
status refuses beyond the agent's state. Transactions that lock a single row
are one action. There is one agent: a ceiling's change, an archive or an erasure may
go over several agents in one transaction (in order of their ids), and circles
across agents are outside the model. The budgets (`setBudget`, `deleteBudget`) lock as `putGrant` does or one row.
The ids left for INSERTs (`ConfLeft`, `RuleLeft`) are bounds.

### Consents

A slot is a purpose and a client, the key of the index `consents_active` for one
person. `row` and `refused` are the tables, `trail` counts the events a row has
in `consent_events`; `queue` and `cache` are the change events under way and what
a service last heard from `check`. A SELECT FOR UPDATE that had to wait returns
what it saw and is still active, not the row put in its place: `saw` and `held`.

| Action | Code |
|---|---|
| `ChooseOn`, `ChooseOff`, `Lock`, `WriteOn`, `WriteOff` | `choose` and `revokeApp`; an INSERT the index refuses rolls back |
| `DecideApp`, `AskActive`, `AnswerSlot`, `CommitDecision` | `decideApp`, purpose by purpose, with `ON CONFLICT DO NOTHING` |
| `ForgetRefusal` | `forgetRefusal` |
| `Sweep`, `WriteSweep` | `sweepExpired` |
| `EndAccount`, `WriteEnd` | `revokeForSubject` in the transaction of a merge or deletion, without a lock |
| `Send`, `Learn` | `publish`, a statement for each event after the commit; the service asks again |
| `Fail` | a crash: what was committed and not yet queued is `lost` |

### CoinWallet and CoinLedger

`wallet`, `ledger` and `nextId` are `wallets.balance`, `coin_transactions` and
its sequence, as committed. A request has `legs`: one for a credit or a debit,
two for a transfer (the second under the key with `:in`). `Look` is
`findByIdempotencyKey` with the replay's answer, `Move` and `Insert` are the two
statements of `applyDelta`, `Commit` and `Abort` end the transaction. `Move`
waits for a wallet row another transaction has moved, `Insert` for a key another
one has inserted. The refinement maps `balance` to `wallet` and `applied` to the
keys of the ledger: only `Commit` is a step of `CoinLedger`.

### MachinePools

`registry[m]` is a machine's owner and which of its principals is current: the node
registry (`node-principals.js`) as Bot's list of machines, which is external, shows it; `cand` the announcements, `pool`, `cert`,
`ready` the tables, `call` what a call has read. `propose` locks candidates in the order of their names (`left`,
`held`), `approve` the pool's row, `revoke` is two statements outside any
transaction and may be cut between them (`torn`, history).

| Action | Code |
|---|---|
| `Announce`, `WriteCandidate`, `Forget` | `announce`: read first, written later; five minutes without one |
| `Propose`, `LockCandidate`, `InsertPool` | `propose` |
| `Approve`, `CheckApproval`, `LockPool`, `ReadKeys`, `WriteKey` | `approve`, with `document` before and after |
| `Status`, `CheckStatus`, `WriteReady`, `Lapse` | `status` |
| `BeginRevoke`, `RevokePool`, `ClearMembers` | `revoke`, asked for or made by `document` when a member changed |
| `Pair`, `Unpair` | `redeem` and `revokeRow` of `node-principals.js`, as they show in Bot's list; `NodePairing` has their statements |
| `FailCall` | a crash or an exception |

Left out: what machines report (memory, addresses), and so the choice of a head
and the test for one local network, which only refuse.

### NodePairing

`code` are the pairings of one (service, ref), `node` the principals; `cred` and
`prev` number the credentials, `held` is the one a machine has received (an
answer may be lost), `token` until when its last token lasts; `announced` counts
`network.node.revoked` in the outbox, `guesses` (history) the wrong codes.

| Action | Code |
|---|---|
| `Create`, `CreateSelect`, `CreateDelete`, `CreateInsert` | `createPairing`: the DELETE of what was unused when it began, then the INSERT |
| `Redeem`, `LockPairing`, `CountTry`, `PairMachine` | `redeem` under `FOR UPDATE`; the count of a wrong code is committed |
| `IssueToken`, `Rotate`, `RotateLock`, `RotateWrite`, `Answer` | `issueNodeToken`, `rotateCredential`, the answer to the machine |
| `SetPrincipalStatus` | drain and undrain by an operator |
| `Revoke`, `RevokeRow` | `revokeScoped`, `revokeRow` |
| `Erase`, `EraseNext`, `EraseCommit` | `erase` with `revokeOwnedBy` |

Left out: cells, names and capabilities, which no step depends on; other owners
and services, which find no row.

## Runs

| Run | Instance | What it shows |
|---|---|---|
| `rotation` | two requests, three tokens, one code, Grace = TTL = 1 s, one tick | the handlers implement `TokenFamilies`; generations are never reused and the usable token is the newest; one code starts one family; a Dock family never regains a session; only a replay past the grace ends a family for reuse |
| `cutoff` | two requests, a raw token and one more, two clients, one sign-out-everywhere, bans | a family older than the cutoff never issues again; the handlers implement `TokenFamilies` from a raw row too, hashed by two requests at once |
| `end_is_final` (violated) | as `rotation` with a cutoff | the audit says a family was ended and a token of it is usable |
| `qr_transfer` | two requests, two devices, two transfers, two attempts, one live and one start an hour, two ticks | one session, for the confirmed device; no wrong code lost; the limits hold for two tabs at once; after a denial was recorded nobody is signed in |
| `cascades` | two requests, two people, a sandbox app, an agent, a capability, the service | no agent outlives its project, its person or its host; what is delegated stays within the allowance and the service's grants; what ended stays ended |
| `calls` | two calls, three secrets, a key, a code, one project secret, overlaps 0 and 1, one tick | nothing is served to a call begun after the end; rotations at once leave a lasting secret; no value of a project secret is lost |
| `races` | two transactions, two confirmations, a rule, two capabilities, one tick, one pending at most | an approval is spent only while the agent is active; each change is written once; what ended stays ended; a paused agent has nothing usable; the inbox is bounded; every deadlock runs through an approval with a standing rule, or through a ceiling's cascade past its first capability and a change of the whole agent |
| `progress` | two transactions, one confirmation, one capability, fair | every transaction ends; no request stays pending past its time |
| `choices` | two calls, two rows, an app, one purpose besides `app.data`, one expiry, one tick | one grant and one end recorded for each choice; one active choice for a slot; the service knows what holds once no event is under way |
| `replay` | three requests, two people, a key and the key with its suffix, amounts 1 and 2 on balances of 1 | the wallet is its ledger and is never negative; a replay gives the first answer's balances; the wallet implements `CoinLedger` |
| `pools` | two calls, two machines, two pools, two keys, one re-pairing | a machine is in one pool; proposals never wait in a circle; keys differ and are never replaced; a revoked pool is empty once its revocation has finished (one cut between its two statements, `torn`, is not) |
| `pairing` | two requests, two codes, two machines, two tries, one tick | a code pairs one machine; wrong codes are all counted; each revocation is announced once; a revoked machine stays so |

**Bounds.** Two requests interleave at every statement, and the races of these
handlers are between two requests on one row; a third is there in `replay`,
where a first answer, what is spent after it and a replay can meet. In
`qr_transfer` a request is idle again after each call, so that two of them make
a scan, an approval and a poll of any number.
In `rotation` three tokens hold a rotation and its successor's rotation, so that
an older generation, a middle and a newest exist at once; one tick is enough for
"after the grace" and "after the expiry" (both 1 s) and for two different
stamps; with two ticks (1.8 million states, minutes) it passes too.
`NobodyBanned` leaves bans to `cutoff`: in `rotation` a refusal after the token
was spent is `Fail`. In `races` a lifetime of one tick puts every step before
or at the expiry, when a row already counts as expired, and two ids with a limit of one make the limit bind and
the order of the cascade matter; with two capabilities a ceiling's cascade goes on
past its first, and both kinds of deadlock occur. Balances of 1 with amounts 1 and 2 make a debit
succeed, run the wallet out, or be refused at once; two keys, one the suffix of
the other, are the only way two different keys meet. In `qr_transfer` an hour is
two ticks and a transfer lives one: both limits bind at first, the hourly one
alone after an expiry, and at last neither.

In `cascades` the founder and one other person are enough for a member, an heir
and a leaver; the app is of the sandbox, so that a developer may host an agent on
it, and the sandbox allowance is empty, so that a smaller allowance bites. In
`calls` the constraint `TwoParts` keeps behaviours in which at most two of the
secrets, the key, the code and the project's secret are in play: they meet only
in the app and the project, and no statement reads two of them. `MaxGen` and
`MaxVersion` of 2 allow a second value to race the first. In `choices` behaviours
end with the first lost event (`NothingLost`), of which `ServiceKnows` says
nothing; two rows let a new choice take the place of an old one. In `pools`,
`OneChanges` lets one of the machines be unpaired and paired again, and
`NoneTorn` ends a behaviour with the first revocation that is cut; the theorems
have neither bound. In `pairing` two tries make the first wrong code count and
the second kill the code; one tick passes the life of a code, of the old
credential and of a token.
`MaxClock`, `MaxCuts`, `MaxPairings` and the sizes of the id sets are bounds of
the model, not of the code. `ViewWithoutAudit` leaves out the `audit` of
`RefreshTokens`, which no handler reads; `View` in `races` leaves out how
a confirmation ended, what it or a revoked rule was for and until when, which no
step reads (rows whose events do not tell their state, a violation, are kept as
they are).

**Symmetry** is over sets that are only compared: requests, tokens,
transfers, devices, pools, keys, pairing codes, nodes, agents, rows of consents,
and the client secrets beyond the first. Confirmations and rules are ordered by
id, capabilities and machines by name; they are not symmetric. `progress`, the run with liveness
properties, uses none.

**Fairness** is assumed in `progress` only. A transaction whose next statement
can run goes on (`Continues`): PostgreSQL gives a row lock to those who wait in
the order they came, so a statement that is enabled again and again happens
(strong fairness). `BreakDeadlock` is weakly fair: `deadlock_timeout` aborts one
of a circle. The sweep's timer (`setInterval` in `start`, once a minute) makes
`Expire` strongly fair, and time passes. Nothing is assumed of services, owners
or browsers. The other modules promise nothing about a request that stops half
way, and `Fail` is why they state safety only. Deadlock is not checked: a
behaviour stops when the bounds are used up.

## Findings

- `end_is_final`: `refresh-tokens.js` says a replay revokes the whole family;
  the rotation commits before the successor is inserted, and the insert does
  not look whether the family was ended in between.

What else the code allows, met while modelling and not checked by a run:

- Tokens. The cutoff is compared with a strict less-than on stamps of one second,
  so a token issued in that second, before it, is refreshed after it.
- QR sign-in. `deny` does not look at the row count of its UPDATE: the audit and
  the answer say denied for a transfer that has just signed a device in.
- Confirmations. `consume` locks the agent row; revoking a grant does not, so a
  confirmation inserted while the cascade runs is spent after the revocation. An
  approval with a standing rule locks its confirmation and not the agent: a pause
  that passes the confirmation by (expired by its own clock) leaves the rule live,
  and a resume revives it. The two kinds of deadlock above fail one of the
  transactions (40P01), and no caller tries again.
- Wallet. Of two requests with one key the one that waited can be told
  `insufficient_funds` by the spend of the other.
- Projects. `createApp` racing an archive leaves a live app on an archived
  project. `expireDue` may end a grant that was given again meanwhile.
  `decideGrant` racing `setAllowance` leaves an approved app grant outside the
  allowance (what may be used is cut by the ceiling when it is asked). An heir
  keeps the role of an admin. The erasure leaves API keys and codes, which no
  exchange accepts. `cancelDeletion` asks no state and may meet the erasure.
- API keys. The exchange takes the scopes of the app's grants and does not cut
  them by the allowance again.
- Consents. A choice whose session was checked before a merge or deletion commits
  after it, and `check` then answers true for a person who is gone, against the
  header of `consent/index.js`. A crash between the commit and `publish` loses the
  event. `revokeForSubject` asks no row count and may add a second end to a row.
- Machines. A machine paired by an unused code after the erasure of its owner
  is never revoked, though `account-data.js` says machines go with the account. Two
  `createPairing` at once leave two live codes for one ref.
- User modules. Two writes with one revision, both read before either commits,
  both succeed and issue the same revision; `removeRow` and `write` take their two
  rows in different orders and may deadlock. A write after the erasure leaves a row.
- Notifications. A push is sent inside the inbox transaction, though the consumer
  says side effects come after the commit. A cancellation applied before its
  schedule leaves the notice; the go-live window and the limit of schedules are
  counted without a lock.
- Sharing. A revocation applied before its grant leaves the item listed.
- Dock. The state is read, merged and stored without a lock: of two writes at
  once the last wins.
- Usage. Of two revisions of a window at once the older may stay, and the totals
  of a day may miss a window.

## Proved

The theorems hold for every value of the constants: any number of requests, rows,
ids and ticks. Nothing is assumed but the named assumptions of the modules
(`ConstantsAssumption`, `QrAssumption`, ...), and in `DeadlocksHaveOrigin` that
the capabilities, a finite catalog, are numbers up to some `N`. Every invariant is proved the same
way: a strengthening `Inv`, a lemma that `Init` implies it, a lemma for each action
that a step keeps it, and `PTL` to join them. What an invariant needs
beyond the property is what the requests under way have read and what may since
have changed; in most modules that part is called `Fits` (in `DevCredentials_proofs`, `JobOK`), with `Apart` for "no two
requests hold the same row".

| Module | Theorems (property of a run) | What the proof rests on |
|---|---|---|
| `RefreshTokens_proofs` | `TypesHold`, `OneLive`, `NewestLive` (`LiveIsNewest`), `ShapeInvariant`, `OneFamilyPerCode` (`CodeStartsOneFamily`), `SessionStaysLost` (`SessionNeverRegained`), `ImplementsPromise` (`ImplementsFamilies`), `OverStays`, `CutOffStays` (`CutOffStaysCutOff`), `ReplayOnly` (`OnlyReplayEndsFamily`) | a request that has spent a token holds the right to add the next generation. `Families` says that usable tokens and such requests are at most one per family, that the right is for the newest generation, and that a raw row has no family yet. `Origins`, `SessionHandover` and `PastCutoff` are further layers on it. For the refinement: in such a state the choices in `FamilyOf` are of the only one there is (`Whereabouts`), and a step moves one family and leaves the others (`FamilyStays`) |
| `QrSignin_proofs` | `TypesHold`, `SignsInOnce` (`OneSession`), `CountsWrongCodes` (`WrongCodesCounted`), `StartsLimited` (`StartsBounded`), `DenialHolds` (`DenialIsFinal`) | `RowOK` of each transfer, `Fits` for what a request read of it. `Places`: one request at a time is between the lock on the person and its INSERT, and nothing else adds a start or a live transfer |
| `DevProjects_proofs` | `TypesHold`, `NoOrphans` (`NoOrphanAgents`), `WithinAllowance` (`DelegatedWithinAllowance`), `OfService` (`DelegatedOfService`), `EndsStay` (`EndsAreFinal`) | `AgentOK` for each agent, `Fits` for each job: what a job read of the project is still so while it has the lock |
| `DevCredentials_proofs` | `TypesHold`, `EndedGetNothing` (`NothingForTheEnded`), `NobodyLockedOut` (`NeverLockedOut`), `EachPutAdvances` (`VersionsAdvance`) | `JobOK`: ends are for ever, so a call that has seen the app alive began before its end. A put has the secret's lock: the version is what it read |
| `Confirmations_proofs` | `ChangesOnce` (`EachChangeOnce`), `PauseCutsAll` (`PausedLeavesNothing`), `InboxBounded` (`PendingBounded`), `SpendsWhileActive` (`SpentWhileActive`), `DeadlocksHaveOrigin` (`DeadlockOrigins`) | a cascade that has the agent's row has every usable confirmation among those it will cancel or has cancelled. For the bound: a creation counts and inserts under the agent's row. For the deadlocks: `LockOrder` says how far each transaction is: grants by capability, and within one capability confirmations and then rules by id, with what it holds behind what it wants. Nobody who waits for the agent's row is waited for, but for an approval; cascades of single capabilities meet only at a grant (`GrantsApart`), so along a circle of them the capability would climb for ever (`CapabilitiesClimb`); with a change of the whole agent and no ceiling past its first capability, the ids would (`IdsClimb`, `RulesClimb`) |
| `Consents_proofs` | `RecordHolds` (`RecordProves`), `ChoiceIsOne` (`OneChoice`), `ServiceIsTold` (`ServiceKnows`) | `RowOK` relates a row to its events; `AtMostOne` and `Fits` (ids not used, rows held are active, slots inserted are empty) keep the index; a commit names every slot it touched, so an event is under way wherever the service is behind |
| `CoinWallet_proofs` | `Sums` (`WalletIsLedger`), `Replays` (`ReplayAgrees`), `Implements` (`ImplementsLedger`) | what a transaction has moved nobody else moves, so the balance it read stands, and the rows of one person commit in the order of their ids. A commit adds one row and its amount to each wallet it moved (`CommitUser`); the balances after the rows that were there stay (`CommitBalances`). A commit is the abstract mutation, every other step a stutter |
| `Registry_proofs` (`MachinePools`) | `PoolTypesHold`, `InOnePool` (`OnePool`), `NoDeadlock` (`NoCircle`), `KeysDiffer` (`OwnKeys`), `NoKeyLeft` (`RevokedIsEmpty`), `KeysStay` (`KeysStand`) | a proposal has the candidates it has checked, and they are in no pool; what it waits for is larger than all it has; an approval that has its pool knows the keys of the others |
| `Registry_proofs` (`NodePairing`) | `TypesHold`, `OnePerCode` (`OneMachinePerCode`), `TriesCounted` (`WrongTriesCounted`), `Announced` (`RevokedAnnounced`), `StaysRevoked` (`RevokedStays`) | `CodeOK` and `NodeOK` of the rows, and for the request with the code's row, that the row is still as it read it |

The sums of `CoinWallet` are the community modules' fold over a set, a recursive
function. The library's induction theorems take an operator as a parameter, which
no installed prover can instantiate, so `CoinWallet_proofs` first shows induction
for sets of numbers (`SetInduction`, from `WFMin`), and with it that the sum is an
integer, that one element more adds its amount (`SumAdd`), and that the order in
which `CHOOSE` takes the elements does not matter (`SumTake`).

**Only model-checked.** `TransactionsEnd` and `PendingEnds` are liveness: they
rest on fairness, hence on `ENABLED`, which the prover cannot reason about.
What a run shows on a bounded clock or
under a constraint (`TwoParts`, `OneChanges`, `NoneTorn`) the theorems say
without it; `ServiceKnows` itself ends with the first lost event.

## Plan

Done: the modules above. What is worth doing next, in this order:

1. The account merge, over `TokenFamilies` and `CoinLedger`.
2. `DevProjects` and `Confirmations` in one instance, with two agents: the cascades
   of the first are `RetireAgent` and `RevokeBeyondHost` of the second.
3. The outbox and the inbox of notifications, with the lock or the condition that
   each of the races above would need.

## Not modelled

Rendering, proxies, mail, push, DNS, certificates and nginx files are I/O around
single statements. Preferences, Dock state, presence, incidents and the resource
index are rows overwritten by their owner, where the last write wins. User
modules, notifications, sharing and usage have races that nothing in the code
forbids: they are told above, and no property about them would hold. Quotas and
limits counted outside a transaction are the same. The list with reasons is
`components` in `PROJECT.json`.
