------------------------ MODULE RefreshTokens_proofs ------------------------
(***************************************************************************)
(* Theorems about RefreshTokens, for any number of requests, tokens, codes *)
(* and clients and for any bound on the clock.                             *)
(*                                                                         *)
(* The argument has layers, each inductive given those before it:          *)
(*   Shape            types, the rows with a family, what requests carry;  *)
(*   Families         a family has one usable token or one request between *)
(*                    'rotated' and the insert, never two or both;         *)
(*   Origins          one code starts one family;                          *)
(*   SessionHandover  who issues a session rotates a token that had one;   *)
(*   PastCutoff       the cutoff is never ahead of the clock.              *)
(* What a step may write to the rows (RowsKept, HeldBefore) does the rest. *)
(* Together they make the choices in FamilyOf unique, and the module an    *)
(* implementation of TokenFamilies (ImplementsPromise).                    *)
(***************************************************************************)
EXTENDS RefreshTokens, TLAPS

----------------------------------------------------------------------------
(* The inductive invariant *)

\* A row that is not there is blank; a raw row has no family yet; every other
\* row names a family, and the row that family is named after is in it.
Rows ==
    \A t \in Tokens :
        /\ tok[t].status = "none" => tok[t] = NoRow
        /\ tok[t].raw => /\ tok[t].status = "live" /\ tok[t].family = NoToken
                         /\ tok[t].generation = 0 /\ tok[t].origin = NoCode
                         /\ ~tok[t].session
        /\ (Exists(t) /\ ~tok[t].raw)
           => /\ tok[t].family \in Tokens
              /\ Exists(tok[t].family)
              /\ tok[tok[t].family].family = tok[t].family

\* What a request at `step` carries in `job`.
Fits(step, job) ==
    /\ step \in {"find", "find_raw", "hash_raw"}
       => job.op \in {"refresh", "sign_out"} /\ job.token \in Tokens /\ Exists(job.token)
    /\ step = "rotate"
       => /\ job.op = "refresh" /\ job.token \in Tokens
          /\ Exists(job.token) /\ ~tok[job.token].raw
    /\ step \in {"end_family", "audit"}
       => /\ job.op \in {"refresh", "sign_out", "end_app"} /\ job.token \in Tokens
          /\ Exists(job.token) /\ ~tok[job.token].raw
    /\ step = "end_family" /\ job.op = "refresh"
       => tok[job.token].status = "revoked" /\ PastGrace(job.now, tok[job.token])
    /\ step \in {"burn", "take"} => job.op = "code" /\ job.code \in Codes
    /\ step \in {"user", "issue"}
       => \/ job.op = "code" /\ job.code \in Codes /\ code[job.code].status = "used"
          \/ /\ job.op = "refresh" /\ job.token \in Tokens
             /\ tok[job.token].status = "revoked" /\ ~tok[job.token].raw

Shape == TypeOK /\ Rows /\ \A r \in Requests : Fits(pc[r], req[r])

\* While a request is between spending a token and issuing the next one, the
\* family has no usable token, and the spent one is its newest.
Handover ==
    \A r \in Requests : Spent(r) /\ req[r].op = "refresh" =>
        \A t \in Tokens : InFamily(t, tok[req[r].token].family) =>
            ~Live(t) /\ tok[t].generation <= tok[req[r].token].generation

OneHandover ==
    \A r, s \in Requests :
        (/\ Spent(r) /\ req[r].op = "refresh" /\ Spent(s) /\ req[s].op = "refresh"
         /\ tok[req[r].token].family = tok[req[s].token].family) => r = s

Families == OneLivePerFamily /\ LiveIsNewest /\ Handover /\ OneHandover

----------------------------------------------------------------------------
(* Shape *)

LEMMA InitShape == Init => Shape
<1> SUFFICES ASSUME Init PROVE Shape
  OBVIOUS
<1> USE ConstantsAssumption DEF Init
<1>1. PICK client \in [LegacyTokens -> Clients] :
         tok = [t \in Tokens |->
                  IF t \in LegacyTokens
                  THEN [NoRow EXCEPT !.status = "live", !.raw = TRUE,
                                     !.client = client[t], !.expires = TokenTTL]
                  ELSE NoRow]
  OBVIOUS
<1>2. \A t \in Tokens : tok[t] \in TokenRow
  BY <1>1 DEF TokenRow, NoRow, EndReasons
<1>3. TypeOK
  <2>1. code \in [Codes -> CodeRow]
    BY DEF CodeRow, NoCodeRow
  <2>2. tok \in [Tokens -> TokenRow]
    BY <1>1, <1>2
  <2>3. pc \in [Requests -> PCs] /\ req \in [Requests -> Job]
    BY DEF PCs, Job, NoJob, Ops
  <2> QED
    BY <2>1, <2>2, <2>3 DEF TypeOK
<1>4. Rows
  BY <1>1 DEF Rows, NoRow, Exists
<1>5. ASSUME NEW r \in Requests PROVE Fits(pc[r], req[r])
  BY DEF Fits
<1> QED
  BY <1>3, <1>4, <1>5 DEF Shape

\* Rows and codes only move forward: a revoked row and a used code are final.
Grows ==
    /\ \A t \in Tokens : /\ Exists(t) => Exists(t)'
                         /\ ~tok[t].raw => ~tok'[t].raw
                         /\ tok[t].status = "revoked" => tok'[t] = tok[t]
    /\ \A c \in Codes : code[c].status = "used" => code'[c].status = "used"

LEMMA FitsStays ==
  ASSUME Grows, NEW step \in PCs, NEW job \in Job, Fits(step, job)
  PROVE  Fits(step, job)'
BY DEF Grows, Fits, Exists, PastGrace

\* What is left to show of a handler's step: what it wrote, and what its own
\* request carries afterwards.
LEMMA StepShape ==
  ASSUME Shape, Grows, NEW r \in Requests, NEW step \in PCs, NEW job \in Job,
         pc' = [pc EXCEPT ![r] = step], req' = [req EXCEPT ![r] = job], Fits(step, job)',
         UNCHANGED account, code' \in [Codes -> CodeRow], tok' \in [Tokens -> TokenRow], Rows',
         audit' \subseteq [family: Tokens \cup {NoToken}, reason: EndReasons]
  PROVE  Shape'
<1>1. TypeOK'
  BY DEF Shape, TypeOK, account
<1>2. ASSUME NEW s \in Requests PROVE Fits(pc[s], req[s])'
  <2>1. CASE s = r
    BY <2>1 DEF Shape, TypeOK
  <2>2. CASE s # r
    <3>1. pc'[s] = pc[s] /\ req'[s] = req[s] /\ pc[s] \in PCs /\ req[s] \in Job
      BY <2>2 DEF Shape, TypeOK
    <3>2. Fits(pc[s], req[s])
      BY DEF Shape
    <3>3. \A st \in PCs, jb \in Job : Fits(st, jb) => Fits(st, jb)'
      BY FitsStays
    <3> QED
      BY <3>1, <3>2, <3>3
  <2> QED
    BY <2>1, <2>2
<1> QED
  BY <1>1, <1>2 DEF Shape

\* A step that writes neither a token nor a code.
LEMMA MoveShape ==
  ASSUME Shape, NEW r \in Requests, NEW step \in PCs, NEW job \in Job,
         pc' = [pc EXCEPT ![r] = step], req' = [req EXCEPT ![r] = job], Fits(step, job),
         UNCHANGED <<account, code, tok>>,
         audit' \subseteq [family: Tokens \cup {NoToken}, reason: EndReasons]
  PROVE  Shape'
<1>1. UNCHANGED account /\ code' = code /\ tok' = tok
  OBVIOUS
<1>2. Grows /\ Rows'
  BY <1>1 DEF Grows, Exists, Shape, Rows
<1>3. Fits(step, job)'
  BY <1>2, FitsStays
<1>4. code' \in [Codes -> CodeRow] /\ tok' \in [Tokens -> TokenRow]
  BY <1>1 DEF Shape, TypeOK
<1> QED
  BY <1>1, <1>2, <1>3, <1>4, StepShape

LEMMA NoJobFits == NoJob \in Job /\ "idle" \in PCs /\ Fits("idle", NoJob)
BY DEF NoJob, Job, Ops, PCs, Fits

\* A request that is answered without a write.
LEMMA FinishShape ==
  ASSUME Shape, NEW r \in Requests, Finish(r), UNCHANGED <<account, code, tok>>,
         audit' \subseteq [family: Tokens \cup {NoToken}, reason: EndReasons]
  PROVE  Shape'
<1>1. pc' = [pc EXCEPT ![r] = "idle"] /\ req' = [req EXCEPT ![r] = NoJob]
  BY DEF Finish, Goto
<1> QED
  BY <1>1, NoJobFits, MoveShape

\* A request that goes on to its next statement with what it has.
LEMMA GotoShape ==
  ASSUME Shape, NEW r \in Requests, NEW step \in PCs, Goto(r, step), Fits(step, req[r]),
         UNCHANGED <<account, code, tok, req>>,
         audit' \subseteq [family: Tokens \cup {NoToken}, reason: EndReasons]
  PROVE  Shape'
<1>1. pc' = [pc EXCEPT ![r] = step] /\ req' = [req EXCEPT ![r] = req[r]] /\ req[r] \in Job
  BY DEF Goto, Shape, TypeOK
<1> QED
  BY <1>1, MoveShape

LEMMA AccountShape ==
  ASSUME Shape, Account PROVE Shape'
<1> USE ConstantsAssumption
<1>1. /\ tok' = tok /\ pc' = pc /\ req' = req /\ audit' = audit
  BY DEF Account, Tick, SetBanned, EndEverySession, ChangeCertificates, IssueCode
<1>2. banned' \in BOOLEAN
  BY Zenon DEF Account, Tick, SetBanned, EndEverySession, ChangeCertificates, IssueCode, Shape, TypeOK
<1>3. certs' \in BOOLEAN
  BY Zenon DEF Account, Tick, SetBanned, EndEverySession, ChangeCertificates, IssueCode, Shape, TypeOK
<1>4. clock' \in Nat /\ validAfter' \in Nat /\ cuts' \in Nat
  BY DEF Account, Tick, SetBanned, EndEverySession, ChangeCertificates, IssueCode, Shape, TypeOK
<1>5. /\ code' \in [Codes -> CodeRow]
      /\ \A c \in Codes : code[c].status = "used" => code'[c].status = "used"
  <2>1. CASE code' = code
    BY <2>1 DEF Shape, TypeOK
  <2>2. ASSUME NEW c \in Codes, IssueCode(c) PROVE <1>5!1 /\ <1>5!2
    <3>1. PICK cl \in Clients, link \in BOOLEAN :
            code' = [code EXCEPT ![c] = [status |-> "issued", client |-> cl,
                                         expires |-> clock + CodeTTL, appLink |-> link]]
      BY <2>2 DEF IssueCode
    <3>2. code[c].status = "none"
      BY <2>2 DEF IssueCode
    <3> QED
      BY <3>1, <3>2 DEF Shape, TypeOK, CodeRow
  <2> QED
    BY <2>1, <2>2 DEF Account, Tick, SetBanned, EndEverySession, ChangeCertificates
<1>6. Grows /\ Rows'
  BY <1>1, <1>5 DEF Grows, Exists, Shape, Rows
<1>7. TypeOK'
  BY <1>1, <1>2, <1>3, <1>4, <1>5 DEF Shape, TypeOK
<1>8. ASSUME NEW r \in Requests PROVE Fits(pc[r], req[r])'
  <2>1. pc[r] \in PCs /\ req[r] \in Job /\ Fits(pc[r], req[r])
    BY DEF Shape, TypeOK
  <2>2. \A st \in PCs, jb \in Job : Fits(st, jb) => Fits(st, jb)'
    BY <1>6, FitsStays
  <2> QED
    BY <1>1, <2>1, <2>2
<1> QED
  BY <1>6, <1>7, <1>8 DEF Shape

LEMMA ArriveShape ==
  ASSUME Shape, NEW r \in Requests, Arrive(r) PROVE Shape'
<1> USE ConstantsAssumption
<1>1. audit' \subseteq [family: Tokens \cup {NoToken}, reason: EndReasons]
  BY DEF Arrive, ExchangeCode, PresentToken, EndApp, Shape, TypeOK
<1>2. ASSUME NEW c \in Codes, NEW verified \in BOOLEAN, ExchangeCode(r, c, verified)
      PROVE  Shape'
  <2> DEFINE job == [NoJob EXCEPT !.op = "code", !.code = c, !.client = code[c].client]
             step == IF verified THEN "take" ELSE "burn"
  <2>1. job \in Job /\ step \in PCs /\ Fits(step, job)
    <3>1. job \in Job
      BY DEF NoJob, Job, Ops, Shape, TypeOK, CodeRow
    <3>2. job.op = "code" /\ job.code = c
      BY DEF NoJob
    <3>3. step \in PCs
      BY DEF PCs
    <3> QED
      BY <3>1, <3>2, <3>3 DEF Fits
  <2>2. pc' = [pc EXCEPT ![r] = step] /\ req' = [req EXCEPT ![r] = job]
    BY <1>2 DEF ExchangeCode, Goto
  <2>3. UNCHANGED <<account, code, tok>>
    BY <1>2 DEF ExchangeCode
  <2> HIDE DEF job, step
  <2> QED
    BY <1>1, <2>1, <2>2, <2>3, MoveShape
<1>3. ASSUME NEW t \in Tokens, NEW cl \in Clients, NEW op \in Ops, PresentToken(r, t, cl, op)
      PROVE  Shape'
  <2> DEFINE job == [NoJob EXCEPT !.op = op, !.token = t, !.client = cl,
                                  !.now = clock, !.epoch = cuts]
  <2>1. job \in Job /\ "find" \in PCs /\ Fits("find", job)
    <3>1. job \in Job /\ job.op = op /\ job.token = t
      BY DEF NoJob, Job, Shape, TypeOK
    <3>2. op \in {"refresh", "sign_out"} /\ Exists(t)
      BY <1>3 DEF PresentToken
    <3> QED
      BY <3>1, <3>2 DEF Fits, PCs
  <2>2. pc' = [pc EXCEPT ![r] = "find"] /\ req' = [req EXCEPT ![r] = job]
    BY <1>3 DEF PresentToken, Goto
  <2>3. UNCHANGED <<account, code, tok>>
    BY <1>3 DEF PresentToken
  <2> HIDE DEF job
  <2> QED
    BY <1>1, <2>1, <2>2, <2>3, MoveShape
<1>4. ASSUME NEW t \in Tokens, EndApp(r, t)
      PROVE  Shape'
  <2> DEFINE job == [NoJob EXCEPT !.op = "end_app", !.token = t, !.client = tok[t].client]
  <2>1. job \in Job /\ "end_family" \in PCs /\ Fits("end_family", job)
    <3>1. job \in Job /\ job.op = "end_app" /\ job.token = t
      BY DEF NoJob, Job, Ops, Shape, TypeOK, TokenRow
    <3>2. Exists(t) /\ ~tok[t].raw
      BY <1>4 DEF EndApp, Shape, Rows
    <3> QED
      BY <3>1, <3>2 DEF Fits, PCs
  <2>2. pc' = [pc EXCEPT ![r] = "end_family"] /\ req' = [req EXCEPT ![r] = job]
    BY <1>4 DEF EndApp, Goto
  <2>3. UNCHANGED <<account, code, tok>>
    BY <1>4 DEF EndApp
  <2> HIDE DEF job
  <2> QED
    BY <1>1, <2>1, <2>2, <2>3, MoveShape
<1> QED
  BY <1>2, <1>3, <1>4 DEF Arrive

\* The statements that read, or that turn out to change nothing.
LEMMA ReadShape ==
  ASSUME Shape, NEW r \in Requests,
         FindToken(r) \/ FindRaw(r) \/ WriteAudit(r) \/ ReadUser(r) \/ Fail(r)
  PROVE  Shape'
<1>1. CASE FindToken(r)
  <2>1. UNCHANGED <<account, code, tok>> /\ pc[r] = "find" /\ Fits(pc[r], req[r])
    BY <1>1 DEF FindToken, Shape
  <2>2. audit' \subseteq [family: Tokens \cup {NoToken}, reason: EndReasons]
    BY <1>1 DEF FindToken, Shape, TypeOK
  <2>3. /\ req[r].op \in {"refresh", "sign_out"} /\ req[r].token \in Tokens
        /\ Exists(req[r].token)
    BY <2>1 DEF Fits
  <2>4. CASE Finish(r)
    BY <2>1, <2>2, <2>4, FinishShape
  <2>5. CASE Goto(r, "find_raw") /\ UNCHANGED req
    <3>1. Fits("find_raw", req[r]) /\ "find_raw" \in PCs
      BY <2>3 DEF Fits, PCs
    <3> QED
      BY <2>1, <2>2, <2>5, <3>1, GotoShape
  <2>6. CASE Goto(r, "rotate") /\ UNCHANGED req /\ ~tok[req[r].token].raw /\ req[r].op = "refresh"
    <3>1. Fits("rotate", req[r]) /\ "rotate" \in PCs
      BY <2>3, <2>6 DEF Fits, PCs
    <3> QED
      BY <2>1, <2>2, <2>6, <3>1, GotoShape
  <2>7. CASE /\ Goto(r, "end_family") /\ UNCHANGED req /\ ~tok[req[r].token].raw
             /\ \/ req[r].op = "sign_out"
                \/ /\ req[r].op = "refresh" /\ tok[req[r].token].status = "revoked"
                   /\ PastGrace(req[r].now, tok[req[r].token])
    <3>1. Fits("end_family", req[r]) /\ "end_family" \in PCs
      BY <2>3, <2>7 DEF Fits, PCs
    <3> QED
      BY <2>1, <2>2, <2>7, <3>1, GotoShape
  <2> QED
    BY <1>1, <2>4, <2>5, <2>6, <2>7 DEF FindToken
<1>2. CASE FindRaw(r)
  <2>1. UNCHANGED <<account, code, tok>> /\ pc[r] = "find_raw" /\ Fits(pc[r], req[r])
    BY <1>2 DEF FindRaw, Shape
  <2>2. audit' \subseteq [family: Tokens \cup {NoToken}, reason: EndReasons]
    BY <1>2 DEF FindRaw, Shape, TypeOK
  <2>3. Fits("hash_raw", req[r]) /\ "hash_raw" \in PCs
    BY <2>1 DEF Fits, PCs
  <2>4. CASE Finish(r)
    BY <2>1, <2>2, <2>4, FinishShape
  <2>5. CASE Goto(r, "hash_raw") /\ UNCHANGED req
    BY <2>1, <2>2, <2>3, <2>5, GotoShape
  <2> QED
    BY <1>2, <2>4, <2>5 DEF FindRaw
<1>3. CASE WriteAudit(r)
  <2>1. UNCHANGED <<account, code, tok>> /\ Finish(r) /\ pc[r] = "audit" /\ Fits(pc[r], req[r])
    BY <1>3 DEF WriteAudit, Shape
  <2>2. tok[req[r].token].family \in Tokens \cup {NoToken} /\ EndReason(req[r].op) \in EndReasons
    BY <2>1 DEF Fits, Shape, TypeOK, TokenRow, EndReason, EndReasons
  <2>3. audit' \subseteq [family: Tokens \cup {NoToken}, reason: EndReasons]
    BY <1>3, <2>2 DEF WriteAudit, Shape, TypeOK
  <2> QED
    BY <2>1, <2>3, FinishShape
<1>4. CASE ReadUser(r)
  <2>1. UNCHANGED <<account, code, tok>> /\ pc[r] = "user" /\ Fits(pc[r], req[r])
    BY <1>4 DEF ReadUser, Shape
  <2>2. audit' \subseteq [family: Tokens \cup {NoToken}, reason: EndReasons]
    BY <1>4 DEF ReadUser, Shape, TypeOK
  <2>3. CASE Finish(r)
    BY <2>1, <2>2, <2>3, FinishShape
  <2>4. CASE Goto(r, "issue") /\ req' = [req EXCEPT ![r].session = EarnsSession(r)]
    <3> DEFINE job == [req[r] EXCEPT !.session = EarnsSession(r)]
    <3>1. req[r] \in Job
      BY DEF Shape, TypeOK
    <3>2. EarnsSession(r) \in BOOLEAN
      <4>1. CASE req[r].op = "code"
        <5>1. code[req[r].code].appLink \in BOOLEAN
          BY <2>1, <4>1 DEF Fits, Shape, TypeOK, CodeRow
        <5> QED
          BY <4>1, <5>1, Zenon DEF EarnsSession
      <4>2. CASE req[r].op # "code"
        <5>1. tok[req[r].token].session \in BOOLEAN
          BY <2>1, <4>2 DEF Fits, Shape, TypeOK, TokenRow
        <5> QED
          BY <4>2, <5>1, Zenon DEF EarnsSession
      <4> QED
        BY <4>1, <4>2
    <3>3. job \in Job /\ job.op = req[r].op /\ job.token = req[r].token /\ job.code = req[r].code
      BY <3>1, <3>2 DEF Job
    <3>4. Fits("issue", job) /\ "issue" \in PCs
      BY <2>1, <3>3 DEF Fits, PCs
    <3>5. pc' = [pc EXCEPT ![r] = "issue"] /\ req' = [req EXCEPT ![r] = job]
      BY <2>4 DEF Goto
    <3> HIDE DEF job
    <3> QED
      BY <2>1, <2>2, <3>3, <3>4, <3>5, MoveShape
  <2> QED
    BY <1>4, <2>3, <2>4 DEF ReadUser
<1>5. CASE Fail(r)
  <2>1. UNCHANGED <<account, code, tok>> /\ Finish(r)
    BY <1>5 DEF Fail
  <2>2. audit' \subseteq [family: Tokens \cup {NoToken}, reason: EndReasons]
    BY <1>5 DEF Fail, Shape, TypeOK
  <2> QED
    BY <2>1, <2>2, FinishShape
<1> QED
  BY <1>1, <1>2, <1>3, <1>4, <1>5

\* The statements that write a code or a token row.
LEMMA CodeWriteShape ==
  ASSUME Shape, NEW r \in Requests, BurnCode(r) \/ TakeCode(r) PROVE Shape'
<1>1. pc[r] \in {"burn", "take"} /\ Fits(pc[r], req[r])
  BY DEF BurnCode, TakeCode, Shape
<1>2. req[r].op = "code" /\ req[r].code \in Codes
  BY <1>1 DEF Fits
<1>3. UNCHANGED account /\ tok' = tok /\ audit' = audit
  BY DEF BurnCode, TakeCode
<1>4. audit' \subseteq [family: Tokens \cup {NoToken}, reason: EndReasons]
  BY <1>3 DEF Shape, TypeOK
<1>5. CASE code' = [code EXCEPT ![req[r].code].status = "used"]
  <2>1. /\ code' \in [Codes -> CodeRow]
        /\ \A c \in Codes : code[c].status = "used" => code'[c].status = "used"
        /\ code'[req[r].code].status = "used"
    BY <1>2, <1>5 DEF Shape, TypeOK, CodeRow
  <2>2. Grows /\ Rows' /\ tok' \in [Tokens -> TokenRow]
    BY <1>3, <2>1 DEF Grows, Exists, Shape, Rows, TypeOK
  <2>3. CASE Finish(r)
    <3>1. pc' = [pc EXCEPT ![r] = "idle"] /\ req' = [req EXCEPT ![r] = NoJob]
      BY <2>3 DEF Finish, Goto
    <3>2. Fits("idle", NoJob)'
      BY <2>2, NoJobFits, FitsStays
    <3> QED
      BY <1>3, <1>4, <2>1, <2>2, <3>1, <3>2, NoJobFits, StepShape
  <2>4. CASE Goto(r, "user") /\ UNCHANGED req
    <3> PICK job \in Job : job = req[r]
      BY DEF Shape, TypeOK
    <3>1. /\ pc' = [pc EXCEPT ![r] = "user"] /\ req' = [req EXCEPT ![r] = job]
          /\ "user" \in PCs
      BY <2>4 DEF Goto, Shape, TypeOK, PCs
    <3>2. Fits("user", job)'
      BY <1>2, <2>1, <2>4 DEF Fits
    <3> QED
      BY <1>3, <1>4, <2>1, <2>2, <3>1, <3>2, StepShape
  <2> QED
    BY <2>3, <2>4, <1>5 DEF BurnCode, TakeCode
<1>6. CASE Finish(r) /\ code' = code
  BY <1>3, <1>4, <1>6, FinishShape
<1> QED
  BY <1>5, <1>6 DEF BurnCode, TakeCode

LEMMA HashRawShape ==
  ASSUME Shape, NEW r \in Requests, HashRaw(r) PROVE Shape'
<1> DEFINE t == req[r].token
<1>1. /\ pc[r] = "hash_raw" /\ UNCHANGED <<account, code, audit, req>> /\ Goto(r, "find")
      /\ tok' = IF tok[t].raw THEN [tok EXCEPT ![t].raw = FALSE, ![t].family = t] ELSE tok
  BY DEF HashRaw
<1>2. t \in Tokens /\ Exists(t) /\ req[r].op \in {"refresh", "sign_out"}
  BY <1>1 DEF Shape, Fits
<1>3. audit' \subseteq [family: Tokens \cup {NoToken}, reason: EndReasons]
  BY <1>1 DEF Shape, TypeOK
<1>4. CASE ~tok[t].raw
  <2>1. Fits("find", req[r]) /\ "find" \in PCs
    BY <1>2 DEF Fits, PCs
  <2> QED
    BY <1>1, <1>3, <1>4, <2>1, GotoShape
<1>5. CASE tok[t].raw
  <2>1. /\ tok[t] \in TokenRow /\ tok \in [Tokens -> TokenRow]
        /\ tok[t].status = "live" /\ tok[t].family = NoToken
    BY <1>2, <1>5 DEF Shape, TypeOK, Rows
  <2>2. tok' = [tok EXCEPT ![t] = [tok[t] EXCEPT !.raw = FALSE, !.family = t]]
    BY <1>1, <1>5, <2>1
  <2>3. /\ tok' \in [Tokens -> TokenRow]
        /\ tok'[t].status = "live" /\ ~tok'[t].raw /\ tok'[t].family = t
        /\ \A u \in Tokens \ {t} : tok'[u] = tok[u]
    BY <1>2, <2>1, <2>2 DEF TokenRow
  <2>4. Grows
    BY <1>1, <2>1, <2>3 DEF Grows, Exists
  <2>5. Rows'
    BY <2>1, <2>3, ConstantsAssumption DEF Shape, Rows, Exists
  <2> PICK job \in Job : job = req[r]
    BY DEF Shape, TypeOK
  <2>6. Fits("find", job) /\ "find" \in PCs
    BY <1>2 DEF Fits, PCs
  <2>7. Fits("find", job)'
    BY <2>4, <2>6, FitsStays
  <2>8. pc' = [pc EXCEPT ![r] = "find"] /\ req' = [req EXCEPT ![r] = job]
    BY <1>1 DEF Goto, Shape, TypeOK
  <2>9. UNCHANGED account /\ code' \in [Codes -> CodeRow]
    BY <1>1 DEF Shape, TypeOK
  <2> QED
    BY <1>3, <2>3, <2>4, <2>5, <2>6, <2>7, <2>8, <2>9, StepShape
<1> QED
  BY <1>4, <1>5

LEMMA RotateTokenShape ==
  ASSUME Shape, NEW r \in Requests, RotateToken(r) PROVE Shape'
<1> DEFINE t == req[r].token
<1>1. /\ pc[r] = "rotate" /\ UNCHANGED <<account, code, audit>>
      /\ req[r].op = "refresh" /\ t \in Tokens /\ Exists(t) /\ ~tok[t].raw
  BY DEF RotateToken, Shape, Fits
<1>2. audit' \subseteq [family: Tokens \cup {NoToken}, reason: EndReasons]
  BY <1>1 DEF Shape, TypeOK
<1>3. CASE Finish(r) /\ tok' = tok
  BY <1>1, <1>2, <1>3, FinishShape
<1>4. CASE /\ Live(t) /\ Goto(r, "user") /\ UNCHANGED req
           /\ tok' = [tok EXCEPT ![t].status = "revoked", ![t].reason = "rotated",
                                 ![t].revokedAt = clock]
  <2>1. /\ tok' \in [Tokens -> TokenRow]
        /\ tok'[t].status = "revoked" /\ tok'[t].raw = tok[t].raw
        /\ tok'[t].family = tok[t].family
        /\ \A u \in Tokens \ {t} : tok'[u] = tok[u]
    BY <1>1, <1>4 DEF Shape, TypeOK, TokenRow
  <2>2. Grows
    BY <1>1, <1>4, <2>1 DEF Grows, Exists, Live
  <2>3. Rows'
    <3>1. \A u \in Tokens : tok'[u].family = tok[u].family /\ tok'[u].raw = tok[u].raw
      BY <2>1
    <3>2. /\ \A u \in Tokens : tok[u].status = "none" \/ tok[u].raw => tok'[u] = tok[u]
          /\ \A u \in Tokens : tok[u].status # "none" => tok'[u].status # "none"
      BY <1>1, <2>1 DEF Exists
    <3> QED
      BY <3>1, <3>2 DEF Shape, Rows, Exists
  <2> PICK job \in Job : job = req[r]
    BY DEF Shape, TypeOK
  <2>4. Fits("user", job)' /\ "user" \in PCs
    BY <1>1, <2>1 DEF Fits, PCs
  <2>5. pc' = [pc EXCEPT ![r] = "user"] /\ req' = [req EXCEPT ![r] = job]
    BY <1>4 DEF Goto, Shape, TypeOK
  <2>6. UNCHANGED account /\ code' \in [Codes -> CodeRow]
    BY <1>1 DEF Shape, TypeOK
  <2> QED
    BY <1>2, <2>1, <2>2, <2>3, <2>4, <2>5, <2>6, StepShape
<1> QED
  BY <1>3, <1>4 DEF RotateToken

LEMMA EndFamilyShape ==
  ASSUME Shape, NEW r \in Requests, EndFamily(r) PROVE Shape'
<1> DEFINE f == tok[req[r].token].family
           why == EndReason(req[r].op)
<1>1. /\ pc[r] = "end_family" /\ UNCHANGED <<account, code, audit>>
      /\ req[r].op \in {"refresh", "sign_out", "end_app"} /\ req[r].token \in Tokens
      /\ Exists(req[r].token) /\ ~tok[req[r].token].raw
  BY DEF EndFamily, Shape, Fits
<1>2. f \in Tokens /\ why \in EndReasons
  BY <1>1 DEF Shape, Rows, EndReason, EndReasons
<1>3. audit' \subseteq [family: Tokens \cup {NoToken}, reason: EndReasons]
  BY <1>1 DEF Shape, TypeOK
<1>4. /\ tok' \in [Tokens -> TokenRow]
      /\ \A t \in Tokens : ~(Live(t) /\ tok[t].family = f) => tok'[t] = tok[t]
      /\ \A t \in Tokens : Live(t) /\ tok[t].family = f =>
            /\ tok'[t].status = "revoked" /\ tok'[t].raw = tok[t].raw
            /\ tok'[t].family = tok[t].family
  <2>1. tok' = RevokedFamily(f, why)
    BY DEF EndFamily
  <2>2. why \in EndReasons \cup {"none", "rotated"} /\ clock \in Nat
    BY <1>2 DEF Shape, TypeOK
  <2>3. \A t \in Tokens : tok[t] \in TokenRow
    BY DEF Shape, TypeOK
  <2>4. ASSUME NEW t \in Tokens
        PROVE  [tok[t] EXCEPT !.status = "revoked", !.reason = why, !.revokedAt = clock] \in TokenRow
    BY <2>2, <2>3 DEF TokenRow
  <2> HIDE DEF f, why
  <2>5. tok' \in [Tokens -> TokenRow]
    BY <2>1, <2>3, <2>4 DEF RevokedFamily
  <2>6. \A t \in Tokens : ~(Live(t) /\ tok[t].family = f) => tok'[t] = tok[t]
    BY <2>1 DEF RevokedFamily
  <2>7. ASSUME NEW t \in Tokens, Live(t), tok[t].family = f
        PROVE  /\ tok'[t].status = "revoked" /\ tok'[t].raw = tok[t].raw
               /\ tok'[t].family = tok[t].family
    BY <2>1, <2>3, <2>7 DEF RevokedFamily, TokenRow
  <2> QED
    BY <2>5, <2>6, <2>7
<1> HIDE DEF f, why
<1>5. Grows
  BY <1>1, <1>4 DEF Grows, Exists, Live
<1>6. Rows'
  <2>1. \A t \in Tokens : tok'[t].family = tok[t].family /\ tok'[t].raw = tok[t].raw
    BY <1>4
  <2>2. \A t \in Tokens : tok[t].status # "live" => tok'[t] = tok[t]
    BY <1>4 DEF Live
  <2>3. \A t \in Tokens : tok[t].status = "live" => tok'[t].status \in {"live", "revoked"}
    BY <1>4 DEF Live
  <2>4. \A t \in Tokens : tok[t].raw => tok'[t] = tok[t]
    BY <1>2, <1>4, ConstantsAssumption DEF Shape, Rows, Live
  <2> QED
    BY <2>1, <2>2, <2>3, <2>4 DEF Shape, Rows, Exists
<1>7. UNCHANGED account /\ code' \in [Codes -> CodeRow]
  BY <1>1 DEF Shape, TypeOK
<1>8. CASE Finish(r)
  <2>1. pc' = [pc EXCEPT ![r] = "idle"] /\ req' = [req EXCEPT ![r] = NoJob]
    BY <1>8 DEF Finish, Goto
  <2>2. Fits("idle", NoJob)'
    BY <1>5, NoJobFits, FitsStays
  <2> QED
    BY <1>3, <1>4, <1>5, <1>6, <1>7, <2>1, <2>2, NoJobFits, StepShape
<1>9. CASE Goto(r, "audit") /\ UNCHANGED req
  <2> PICK job \in Job : job = req[r]
    BY DEF Shape, TypeOK
  <2>1. Fits("audit", job) /\ "audit" \in PCs
    BY <1>1 DEF Fits, PCs
  <2>2. Fits("audit", job)'
    BY <1>5, <2>1, FitsStays
  <2>3. pc' = [pc EXCEPT ![r] = "audit"] /\ req' = [req EXCEPT ![r] = job]
    BY <1>9 DEF Goto, Shape, TypeOK
  <2> QED
    BY <1>3, <1>4, <1>5, <1>6, <1>7, <2>1, <2>2, <2>3, StepShape
<1> QED
  BY <1>8, <1>9 DEF EndFamily

\* What an insert looks like from the other rows.
LEMMA IssueTokenWrites ==
  ASSUME Shape, NEW r \in Requests, IssueToken(r)
  PROVE  \E t \in Tokens :
            /\ ~Exists(t) /\ tok' = [tok EXCEPT ![t] = NextRow(r, t)]
            /\ tok' \in [Tokens -> TokenRow]
            /\ \A u \in Tokens \ {t} : tok'[u] = tok[u] /\ tok[u].family # t
            /\ tok'[t] = NextRow(r, t)
            /\ tok'[t].status = "live" /\ ~tok'[t].raw
            /\ \/ /\ req[r].op = "code" /\ tok'[t].family = t /\ tok'[t].generation = 0
                  /\ tok'[t].origin = req[r].code
               \/ /\ req[r].op = "refresh" /\ req[r].token \in Tokens
                  /\ tok[req[r].token].status = "revoked" /\ ~tok[req[r].token].raw
                  /\ tok'[t].family = tok[req[r].token].family
                  /\ tok'[t].generation = tok[req[r].token].generation + 1
                  /\ tok'[t].origin = tok[req[r].token].origin
<1>1. PICK t \in Tokens : ~Exists(t) /\ tok' = [tok EXCEPT ![t] = NextRow(r, t)]
  BY DEF IssueToken
<1>2. /\ \/ req[r].op = "code" /\ req[r].code \in Codes
         \/ /\ req[r].op = "refresh" /\ req[r].token \in Tokens
            /\ tok[req[r].token].status = "revoked" /\ ~tok[req[r].token].raw
      /\ req[r] \in Job
  BY DEF IssueToken, Shape, Fits, TypeOK
<1>3. \A u \in Tokens : tok[u] \in TokenRow
  BY DEF Shape, TypeOK
<1>4. clock \in Nat /\ cuts \in Nat /\ clock + TokenTTL \in Nat
  BY ConstantsAssumption DEF Shape, TypeOK
<1>5. /\ NextRow(r, t).status = "live" /\ ~NextRow(r, t).raw
      /\ req[r].op = "code" => /\ NextRow(r, t).family = t /\ NextRow(r, t).generation = 0
                               /\ NextRow(r, t).origin = req[r].code
      /\ req[r].op = "refresh" =>
            /\ NextRow(r, t).family = tok[req[r].token].family
            /\ NextRow(r, t).generation = tok[req[r].token].generation + 1
            /\ NextRow(r, t).origin = tok[req[r].token].origin
  BY DEF NextRow, NoRow
<1>6. NextRow(r, t) \in TokenRow
  <2>1. CASE req[r].op = "code"
    BY <1>2, <1>4, <2>1 DEF NextRow, NoRow, TokenRow, EndReasons, Job
  <2>2. CASE req[r].op = "refresh"
    <3> DEFINE parent == tok[req[r].token]
    <3>1. /\ parent.family \in Tokens \cup {NoToken} /\ parent.generation + 1 \in Nat
          /\ parent.origin \in Codes \cup {NoCode}
      BY <1>2, <1>3, <2>2 DEF TokenRow
    <3>2. req[r].client \in Clients \cup {NoClient} /\ req[r].session \in BOOLEAN
      BY <1>2 DEF Job
    <3> QED
      BY <1>4, <2>2, <3>1, <3>2 DEF NextRow, NoRow, TokenRow, EndReasons
  <2> QED
    BY <1>2, <2>1, <2>2
<1>7. \A u \in Tokens : tok[u].family # t
  BY <1>1, ConstantsAssumption DEF Shape, Rows, Exists, NoRow
<1>8. tok' \in [Tokens -> TokenRow] /\ tok'[t] = NextRow(r, t)
      /\ \A u \in Tokens \ {t} : tok'[u] = tok[u]
  BY <1>1, <1>6 DEF Shape, TypeOK
<1> QED
  BY <1>1, <1>2, <1>5, <1>7, <1>8

LEMMA IssueTokenShape ==
  ASSUME Shape, NEW r \in Requests, IssueToken(r) PROVE Shape'
<1>1. PICK t \in Tokens :
        /\ ~Exists(t) /\ tok' \in [Tokens -> TokenRow]
        /\ \A u \in Tokens \ {t} : tok'[u] = tok[u] /\ tok[u].family # t
        /\ tok'[t].status = "live" /\ ~tok'[t].raw
        /\ \/ tok'[t].family = t
           \/ /\ req[r].token \in Tokens /\ Exists(req[r].token) /\ ~tok[req[r].token].raw
              /\ tok'[t].family = tok[req[r].token].family
  BY IssueTokenWrites DEF Exists
<1>2. /\ UNCHANGED <<account, code, audit>> /\ Finish(r)
  BY DEF IssueToken
<1>3. Grows
  BY <1>1, <1>2 DEF Grows, Exists, Shape, Rows, NoRow
<1>4. Rows'
  BY <1>1, ConstantsAssumption DEF Shape, Rows, Exists, NoRow
<1>5. /\ pc' = [pc EXCEPT ![r] = "idle"] /\ req' = [req EXCEPT ![r] = NoJob]
      /\ UNCHANGED account /\ code' \in [Codes -> CodeRow]
      /\ audit' \subseteq [family: Tokens \cup {NoToken}, reason: EndReasons]
  BY <1>2 DEF Finish, Goto, Shape, TypeOK
<1>6. Fits("idle", NoJob)'
  BY <1>3, NoJobFits, FitsStays
<1> QED
  BY <1>1, <1>3, <1>4, <1>5, <1>6, NoJobFits, StepShape

LEMMA NextShape == Shape /\ [Next]_vars => Shape'
<1> SUFFICES ASSUME Shape, [Next]_vars PROVE Shape'
  OBVIOUS
<1>1. CASE Account
  BY <1>1, AccountShape
<1>2. ASSUME NEW r \in Requests, Arrive(r) PROVE Shape'
  BY <1>2, ArriveShape
<1>3. ASSUME NEW r \in Requests, Handle(r) PROVE Shape'
  BY <1>3, ReadShape, CodeWriteShape, HashRawShape, RotateTokenShape, EndFamilyShape,
     IssueTokenShape DEF Handle
<1>4. CASE UNCHANGED vars
  <2>1. /\ tok' = tok /\ pc' = pc /\ req' = req /\ code' = code /\ audit' = audit
        /\ clock' = clock /\ banned' = banned /\ validAfter' = validAfter
        /\ cuts' = cuts /\ certs' = certs
    BY <1>4 DEF vars
  <2> QED
    BY <2>1 DEF Shape, TypeOK, Rows, Fits, Exists, PastGrace
<1> QED
  BY <1>1, <1>2, <1>3, <1>4 DEF Next

\* Every row and every request keeps the shape the handlers rely on.
THEOREM ShapeInvariant == Spec => []Shape
BY InitShape, NextShape, PTL DEF Spec

\* The state keeps its types.
THEOREM TypesHold == Spec => []TypeOK
<1>1. Shape => TypeOK
  BY DEF Shape
<1> QED
  BY <1>1, ShapeInvariant, PTL

----------------------------------------------------------------------------
(* Families *)

LEMMA InitFamilies == Init => Families
<1> SUFFICES ASSUME Init PROVE Families
  OBVIOUS
<1>1. ASSUME NEW t \in Tokens PROVE tok[t].family = NoToken
  <2>1. PICK client \in [LegacyTokens -> Clients] :
           tok = [u \in Tokens |->
                    IF u \in LegacyTokens
                    THEN [NoRow EXCEPT !.status = "live", !.raw = TRUE,
                                       !.client = client[u], !.expires = TokenTTL]
                    ELSE NoRow]
    BY DEF Init
  <2> QED
    BY <2>1 DEF NoRow
<1>2. \A r \in Requests : ~Spent(r)
  BY DEF Init, Spent
<1> QED
  BY <1>1, <1>2 DEF Families, OneLivePerFamily, LiveIsNewest, Handover, OneHandover

\* No token row changes and no request starts to hold a family.
LEMMA QuietFamilies ==
  ASSUME Families, tok' = tok,
         \A r \in Requests : Spent(r)' /\ req'[r].op = "refresh"
            => Spent(r) /\ req[r].op = "refresh" /\ req'[r].token = req[r].token
  PROVE  Families'
BY DEF Families, OneLivePerFamily, LiveIsNewest, Handover, OneHandover, Live, Exists, InFamily

\* A request that has answered holds nothing, and the others hold what they held.
LEMMA FinishSpent ==
  ASSUME Shape, NEW r \in Requests, Finish(r)
  PROVE  \A s \in Requests : Spent(s)' => s # r /\ Spent(s) /\ req'[s] = req[s]
BY DEF Shape, TypeOK, Finish, Goto, Spent

LEMMA HashRawFamilies ==
  ASSUME Shape, Families, NEW r \in Requests, HashRaw(r) PROVE Families'
<1> PICK t \in Tokens : t = req[r].token
  BY DEF HashRaw, Shape, Fits
<1>1. /\ pc[r] = "hash_raw" /\ req' = req /\ pc' = [pc EXCEPT ![r] = "find"]
      /\ tok' = IF tok[t].raw THEN [tok EXCEPT ![t].raw = FALSE, ![t].family = t] ELSE tok
      /\ t \in Tokens
  BY DEF HashRaw, Goto, Shape, Fits
<1>2. \A s \in Requests : Spent(s)' => Spent(s)
  BY <1>1 DEF Spent, Shape, TypeOK
<1>3. CASE ~tok[t].raw
  BY <1>1, <1>2, <1>3, QuietFamilies
<1>4. CASE tok[t].raw
  <2>1. /\ tok'[t].status = "live" /\ tok'[t].family = t
        /\ tok'[t].generation = tok[t].generation /\ tok[t].generation = 0
        /\ \A u \in Tokens \ {t} : tok'[u] = tok[u] /\ tok[u].family # t
    <3>1. tok[t].status = "live" /\ tok[t].family = NoToken /\ tok[t].generation = 0
      BY <1>1, <1>4 DEF Shape, Rows
    <3>2. tok \in [Tokens -> TokenRow] /\ tok[t] \in TokenRow
      BY <1>1 DEF Shape, TypeOK
    <3>3. /\ tok'[t].status = "live" /\ tok'[t].family = t
          /\ tok'[t].generation = tok[t].generation
          /\ \A u \in Tokens \ {t} : tok'[u] = tok[u]
      BY <1>1, <1>4, <3>1, <3>2 DEF TokenRow
    <3>4. \A u \in Tokens : tok[u].family # t
      BY <1>1, <3>1, ConstantsAssumption DEF Shape, Rows, Exists, NoRow
    <3> QED
      BY <3>1, <3>3, <3>4
  <2>2. \A s \in Requests : Spent(s) /\ req[s].op = "refresh"
                            => /\ req[s].token \in Tokens \ {t}
                               /\ tok[req[s].token].family \in Tokens \ {t}
    BY <1>4, <2>1 DEF Shape, Rows, Fits, Exists, Spent
  <2>3. OneLivePerFamily'
    BY <2>1 DEF Families, OneLivePerFamily, Live
  <2>4. LiveIsNewest'
    BY <2>1 DEF Families, LiveIsNewest, Live, Exists
  <2>5. req' = req
    BY <1>1
  <2>6. Handover'
    <3> SUFFICES ASSUME NEW s \in Requests, Spent(s)', req'[s].op = "refresh",
                        NEW u \in Tokens, InFamily(u, tok[req[s].token].family)'
                 PROVE  (~Live(u))' /\ tok'[u].generation <= tok'[req'[s].token].generation
      BY DEF Handover
    <3>1. /\ Spent(s) /\ req[s].op = "refresh" /\ req[s].token \in Tokens \ {t}
          /\ tok[req[s].token].family \in Tokens \ {t}
      BY <1>2, <2>2, <2>5
    <3>2. u # t /\ InFamily(u, tok[req[s].token].family)
      BY <2>1, <2>5, <3>1 DEF InFamily, Exists
    <3> QED
      BY <2>1, <2>5, <3>1, <3>2 DEF Families, Handover, Live
  <2>7. OneHandover'
    BY <1>2, <2>1, <2>2, <2>5 DEF Families, OneHandover
  <2> QED
    BY <2>3, <2>4, <2>6, <2>7 DEF Families
<1> QED
  BY <1>3, <1>4

LEMMA RotateTokenFamilies ==
  ASSUME Shape, Families, NEW r \in Requests, RotateToken(r) PROVE Families'
<1> PICK t \in Tokens : t = req[r].token
  BY DEF RotateToken, Shape, Fits
<1>1. /\ pc[r] = "rotate" /\ req[r].op = "refresh" /\ t \in Tokens
      /\ Exists(t) /\ ~tok[t].raw /\ tok[t].family \in Tokens
  BY DEF RotateToken, Shape, Fits, Rows
<1>2. CASE Finish(r) /\ tok' = tok
  <2>1. \A s \in Requests : Spent(s)' => Spent(s) /\ req'[s] = req[s]
    BY <1>2, FinishSpent
  <2> QED
    BY <1>2, <2>1, QuietFamilies
<1>3. CASE /\ Live(t) /\ Goto(r, "user") /\ req' = req
           /\ tok' = [tok EXCEPT ![t].status = "revoked", ![t].reason = "rotated",
                                 ![t].revokedAt = clock]
  <2>1. /\ tok'[t].status = "revoked" /\ tok'[t].family = tok[t].family
        /\ tok'[t].generation = tok[t].generation
        /\ \A u \in Tokens \ {t} : tok'[u] = tok[u]
    BY <1>1, <1>3 DEF Shape, TypeOK, TokenRow
  <2>2. \A s \in Requests : Spent(s)' => Spent(s) \/ s = r
    BY <1>3 DEF Goto, Spent, Shape, TypeOK
  <2>3. \A s \in Requests : Spent(s) /\ req[s].op = "refresh"
                            => /\ req[s].token \in Tokens \ {t}
                               /\ tok[req[s].token].family # tok[t].family
    <3> SUFFICES ASSUME NEW s \in Requests, Spent(s), req[s].op = "refresh"
                 PROVE  /\ req[s].token \in Tokens
                        /\ tok[req[s].token].family # tok[t].family
      OBVIOUS
    <3>1. req[s].token \in Tokens
      BY DEF Shape, Fits, Spent
    <3>2. InFamily(t, tok[t].family) /\ Live(t)
      BY <1>1, <1>3 DEF InFamily
    <3>3. tok[req[s].token].family # tok[t].family
      BY <3>2 DEF Families, Handover
    <3> QED
      BY <3>1, <3>3
  <2>4. OneLivePerFamily'
    <3>1. \A u \in Tokens : Live(u)' => Live(u) /\ tok'[u].family = tok[u].family
      BY <2>1 DEF Live
    <3> QED
      BY <3>1 DEF Families, OneLivePerFamily
  <2>5. LiveIsNewest'
    BY <1>1, <2>1 DEF Families, LiveIsNewest, Live, Exists
  <2>6. \A u \in Tokens : InFamily(u, tok[t].family)
                          => tok'[u].status # "live" /\ tok[u].generation <= tok[t].generation
    <3> TAKE u \in Tokens
    <3> HAVE InFamily(u, tok[t].family)
    <3>1. tok[t].family # NoToken /\ Live(t)
      BY <1>1, <1>3, ConstantsAssumption
    <3>2. u # t => ~Live(u)
      BY <1>1, <3>1 DEF Families, OneLivePerFamily, InFamily
    <3> QED
      BY <1>1, <2>1, <3>1, <3>2 DEF Families, LiveIsNewest, Live, InFamily
  <2>7. Handover'
    <3> SUFFICES ASSUME NEW s \in Requests, Spent(s)', req'[s].op = "refresh",
                        NEW u \in Tokens, InFamily(u, tok[req[s].token].family)'
                 PROVE  tok'[u].status # "live"
                        /\ tok'[u].generation <= tok'[req'[s].token].generation
      BY DEF Handover, Live
    <3>1. req' = req
      BY <1>3
    <3>2. CASE s = r
      <4>1. InFamily(u, tok[t].family)
        BY <1>1, <2>1, <3>1, <3>2 DEF InFamily, Exists
      <4> QED
        BY <2>1, <2>6, <3>1, <3>2, <4>1
    <3>3. CASE s # r
      <4>1. /\ Spent(s) /\ req[s].op = "refresh" /\ req[s].token \in Tokens \ {t}
            /\ tok[req[s].token].family # tok[t].family
        BY <2>2, <2>3, <3>1, <3>3
      <4>2. u # t /\ InFamily(u, tok[req[s].token].family)
        BY <2>1, <3>1, <4>1 DEF InFamily, Exists
      <4> QED
        BY <2>1, <3>1, <4>1, <4>2 DEF Families, Handover, Live
    <3> QED
      BY <3>2, <3>3
  <2>8. OneHandover'
    <3> SUFFICES ASSUME NEW s \in Requests, NEW u \in Requests,
                        Spent(s)', req'[s].op = "refresh", Spent(u)', req'[u].op = "refresh",
                        tok'[req'[s].token].family = tok'[req'[u].token].family
                 PROVE  s = u
      BY DEF OneHandover
    <3>1. req' = req
      BY <1>3
    <3>2. \A v \in Requests : Spent(v) /\ req[v].op = "refresh"
             => /\ tok'[req[v].token].family = tok[req[v].token].family
                /\ tok[req[v].token].family # tok[t].family
      BY <2>1, <2>3
    <3>3. tok'[req[r].token].family = tok[t].family
      BY <2>1
    <3>4. CASE Spent(s) /\ Spent(u)
      BY <3>1, <3>2, <3>4 DEF Families, OneHandover
    <3> QED
      BY <2>2, <3>1, <3>2, <3>3, <3>4
  <2> QED
    BY <2>4, <2>5, <2>7, <2>8 DEF Families
<1> QED
  BY <1>2, <1>3 DEF RotateToken

\* Ending a family changes the status of its rows and nothing they are known by.
LEMMA EndFamilyWrites ==
  ASSUME Shape, NEW r \in Requests, EndFamily(r)
  PROVE  /\ \A t \in Tokens :
               /\ Exists(t)' <=> Exists(t)
               /\ Live(t)' => Live(t)
               /\ ~Live(t) => tok'[t] = tok[t]
               /\ tok'[t].family = tok[t].family /\ tok'[t].generation = tok[t].generation
               /\ tok'[t].origin = tok[t].origin /\ tok'[t].session = tok[t].session
               /\ tok'[t].created = tok[t].created
         /\ \A s \in Requests : Spent(s)' => Spent(s) /\ req'[s] = req[s]
         /\ UNCHANGED <<account, code, audit>>
<1>1. PICK f, why : /\ tok' = RevokedFamily(f, why)
                    /\ Finish(r) \/ (Goto(r, "audit") /\ UNCHANGED req)
                    /\ UNCHANGED <<account, code, audit>>
  BY DEF EndFamily
<1>2. ASSUME NEW t \in Tokens
      PROVE  /\ Exists(t)' <=> Exists(t)
             /\ Live(t)' => Live(t)
             /\ ~Live(t) => tok'[t] = tok[t]
             /\ tok'[t].family = tok[t].family /\ tok'[t].generation = tok[t].generation
             /\ tok'[t].origin = tok[t].origin /\ tok'[t].session = tok[t].session
             /\ tok'[t].created = tok[t].created
  <2>1. tok[t] \in TokenRow
    BY DEF Shape, TypeOK
  <2>2. CASE ~(Live(t) /\ tok[t].family = f)
    <3>1. tok'[t] = tok[t]
      BY <1>1, <2>2 DEF RevokedFamily
    <3> QED
      BY <3>1 DEF Exists, Live
  <2>3. CASE Live(t) /\ tok[t].family = f
    <3>1. tok'[t] = [tok[t] EXCEPT !.status = "revoked", !.reason = why, !.revokedAt = clock]
      BY <1>1, <2>3 DEF RevokedFamily
    <3> QED
      BY <2>1, <2>3, <3>1 DEF Exists, Live, TokenRow
  <2> QED
    BY <2>2, <2>3
<1>3. \A s \in Requests : Spent(s)' => Spent(s) /\ req'[s] = req[s]
  <2>1. CASE Finish(r)
    BY <2>1, FinishSpent
  <2>2. CASE Goto(r, "audit") /\ UNCHANGED req
    BY <2>2 DEF Goto, Spent, Shape, TypeOK
  <2> QED
    BY <1>1, <2>1, <2>2
<1> QED
  BY <1>1, <1>2, <1>3

LEMMA EndFamilyFamilies ==
  ASSUME Shape, Families, NEW r \in Requests, EndFamily(r) PROVE Families'
<1>1. /\ \A t \in Tokens :
            /\ Exists(t)' <=> Exists(t)
            /\ Live(t)' => Live(t)
            /\ tok'[t].family = tok[t].family /\ tok'[t].generation = tok[t].generation
      /\ \A s \in Requests : Spent(s)' => Spent(s) /\ req'[s] = req[s]
  BY EndFamilyWrites
<1>2. \A s \in Requests : Spent(s) /\ req[s].op = "refresh" => req[s].token \in Tokens
  BY DEF Spent, Shape, Fits
<1>3. OneLivePerFamily'
  BY <1>1 DEF Families, OneLivePerFamily
<1>4. LiveIsNewest'
  BY <1>1 DEF Families, LiveIsNewest
<1>5. Handover'
  BY <1>1, <1>2 DEF Families, Handover, InFamily
<1>6. OneHandover'
  BY <1>1, <1>2 DEF Families, OneHandover
<1> QED
  BY <1>3, <1>4, <1>5, <1>6 DEF Families

LEMMA IssueTokenFamilies ==
  ASSUME Shape, Families, NEW r \in Requests, IssueToken(r) PROVE Families'
<1>1. Spent(r) /\ Finish(r)
  BY DEF IssueToken, Spent
<1>2. \A s \in Requests : Spent(s)' => s # r /\ Spent(s) /\ req'[s] = req[s]
  BY <1>1, FinishSpent
<1>3. PICK t \in Tokens :
        /\ ~Exists(t)
        /\ \A u \in Tokens \ {t} : tok'[u] = tok[u] /\ tok[u].family # t
        /\ tok'[t].status = "live"
        /\ \/ req[r].op = "code" /\ tok'[t].family = t /\ tok'[t].generation = 0
           \/ /\ req[r].op = "refresh" /\ req[r].token \in Tokens
              /\ tok[req[r].token].status = "revoked" /\ ~tok[req[r].token].raw
              /\ tok'[t].family = tok[req[r].token].family
              /\ tok'[t].generation = tok[req[r].token].generation + 1
  BY IssueTokenWrites
<1>4. \A u \in Tokens : tok[u].generation \in Nat
  BY DEF Shape, TypeOK, TokenRow
<1>5. tok'[t].family \in Tokens /\ tok'[t].generation \in Nat
  BY <1>3, <1>4 DEF Shape, Rows, Exists
\* The new row is alone in its family, or newer than the rest of it, none of
\* which is usable.
<1>6. \A u \in Tokens \ {t} : InFamily(u, tok'[t].family)
         => ~Live(u) /\ tok[u].generation < tok'[t].generation
  <2>1. CASE req[r].op = "code"
    BY <1>3, <2>1 DEF InFamily
  <2>2. CASE req[r].op = "refresh"
    <3>1. \A u \in Tokens : InFamily(u, tok[req[r].token].family)
             => ~Live(u) /\ tok[u].generation <= tok[req[r].token].generation
      BY <1>1, <2>2 DEF Families, Handover
    <3> QED
      BY <1>3, <1>4, <2>2, <3>1
  <2> QED
    BY <1>3, <2>1, <2>2
\* Nobody else is between spending and issuing in that family.
<1>7. \A s \in Requests : Spent(s)' /\ req'[s].op = "refresh"
         => req[s].token \in Tokens \ {t} /\ tok[req[s].token].family # tok'[t].family
  <2> SUFFICES ASSUME NEW s \in Requests, Spent(s)', req'[s].op = "refresh"
               PROVE  req[s].token \in Tokens \ {t} /\ tok[req[s].token].family # tok'[t].family
    OBVIOUS
  <2>1. s # r /\ Spent(s) /\ req[s].op = "refresh"
    BY <1>2
  <2>2. req[s].token \in Tokens \ {t}
    BY <1>3, <2>1 DEF Shape, Fits, Spent, Exists
  <2>3. CASE req[r].op = "code"
    BY <1>3, <2>2, <2>3
  <2>4. CASE req[r].op = "refresh"
    BY <1>1, <1>3, <2>1, <2>2, <2>4 DEF Families, OneHandover
  <2> QED
    BY <1>3, <2>2, <2>3, <2>4
<1>8. OneLivePerFamily'
  BY <1>3, <1>6 DEF Families, OneLivePerFamily, Live, InFamily, Exists
<1>9. LiveIsNewest'
  <2> SUFFICES ASSUME NEW a \in Tokens, NEW b \in Tokens, Exists(a)', Exists(b)',
                      tok'[a].family = tok'[b].family, tok'[a].family # NoToken
               PROVE  /\ tok'[a].status = "live" => tok'[b].generation <= tok'[a].generation
                      /\ tok'[a].generation = tok'[b].generation => a = b
    BY DEF LiveIsNewest, Live
  <2>1. CASE a # t /\ b # t
    BY <1>3, <2>1 DEF Families, LiveIsNewest, Exists, Live
  <2>2. CASE a = t /\ b = t
    BY <1>5, <2>2
  <2>3. CASE a = t /\ b # t
    <3>1. InFamily(b, tok'[t].family) /\ tok'[b] = tok[b]
      BY <1>3, <2>3 DEF InFamily, Exists
    <3> QED
      BY <1>4, <1>5, <1>6, <2>3, <3>1
  <2>4. CASE a # t /\ b = t
    <3>1. InFamily(a, tok'[t].family) /\ tok'[a] = tok[a]
      BY <1>3, <2>4 DEF InFamily, Exists
    <3> QED
      BY <1>4, <1>5, <1>6, <2>4, <3>1 DEF Live
  <2> QED
    BY <2>1, <2>2, <2>3, <2>4
<1>10. Handover'
  <2> SUFFICES ASSUME NEW s \in Requests, Spent(s)', req'[s].op = "refresh",
                      NEW u \in Tokens, InFamily(u, tok[req[s].token].family)'
               PROVE  tok'[u].status # "live"
                      /\ tok'[u].generation <= tok'[req'[s].token].generation
    BY DEF Handover, Live
  <2>1. /\ Spent(s) /\ req'[s] = req[s] /\ req[s].token \in Tokens \ {t}
        /\ tok[req[s].token].family # tok'[t].family
    BY <1>2, <1>7
  <2>2. u # t /\ InFamily(u, tok[req[s].token].family)
    BY <1>3, <2>1 DEF InFamily, Exists
  <2> QED
    BY <1>3, <2>1, <2>2 DEF Families, Handover, Live
<1>11. OneHandover'
  BY <1>2, <1>3, <1>7 DEF Families, OneHandover
<1> QED
  BY <1>8, <1>9, <1>10, <1>11 DEF Families

\* A step that writes no token row: a request takes a family only by
\* RotateToken, so it may start to hold a code but not a family.
LEMMA ReadFamilies ==
  ASSUME Shape, Families, NEW r \in Requests,
         BurnCode(r) \/ TakeCode(r) \/ FindToken(r) \/ FindRaw(r) \/ WriteAudit(r)
         \/ ReadUser(r) \/ Fail(r)
  PROVE  Families'
<1>1. tok' = tok
  BY DEF BurnCode, TakeCode, FindToken, FindRaw, WriteAudit, ReadUser, Fail
<1>2. \A s \in Requests \ {r} : pc'[s] = pc[s] /\ req'[s] = req[s]
  BY DEF Shape, TypeOK, BurnCode, TakeCode, FindToken, FindRaw, WriteAudit, ReadUser, Fail,
     Goto, Finish
<1>3. Spent(r)' /\ req'[r].op = "refresh"
         => Spent(r) /\ req[r].op = "refresh" /\ req'[r].token = req[r].token
  <2>1. CASE Finish(r)
    BY <2>1, FinishSpent
  <2>2. CASE TakeCode(r) /\ ~Finish(r)
    <3>1. req[r].op = "code" /\ req' = req
      BY <2>2 DEF TakeCode, Shape, Fits
    <3> QED
      BY <3>1
  <2>3. CASE ReadUser(r) /\ ~Finish(r)
    BY <2>3 DEF ReadUser, Shape, TypeOK, Job, Spent
  <2>4. CASE (FindToken(r) \/ FindRaw(r)) /\ ~Finish(r)
    BY <2>4 DEF FindToken, FindRaw, Goto, Shape, TypeOK, Spent
  <2> QED
    BY <2>1, <2>2, <2>3, <2>4 DEF BurnCode, WriteAudit, Fail
<1> QED
  BY <1>1, <1>2, <1>3, QuietFamilies DEF Spent

LEMMA ArriveFamilies ==
  ASSUME Shape, Families, NEW r \in Requests, Arrive(r) PROVE Families'
<1>1. tok' = tok
  BY DEF Arrive, ExchangeCode, PresentToken, EndApp
<1>2. PICK step \in PCs \ {"user", "issue"} : Goto(r, step)
  BY DEF Arrive, ExchangeCode, PresentToken, EndApp, PCs
<1>3. \A s \in Requests \ {r} : pc'[s] = pc[s] /\ req'[s] = req[s]
  BY <1>2 DEF Arrive, ExchangeCode, PresentToken, EndApp, Goto, Shape, TypeOK
<1>4. ~Spent(r)'
  BY <1>2 DEF Goto, Spent, Shape, TypeOK
<1> QED
  BY <1>1, <1>3, <1>4, QuietFamilies DEF Spent

LEMMA NextFamilies == Shape /\ Families /\ [Next]_vars => Families'
<1> SUFFICES ASSUME Shape, Families, [Next]_vars PROVE Families'
  OBVIOUS
<1>1. CASE Account \/ UNCHANGED vars
  <2>1. tok' = tok /\ pc' = pc /\ req' = req
    BY <1>1 DEF Account, Tick, SetBanned, EndEverySession, ChangeCertificates, IssueCode, vars
  <2> QED
    BY <2>1, QuietFamilies DEF Spent
<1>2. ASSUME NEW r \in Requests, Arrive(r) PROVE Families'
  BY <1>2, ArriveFamilies
<1>3. ASSUME NEW r \in Requests, Handle(r) PROVE Families'
  BY <1>3, ReadFamilies, HashRawFamilies, RotateTokenFamilies, EndFamilyFamilies,
     IssueTokenFamilies DEF Handle
<1> QED
  BY <1>1, <1>2, <1>3 DEF Next

LEMMA FamiliesInvariant == Spec => [](Shape /\ Families)
<1>1. Init => Shape /\ Families
  BY InitShape, InitFamilies
<1>2. Shape /\ Families /\ [Next]_vars => (Shape /\ Families)'
  BY NextShape, NextFamilies
<1> QED
  BY <1>1, <1>2, PTL DEF Spec

\* Whatever requests, replays, sign-outs and crashes interleave, a family has
\* at most one usable refresh token: rotation never forks it.
THEOREM OneLive == Spec => []OneLivePerFamily
<1>1. Families => OneLivePerFamily
  BY DEF Families
<1> QED
  BY <1>1, FamiliesInvariant, PTL

\* Generations are never reused in a family and the usable token is the newest.
THEOREM NewestLive == Spec => []LiveIsNewest
<1>1. Families => LiveIsNewest
  BY DEF Families
<1> QED
  BY <1>1, FamiliesInvariant, PTL

----------------------------------------------------------------------------
(* What a step may write *)

\* A row that is there as it was, and lives only if it lived.
Kept(t) ==
    /\ Exists(t)' <=> Exists(t)
    /\ Live(t)' => Live(t)
    /\ tok'[t].family = tok[t].family /\ tok'[t].generation = tok[t].generation
    /\ tok'[t].origin = tok[t].origin /\ tok'[t].session = tok[t].session
    /\ tok'[t].created = tok[t].created

\* A raw row that gets a family of its own.
Hashed(t) ==
    /\ tok[t].raw /\ Exists(t) /\ tok[t].family = NoToken
    /\ tok[t].generation = 0 /\ tok[t].origin = NoCode
    /\ tok'[t].family = t /\ tok'[t].generation = 0 /\ tok'[t].origin = NoCode
    /\ tok'[t].status = "live" /\ ~tok'[t].session
    /\ \A u \in Tokens : tok[u].family # t
    /\ \A u \in Tokens \ {t} : tok'[u] = tok[u]

LEMMA HashRawWrites ==
  ASSUME Shape, NEW r \in Requests, HashRaw(r)
  PROVE  tok' = tok \/ \E t \in Tokens : Hashed(t)
<1> PICK t \in Tokens : t = req[r].token
  BY DEF HashRaw, Shape, Fits
<1>1. tok' = IF tok[t].raw THEN [tok EXCEPT ![t].raw = FALSE, ![t].family = t] ELSE tok
  BY DEF HashRaw
<1>2. CASE tok[t].raw
  <2>1. /\ tok[t].status = "live" /\ tok[t].family = NoToken /\ tok[t].generation = 0
        /\ tok[t].origin = NoCode /\ ~tok[t].session
    BY <1>2 DEF Shape, Rows
  <2>2. tok \in [Tokens -> TokenRow] /\ tok[t] \in TokenRow
    BY DEF Shape, TypeOK
  <2>3. /\ tok'[t].family = t /\ tok'[t].generation = tok[t].generation
        /\ tok'[t].origin = tok[t].origin
        /\ tok'[t].status = tok[t].status /\ tok'[t].session = tok[t].session
        /\ \A u \in Tokens \ {t} : tok'[u] = tok[u]
    BY <1>1, <1>2, <2>1, <2>2 DEF TokenRow
  <2>4. \A u \in Tokens : tok[u].family # t
    BY <2>1, ConstantsAssumption DEF Shape, Rows, Exists, NoRow
  <2>5. Hashed(t)
    BY <1>2, <2>1, <2>3, <2>4 DEF Hashed, Exists
  <2> QED
    BY <2>5
<1> QED
  BY <1>1, <1>2

LEMMA RotateTokenWrites ==
  ASSUME Shape, NEW r \in Requests, RotateToken(r)
  PROVE  /\ \A t \in Tokens : Kept(t)
         /\ \A t \in Tokens : Live(t) => tok'[t] = tok[t] \/ tok'[t].reason = "rotated"
<1> PICK t \in Tokens : t = req[r].token
  BY DEF RotateToken, Shape, Fits
<1>1. CASE tok' = tok
  BY <1>1 DEF Kept, Exists, Live
<1>2. CASE /\ Live(t)
           /\ tok' = [tok EXCEPT ![t].status = "revoked", ![t].reason = "rotated",
                                 ![t].revokedAt = clock]
  <2>1. tok \in [Tokens -> TokenRow] /\ tok[t] \in TokenRow
    BY DEF Shape, TypeOK
  <2>2. /\ tok'[t].status = "revoked" /\ tok'[t].reason = "rotated"
        /\ tok'[t].family = tok[t].family /\ tok'[t].generation = tok[t].generation
        /\ tok'[t].origin = tok[t].origin /\ tok'[t].session = tok[t].session
        /\ tok'[t].created = tok[t].created
        /\ \A u \in Tokens \ {t} : tok'[u] = tok[u]
    BY <1>2, <2>1 DEF TokenRow
  <2>3. \A u \in Tokens \ {t} : Kept(u)
    BY <2>2 DEF Kept, Exists, Live
  <2>4. Kept(t)
    BY <1>2, <2>2 DEF Kept, Exists, Live
  <2> QED
    BY <2>2, <2>3, <2>4
<1> QED
  BY <1>1, <1>2 DEF RotateToken

LEMMA NextWrites ==
  ASSUME Shape, [Next]_vars
  PROVE  \/ tok' = tok
         \/ \E r \in Requests : HashRaw(r) \/ RotateToken(r) \/ EndFamily(r) \/ IssueToken(r)
<1>1. CASE Account \/ UNCHANGED vars
  BY <1>1 DEF Account, Tick, SetBanned, EndEverySession, ChangeCertificates, IssueCode, vars
<1>2. ASSUME NEW r \in Requests, Arrive(r) PROVE tok' = tok
  BY <1>2 DEF Arrive, ExchangeCode, PresentToken, EndApp
<1>3. ASSUME NEW r \in Requests, Handle(r)
      PROVE  tok' = tok \/ HashRaw(r) \/ RotateToken(r) \/ EndFamily(r) \/ IssueToken(r)
  BY <1>3 DEF Handle, BurnCode, TakeCode, FindToken, FindRaw, WriteAudit, ReadUser, Fail
<1> QED
  BY <1>1, <1>2, <1>3 DEF Next

LEMMA RowsKept ==
  ASSUME Shape, [Next]_vars
  PROVE  \/ \A t \in Tokens : Kept(t)
         \/ \E t \in Tokens : Hashed(t)
         \/ \E r \in Requests : IssueToken(r)
<1>1. CASE tok' = tok
  BY <1>1 DEF Kept, Exists, Live
<1>2. ASSUME NEW r \in Requests, HashRaw(r), tok' # tok PROVE \E t \in Tokens : Hashed(t)
  BY <1>2, HashRawWrites
<1>3. ASSUME NEW r \in Requests, RotateToken(r) PROVE \A t \in Tokens : Kept(t)
  BY <1>3, RotateTokenWrites
<1>4. ASSUME NEW r \in Requests, EndFamily(r) PROVE \A t \in Tokens : Kept(t)
  BY <1>4, EndFamilyWrites DEF Kept
<1> QED
  BY <1>1, <1>2, <1>3, <1>4, NextWrites

\* A request holds a family or a code when it held it already, or took it now.
LEMMA HeldBefore ==
  ASSUME Shape, [Next]_vars, NEW s \in Requests, Spent(s)'
  PROVE  \/ /\ Spent(s) /\ req'[s].op = req[s].op /\ req'[s].token = req[s].token
            /\ req'[s].code = req[s].code
         \/ /\ RotateToken(s) /\ Live(req[s].token) /\ req'[s] = req[s]
            /\ req[s].op = "refresh" /\ req[s].token \in Tokens /\ ~tok[req[s].token].raw
         \/ /\ TakeCode(s) /\ code[req[s].code].status = "issued" /\ req'[s] = req[s]
            /\ code' = [code EXCEPT ![req[s].code].status = "used"]
            /\ req[s].op = "code" /\ req[s].code \in Codes /\ tok' = tok
<1>1. CASE Account \/ UNCHANGED vars
  BY <1>1 DEF Account, Tick, SetBanned, EndEverySession, ChangeCertificates, IssueCode, vars, Spent
<1>2. ASSUME NEW r \in Requests, Arrive(r)
      PROVE  Spent(s) /\ req'[s] = req[s]
  <2>1. PICK step \in PCs \ {"user", "issue"} : Goto(r, step)
    BY <1>2 DEF Arrive, ExchangeCode, PresentToken, EndApp, PCs
  <2>2. s # r
    BY <2>1 DEF Goto, Spent, Shape, TypeOK
  <2> QED
    BY <1>2, <2>1, <2>2 DEF Arrive, ExchangeCode, PresentToken, EndApp, Goto, Spent, Shape, TypeOK
<1>3. ASSUME NEW r \in Requests, Handle(r), r # s PROVE Spent(s) /\ req'[s] = req[s]
  BY <1>3 DEF Handle, BurnCode, TakeCode, FindToken, FindRaw, HashRaw, RotateToken, EndFamily,
     WriteAudit, ReadUser, IssueToken, Fail, Goto, Finish, Spent, Shape, TypeOK
<1>4. CASE Handle(s)
  <2>1. ~Finish(s)
    BY FinishSpent
  <2>2. TakeCode(s) \/ RotateToken(s) \/ ReadUser(s)
    BY <1>4, <2>1 DEF Handle, BurnCode, FindToken, FindRaw, HashRaw, EndFamily, WriteAudit,
       IssueToken, Fail, Goto, Spent, Shape, TypeOK
  <2>3. CASE TakeCode(s)
    BY <2>1, <2>3 DEF TakeCode, Shape, Fits
  <2>4. CASE RotateToken(s)
    BY <2>1, <2>4 DEF RotateToken, Shape, Fits
  <2>5. CASE ReadUser(s)
    BY <2>1, <2>5 DEF ReadUser, Shape, TypeOK, Job, Spent
  <2> QED
    BY <2>2, <2>3, <2>4, <2>5
<1> QED
  BY <1>1, <1>2, <1>3, <1>4 DEF Next

----------------------------------------------------------------------------
(* One code, one family *)

\* Requests that hold a code hold different ones, which are used and have
\* started nothing yet; a code that has started a family is used.
HeldCodes ==
    /\ \A r, s \in Requests : (/\ Spent(r) /\ req[r].op = "code" /\ Spent(s) /\ req[s].op = "code"
                               /\ req[r].code = req[s].code) => r = s
    /\ \A r \in Requests : Spent(r) /\ req[r].op = "code" =>
          \A t \in Tokens : tok[t].origin # req[r].code
    /\ \A t \in Tokens : tok[t].origin # NoCode => code[tok[t].origin].status = "used"

Origins == HeldCodes /\ CodeStartsOneFamily

LEMMA InitOrigins == Init => Origins
<1> SUFFICES ASSUME Init PROVE Origins
  OBVIOUS
<1>1. ASSUME NEW t \in Tokens PROVE tok[t].origin = NoCode
  <2>1. PICK client \in [LegacyTokens -> Clients] :
           tok = [u \in Tokens |->
                    IF u \in LegacyTokens
                    THEN [NoRow EXCEPT !.status = "live", !.raw = TRUE,
                                       !.client = client[u], !.expires = TokenTTL]
                    ELSE NoRow]
    BY DEF Init
  <2> QED
    BY <2>1 DEF NoRow
<1>2. \A r \in Requests : ~Spent(r)
  BY DEF Init, Spent
<1> QED
  BY <1>1, <1>2 DEF Origins, HeldCodes, CodeStartsOneFamily

LEMMA UsedStays ==
  ASSUME Shape, [Next]_vars, NEW c \in Codes, code[c].status = "used"
  PROVE  code'[c].status = "used"
<1>1. CASE Account \/ UNCHANGED vars
  BY <1>1 DEF Account, Tick, SetBanned, EndEverySession, ChangeCertificates, IssueCode, vars,
     Shape, TypeOK
<1>2. ASSUME NEW r \in Requests, Arrive(r) PROVE code' = code
  BY <1>2 DEF Arrive, ExchangeCode, PresentToken, EndApp
<1>3. ASSUME NEW r \in Requests, Handle(r) PROVE code'[c].status = "used"
  <2>1. CASE BurnCode(r) \/ TakeCode(r)
    <3>1. req[r].code \in Codes /\ code[c] \in CodeRow
      BY <2>1 DEF BurnCode, TakeCode, Shape, Fits, TypeOK
    <3> QED
      BY <2>1, <3>1 DEF BurnCode, TakeCode, Shape, TypeOK, CodeRow
  <2> QED
    BY <1>3, <2>1 DEF Handle, FindToken, FindRaw, HashRaw, RotateToken, EndFamily, WriteAudit,
       ReadUser, IssueToken, Fail
<1> QED
  BY <1>1, <1>2, <1>3 DEF Next

\* A request that holds a code after the step holds it alone: it is used, and
\* it held it before or nothing had started from it.
LEMMA HeldCodeStays ==
  ASSUME Shape, Origins, [Next]_vars, NEW s \in Requests, Spent(s)', req'[s].op = "code"
  PROVE  /\ req'[s].code \in Codes
         /\ \A t \in Tokens : tok[t].origin # req'[s].code
         /\ \/ Spent(s) /\ req[s].op = "code" /\ req'[s].code = req[s].code
            \/ /\ \A u \in Requests : Spent(u) /\ req[u].op = "code" => req[u].code # req'[s].code
               /\ TakeCode(s)
<1>1. CASE Spent(s) /\ req'[s].op = req[s].op /\ req'[s].code = req[s].code
  <2>1. req[s].code \in Codes
    BY <1>1 DEF Shape, Fits, Spent
  <2> QED
    BY <1>1, <2>1 DEF Origins, HeldCodes
<1>2. CASE TakeCode(s) /\ code[req[s].code].status = "issued" /\ req'[s] = req[s]
           /\ req[s].op = "code" /\ req[s].code \in Codes
  <2>1. \A t \in Tokens : tok[t].origin # req[s].code
    BY <1>2, ConstantsAssumption DEF Origins, HeldCodes
  <2>2. \A u \in Requests : Spent(u) /\ req[u].op = "code" => req[u].code # req[s].code
    BY <1>2 DEF Shape, Fits, Spent
  <2> QED
    BY <1>2, <2>1, <2>2
<1> QED
  BY <1>1, <1>2, HeldBefore

LEMMA NextOrigins == Shape /\ Origins /\ [Next]_vars => Origins'
<1> SUFFICES ASSUME Shape, Origins, [Next]_vars PROVE Origins'
  OBVIOUS
<1>1. \A t \in Tokens : tok[t].origin \in Codes \cup {NoCode}
  BY DEF Shape, TypeOK, TokenRow
<1>2. ASSUME NEW r \in Requests, NEW s \in Requests, Spent(r)', req'[r].op = "code",
             Spent(s)', req'[s].op = "code", req'[r].code = req'[s].code
      PROVE  r = s
  <2>1. CASE TakeCode(r) /\ r # s
    <3>1. req'[s] = req[s] /\ pc'[s] = pc[s]
      BY <2>1 DEF TakeCode, Goto, Finish, Shape, TypeOK
    <3>2. req[s].op = "code" /\ Spent(s)
      BY <1>2, <3>1 DEF Spent
    <3>3. Spent(r) /\ req[r].op = "code" /\ req'[r].code = req[r].code
      BY <1>2, <2>1, <3>1, <3>2, HeldCodeStays
    <3> QED
      BY <2>1, <3>3 DEF TakeCode, Spent
  <2>2. CASE TakeCode(s) /\ r # s
    <3>1. req'[r] = req[r] /\ pc'[r] = pc[r]
      BY <2>2 DEF TakeCode, Goto, Finish, Shape, TypeOK
    <3>2. req[r].op = "code" /\ Spent(r)
      BY <1>2, <3>1 DEF Spent
    <3>3. Spent(s) /\ req[s].op = "code" /\ req'[s].code = req[s].code
      BY <1>2, <2>2, <3>1, <3>2, HeldCodeStays
    <3> QED
      BY <2>2, <3>3 DEF TakeCode, Spent
  <2>3. CASE ~TakeCode(r) /\ ~TakeCode(s)
    BY <1>2, <2>3, HeldCodeStays DEF Origins, HeldCodes
  <2> QED
    BY <2>1, <2>2, <2>3
<1>3. CASE (\A t \in Tokens : Kept(t)) \/ (\E t \in Tokens : Hashed(t))
  <2>1. \A t \in Tokens : tok'[t].origin = tok[t].origin
    BY <1>3 DEF Kept, Hashed
  <2>2. \A t \in Tokens : tok'[t].origin # NoCode => code'[tok'[t].origin].status = "used"
    BY <1>1, <2>1, UsedStays DEF Origins, HeldCodes
  <2>3. CodeStartsOneFamily'
    <3>1. CASE \A t \in Tokens : Kept(t)
      BY <3>1 DEF Origins, CodeStartsOneFamily, Kept
    <3>2. CASE \E t \in Tokens : Hashed(t)
      BY <2>1, <3>2 DEF Origins, CodeStartsOneFamily, Hashed, Exists
    <3> QED
      BY <1>3, <3>1, <3>2
  <2>4. ASSUME NEW s \in Requests, Spent(s)', req'[s].op = "code", NEW t \in Tokens
        PROVE  tok'[t].origin # req'[s].code
    BY <2>1, <2>4, HeldCodeStays
  <2> QED
    BY <1>2, <2>2, <2>3, <2>4 DEF Origins, HeldCodes
<1>4. ASSUME NEW r \in Requests, IssueToken(r) PROVE Origins'
  <2>1. PICK t \in Tokens :
          /\ ~Exists(t)
          /\ \A u \in Tokens \ {t} : tok'[u] = tok[u] /\ tok[u].family # t
          /\ \/ req[r].op = "code" /\ tok'[t].family = t /\ tok'[t].origin = req[r].code
             \/ /\ req[r].op = "refresh" /\ req[r].token \in Tokens
                /\ tok[req[r].token].status = "revoked"
                /\ tok'[t].family = tok[req[r].token].family
                /\ tok'[t].origin = tok[req[r].token].origin
    BY <1>4, IssueTokenWrites
  <2>2. Spent(r) /\ Finish(r) /\ code' = code
    BY <1>4 DEF IssueToken, Spent
  <2>3. \A s \in Requests : Spent(s)' => s # r /\ Spent(s) /\ req'[s] = req[s]
    BY <2>2, FinishSpent
  <2>4. CASE req[r].op = "code"
    <3>1. /\ \A u \in Tokens : tok[u].origin # req[r].code
          /\ code[req[r].code].status = "used"
      BY <2>2, <2>4 DEF Origins, HeldCodes, Shape, Fits, Spent
    <3>2. \A s \in Requests : Spent(s)' /\ req'[s].op = "code" => req'[s].code # req[r].code
      BY <2>2, <2>3, <2>4 DEF Origins, HeldCodes
    <3>3. CodeStartsOneFamily'
      BY <2>1, <2>4, <3>1 DEF Origins, CodeStartsOneFamily, Exists
    <3>4. \A s \in Requests : Spent(s)' /\ req'[s].op = "code" =>
             \A u \in Tokens : tok'[u].origin # req'[s].code
      BY <2>1, <2>3, <2>4, <3>2 DEF Origins, HeldCodes
    <3>5. \A u \in Tokens : tok'[u].origin # NoCode => code'[tok'[u].origin].status = "used"
      BY <2>1, <2>2, <2>4, <3>1 DEF Origins, HeldCodes
    <3> QED
      BY <1>2, <3>3, <3>4, <3>5 DEF Origins, HeldCodes
  <2>5. CASE req[r].op = "refresh"
    <3>1. /\ req[r].token \in Tokens \ {t} /\ Exists(req[r].token)
          /\ tok'[t].family = tok[req[r].token].family
          /\ tok'[t].origin = tok[req[r].token].origin
      BY <2>1, <2>5 DEF Exists
    <3>2. CodeStartsOneFamily'
      BY <2>1, <3>1 DEF Origins, CodeStartsOneFamily, Exists
    <3>3. \A s \in Requests : Spent(s)' /\ req'[s].op = "code" =>
             \A u \in Tokens : tok'[u].origin # req'[s].code
      BY <2>1, <2>3, <3>1 DEF Origins, HeldCodes
    <3>4. \A u \in Tokens : tok'[u].origin # NoCode => code'[tok'[u].origin].status = "used"
      BY <2>1, <2>2, <3>1 DEF Origins, HeldCodes
    <3> QED
      BY <1>2, <3>2, <3>3, <3>4 DEF Origins, HeldCodes
  <2> QED
    BY <2>1, <2>4, <2>5
<1> QED
  BY <1>3, <1>4, RowsKept

\* One authorization code starts one family, however many requests redeem it.
THEOREM OneFamilyPerCode == Spec => []CodeStartsOneFamily
<1>1. Init => Shape /\ Origins
  BY InitShape, InitOrigins
<1>2. Shape /\ Origins /\ [Next]_vars => (Shape /\ Origins)'
  BY NextShape, NextOrigins
<1>3. Origins => CodeStartsOneFamily
  BY DEF Origins
<1> QED
  BY <1>1, <1>2, <1>3, PTL DEF Spec

----------------------------------------------------------------------------
(* What is over stays over *)

\* A hashed row keeps its family and what it was issued with.
LEMMA HashedRowStays ==
  ASSUME Shape, [Next]_vars, NEW t \in Tokens, Exists(t), ~tok[t].raw
  PROVE  Kept(t) /\ Exists(t)'
<1>1. CASE \E u \in Tokens : Hashed(u)
  <2>1. tok'[t] = tok[t]
    BY <1>1 DEF Hashed
  <2> QED
    BY <2>1 DEF Kept, Exists, Live
<1>2. ASSUME NEW r \in Requests, IssueToken(r) PROVE Kept(t) /\ Exists(t)'
  <2>1. tok'[t] = tok[t]
    BY <1>2, IssueTokenWrites
  <2> QED
    BY <2>1 DEF Kept, Exists, Live
<1>3. CASE \A u \in Tokens : Kept(u)
  BY <1>3 DEF Kept
<1> QED
  BY <1>1, <1>2, <1>3, RowsKept

\* A family that is there gets a new row from a request that rotates it only.
LEMMA NewMember ==
  ASSUME Shape, [Next]_vars, NEW f \in Tokens, NEW t \in Tokens, InFamily(t, f)'
  PROVE  \/ InFamily(t, f) /\ Kept(t)
         \/ \A u \in Tokens : ~InFamily(u, f)
         \/ \E r \in Requests : IssueToken(r) /\ Rotating(r, f)
<1>0. Exists(t)' /\ tok'[t].family = f
  BY DEF InFamily
<1>1. CASE Kept(t)
  BY <1>0, <1>1 DEF Kept, InFamily
<1>2. ASSUME NEW u \in Tokens, Hashed(u), ~Kept(t)
      PROVE  \A v \in Tokens : ~InFamily(v, f)
  <2>1. t = u
    BY <1>2 DEF Hashed, Kept, Exists, Live
  <2> QED
    BY <1>0, <1>2, <2>1 DEF Hashed, InFamily
<1>3. ASSUME NEW r \in Requests, IssueToken(r), ~Kept(t)
      PROVE  (\A v \in Tokens : ~InFamily(v, f)) \/ Rotating(r, f)
  <2>1. PICK n \in Tokens :
          /\ ~Exists(n)
          /\ \A u \in Tokens \ {n} : tok'[u] = tok[u] /\ tok[u].family # n
          /\ \/ req[r].op = "code" /\ tok'[n].family = n
             \/ req[r].op = "refresh" /\ tok'[n].family = tok[req[r].token].family
    BY <1>3, IssueTokenWrites
  <2>2. t = n
    BY <1>3, <2>1 DEF Kept, Exists, Live
  <2>3. Spent(r)
    BY <1>3 DEF IssueToken, Spent
  <2> QED
    BY <1>0, <2>1, <2>2, <2>3 DEF InFamily, Rotating
<1> QED
  BY <1>1, <1>2, <1>3, RowsKept

\* A request that rotates a family after a step did so before, or has just
\* spent its usable token.
LEMMA RotatingBefore ==
  ASSUME Shape, [Next]_vars, NEW f \in Tokens, NEW s \in Requests, Rotating(s, f)'
  PROVE  Rotating(s, f) \/ \E t \in Tokens : InFamily(t, f) /\ Live(t)
<1>0. Spent(s)' /\ req'[s].op = "refresh" /\ tok'[req'[s].token].family = f
  BY DEF Rotating
<1>1. CASE Spent(s) /\ req'[s].op = req[s].op /\ req'[s].token = req[s].token
  <2>1. req[s].token \in Tokens /\ Exists(req[s].token) /\ ~tok[req[s].token].raw
    BY <1>0, <1>1 DEF Spent, Shape, Fits, Exists
  <2>2. tok'[req[s].token].family = tok[req[s].token].family
    BY <2>1, HashedRowStays DEF Kept
  <2> QED
    BY <1>0, <1>1, <2>2 DEF Rotating
<1>2. CASE RotateToken(s) /\ Live(req[s].token) /\ req'[s] = req[s] /\ req[s].token \in Tokens
  <2>1. tok'[req[s].token].family = tok[req[s].token].family
    BY <1>2, RotateTokenWrites DEF Kept
  <2> QED
    BY <1>0, <1>2, <2>1 DEF InFamily, Live, Exists
<1> QED
  BY <1>0, <1>1, <1>2, HeldBefore

LEMMA FamilyStaysThere ==
  ASSUME Shape, [Next]_vars, NEW f \in Tokens, NEW t \in Tokens, InFamily(t, f)
  PROVE  InFamily(t, f)'
<1>1. ~tok[t].raw
  BY ConstantsAssumption DEF Shape, Rows, InFamily
<1>2. Kept(t) /\ Exists(t)'
  BY <1>1, HashedRowStays DEF InFamily
<1> QED
  BY <1>2 DEF InFamily, Kept

LEMMA OverStep ==
  ASSUME Shape, [Next]_vars, NEW f \in Tokens, Over(f)
  PROVE  Over(f)'
<1>1. \E t \in Tokens : InFamily(t, f)'
  BY FamilyStaysThere DEF Over
<1>2. ASSUME NEW t \in Tokens, InFamily(t, f)', Live(t)' PROVE FALSE
  BY <1>2, NewMember DEF Over, Kept
<1>3. ASSUME NEW s \in Requests, Rotating(s, f)' PROVE FALSE
  BY <1>3, RotatingBefore DEF Over
<1> QED
  BY <1>1, <1>2, <1>3 DEF Over

\* A family without a usable token or a rotation under way is never revived,
\* by no request and in no order of the statements of the others.
THEOREM OverStays == Spec => OverStaysOver
<1>1. Shape /\ [Next]_vars => \A f \in Tokens : Over(f) => Over(f)'
  BY OverStep
<1> QED
  BY <1>1, ShapeInvariant, PTL DEF Spec, OverStaysOver

----------------------------------------------------------------------------
(* A sign-out everywhere cuts a family off *)

\* The cutoff is never ahead of the clock, and so only moves forward.
PastCutoff == validAfter <= clock

LEMMA NextCutoff ==
  ASSUME Shape, PastCutoff, [Next]_vars
  PROVE  PastCutoff' /\ validAfter <= validAfter'
<1>1. clock \in Nat /\ validAfter \in Nat
  BY DEF Shape, TypeOK
<1>2. CASE Account \/ UNCHANGED vars
  BY <1>1, <1>2 DEF PastCutoff, Account, Tick, SetBanned, EndEverySession, ChangeCertificates,
     IssueCode, vars
<1>3. ASSUME NEW r \in Requests, Arrive(r) PROVE UNCHANGED <<clock, validAfter>>
  BY <1>3 DEF Arrive, ExchangeCode, PresentToken, EndApp, account
<1>4. ASSUME NEW r \in Requests, Handle(r) PROVE UNCHANGED <<clock, validAfter>>
  BY <1>4 DEF Handle, BurnCode, TakeCode, FindToken, FindRaw, HashRaw, RotateToken, EndFamily,
     WriteAudit, ReadUser, IssueToken, Fail, account
<1> QED
  BY <1>1, <1>2, <1>3, <1>4 DEF Next, PastCutoff

\* A request about to issue was so before, or has just read the account and
\* found the token it spent to be no older than the cutoff.
LEMMA IssueBefore ==
  ASSUME Shape, [Next]_vars, NEW s \in Requests, pc'[s] = "issue"
  PROVE  \/ pc[s] = "issue" /\ req'[s] = req[s]
         \/ /\ pc[s] = "user" /\ tok' = tok /\ validAfter' = validAfter
            /\ req'[s] = [req[s] EXCEPT !.session = EarnsSession(s)]
            /\ req[s].op = "refresh" => ~(tok[req[s].token].created < validAfter)
<1>1. CASE Account \/ UNCHANGED vars
  BY <1>1 DEF Account, Tick, SetBanned, EndEverySession, ChangeCertificates, IssueCode, vars
<1>2. ASSUME NEW r \in Requests, Arrive(r) PROVE pc[s] = "issue" /\ req'[s] = req[s]
  <2>1. PICK step \in PCs \ {"user", "issue"} : Goto(r, step)
    BY <1>2 DEF Arrive, ExchangeCode, PresentToken, EndApp, PCs
  <2>2. s # r
    BY <2>1 DEF Goto, Shape, TypeOK
  <2> QED
    BY <1>2, <2>1, <2>2 DEF Arrive, ExchangeCode, PresentToken, EndApp, Goto, Shape, TypeOK
<1>3. ASSUME NEW r \in Requests, Handle(r), r # s PROVE pc[s] = "issue" /\ req'[s] = req[s]
  BY <1>3 DEF Handle, BurnCode, TakeCode, FindToken, FindRaw, HashRaw, RotateToken, EndFamily,
     WriteAudit, ReadUser, IssueToken, Fail, Goto, Finish, Shape, TypeOK
<1>4. CASE Handle(s)
  <2>1. ~Finish(s)
    BY DEF Finish, Goto, Shape, TypeOK
  <2>2. ReadUser(s)
    BY <1>4, <2>1 DEF Handle, BurnCode, TakeCode, FindToken, FindRaw, HashRaw, RotateToken,
       EndFamily, WriteAudit, IssueToken, Fail, Goto, Shape, TypeOK
  <2>3. pc[s] = "user" /\ req' = [req EXCEPT ![s].session = EarnsSession(s)]
    BY <2>1, <2>2 DEF ReadUser
  <2>4. req'[s] = [req[s] EXCEPT !.session = EarnsSession(s)]
    BY <2>3 DEF Shape, TypeOK
  <2>5. req[s].op = "refresh" => ~(tok[req[s].token].created < validAfter)
    BY <2>1, <2>2 DEF ReadUser
  <2>6. tok' = tok /\ validAfter' = validAfter
    BY <2>2 DEF ReadUser, account
  <2> QED
    BY <2>3, <2>4, <2>5, <2>6
<1> QED
  BY <1>1, <1>2, <1>3, <1>4 DEF Next

LEMMA CutOffStep ==
  ASSUME Shape, PastCutoff, [Next]_vars, NEW f \in Tokens, CutOff(f)
  PROVE  CutOff(f)'
<1>1. \E t \in Tokens : InFamily(t, f)'
  BY FamilyStaysThere DEF CutOff
<1>2. ASSUME NEW t \in Tokens, InFamily(t, f)' PROVE tok'[t].created < validAfter'
  <2>1. ~\E r \in Requests : IssueToken(r) /\ Rotating(r, f)
    BY DEF CutOff, IssueToken
  <2>2. InFamily(t, f) /\ Kept(t)
    BY <1>2, <2>1, NewMember DEF CutOff
  <2>3. tok'[t].created = tok[t].created /\ tok[t].created < validAfter
    BY <2>2 DEF Kept, CutOff
  <2>4. tok[t].created \in Nat /\ validAfter \in Nat /\ validAfter' \in Nat
    BY NextShape DEF Shape, TypeOK, TokenRow
  <2> QED
    BY <2>3, <2>4, NextCutoff
<1>3. ASSUME NEW s \in Requests, pc'[s] = "issue", Rotating(s, f)' PROVE FALSE
  <2>0. req'[s].op = "refresh" /\ tok'[req'[s].token].family = f
    BY <1>3 DEF Rotating
  <2>1. /\ Spent(s) /\ req[s].op = "refresh" /\ req'[s].token = req[s].token
        /\ pc[s] # "issue" => ~(tok[req[s].token].created < validAfter)
    <3>1. CASE pc[s] = "issue" /\ req'[s] = req[s]
      BY <2>0, <3>1 DEF Spent
    <3>2. CASE /\ pc[s] = "user" /\ req'[s] = [req[s] EXCEPT !.session = EarnsSession(s)]
               /\ req[s].op = "refresh" => ~(tok[req[s].token].created < validAfter)
      <4>1. req[s] \in Job
        BY DEF Shape, TypeOK
      <4>2. req'[s].op = req[s].op /\ req'[s].token = req[s].token
        BY <3>2, <4>1 DEF Job
      <4> QED
        BY <2>0, <3>2, <4>2 DEF Spent
    <3> QED
      BY <1>3, <3>1, <3>2, IssueBefore
  <2>2. req[s].token \in Tokens /\ Exists(req[s].token) /\ ~tok[req[s].token].raw
    BY <2>1 DEF Spent, Shape, Fits, Exists
  <2>3. tok[req[s].token].family = f
    BY <2>0, <2>1, <2>2, HashedRowStays DEF Kept
  <2>4. CASE pc[s] = "issue"
    BY <2>1, <2>3, <2>4 DEF CutOff, Rotating
  <2>5. CASE pc[s] # "issue"
    <3>1. tok[req[s].token].created < validAfter
      BY <2>2, <2>3 DEF CutOff, InFamily
    <3> QED
      BY <2>1, <2>5, <3>1
  <2> QED
    BY <2>4, <2>5
<1> QED
  BY <1>1, <1>2, <1>3 DEF CutOff

\* A family older than a sign-out-everywhere never issues again once the
\* requests already past that check have ended, though no row was touched.
THEOREM CutOffStays == Spec => CutOffStaysCutOff
<1>1. Init => Shape /\ PastCutoff
  <2>1. Init => PastCutoff
    <3>1. Init => clock = 0 /\ validAfter = 0
      BY DEF Init
    <3> QED
      BY <3>1 DEF PastCutoff
  <2> QED
    BY <2>1, InitShape
<1>2. Shape /\ PastCutoff /\ [Next]_vars => (Shape /\ PastCutoff)'
  BY NextShape, NextCutoff
<1>3. Shape /\ PastCutoff /\ [Next]_vars => \A f \in Tokens : CutOff(f) => CutOff(f)'
  BY CutOffStep
<1> QED
  BY <1>1, <1>2, <1>3, PTL DEF Spec, CutOffStaysCutOff

----------------------------------------------------------------------------
(* Only a replay ends a family for reuse *)

LEMMA ReuseStep ==
  ASSUME Shape, [Next]_vars, NEW t \in Tokens, Live(t),
         tok'[t].status = "revoked", tok'[t].reason = "reuse"
  PROVE  \E r \in Requests :
            /\ req[r].op = "refresh"
            /\ tok[req[r].token].family = tok[t].family
            /\ req[r].token # t
            /\ tok[req[r].token].status = "revoked"
            /\ PastGrace(req[r].now, tok[req[r].token])
<1>0. tok'[t] # tok[t] /\ tok[t] \in TokenRow /\ tok \in [Tokens -> TokenRow]
  BY DEF Live, Shape, TypeOK
<1>1. ASSUME NEW r \in Requests, HashRaw(r) PROVE FALSE
  <2>1. req[r].token \in Tokens
    BY <1>1 DEF HashRaw, Shape, Fits
  <2>2. tok'[t].status = tok[t].status
    BY <1>0, <1>1, <2>1 DEF HashRaw, TokenRow
  <2> QED
    BY <2>2 DEF Live
<1>2. ASSUME NEW r \in Requests, RotateToken(r) PROVE FALSE
  BY <1>0, <1>2, RotateTokenWrites
<1>3. ASSUME NEW r \in Requests, IssueToken(r) PROVE FALSE
  BY <1>0, <1>3, IssueTokenWrites DEF Exists, Live
<1>4. PICK r \in Requests : EndFamily(r)
  BY <1>0, <1>1, <1>2, <1>3, NextWrites
<1>5. tok[t].family = tok[req[r].token].family /\ EndReason(req[r].op) = "reuse"
  BY <1>0, <1>4 DEF EndFamily, RevokedFamily, TokenRow
<1>6. req[r].op = "refresh"
  BY <1>4, <1>5 DEF EndFamily, EndReason, Shape, Fits
<1>7. tok[req[r].token].status = "revoked" /\ PastGrace(req[r].now, tok[req[r].token])
  BY <1>4, <1>6 DEF EndFamily, Shape, Fits
<1> QED
  BY <1>5, <1>6, <1>7 DEF Live

\* A family is ended for reuse only when a token of it came back that had been
\* rotated away at least Grace seconds before, or ended with its family.
THEOREM ReplayOnly == Spec => OnlyReplayEndsFamily
<1>1. Shape /\ [Next]_vars =>
        \A t \in Tokens :
          (Live(t) /\ tok[t].status' = "revoked" /\ tok[t].reason' = "reuse")
          => \E r \in Requests :
                /\ req[r].op = "refresh"
                /\ tok[req[r].token].family = tok[t].family
                /\ req[r].token # t
                /\ tok[req[r].token].status = "revoked"
                /\ tok[req[r].token].reason = "rotated"
                   => req[r].now >= tok[req[r].token].revokedAt + Grace
  BY ReuseStep DEF PastGrace
<1> QED
  BY <1>1, ShapeInvariant, PTL DEF Spec, OnlyReplayEndsFamily

----------------------------------------------------------------------------
(* A session once lost is never regained *)

\* A request about to issue a person's session rotates a token that had one.
SessionHandover ==
    \A r \in Requests :
        (pc[r] = "issue" /\ req[r].op = "refresh" /\ req[r].session)
        => tok[req[r].token].session

LEMMA NextSessionHandover ==
  ASSUME Shape, SessionHandover, [Next]_vars
  PROVE  SessionHandover'
<1> SUFFICES ASSUME NEW s \in Requests, pc'[s] = "issue", req'[s].op = "refresh", req'[s].session
             PROVE  tok'[req'[s].token].session
  BY DEF SessionHandover
<1>0. req[s] \in Job
  BY DEF Shape, TypeOK
<1>1. /\ Spent(s) /\ req[s].op = "refresh" /\ req'[s].token = req[s].token
      /\ tok[req[s].token].session
  <2>1. CASE pc[s] = "issue" /\ req'[s] = req[s]
    BY <2>1 DEF SessionHandover, Spent
  <2>2. CASE pc[s] = "user" /\ req'[s] = [req[s] EXCEPT !.session = EarnsSession(s)]
    <3>1. req[s].op = "refresh" /\ req'[s].token = req[s].token /\ EarnsSession(s)
      BY <1>0, <2>2 DEF Job
    <3> QED
      BY <2>2, <3>1 DEF EarnsSession, Spent
  <2> QED
    BY <2>1, <2>2, IssueBefore
<1>2. req[s].token \in Tokens /\ Exists(req[s].token) /\ ~tok[req[s].token].raw
  BY <1>1 DEF Spent, Shape, Fits, Exists
<1> QED
  BY <1>1, <1>2, HashedRowStays DEF Kept

LEMMA NextSessionLost ==
  ASSUME Shape, Families, SessionHandover, SessionNeverRegained, [Next]_vars
  PROVE  SessionNeverRegained'
<1>1. CASE \A t \in Tokens : Kept(t)
  BY <1>1 DEF SessionNeverRegained, Kept
<1>2. ASSUME NEW u \in Tokens, Hashed(u) PROVE SessionNeverRegained'
  BY <1>2 DEF SessionNeverRegained, Hashed, Exists
<1>3. ASSUME NEW r \in Requests, IssueToken(r) PROVE SessionNeverRegained'
  <2>1. PICK n \in Tokens :
          /\ ~Exists(n)
          /\ \A u \in Tokens \ {n} : tok'[u] = tok[u] /\ tok[u].family # n
          /\ tok'[n] = NextRow(r, n)
          /\ \/ req[r].op = "code" /\ tok'[n].family = n
             \/ /\ req[r].op = "refresh" /\ req[r].token \in Tokens
                /\ tok[req[r].token].status = "revoked" /\ ~tok[req[r].token].raw
                /\ tok'[n].family = tok[req[r].token].family
                /\ tok'[n].generation = tok[req[r].token].generation + 1
    BY <1>3, IssueTokenWrites
  <2>2. CASE req[r].op = "code"
    BY <2>1, <2>2 DEF SessionNeverRegained, Exists
  <2>3. CASE req[r].op = "refresh"
    <3> PICK p \in Tokens : p = req[r].token
      BY <2>1, <2>3
    <3>1. /\ p # n /\ Exists(p) /\ tok'[n].family = tok[p].family
          /\ tok'[n].generation = tok[p].generation + 1
      BY <2>1, <2>3 DEF Exists
    <3>2. tok'[n].session => tok[p].session
      <4>1. tok'[n].session = req[r].session
        BY <2>1 DEF NextRow, NoRow
      <4> QED
        BY <1>3, <2>3, <4>1 DEF SessionHandover, IssueToken
    <3>3. \A u \in Tokens : Exists(u) /\ tok[u].family = tok[p].family
             => tok[u].generation <= tok[p].generation
      BY <1>3, <2>3 DEF Families, Handover, InFamily, IssueToken, Spent
    <3>4. \A u \in Tokens : tok[u].generation \in Nat
      BY DEF Shape, TypeOK, TokenRow
    <3>5. ASSUME NEW a \in Tokens \ {n}, Exists(a), tok[a].family = tok[p].family,
                 tok[p].family # NoToken, tok[p].session
          PROVE  tok[a].session
      <4>1. CASE tok[a].generation = tok[p].generation
        <5>1. a = p
          BY <3>1, <3>5, <4>1 DEF Families, LiveIsNewest
        <5> QED
          BY <3>5, <5>1
      <4>2. CASE tok[a].generation < tok[p].generation
        BY <3>1, <3>5, <4>2 DEF SessionNeverRegained
      <4> QED
        BY <3>3, <3>4, <3>5, <4>1, <4>2
    <3>6. SUFFICES ASSUME NEW a \in Tokens, NEW b \in Tokens, Exists(a)', Exists(b)',
                          tok'[a].family = tok'[b].family, tok'[a].family # NoToken,
                          tok'[a].generation < tok'[b].generation, tok'[b].session
                   PROVE  tok'[a].session
      BY DEF SessionNeverRegained
    <3>7. CASE a # n /\ b # n
      BY <2>1, <3>6, <3>7 DEF SessionNeverRegained, Exists
    <3>8. CASE b = n
      <4>1. a # n
        BY <3>1, <3>4, <3>6, <3>8
      <4> QED
        BY <2>1, <3>1, <3>2, <3>5, <3>6, <3>8, <4>1 DEF Exists
    <3>9. CASE a = n /\ b # n
      <4>1. tok[b].generation <= tok[p].generation
        BY <2>1, <3>1, <3>3, <3>6, <3>9 DEF Exists
      <4>2. tok[p].generation + 1 < tok[b].generation
        BY <2>1, <3>1, <3>6, <3>9
      <4> QED
        BY <3>4, <4>1, <4>2
    <3> QED
      BY <3>7, <3>8, <3>9
  <2> QED
    BY <2>1, <2>2, <2>3
<1> QED
  BY <1>1, <1>2, <1>3, RowsKept

\* A family that came in as a read-only sign-in, or fell back to one, is never
\* a person's session again.
THEOREM SessionStaysLost == Spec => []SessionNeverRegained
<1> DEFINE Inv == Shape /\ Families /\ SessionHandover /\ SessionNeverRegained
<1>1. Init => Inv
  <2>1. Init => SessionHandover
    BY DEF Init, SessionHandover
  <2>2. Init => SessionNeverRegained
    <3> SUFFICES ASSUME Init PROVE SessionNeverRegained
      OBVIOUS
    <3>1. PICK client \in [LegacyTokens -> Clients] :
             tok = [u \in Tokens |->
                      IF u \in LegacyTokens
                      THEN [NoRow EXCEPT !.status = "live", !.raw = TRUE,
                                         !.client = client[u], !.expires = TokenTTL]
                      ELSE NoRow]
      BY DEF Init
    <3>2. \A t \in Tokens : tok[t].session = FALSE
      BY <3>1 DEF NoRow
    <3> QED
      BY <3>2 DEF SessionNeverRegained
  <2> QED
    BY <2>1, <2>2, InitShape, InitFamilies
<1>2. Inv /\ [Next]_vars => Inv'
  BY NextShape, NextFamilies, NextSessionHandover, NextSessionLost
<1>3. Inv => SessionNeverRegained
  OBVIOUS
<1> QED
  BY <1>1, <1>2, <1>3, PTL DEF Spec

----------------------------------------------------------------------------
(* The handlers implement the promise *)

\* What FamilyOf is, case by case: the choices in it are of the only one there is.
Whereabouts ==
    \A f \in Tokens :
        /\ \A t \in Tokens : InFamily(t, f) /\ Live(t) => FamilyOf(f) = HeldBy("token", t)
        /\ \A r \in Requests : Rotating(r, f) => FamilyOf(f) = HeldBy("request", req[r].token)
        /\ (/\ \A t \in Tokens : ~(InFamily(t, f) /\ Live(t))
            /\ \A r \in Requests : ~Rotating(r, f))
           => FamilyOf(f) = IF \E t \in Tokens : InFamily(t, f) THEN F!Ended ELSE F!Absent

LEMMA WhereaboutsHold == Families => Whereabouts
<1> SUFFICES ASSUME Families, NEW f \in Tokens
             PROVE  /\ \A t \in Tokens : InFamily(t, f) /\ Live(t) => FamilyOf(f) = HeldBy("token", t)
                    /\ \A r \in Requests : Rotating(r, f) => FamilyOf(f) = HeldBy("request", req[r].token)
                    /\ (/\ \A t \in Tokens : ~(InFamily(t, f) /\ Live(t))
                        /\ \A r \in Requests : ~Rotating(r, f))
                       => FamilyOf(f) = IF \E t \in Tokens : InFamily(t, f) THEN F!Ended ELSE F!Absent
  BY DEF Whereabouts
<1>1. ASSUME NEW t \in Tokens, InFamily(t, f), Live(t) PROVE FamilyOf(f) = HeldBy("token", t)
  <2>1. \A u \in Usable(f) : u = t
    BY <1>1, ConstantsAssumption DEF Usable, Families, OneLivePerFamily, InFamily
  <2>2. t \in Usable(f)
    BY <1>1 DEF Usable
  <2>3. (CHOOSE u \in Usable(f) : TRUE) = t
    BY <2>1, <2>2
  <2> QED
    BY <2>2, <2>3 DEF FamilyOf
<1>2. ASSUME NEW r \in Requests, Rotating(r, f)
      PROVE  FamilyOf(f) = HeldBy("request", req[r].token)
  <2>1. Usable(f) = {}
    BY <1>2 DEF Usable, Families, Handover, Rotating
  <2>2. \A s \in Rotators(f) : s = r
    BY <1>2 DEF Rotators, Families, OneHandover, Rotating
  <2>3. r \in Rotators(f)
    BY <1>2 DEF Rotators
  <2>4. (CHOOSE s \in Rotators(f) : TRUE) = r
    BY <2>2, <2>3
  <2> QED
    BY <2>1, <2>3, <2>4 DEF FamilyOf
<1>3. ASSUME \A t \in Tokens : ~(InFamily(t, f) /\ Live(t)), \A r \in Requests : ~Rotating(r, f)
      PROVE  FamilyOf(f) = IF \E t \in Tokens : InFamily(t, f) THEN F!Ended ELSE F!Absent
  BY <1>3 DEF FamilyOf, Usable, Rotators, F!Ended, F!Absent
<1> QED
  BY <1>1, <1>2, <1>3

LEMMA WhereaboutsStay == Shape /\ Families /\ [Next]_vars => Whereabouts /\ Whereabouts'
<1>1. Families' => Whereabouts'
  BY WhereaboutsHold, PTL
<1> QED
  BY <1>1, WhereaboutsHold, NextFamilies

\* A request's step leaves what the others hold alone.
LEMMA OthersRotate ==
  ASSUME Shape, [Next]_vars, NEW r \in Requests, Arrive(r) \/ Handle(r),
         NEW s \in Requests \ {r}, NEW f \in Tokens
  PROVE  req'[s] = req[s] /\ (Rotating(s, f)' <=> Rotating(s, f))
<1>1. pc'[s] = pc[s] /\ req'[s] = req[s]
  <2>1. CASE Arrive(r)
    BY <2>1 DEF Arrive, ExchangeCode, PresentToken, EndApp, Goto, Shape, TypeOK
  <2>2. CASE Handle(r)
    BY <2>2 DEF Handle, BurnCode, TakeCode, FindToken, FindRaw, HashRaw, RotateToken, EndFamily,
       WriteAudit, ReadUser, IssueToken, Fail, Goto, Finish, Shape, TypeOK
  <2> QED
    BY <2>1, <2>2
<1>2. Spent(s) /\ req[s].op = "refresh" => tok'[req[s].token].family = tok[req[s].token].family
  <2>1. ASSUME Spent(s), req[s].op = "refresh"
        PROVE  tok'[req[s].token].family = tok[req[s].token].family
    <3>1. req[s].token \in Tokens /\ Exists(req[s].token) /\ ~tok[req[s].token].raw
      BY <2>1 DEF Spent, Shape, Fits, Exists
    <3> QED
      BY <3>1, HashedRowStays DEF Kept
  <2> QED
    BY <2>1
<1> QED
  BY <1>1, <1>2 DEF Rotating, Spent

\* A family none of whose rows a step writes, and which no request takes or
\* lets go, is where it was.
LEMMA FamilyStays ==
  ASSUME Shape, Families, [Next]_vars, NEW f \in Tokens,
         \A t \in Tokens : InFamily(t, f)' <=> InFamily(t, f),
         \A t \in Tokens : InFamily(t, f) => /\ Live(t)' <=> Live(t)
                                             /\ tok'[t].generation = tok[t].generation
                                             /\ tok'[t].session = tok[t].session,
         \A s \in Requests : /\ Rotating(s, f)' <=> Rotating(s, f)
                             /\ Rotating(s, f) => req'[s].token = req[s].token
  PROVE  FamilyOf(f)' = FamilyOf(f)
<1>1. Whereabouts /\ Whereabouts'
  BY WhereaboutsStay
<1>2. ASSUME NEW t \in Tokens, InFamily(t, f), Live(t) PROVE FamilyOf(f)' = FamilyOf(f)
  <2>1. FamilyOf(f) = HeldBy("token", t) /\ FamilyOf(f)' = HeldBy("token", t)'
    BY <1>1, <1>2 DEF Whereabouts
  <2> QED
    BY <1>2, <2>1 DEF HeldBy
<1>3. ASSUME NEW s \in Requests, Rotating(s, f) PROVE FamilyOf(f)' = FamilyOf(f)
  <2>1. FamilyOf(f) = HeldBy("request", req[s].token) /\ FamilyOf(f)' = HeldBy("request", req[s].token)'
    BY <1>1, <1>3 DEF Whereabouts
  <2>2. req[s].token \in Tokens /\ InFamily(req[s].token, f)
    BY <1>3 DEF Rotating, Spent, Shape, Fits, InFamily, Exists
  <2> QED
    BY <1>3, <2>1, <2>2 DEF HeldBy
<1>4. ASSUME \A t \in Tokens : ~(InFamily(t, f) /\ Live(t)), \A s \in Requests : ~Rotating(s, f)
      PROVE  FamilyOf(f)' = FamilyOf(f)
  <2>1. /\ FamilyOf(f) = IF \E t \in Tokens : InFamily(t, f) THEN F!Ended ELSE F!Absent
        /\ FamilyOf(f)' = IF \E t \in Tokens : InFamily(t, f)' THEN F!Ended ELSE F!Absent
    BY <1>1, <1>4 DEF Whereabouts, F!Ended, F!Absent
  <2> QED
    BY <2>1
<1> QED
  BY <1>2, <1>3, <1>4

\* The abstract state.
Rights == [f \in Tokens |-> FamilyOf(f)]
Promise == <<Rights, StartedCodes>>

LEMMA StartedStays ==
  ASSUME \A t \in Tokens : (Exists(t)' <=> Exists(t)) /\ tok'[t].origin = tok[t].origin
  PROVE  UNCHANGED StartedCodes
BY DEF StartedCodes

LEMMA StutterStep ==
  ASSUME Shape, Families, [Next]_vars, tok' = tok,
         \A s \in Requests, f \in Tokens :
            /\ Rotating(s, f)' <=> Rotating(s, f)
            /\ Rotating(s, f) => req'[s].token = req[s].token
  PROVE  UNCHANGED Promise
<1>1. \A f \in Tokens : FamilyOf(f)' = FamilyOf(f)
  BY FamilyStays DEF InFamily, Exists, Live
<1>2. UNCHANGED StartedCodes
  BY StartedStays DEF Exists
<1> QED
  BY <1>1, <1>2 DEF Promise, Rights

\* A request that goes on, or arrives, and writes no token row.
LEMMA MoveStep ==
  ASSUME Shape, Families, [Next]_vars, NEW r \in Requests, Arrive(r) \/ Handle(r), tok' = tok,
         Spent(r)' /\ req'[r].op = "refresh" <=> Spent(r) /\ req[r].op = "refresh",
         Spent(r) => req'[r].token = req[r].token
  PROVE  UNCHANGED Promise
<1>1. ASSUME NEW s \in Requests, NEW f \in Tokens
      PROVE  /\ Rotating(s, f)' <=> Rotating(s, f)
             /\ Rotating(s, f) => req'[s].token = req[s].token
  <2>1. CASE s = r
    BY <2>1 DEF Rotating
  <2>2. CASE s # r
    BY <2>2, OthersRotate
  <2> QED
    BY <2>1, <2>2
<1> QED
  BY <1>1, StutterStep

LEMMA ArriveStep ==
  ASSUME Shape, Families, [Next]_vars, NEW r \in Requests, Arrive(r) PROVE UNCHANGED Promise
<1>1. tok' = tok /\ ~Spent(r)
  BY DEF Arrive, ExchangeCode, PresentToken, EndApp, Spent
<1>2. PICK step \in PCs \ {"user", "issue"} : Goto(r, step)
  BY DEF Arrive, ExchangeCode, PresentToken, EndApp, PCs
<1>3. ~Spent(r)'
  BY <1>2 DEF Goto, Spent, Shape, TypeOK
<1> QED
  BY <1>1, <1>3, MoveStep

\* A request that ends without a write gives up what it holds.
LEMMA GiveUpStep ==
  ASSUME Shape, Families, [Next]_vars, NEW r \in Requests, Handle(r), Finish(r), tok' = tok
  PROVE  UNCHANGED Promise \/ \E f \in Tokens : F!End(f)
<1>1. ~Spent(r)'
  BY DEF Finish, Goto, Spent, Shape, TypeOK
<1>2. CASE ~(Spent(r) /\ req[r].op = "refresh")
  <2>1. Spent(r) => req[r].op = "code"
    BY <1>2 DEF Spent, Shape, Fits
  <2>2. ASSUME NEW s \in Requests, NEW f \in Tokens
        PROVE  /\ Rotating(s, f)' <=> Rotating(s, f)
               /\ Rotating(s, f) => req'[s].token = req[s].token
    BY <1>1, <1>2, <2>2, OthersRotate DEF Rotating
  <2> QED
    BY <2>2, StutterStep
<1>3. CASE Spent(r) /\ req[r].op = "refresh"
  <2> PICK p \in Tokens : p = req[r].token
    BY <1>3 DEF Spent, Shape, Fits
  <2> PICK f \in Tokens : f = tok[p].family
    BY <1>3 DEF Spent, Shape, Fits, Rows, Exists
  <2>1. Rotating(r, f) /\ InFamily(p, f)
    BY <1>3 DEF Rotating, Spent, Shape, Fits, InFamily, Exists
  <2>2. Whereabouts /\ Whereabouts'
    BY WhereaboutsStay
  <2>3. FamilyOf(f) = HeldBy("request", p)
    BY <2>1, <2>2 DEF Whereabouts
  <2>4. FamilyOf(f)' = F!Ended
    <3>1. \A t \in Tokens : ~(InFamily(t, f)' /\ Live(t)')
      BY <2>1 DEF Families, Handover, Rotating, InFamily, Exists, Live
    <3>2. ASSUME NEW s \in Requests, Rotating(s, f)' PROVE FALSE
      <4>1. s # r
        BY <1>1, <3>2 DEF Rotating
      <4>2. Rotating(s, f)
        BY <3>2, <4>1, OthersRotate
      <4> QED
        BY <2>1, <4>1, <4>2 DEF Families, OneHandover, Rotating
    <3>3. InFamily(p, f)'
      BY <2>1 DEF InFamily, Exists
    <3>4. FamilyOf(f)' = IF \E t \in Tokens : InFamily(t, f)' THEN F!Ended ELSE F!Absent
      BY <2>2, <3>1, <3>2 DEF Whereabouts, F!Ended, F!Absent
    <3> QED
      BY <3>3, <3>4
  <2>5. ASSUME NEW g \in Tokens \ {f} PROVE FamilyOf(g)' = FamilyOf(g)
    <3>1. ASSUME NEW s \in Requests
          PROVE  /\ Rotating(s, g)' <=> Rotating(s, g)
                 /\ Rotating(s, g) => req'[s].token = req[s].token
      BY <1>1, <3>1, OthersRotate DEF Rotating
    <3> QED
      BY <3>1, FamilyStays DEF InFamily, Exists, Live
  <2>6. UNCHANGED StartedCodes
    BY StartedStays DEF Exists
  <2>7. Rights' = [Rights EXCEPT ![f] = F!Ended]
    BY <2>4, <2>5 DEF Rights
  <2>8. Rights[f].at = "request"
    BY <2>3 DEF Rights, HeldBy
  <2> QED
    BY <2>6, <2>7, <2>8 DEF F!End, F!Ended, Rights
<1> QED
  BY <1>2, <1>3

\* The handlers that read, and those that spend a code.
LEMMA ReadStep ==
  ASSUME Shape, Families, [Next]_vars, NEW r \in Requests,
         BurnCode(r) \/ TakeCode(r) \/ FindToken(r) \/ FindRaw(r) \/ WriteAudit(r)
         \/ ReadUser(r) \/ Fail(r)
  PROVE  UNCHANGED Promise \/ \E f \in Tokens : F!End(f)
<1>1. tok' = tok /\ Handle(r)
  BY DEF Handle, BurnCode, TakeCode, FindToken, FindRaw, WriteAudit, ReadUser, Fail
<1>2. CASE Finish(r)
  BY <1>1, <1>2, GiveUpStep
<1>3. CASE TakeCode(r) /\ ~Finish(r)
  <2>1. req[r].op = "code" /\ req' = req /\ ~Spent(r)
    BY <1>3 DEF TakeCode, Shape, Fits, Spent
  <2> QED
    BY <1>1, <2>1, MoveStep
<1>4. CASE (FindToken(r) \/ FindRaw(r)) /\ ~Finish(r)
  <2>1. ~Spent(r) /\ ~Spent(r)'
    BY <1>4 DEF FindToken, FindRaw, Goto, Shape, TypeOK, Spent
  <2> QED
    BY <1>1, <2>1, MoveStep
<1>5. CASE ReadUser(r) /\ ~Finish(r)
  <2>1. pc' = [pc EXCEPT ![r] = "issue"] /\ req' = [req EXCEPT ![r].session = EarnsSession(r)]
        /\ pc[r] = "user"
    BY <1>5 DEF ReadUser, Goto
  <2>2. Spent(r) /\ Spent(r)' /\ req'[r].op = req[r].op /\ req'[r].token = req[r].token
    BY <2>1 DEF Shape, TypeOK, Job, Spent
  <2> QED
    BY <1>1, <2>2, MoveStep
<1> QED
  BY <1>2, <1>3, <1>4, <1>5 DEF BurnCode, WriteAudit, Fail

\* A raw row is hashed: its family is there, with its only token.
LEMMA HashRawStep ==
  ASSUME Shape, Families, [Next]_vars, NEW r \in Requests, HashRaw(r)
  PROVE  UNCHANGED Promise \/ \E f \in Tokens : F!Adopt(f)
<1>1. Handle(r) /\ ~Spent(r) /\ ~Spent(r)'
  BY DEF Handle, HashRaw, Goto, Spent, Shape, TypeOK
<1>2. CASE tok' = tok
  BY <1>1, <1>2, MoveStep
<1>3. CASE tok' # tok
  <2>1. PICK f \in Tokens : Hashed(f)
    BY <1>3, HashRawWrites
  <2>2. Whereabouts /\ Whereabouts'
    BY WhereaboutsStay
  <2>3. FamilyOf(f) = F!Absent
    <3>1. \A t \in Tokens : ~InFamily(t, f)
      BY <2>1 DEF Hashed, InFamily
    <3>2. \A s \in Requests : ~Rotating(s, f)
      BY <2>1 DEF Hashed, Rotating, Spent, Shape, Fits
    <3> QED
      BY <2>2, <3>1, <3>2 DEF Whereabouts, F!Absent
  <2>4. FamilyOf(f)' = F!Held("token", 0, FALSE)
    <3>1. InFamily(f, f)' /\ Live(f)'
      BY <2>1 DEF Hashed, InFamily, Exists, Live
    <3>2. tok'[f].session = FALSE
      BY <2>1, NextShape DEF Hashed, Shape, TypeOK, TokenRow
    <3>3. FamilyOf(f)' = HeldBy("token", f)'
      BY <2>2, <3>1 DEF Whereabouts
    <3> QED
      BY <2>1, <3>2, <3>3 DEF HeldBy, F!Held, Hashed
  <2>5. ASSUME NEW g \in Tokens \ {f} PROVE FamilyOf(g)' = FamilyOf(g)
    <3>1. \A t \in Tokens : InFamily(t, g)' <=> InFamily(t, g)
      BY <2>1, ConstantsAssumption DEF Hashed, InFamily, Exists
    <3>2. \A t \in Tokens : InFamily(t, g) => tok'[t] = tok[t]
      BY <2>1, ConstantsAssumption DEF Hashed, InFamily
    <3>3. ASSUME NEW s \in Requests
          PROVE  /\ Rotating(s, g)' <=> Rotating(s, g)
                 /\ Rotating(s, g) => req'[s].token = req[s].token
      BY <1>1, <3>3, OthersRotate DEF Rotating
    <3> QED
      BY <3>1, <3>2, <3>3, FamilyStays DEF Live
  <2>6. UNCHANGED StartedCodes
    <3>1. \A t \in Tokens : (Exists(t)' <=> Exists(t)) /\ tok'[t].origin = tok[t].origin
      BY <2>1 DEF Hashed, Exists
    <3> QED
      BY <3>1, StartedStays
  <2>7. Rights' = [Rights EXCEPT ![f] = F!Held("token", 0, FALSE)]
    BY <2>4, <2>5 DEF Rights
  <2>8. Rights[f] = F!Absent
    BY <2>3 DEF Rights
  <2> QED
    BY <2>6, <2>7, <2>8 DEF F!Adopt, Rights
<1> QED
  BY <1>2, <1>3

\* The usable token is spent: the request holds the right now.
LEMMA RotateTokenStep ==
  ASSUME Shape, Families, [Next]_vars, NEW r \in Requests, RotateToken(r)
  PROVE  UNCHANGED Promise \/ \E f \in Tokens : F!Spend(f) \/ F!End(f)
<1>1. Handle(r) /\ pc[r] = "rotate" /\ ~Spent(r)
  BY DEF Handle, RotateToken, Spent
<1> PICK t \in Tokens : t = req[r].token
  BY DEF RotateToken, Shape, Fits
<1> PICK f \in Tokens : f = tok[t].family
  BY DEF RotateToken, Shape, Fits, Rows
<1>2. CASE Finish(r) /\ tok' = tok
  BY <1>1, <1>2, GiveUpStep
<1>3. CASE /\ Live(t) /\ Goto(r, "user") /\ req' = req
           /\ tok' = [tok EXCEPT ![t].status = "revoked", ![t].reason = "rotated",
                                 ![t].revokedAt = clock]
  <2>1. \A u \in Tokens : /\ Kept(u)
                          /\ u # t => tok'[u] = tok[u]
    BY <1>3, RotateTokenWrites DEF Shape, TypeOK
  <2>2. Spent(r)' /\ req'[r].op = "refresh" /\ req'[r].token = t
    BY <1>1, <1>3 DEF Goto, Spent, Shape, TypeOK, Fits
  <2>3. Rotating(r, f)' /\ InFamily(t, f)
    BY <1>3, <2>1, <2>2 DEF Rotating, InFamily, Kept, Exists, Live
  <2>4. Whereabouts /\ Whereabouts'
    BY WhereaboutsStay
  <2>5. FamilyOf(f) = HeldBy("token", t) /\ FamilyOf(f)' = HeldBy("request", t)
    <3>1. FamilyOf(f) = HeldBy("token", t)
      BY <1>3, <2>3, <2>4 DEF Whereabouts
    <3>2. FamilyOf(f)' = HeldBy("request", req[r].token)'
      BY <2>3, <2>4 DEF Whereabouts
    <3> QED
      BY <2>1, <2>2, <3>1, <3>2 DEF HeldBy, Kept
  <2>6. ASSUME NEW g \in Tokens \ {f} PROVE FamilyOf(g)' = FamilyOf(g)
    <3>1. \A u \in Tokens : InFamily(u, g)' <=> InFamily(u, g)
      BY <2>1 DEF Kept, InFamily
    <3>2. \A u \in Tokens : InFamily(u, g) => tok'[u] = tok[u]
      BY <2>1 DEF InFamily
    <3>3. ~Rotating(r, g) /\ ~Rotating(r, g)'
      BY <1>1, <2>1, <2>2 DEF Rotating, Kept
    <3>4. ASSUME NEW s \in Requests
          PROVE  /\ Rotating(s, g)' <=> Rotating(s, g)
                 /\ Rotating(s, g) => req'[s].token = req[s].token
      BY <1>1, <3>3, <3>4, OthersRotate
    <3> QED
      BY <3>1, <3>2, <3>4, FamilyStays DEF Live
  <2>7. UNCHANGED StartedCodes
    BY <2>1, StartedStays DEF Kept
  <2>8. Rights' = [Rights EXCEPT ![f].at = "request"] /\ Rights[f].at = "token"
    BY <2>5, <2>6 DEF Rights, HeldBy
  <2> QED
    BY <2>7, <2>8 DEF F!Spend, Rights
<1> QED
  BY <1>2, <1>3 DEF RotateToken

\* A family is ended: if its token was usable, the right is lost; a request
\* that has spent the token keeps it (EndIsFinal is the claim this breaks).
LEMMA EndFamilyStep ==
  ASSUME Shape, Families, [Next]_vars, NEW r \in Requests, EndFamily(r)
  PROVE  UNCHANGED Promise \/ \E f \in Tokens : F!End(f)
<1>1. Handle(r) /\ pc[r] = "end_family" /\ ~Spent(r)
  BY DEF Handle, EndFamily, Spent
<1> PICK p \in Tokens : p = req[r].token
  BY <1>1 DEF Shape, Fits
<1> PICK f \in Tokens : f = tok[p].family
  BY <1>1 DEF Shape, Fits, Rows
<1>2. tok' = RevokedFamily(f, EndReason(req[r].op))
  BY DEF EndFamily
<1>3. \A t \in Tokens : /\ Kept(t)
                        /\ ~Live(t) \/ tok[t].family # f => tok'[t] = tok[t]
                        /\ tok[t].family = f => ~Live(t)'
  <2>1. ASSUME NEW t \in Tokens
        PROVE  /\ ~Live(t) \/ tok[t].family # f => tok'[t] = tok[t]
               /\ tok[t].family = f => ~Live(t)'
    BY <1>2 DEF RevokedFamily, Shape, TypeOK, TokenRow, Live
  <2> QED
    BY <2>1, EndFamilyWrites DEF Kept
<1>4. ~Spent(r)' /\ UNCHANGED StartedCodes
  BY <1>1, <1>3, EndFamilyWrites, StartedStays DEF Kept
<1>5. ASSUME NEW s \in Requests, NEW g \in Tokens
      PROVE  /\ Rotating(s, g)' <=> Rotating(s, g)
             /\ Rotating(s, g) => req'[s].token = req[s].token
  BY <1>1, <1>4, <1>5, OthersRotate DEF Rotating
<1>6. ASSUME NEW g \in Tokens, g # f \/ \A t \in Tokens : ~(InFamily(t, g) /\ Live(t))
      PROVE  FamilyOf(g)' = FamilyOf(g)
  <2>1. \A t \in Tokens : InFamily(t, g)' <=> InFamily(t, g)
    BY <1>3 DEF Kept, InFamily
  <2>2. \A t \in Tokens : InFamily(t, g) => tok'[t] = tok[t]
    BY <1>3, <1>6 DEF InFamily
  <2> QED
    BY <1>5, <2>1, <2>2, FamilyStays DEF Live
<1>7. CASE \A t \in Tokens : ~(InFamily(t, f) /\ Live(t))
  BY <1>4, <1>6, <1>7 DEF Promise, Rights
<1>8. ASSUME NEW t \in Tokens, InFamily(t, f), Live(t) PROVE F!End(f)
  <2>1. Whereabouts /\ Whereabouts'
    BY WhereaboutsStay
  <2>2. FamilyOf(f) = HeldBy("token", t)
    BY <1>8, <2>1 DEF Whereabouts
  <2>3. FamilyOf(f)' = F!Ended
    <3>1. \A u \in Tokens : ~(InFamily(u, f)' /\ Live(u)')
      BY <1>3 DEF InFamily, Kept
    <3>2. \A s \in Requests : ~Rotating(s, f)'
      BY <1>5, <1>8 DEF Families, Handover, Rotating
    <3>3. InFamily(t, f)'
      BY <1>3, <1>8 DEF InFamily, Kept
    <3>4. FamilyOf(f)' = IF \E u \in Tokens : InFamily(u, f)' THEN F!Ended ELSE F!Absent
      BY <2>1, <3>1, <3>2 DEF Whereabouts, F!Ended, F!Absent
    <3> QED
      BY <3>3, <3>4
  <2>4. Rights' = [Rights EXCEPT ![f] = F!Ended] /\ Rights[f].at = "token"
    BY <1>6, <2>2, <2>3 DEF Rights, HeldBy
  <2> QED
    BY <1>4, <2>4 DEF F!End, F!Ended, Rights
<1> QED
  BY <1>7, <1>8

\* The pair is issued: the new row holds the right of its family.
LEMMA IssueTokenRights ==
  ASSUME Shape, Families, [Next]_vars, NEW r \in Requests, IssueToken(r), NEW n \in Tokens,
         ~Exists(n), \A u \in Tokens \ {n} : tok'[u] = tok[u] /\ tok[u].family # n,
         tok'[n].status = "live", tok'[n].family \in Tokens,
         NEW f \in Tokens, f = tok'[n].family,
         req[r].op = "refresh" => tok[req[r].token].family = f
  PROVE  Rights' = [Rights EXCEPT ![f] = HeldBy("token", n)']
<1>1. Handle(r) /\ ~Spent(r)'
  BY DEF Handle, IssueToken, Finish, Goto, Spent, Shape, TypeOK
<1>2. FamilyOf(f)' = HeldBy("token", n)'
  BY WhereaboutsStay DEF Whereabouts, InFamily, Exists, Live
<1>3. ASSUME NEW g \in Tokens \ {f} PROVE FamilyOf(g)' = FamilyOf(g)
  <2>1. \A t \in Tokens : /\ InFamily(t, g)' <=> InFamily(t, g)
                          /\ InFamily(t, g) => tok'[t] = tok[t]
    BY DEF InFamily, Exists
  <2>2. ASSUME NEW s \in Requests
        PROVE  /\ Rotating(s, g)' <=> Rotating(s, g)
               /\ Rotating(s, g) => req'[s].token = req[s].token
    BY <1>1, <2>2, OthersRotate DEF Rotating
  <2> QED
    BY <2>1, <2>2, FamilyStays DEF Live
<1> QED
  BY <1>2, <1>3 DEF Rights

LEMMA IssueTokenStep ==
  ASSUME Shape, Families, HeldCodes, SessionHandover, [Next]_vars,
         NEW r \in Requests, IssueToken(r)
  PROVE  \E f \in Tokens : F!Renew(f) \/ \E c \in Codes : F!SignIn(f, c)
<1>1. PICK n \in Tokens :
        /\ ~Exists(n) /\ tok' \in [Tokens -> TokenRow]
        /\ \A u \in Tokens \ {n} : tok'[u] = tok[u] /\ tok[u].family # n
        /\ tok'[n] = NextRow(r, n)
        /\ tok'[n].status = "live"
        /\ \/ /\ req[r].op = "code" /\ tok'[n].family = n /\ tok'[n].generation = 0
              /\ tok'[n].origin = req[r].code
           \/ /\ req[r].op = "refresh" /\ req[r].token \in Tokens
              /\ tok[req[r].token].status = "revoked" /\ ~tok[req[r].token].raw
              /\ tok'[n].family = tok[req[r].token].family
              /\ tok'[n].generation = tok[req[r].token].generation + 1
              /\ tok'[n].origin = tok[req[r].token].origin
  BY IssueTokenWrites
<1>2. Spent(r) /\ pc[r] = "issue"
  BY DEF IssueToken, Spent
<1>3. tok'[n].session \in BOOLEAN /\ tok'[n].session = req[r].session
  BY <1>1 DEF TokenRow, NextRow, NoRow
<1>4. Whereabouts
  BY WhereaboutsHold
<1>5. CASE req[r].op = "code"
  <2>1. PICK c \in Codes : c = req[r].code
    BY <1>2, <1>5 DEF Spent, Shape, Fits
  <2>2. tok'[n].family = n /\ tok'[n].generation = 0 /\ tok'[n].origin = c
    BY <1>1, <1>5, <2>1
  <2>3. Rights' = [Rights EXCEPT ![n] = F!Held("token", 0, tok'[n].session)]
    <3>1. Rights' = [Rights EXCEPT ![n] = HeldBy("token", n)']
      BY <1>1, <1>5, <2>2, IssueTokenRights
    <3> QED
      BY <2>2, <3>1 DEF HeldBy, F!Held
  <2>4. Rights[n] = F!Absent
    <3>1. \A t \in Tokens : ~InFamily(t, n)
      BY <1>1 DEF InFamily
    <3>2. \A s \in Requests : ~Rotating(s, n)
      BY <1>1 DEF Rotating, Spent, Shape, Fits, Exists
    <3> QED
      BY <1>4, <3>1, <3>2 DEF Whereabouts, Rights, F!Absent
  <2>5. c \notin StartedCodes
    BY <1>2, <1>5, <2>1 DEF HeldCodes, StartedCodes
  <2>6. StartedCodes' = StartedCodes \cup {c}
    <3>1. \A t \in Tokens \ {n} : (Exists(t)' <=> Exists(t)) /\ tok'[t].origin = tok[t].origin
      BY <1>1 DEF Exists
    <3>2. ~Exists(n) /\ Exists(n)' /\ tok'[n].origin = c
      BY <1>1, <2>2 DEF Exists
    <3> QED
      BY <3>1, <3>2 DEF StartedCodes
  <2>7. F!SignIn(n, c)
    BY <1>3, <2>3, <2>4, <2>5, <2>6 DEF F!SignIn, Rights
  <2> QED
    BY <2>7
<1>6. CASE req[r].op = "refresh"
  <2> PICK p \in Tokens : p = req[r].token
    BY <1>1, <1>6
  <2>1. /\ Exists(p) /\ p # n /\ ~tok[p].raw
        /\ tok'[n].family = tok[p].family /\ tok'[n].generation = tok[p].generation + 1
        /\ tok'[n].origin = tok[p].origin
    BY <1>1, <1>6 DEF Exists
  <2> PICK f \in Tokens : f = tok[p].family
    BY <2>1 DEF Shape, Rows
  <2>2. Rights' = [Rights EXCEPT ![f] = HeldBy("token", n)']
    BY <1>1, <2>1, IssueTokenRights
  <2>3. Rights[f] = HeldBy("request", p)
    BY <1>2, <1>4, <1>6, <2>1 DEF Whereabouts, Rotating, Rights
  <2>4. Rights[f].at = "request" /\ Rights[f].generation = tok[p].generation
        /\ Rights[f].session = tok[p].session
    BY <2>3 DEF HeldBy
  <2>5. tok'[n].session \in {FALSE, tok[p].session}
    <3>1. req[r].session => tok[p].session
      BY <1>2, <1>6 DEF SessionHandover
    <3>2. tok[p].session \in BOOLEAN
      BY DEF Shape, TypeOK, TokenRow
    <3> QED
      BY <1>3, <3>1, <3>2
  <2>6. HeldBy("token", n)' = F!Held("token", Rights[f].generation + 1, tok'[n].session)
    BY <2>1, <2>4 DEF HeldBy, F!Held
  <2>7. UNCHANGED StartedCodes
    <3>1. \A t \in Tokens \ {n} : (Exists(t)' <=> Exists(t)) /\ tok'[t].origin = tok[t].origin
      BY <1>1 DEF Exists
    <3>2. ~Exists(n) /\ Exists(p) /\ tok'[n].origin = tok[p].origin
      BY <1>1, <2>1
    <3> QED
      BY <2>1, <3>1, <3>2 DEF StartedCodes
  <2>8. F!Renew(f)
    <3>1. \E s \in {FALSE, Rights[f].session} :
             Rights' = [Rights EXCEPT ![f] = F!Held("token", Rights[f].generation + 1, s)]
      BY <2>2, <2>4, <2>5, <2>6
    <3> QED
      BY <2>4, <2>7, <3>1 DEF F!Renew, Rights
  <2> QED
    BY <2>8
<1> QED
  BY <1>1, <1>5, <1>6

LEMMA RefinedStep ==
  ASSUME Shape, Families, HeldCodes, SessionHandover, [Next]_vars
  PROVE  [F!Next]_Promise
<1>1. CASE Account \/ UNCHANGED vars
  <2>1. tok' = tok /\ pc' = pc /\ req' = req
    BY <1>1 DEF Account, Tick, SetBanned, EndEverySession, ChangeCertificates, IssueCode, vars
  <2> QED
    BY <2>1, StutterStep DEF Rotating, Spent
<1>2. ASSUME NEW r \in Requests, Arrive(r) PROVE UNCHANGED Promise
  BY <1>2, ArriveStep
<1>3. ASSUME NEW r \in Requests, Handle(r) PROVE F!Next \/ UNCHANGED Promise
  <2>1. CASE \/ BurnCode(r) \/ TakeCode(r) \/ FindToken(r) \/ FindRaw(r) \/ WriteAudit(r)
             \/ ReadUser(r) \/ Fail(r)
    BY <2>1, ReadStep DEF F!Next
  <2>2. CASE HashRaw(r)
    BY <2>2, HashRawStep DEF F!Next
  <2>3. CASE RotateToken(r)
    BY <2>3, RotateTokenStep DEF F!Next
  <2>4. CASE EndFamily(r)
    BY <2>4, EndFamilyStep DEF F!Next
  <2>5. CASE IssueToken(r)
    BY <2>5, IssueTokenStep DEF F!Next
  <2> QED
    BY <1>3, <2>1, <2>2, <2>3, <2>4, <2>5 DEF Handle
<1> QED
  BY <1>1, <1>2, <1>3 DEF Next

LEMMA InitRefined == Init => F!Init
<1> SUFFICES ASSUME Init PROVE F!Init
  OBVIOUS
<1>1. PICK client \in [LegacyTokens -> Clients] :
         tok = [t \in Tokens |->
                  IF t \in LegacyTokens
                  THEN [NoRow EXCEPT !.status = "live", !.raw = TRUE,
                                     !.client = client[t], !.expires = TokenTTL]
                  ELSE NoRow]
  BY DEF Init
<1>2. \A t \in Tokens : tok[t].family = NoToken /\ tok[t].origin = NoCode
  BY <1>1 DEF NoRow
<1>3. \A t, f \in Tokens : ~InFamily(t, f)
  BY <1>2, ConstantsAssumption DEF InFamily
<1>4. \A r \in Requests, f \in Tokens : ~Rotating(r, f)
  BY DEF Init, Rotating, Spent
<1>5. \A f \in Tokens : FamilyOf(f) = F!Absent
  BY <1>3, <1>4 DEF FamilyOf, Usable, Rotators, F!Absent
<1>6. StartedCodes = {}
  BY <1>2, ConstantsAssumption DEF StartedCodes
<1> QED
  BY <1>5, <1>6 DEF F!Init

\* The token endpoint, statement by statement and with every request able to
\* stop between two of them, implements TokenFamilies: the right of a family
\* is handed on, never forked, never regained, and a code starts one family.
THEOREM ImplementsPromise == Spec => ImplementsFamilies
<1> DEFINE Inv == Shape /\ Families /\ Origins /\ SessionHandover
<1>1. Init => Inv
  <2>1. Init => SessionHandover
    BY DEF Init, SessionHandover
  <2> QED
    BY <2>1, InitShape, InitFamilies, InitOrigins
<1>2. Inv /\ [Next]_vars => Inv'
  BY NextShape, NextFamilies, NextOrigins, NextSessionHandover
<1>3. Inv /\ [Next]_vars => [F!Next]_<<[f \in Tokens |-> FamilyOf(f)], StartedCodes>>
  BY RefinedStep DEF Origins, Promise, Rights
<1> QED
  BY <1>1, <1>2, <1>3, InitRefined, PTL DEF Spec, ImplementsFamilies, F!Spec

=============================================================================
