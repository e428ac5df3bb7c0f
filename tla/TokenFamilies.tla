--------------------------- MODULE TokenFamilies ---------------------------
(***************************************************************************)
(* What server/auth/refresh-tokens.js promises: a family of refresh tokens *)
(* is one right to stay signed in.  It is held by one usable token, or by  *)
(* the one request that has spent that token and is to issue the next      *)
(* generation; what is lost is lost for good.                              *)
(***************************************************************************)
EXTENDS Naturals

CONSTANTS Names, Codes

VARIABLES
    family,  \* where the right of each family is
    started  \* the authorization codes that have started a family

Absent == [at |-> "nobody", generation |-> 0, session |-> FALSE]
Ended  == [at |-> "ended", generation |-> 0, session |-> FALSE]
Held(where, n, s) == [at |-> where, generation |-> n, session |-> s]

Init == family = [f \in Names |-> Absent] /\ started = {}

\* A sign-in: one family for a code.
SignIn(f, c) ==
    /\ family[f] = Absent
    /\ c \notin started
    /\ \E s \in BOOLEAN : family' = [family EXCEPT ![f] = Held("token", 0, s)]
    /\ started' = started \cup {c}

\* A token from before families gets one of its own.
Adopt(f) ==
    /\ family[f] = Absent
    /\ family' = [family EXCEPT ![f] = Held("token", 0, FALSE)]
    /\ UNCHANGED started

Spend(f) ==
    /\ family[f].at = "token"
    /\ family' = [family EXCEPT ![f].at = "request"]
    /\ UNCHANGED started

\* The next generation; it may lose the person's session, and never gain it.
Renew(f) ==
    /\ family[f].at = "request"
    /\ \E s \in {FALSE, family[f].session} :
          family' = [family EXCEPT ![f] = Held("token", family[f].generation + 1, s)]
    /\ UNCHANGED started

End(f) ==
    /\ family[f].at \in {"token", "request"}
    /\ family' = [family EXCEPT ![f] = Ended]
    /\ UNCHANGED started

Next == \E f \in Names : Adopt(f) \/ Spend(f) \/ Renew(f) \/ End(f)
                         \/ \E c \in Codes : SignIn(f, c)

Spec == Init /\ [][Next]_<<family, started>>

============================================================================
