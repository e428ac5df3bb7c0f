-------------------------- MODULE MCConfirmations --------------------------
(* The instance TLC checks: one agent and two transactions at once. *)
EXTENDS Confirmations, TLC

\* Transactions are only compared; rows and capabilities are ordered.
Symmetry == Permutations(Requests)

\* No step reads how a confirmation ended, what it or a revoked rule was for, and
\* until when: states that differ in that alone have the same behaviours.  Rows
\* whose events do not tell their state (EachChangeOnce) are kept as they are.
Told(c) ==
    /\ \A change \in Changes : events[c][change] <= 1
    /\ events[c]["created"] = 1
    /\ conf[c].used <=> (events[c]["used"] = 1)
    /\ \A end \in {"denied", "expired", "cancelled"} :
          (conf[c].state = end) <=> (events[c][end] = 1)

Shown(c) ==
    IF conf[c].state # "none" /\ ~Usable(c) /\ Told(c) THEN <<>> ELSE <<conf[c], events[c]>>

View ==
    <<clock, agent, grant, pc, req,
      [c \in Confirmations |-> Shown(c)],
      [k \in Rules |-> IF rule[k].status = "live" THEN rule[k]
                       ELSE [NoRule EXCEPT !.status = rule[k].status]]>>
============================================================================
