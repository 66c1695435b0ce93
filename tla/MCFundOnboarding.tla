-------------------------- MODULE MCFundOnboarding --------------------------
(* Model checking of FundOnboarding. *)
EXTENDS FundOnboarding, TLC

CONSTANTS i1, i2, a1, a2, f1, f2, t1, t2, h1, h2

Symmetry == Permutations({i1, i2}) \cup Permutations({a1, a2}) \cup Permutations({f1, f2})
              \cup Permutations({t1, t2}) \cup Permutations({h1, h2})

(* The states that are explored further.  Up to five rows of members and      *)
(* stakes, of eight; one thing gone wrong, an entry that died or a rivalry;   *)
(* and two requests at once on different funds only if both are reports,      *)
(* since others on different funds touch no row in common after their checks. *)
Rows == Cardinality({e \in Funds \X BotIds : member[e[1]][e[2]] # NoMember})
          + Cardinality({e \in Funds \X Addresses : stake[e[1]][e[2]] # NoStake})
Histories == Cardinality(cutOff) + Cardinality(rivalTx) + Cardinality(rivalId)
Meeting ==
    \A g, h \in Handlers :
      task[g] # Idle /\ task[h] # Idle =>
        \/ task[g].pc \in Syncing /\ task[h].pc \in Syncing
        \/ task[g].fund = task[h].fund
Few == Rows <= 5 /\ Histories <= 1 /\ Meeting
=============================================================================
