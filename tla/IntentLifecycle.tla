-------------------------- MODULE IntentLifecycle ---------------------------
(****************************************************************************)
(* What the on-chain contracts promise of an intent, without saying how:    *)
(* it is proposed once with a bar, gathers backing from distinct verifiers, *)
(* is approved by the very step in which the total backing reaches the bar, *)
(* takes no backing after that, and is executed at most once.               *)
(****************************************************************************)
EXTENDS Naturals, FiniteSets

CONSTANTS Intents, Verifiers, MaxUint

VARIABLES
    phase,     \* phase[h]: "absent", "proposed", "approved" or "executed"
    backing,   \* backing[h][v]: weight v backs h with, 0 for none
    bar        \* bar[h]: total backing h needs

lifecycleVars == <<phase, backing, bar>>

Sum(w) == Cardinality({u \in Verifiers \X (1..MaxUint) : u[2] <= w[u[1]]})

Init ==
    /\ phase = [h \in Intents |-> "absent"]
    /\ backing = [h \in Intents |-> [v \in Verifiers |-> 0]]
    /\ bar = [h \in Intents |-> 0]

Propose(h) ==
    /\ phase[h] = "absent"
    /\ phase' = [phase EXCEPT ![h] = "proposed"]
    /\ \E t \in 1..MaxUint : bar' = [bar EXCEPT ![h] = t]
    /\ UNCHANGED backing

(* A non-empty set of verifiers that did not back h yet does so at once. *)
Back(h) ==
    /\ phase[h] = "proposed"
    /\ \E w \in [Verifiers -> 0..MaxUint] :
          /\ backing' = [backing EXCEPT ![h] = w]
          /\ w # backing[h]
          /\ \A v \in Verifiers : backing[h][v] # 0 => w[v] = backing[h][v]
          /\ phase' = [phase EXCEPT ![h] =
                         IF Sum(w) >= bar[h] THEN "approved" ELSE "proposed"]
    /\ UNCHANGED bar

Execute(h) ==
    /\ phase[h] = "approved"
    /\ phase' = [phase EXCEPT ![h] = "executed"]
    /\ UNCHANGED <<backing, bar>>

Next == \E h \in Intents : Propose(h) \/ Back(h) \/ Execute(h)

Spec == Init /\ [][Next]_lifecycleVars
=============================================================================
