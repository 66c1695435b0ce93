---------------------------- MODULE EpochRounds ----------------------------
(***************************************************************************)
(* What the relayer promises of the epochs of one fund, without the        *)
(* requests that overlap, read stale rows and die while they keep it: one  *)
(* epoch is open at a time, each closes with its minimum of claims, has a  *)
(* state that is finalized on chain before the next one opens, and its end *)
(* is told once.                                                           *)
(***************************************************************************)
EXTENDS Naturals, FiniteSets

CONSTANTS Claims, MinClaims, MaxEpoch

VARIABLES
    phase,     \* phase[e]: "NONE", "OPEN", "CLOSED" or "AGGREGATED"
    counted,   \* counted[e]: the claims that count towards closing e
    roots,     \* finalized on chain: epochs with the claims of a state
    state,     \* state[e]: the claims the state of e is made of, {} for none
    told       \* told[e]: how often the end of e was announced

roundVars == <<phase, counted, roots, state, told>>

Rounds == 1..MaxEpoch

Init ==
    /\ phase = [e \in Rounds |-> "NONE"]
    /\ counted = [e \in Rounds |-> {}]
    /\ roots = {}
    /\ state = [e \in Rounds |-> {}]
    /\ told = [e \in Rounds |-> 0]

Open(e) ==
    /\ phase[e] = "NONE"
    /\ \A f \in Rounds : phase[f] # "OPEN"
    /\ e > 1 => state[e - 1] # {}
    /\ phase' = [phase EXCEPT ![e] = "OPEN"]
    /\ UNCHANGED <<counted, roots, state, told>>

(* A claim counts once, for one epoch, and only while that is open. *)
Count(e) ==
    /\ phase[e] = "OPEN"
    /\ \E c \in Claims :
         /\ \A f \in Rounds : c \notin counted[f]
         /\ counted' = [counted EXCEPT ![e] = @ \cup {c}]
    /\ UNCHANGED <<phase, roots, state, told>>

Close(e) ==
    /\ phase[e] = "OPEN"
    /\ Cardinality(counted[e]) >= MinClaims
    /\ phase' = [phase EXCEPT ![e] = "CLOSED"]
    /\ UNCHANGED <<counted, roots, state, told>>

Finalize(e) ==
    /\ phase[e] # "NONE"
    /\ \E S \in (SUBSET Claims) \ {{}} : roots' = roots \cup {<<e, S>>}
    /\ UNCHANGED <<phase, counted, state, told>>

(* The state served may be replaced, by one that is finalized as well. *)
Serve(e) ==
    /\ \E S \in SUBSET Claims : <<e, S>> \in roots /\ state' = [state EXCEPT ![e] = S]
    /\ UNCHANGED <<phase, counted, roots, told>>

Mark(e) ==
    /\ phase[e] = "CLOSED"
    /\ state[e] # {}
    /\ phase' = [phase EXCEPT ![e] = "AGGREGATED"]
    /\ UNCHANGED <<counted, roots, state, told>>

Tell(e) ==
    /\ phase[e] = "AGGREGATED"
    /\ told[e] = 0
    /\ told' = [told EXCEPT ![e] = 1]
    /\ UNCHANGED <<phase, counted, roots, state>>

Next ==
    \E e \in Rounds :
        Open(e) \/ Count(e) \/ Close(e) \/ Finalize(e) \/ Serve(e) \/ Mark(e) \/ Tell(e)

Spec == Init /\ [][Next]_roundVars
=============================================================================
