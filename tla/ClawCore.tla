------------------------------ MODULE ClawCore ------------------------------
(******************************************************************************)
(* Settlement of approved intents (ClawCore.sol) on top of the intent book.   *)
(*                                                                            *)
(* executeIntent validates, calls vault.executeTrade, which hands control to  *)
(* an adapter and the tokens it moves, and marks the intent executed only     *)
(* after that call returns.  The call is therefore two steps here, Begin and  *)
(* Finish (or Revert), and a re-entrant executeIntent may be attempted        *)
(* between them; the vault's nonReentrant guard is what turns it away.        *)
(* While a call is open no other transaction runs; a call into the book from  *)
(* inside it touches none of the settlement state and is the same as one made *)
(* just before or after.                                                      *)
(******************************************************************************)
EXTENDS IntentBook

CONSTANTS
    Routes,    \* execution routes a request can name: records with the
               \* quoteAmountOut and minAmountOut the allowlist hash binds
    NoRoute,   \* the zero allowlist hash
    Amounts    \* amountIn of a request

ASSUME RouteAssumption ==
    \A t \in Terms : t.route \in Routes \cup {NoRoute} /\ t.maxNotional \in Nat

VARIABLES
    paused,           \* ClawCore.paused
    executedIntent,   \* set of intents marked executed
    inFlight,         \* inFlight[h]: open executeIntent calls for h
    traded            \* history: vault trades settled for h

coreVars == <<paused, executedIntent, inFlight, traded>>
vars == <<bookVars, coreVars>>

InitCore ==
    /\ paused = FALSE
    /\ executedIntent = {}
    /\ inFlight = [h \in Intents |-> 0]
    /\ traded = [h \in Intents |-> 0]

Idle == \A h \in Intents : inFlight[h] = 0

-----------------------------------------------------------------------------
(* Validation of a request against the intent's constraints *)

BPS == 10000

SlippageOk(maxSlippageBps, r) ==
    /\ maxSlippageBps <= BPS                 \* InvalidSlippageConfig otherwise
    /\ r.quote > 0 /\ r.min > 0
    /\ r.min >= (r.quote * (BPS - maxSlippageBps)) \div BPS

WithinNotional(maxNotional, amountIn) == maxNotional = 0 \/ amountIn <= maxNotional

NotExecuted(h) == h \notin executedIntent

ApprovedUnchecked(h) == TRUE              \* mutant
Approved(h) == h \in approved

ValidExecution(h, r, amountIn) ==
    /\ Exists(h)
    /\ terms[h].route # NoRoute
    /\ Approved(h)
    /\ NotExpired(h)
    /\ NotExecuted(h)
    /\ WithinNotional(terms[h].maxNotional, amountIn)
    /\ SlippageOk(terms[h].maxSlippageBps, r)
    /\ r = terms[h].route                    \* the allowlist hash matches

(* nonReentrant on ClawVault4626.executeTrade *)
VaultAlwaysUnlocked == \A h \in Intents : inFlight[h] < 2    \* mutant
VaultUnlocked == Idle

-----------------------------------------------------------------------------

BeginExecute(h, r, amountIn) ==
    /\ ~paused
    /\ ValidExecution(h, r, amountIn)
    /\ VaultUnlocked
    /\ inFlight' = [inFlight EXCEPT ![h] = @ + 1]
    /\ UNCHANGED <<bookVars, paused, executedIntent, traded>>

FinishExecute(h) ==
    /\ inFlight[h] > 0
    /\ inFlight' = [inFlight EXCEPT ![h] = @ - 1]
    /\ traded' = [traded EXCEPT ![h] = @ + 1]
    /\ executedIntent' = executedIntent \cup {h}
    /\ UNCHANGED <<bookVars, paused>>

RevertExecute(h) ==
    /\ inFlight[h] > 0
    /\ inFlight' = [inFlight EXCEPT ![h] = @ - 1]
    /\ UNCHANGED <<bookVars, paused, executedIntent, traded>>

SetPaused(p) ==
    /\ Idle
    /\ paused' = p
    /\ UNCHANGED <<bookVars, executedIntent, inFlight, traded>>

CoreStep ==
    \/ \E h \in Intents, r \in Routes, a \in Amounts : BeginExecute(h, r, a)
    \/ \E h \in Intents : FinishExecute(h) \/ RevertExecute(h)
    \/ \E p \in BOOLEAN : SetPaused(p)

Init == InitBook /\ InitCore

Next ==
    \/ Idle /\ BookStep /\ UNCHANGED coreVars
    \/ CoreStep

Spec == Init /\ [][Next]_vars

-----------------------------------------------------------------------------

TypeOK ==
    /\ BookTypeOK
    /\ paused \in BOOLEAN
    /\ executedIntent \subseteq Intents
    /\ inFlight \in [Intents -> Nat]
    /\ traded \in [Intents -> Nat]

(* At most one executeIntent call is open, and only on an approved, live, *)
(* unexecuted intent.                                                     *)
OneCallOpen ==
    \A h \in Intents : inFlight[h] > 0 =>
        /\ inFlight[h] = 1
        /\ h \in approved \ executedIntent
        /\ terms[h].route # NoRoute
        /\ \A g \in Intents : inFlight[g] > 0 => g = h

(* What is executed was approved, under a committed route. *)
ExecutedWasApproved ==
    \A h \in executedIntent : h \in approved /\ terms[h].route # NoRoute

(*****************************************************************************)
(* An intent settles at most once, although it is marked executed only after *)
(* the external call: no nesting of executeIntent calls, no repetition after *)
(* a success and no retry after a revert trades twice, and the executed flag *)
(* is exactly the record of the one trade.                                   *)
(*****************************************************************************)
SettledAtMostOnce ==
    \A h \in Intents :
        /\ traded[h] <= 1
        /\ h \in executedIntent <=> traded[h] = 1

(***************************************************************************)
(* Every trade was covered by a quorum: the verifiers' weights at the time *)
(* of their attestations reach the threshold fixed when it was proposed.   *)
(***************************************************************************)
TradeBackedByQuorum ==
    \A h \in Intents : traded[h] > 0 =>
        /\ Exists(h)
        /\ terms[h].route # NoRoute
        /\ Total(credit[h], Verifiers) >= thresholdWeight[h]

(* The inductive strengthening of the safety invariants. *)
BookInv ==
    /\ BookTypeOK
    /\ WeightsOfEnabled
    /\ UnproposedIsEmpty
    /\ CreditedOnce
    /\ ApprovalIsQuorum
    /\ NoncesSpent
    /\ NonceBacksOneIntent

IInv ==
    /\ TypeOK
    /\ BookInv
    /\ OneCallOpen
    /\ SettledAtMostOnce
    /\ ExecutedWasApproved

-----------------------------------------------------------------------------
(* What the settlement core promises of each intent, as one state machine. *)

Phase(h) ==
    IF h \in executedIntent THEN "executed"
    ELSE IF h \in approved THEN "approved"
    ELSE IF Exists(h) THEN "proposed" ELSE "absent"

Lifecycle == INSTANCE IntentLifecycle WITH
    phase <- [h \in Intents |-> Phase(h)],
    backing <- credit,
    bar <- thresholdWeight

(* The contracts implement the lifecycle they promise. *)
ImplementsLifecycle == Lifecycle!Spec
=============================================================================
