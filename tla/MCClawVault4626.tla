-------------------------- MODULE MCClawVault4626 --------------------------
(* Values for model-checking the vault.  The owner configures it in one order *)
(* (the one of the fund factory and the deployment scripts: tokens, adapter,  *)
(* fees), freezes it, and from there may pause it; before the freeze a token  *)
(* or the adapter may be taken off again.                                     *)
EXTENDS ClawVault4626, TLC

CONSTANTS alice, bob, meme, alt, wmon

MCAccounts == {alice, bob}
MCTokens == {meme, alt}

(* A gas fee of half a deposit, with the smallest cap, and no signer at all. *)
gasFee == [bps |-> 5000, cap |-> 1, wallet |-> TRUE]
noWallet == [bps |-> 0, cap |-> 0, wallet |-> FALSE]

MCGasChoices == {gasFee, noWallet}

(* Both orders of two requests, one request twice, and one alone. *)
MCBatches == {<<1>>, <<1, 2>>, <<2, 1>>, <<1, 1>>}

fresh == [paused |-> FALSE, frozen |-> FALSE, tokens |-> {wmon}, adapter |-> FALSE,
          feeBps |-> 0, feeRecipient |-> bob, gas |-> [bps |-> 0, cap |-> 0, wallet |-> TRUE],
          gasTarget |-> 0]
gassed == [fresh EXCEPT !.gas = gasFee, !.gasTarget = 1]
charging == [gassed EXCEPT !.feeBps = 5000]
listing == [charging EXCEPT !.tokens = {wmon, meme, alt}]
trading == [listing EXCEPT !.adapter = TRUE]
frozen == [trading EXCEPT !.frozen = TRUE]

(* Recipients are interchangeable: bob is the one who ends up with the fee. *)
MCConfigs ==
    {fresh, [fresh EXCEPT !.gas = gasFee], gassed, charging,
     [charging EXCEPT !.tokens = {wmon, meme}], [charging EXCEPT !.tokens = {wmon, alt}],
     listing, trading,
     [trading EXCEPT !.tokens = {wmon, meme}], [trading EXCEPT !.tokens = {wmon, alt}],
     frozen, [frozen EXCEPT !.paused = TRUE]}

(* Queued deposits are checked before the fund trades. *)
QueueConfigs ==
    {fresh, [fresh EXCEPT !.gas = gasFee], gassed, [fresh EXCEPT !.gas = noWallet],
     [fresh EXCEPT !.feeRecipient = alice]}

AllConfigs == MCConfigs \cup QueueConfigs

QueueBeforeTrading ==
    IF requests = <<>>
    THEN config \in MCConfigs
    ELSE config \in QueueConfigs /\ \A t \in Tokens : tokenBalance[t] = 0

TokenSymmetry == Permutations(MCTokens)
=============================================================================
