---------------------------- MODULE FundOnboarding ----------------------------
(******************************************************************************)
(* How a fund and its bots come to be known to the relayer: the strategy bot  *)
(* deploys the fund through ClawFundFactory and reports the transaction       *)
(* (strategy-cli.ts, sync-by-strategy/route.ts), participants join its room   *)
(* or are registered, and the strategy bot sets stakes (rooms/join,           *)
(* bots/register, stake-weights).                                             *)
(*                                                                            *)
(* A bot goes by an id and by an address, and nothing ties the two together:  *)
(* memberships are kept by id, stakes by address, and what the chain and a    *)
(* signature vouch for is the address.  Signatures restrict who may send a    *)
(* request, not which requests are sent, since every address has a holder.    *)
(*                                                                            *)
(* A request is handled in steps, one for each write and for the reads that   *)
(* come before it, and requests overlap.  Nothing spans two writes: a process *)
(* that dies, or a write that fails, leaves the earlier ones in place.  A     *)
(* fund stands for its id and its room.                                       *)
(******************************************************************************)
EXTENDS Integers, FiniteSets

CONSTANTS
    BotIds,
    Addresses,
    Funds,
    Txs,        \* createFund transactions
    Stakes,     \* stake weights a strategy bot sets
    Handlers,   \* requests the relayer handles at once
    NoId, NoAddress, NoTx

ASSUME StakeAssumption == Stakes \subseteq Nat
ASSUME NoneAssumption == NoId \notin BotIds /\ NoAddress \notin Addresses /\ NoTx \notin Txs

VARIABLES
    agent,       \* the chain: strategyAgent of each mined transaction
    deployment,  \* fund_deployments: transaction of each fund
    fund,        \* funds: strategy_bot_id and strategy_bot_address of each fund
    member,      \* fund_bots: role and bot_address of each bot id in each fund
    stake,       \* stake_weights of each address: NoStake if there is no row
    task,        \* requests being handled
    rivalTx,     \* history: funds reported with two transactions at once
    rivalId,     \* history: funds reported for two strategy bots at once
    cutOff       \* history: entries <<fund, address>> that died before their stake

db == <<deployment, fund, member, stake>>
marks == <<rivalTx, rivalId, cutOff>>
vars == <<agent, db, task, marks>>

NoStake == -1
NoFund == [id |-> NoId, address |-> NoAddress]
NoMember == [role |-> "none", address |-> NoAddress]
Idle == [pc |-> "idle"]
Syncing == {"check", "deployment", "fund", "strategy"}

Init ==
    /\ agent = [t \in Txs |-> NoAddress]
    /\ deployment = [f \in Funds |-> NoTx]
    /\ fund = [f \in Funds |-> NoFund]
    /\ member = [f \in Funds |-> [i \in BotIds |-> NoMember]]
    /\ stake = [f \in Funds |-> [a \in Addresses |-> NoStake]]
    /\ task = [h \in Handlers |-> Idle]
    /\ rivalTx = {} /\ rivalId = {} /\ cutOff = {}

(* ROLE_SCOPES of requireBotAuth: the roles of all of a bot's memberships, *)
(* in whatever fund, count together.                                       *)
HasScope(i) == \E f \in Funds : member[f][i].role = "strategy"

(* requireFundBotRole: the bot's role in this fund. *)
IsStrategyOf(i, f) == member[f][i].role = "strategy"

(* requireBotAuthAllowUnregistered: an id that is known anywhere is known *)
(* under one address, and that address asks; an unknown id is anyone's.   *)
MayJoinAs(i, a) == \A f \in Funds : member[f][i] # NoMember => member[f][i].address = a

Begin(h, rest) == task[h] = Idle /\ task' = [task EXCEPT ![h] = rest]
Go(h, pc) == task' = [task EXCEPT ![h].pc = pc]
Done(h) == task' = [task EXCEPT ![h] = Idle]

-----------------------------------------------------------------------------
(* Deployment. *)

(* createFund deploys, configures and hands over in one transaction, or     *)
(* reverts; strategy-create-fund may die before it reports the transaction. *)
CreateFund(a) ==
    /\ \E t \in Txs : agent[t] = NoAddress /\ agent' = [agent EXCEPT ![t] = a]
    /\ UNCHANGED <<db, task, marks>>

AnyStrategy(f, i) == TRUE                                               \* mutant
(* The strategy bot of a fund is immutable: its id is, the address is not *)
(* looked at here.                                                        *)
SameStrategy(f, i) == fund[f].id \in {NoId, i}

(* Another report of f, under way, differs in what field holds. *)
Rivals(f, field, value) ==
    \E g \in Handlers : task[g].pc \in Syncing /\ task[g].fund = f /\ task[g][field] # value

(* sync-by-strategy, up to the check that the strategy bot stays the same.    *)
(* The bot is let in by its role or, failing that, by the bootstrap signature *)
(* the client always sends along, so that retries are let in again; neither   *)
(* ties the id of the request to its address.                                 *)
AdmitSync(h, i, a, f, t) ==
    /\ SameStrategy(f, i)
    /\ Begin(h, [pc |-> "check", fund |-> f, id |-> i, address |-> a, tx |-> t])
    /\ rivalTx' = rivalTx \cup {g \in {f} : Rivals(f, "tx", t)}
    /\ rivalId' = rivalId \cup {g \in {f} : Rivals(f, "id", i)}
    /\ UNCHANGED <<agent, db, cutOff>>

(* The transaction is not another fund's, nor the fund another transaction's. *)
Unmapped(f, t) ==
    /\ \A g \in Funds : deployment[g] = t => g = f
    /\ deployment[f] \in {NoTx, t}

Succeeded(a, t) == agent[t] # NoAddress                                 \* mutant
(* The receipt's FundDeployed event names the strategy address as agent. *)
DeployedFor(a, t) == agent[t] = a

Check(h) ==
    /\ task[h].pc = "check"
    /\ IF Unmapped(task[h].fund, task[h].tx) /\ DeployedFor(task[h].address, task[h].tx)
       THEN Go(h, "deployment")
       ELSE Done(h)
    /\ UNCHANGED <<agent, db, marks>>

NoIndex(f, t) == TRUE                                                   \* mutant
(* idx_fund_deployments_tx_hash_unique *)
TxFree(f, t) == \A g \in Funds \ {f} : deployment[g] # t

UpsertFundDeployment(h) ==
    /\ task[h].pc = "deployment"
    /\ IF TxFree(task[h].fund, task[h].tx)
       THEN /\ deployment' = [deployment EXCEPT ![task[h].fund] = task[h].tx]
            /\ Go(h, "fund")
       ELSE UNCHANGED deployment /\ Done(h)
    /\ UNCHANGED <<agent, fund, member, stake, marks>>

UpsertFund(h) ==
    /\ task[h].pc = "fund"
    /\ fund' = [fund EXCEPT ![task[h].fund] =
                  [id |-> task[h].id, address |-> task[h].address]]
    /\ Go(h, "strategy")
    /\ UNCHANGED <<agent, deployment, member, stake, marks>>

(* upsertFundBot overwrites the role and the address, whatever they are by now. *)
WriteMember(h, role) ==
    member' = [member EXCEPT ![task[h].fund][task[h].id] =
                 [role |-> role, address |-> task[h].address]]

UpsertStrategy(h) ==
    /\ task[h].pc = "strategy"
    /\ WriteMember(h, "strategy")
    /\ Done(h)
    /\ UNCHANGED <<agent, deployment, fund, stake, marks>>

-----------------------------------------------------------------------------
(* Participants. *)

RoomKnown(f) == fund[f] # NoFund

(* rooms/join: any signed request, of a bot that has no other role there. *)
AdmitJoin(h, i, a, f) ==
    /\ MayJoinAs(i, a) /\ RoomKnown(f)
    /\ member[f][i].role # "strategy"
    /\ Begin(h, [pc |-> "join", fund |-> f, id |-> i, address |-> a])
    /\ UNCHANGED <<agent, db, marks>>

(* bots/register: the strategy bot i enters any id under any address, itself *)
(* included, and ids that are known under another address.                   *)
AdmitRegister(h, i, f, p, a) ==
    /\ HasScope(i) /\ fund[f].id = i
    /\ Begin(h, [pc |-> "register", fund |-> f, id |-> p, address |-> a])
    /\ UNCHANGED <<agent, db, marks>>

UpsertParticipant(h) ==
    /\ task[h].pc \in {"join", "register"}
    /\ WriteMember(h, "participant")
    /\ task' = [task EXCEPT ![h] =
                  [pc |-> IF @.pc = "join" THEN "weigh" ELSE "stake",
                   fund |-> @.fund, address |-> @.address, weight |-> 1]]
    /\ UNCHANGED <<agent, deployment, fund, stake, marks>>

StakedAnywhere(f, a) == \E g \in Funds : stake[g][a] # NoStake          \* mutant
(* getStakeWeight *)
Staked(f, a) == stake[f][a] # NoStake

(* An address that joins keeps the stake it is seen to have. *)
ReadStake(h) ==
    /\ task[h].pc = "weigh"
    /\ IF Staked(task[h].fund, task[h].address) THEN Done(h) ELSE Go(h, "stake")
    /\ UNCHANGED <<agent, db, marks>>

(* stake-weights: the strategy bot i names an active participant p, and the *)
(* address a that gets the stake, which need not be that participant's.     *)
AdmitStake(h, i, f, p, a) ==
    /\ IsStrategyOf(i, f)
    /\ member[f][p].role = "participant"
    /\ \E w \in Stakes :
         Begin(h, [pc |-> "weight", fund |-> f, address |-> a, weight |-> w])
    /\ UNCHANGED <<agent, db, marks>>

UpsertStakeWeight(h) ==
    /\ task[h].pc \in {"stake", "weight"}
    /\ stake' = [stake EXCEPT ![task[h].fund][task[h].address] = task[h].weight]
    /\ Done(h)
    /\ UNCHANGED <<agent, deployment, fund, member, marks>>

(* The relayer dies, or its database call fails: the request ends here. *)
Abort(h) ==
    /\ task[h] # Idle
    /\ Done(h)
    /\ cutOff' = IF task[h].pc \in {"weigh", "stake"}
                 THEN cutOff \cup {<<task[h].fund, task[h].address>>} ELSE cutOff
    /\ UNCHANGED <<agent, db, rivalTx, rivalId>>

Next ==
    \/ \E a \in Addresses : CreateFund(a)
    \/ \E h \in Handlers :
         \/ \E i \in BotIds, a \in Addresses, f \in Funds :
              \/ \E t \in Txs : AdmitSync(h, i, a, f, t)
              \/ AdmitJoin(h, i, a, f)
              \/ \E p \in BotIds : AdmitRegister(h, i, f, p, a) \/ AdmitStake(h, i, f, p, a)
         \/ Check(h) \/ UpsertFundDeployment(h) \/ UpsertFund(h) \/ UpsertStrategy(h)
         \/ UpsertParticipant(h) \/ ReadStake(h) \/ UpsertStakeWeight(h)
         \/ Abort(h)

Spec == Init /\ [][Next]_vars

-----------------------------------------------------------------------------
(* Properties. *)

Entered(f) == \E i \in BotIds : member[f][i] # NoMember

(* Wherever a request is cut off, no row stands without the rows it refers   *)
(* to, which no foreign key enforces: a stake without a member in its fund,  *)
(* a member without the fund, a fund without its deployment.  Unless it was  *)
(* reported with two transactions at once, the strategy address of a fund is *)
(* the agent that its contracts obey, and unless it was reported for two     *)
(* strategy bots at once, no other id has the role of one there              *)
(* (sync-by-strategy/route.ts:387-457, schema.sql).                          *)
RowsInOrder ==
    \A f \in Funds :
      /\ \A a \in Addresses : stake[f][a] # NoStake => Entered(f)
      /\ Entered(f) => fund[f] # NoFund
      /\ fund[f] # NoFund =>
           /\ deployment[f] # NoTx
           /\ f \notin rivalTx => agent[deployment[f]] = fund[f].address
      /\ f \notin rivalId => \A i \in BotIds : IsStrategyOf(i, f) => fund[f].id = i

(* No two funds of the relayer execute on the same contracts, although the *)
(* check that a transaction is free is made well before the write          *)
(* (sync-by-strategy/route.ts:319-339, schema.sql:304).                    *)
OneFundPerDeployment ==
    \A f, g \in Funds : deployment[f] = deployment[g] /\ deployment[f] # NoTx => f = g

(* Once known, a fund's contracts and its strategy address never change,    *)
(* unless two transactions are reported for it at once, nor its strategy    *)
(* bot's id, unless two ids are: the id is compared with the stored one     *)
(* only before the writes, and a report may carry any id with the address   *)
(* that its transaction names (sync-by-strategy/route.ts:298-339, 399-446). *)
FundKeepsIdentity ==
    [][\A f \in Funds :
         /\ deployment[f] # NoTx /\ f \notin rivalTx => deployment'[f] = deployment[f]
         /\ fund[f] # NoFund =>
              /\ f \notin rivalTx => fund'[f].address = fund[f].address
              /\ f \notin rivalId => fund'[f].id = fund[f].id]_vars

Owed(f, a) ==
    \E h \in Handlers :
      task[h].pc \in {"weigh", "stake"} /\ task[h].fund = f /\ task[h].address = a
Covered(f, a) == stake[f][a] # NoStake \/ <<f, a>> \in cutOff \/ Owed(f, a)

(* The address a participant is entered under has a stake in the fund, or a  *)
(* request is on its way to give it one, or one died just before: entered    *)
(* twice, under a new address, while it joins, or while its stake is set, no *)
(* participant is left without a recorded weight, which aggregation would    *)
(* take for one (rooms/[roomId]/join/route.ts:42-64,                         *)
(* bots/register/route.ts:70-87, epoch-aggregator.ts:161).                   *)
MembersHaveStake ==
    \A f \in Funds, i \in BotIds :
      member[f][i].role = "participant" => Covered(f, member[f][i].address)
=============================================================================
