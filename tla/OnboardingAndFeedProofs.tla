---------------------- MODULE OnboardingAndFeedProofs ----------------------
(*****************************************************************************)
(* Proofs about two of the relayer's services, which share nothing.          *)
(*                                                                           *)
(* FundOnboarding, for any numbers of bot ids, addresses, funds,             *)
(* transactions and requests handled at once: the inductive invariant IInv   *)
(* adds to the properties what a request that is under way may rely on,      *)
(* which is what it read before its writes, and the rows it wrote itself.    *)
(*                                                                           *)
(* EventStream, for any length of the history, limit of the delay and number *)
(* of events: the inductive invariant FeedInv places what a client received, *)
(* what is on its way to it, and what the emitter remembers in one order.    *)
(*****************************************************************************)
EXTENDS FundOnboarding, EventStream, Sums, SequenceTheorems

SyncTask == [pc : Syncing, fund : Funds, id : BotIds, address : Addresses, tx : Txs]
EntryTask == [pc : {"join", "register"}, fund : Funds, id : BotIds, address : Addresses]
StakeTask == [pc : {"weigh", "stake", "weight"}, fund : Funds, address : Addresses, weight : Nat]

IsTask(t) == t = Idle \/ t \in SyncTask \/ t \in EntryTask \/ t \in StakeTask

FundRow == {NoFund} \cup [id : BotIds, address : Addresses]
MemberRow == {NoMember} \cup [role : {"participant", "strategy"}, address : Addresses]

TypeOK ==
    /\ agent \in [Txs -> Addresses \cup {NoAddress}]
    /\ deployment \in [Funds -> Txs \cup {NoTx}]
    /\ fund \in [Funds -> FundRow]
    /\ member \in [Funds -> [BotIds -> MemberRow]]
    /\ stake \in [Funds -> [Addresses -> Nat \cup {NoStake}]]
    /\ DOMAIN task = Handlers /\ task = [h \in Handlers |-> task[h]]
    /\ \A h \in Handlers : IsTask(task[h])
    /\ rivalTx \subseteq Funds /\ rivalId \subseteq Funds
    /\ cutOff \subseteq Funds \X Addresses

(* Requests that report a fund report one transaction and one id, unless *)
(* they are rivals.                                                      *)
SameReport ==
    \A h, k \in Handlers :
      task[h].pc \in Syncing /\ task[k].pc \in Syncing /\ task[h].fund = task[k].fund =>
        /\ task[h].fund \notin rivalTx => task[h].tx = task[k].tx
        /\ task[h].fund \notin rivalId => task[h].id = task[k].id

(* What a request that is under way has seen or written still stands. *)
SyncBacked(t) ==
    /\ t.pc \in Syncing /\ t.fund \notin rivalId => fund[t.fund].id \in {NoId, t.id}
    /\ t.pc \in {"deployment", "fund", "strategy"} => agent[t.tx] = t.address
    /\ t.pc = "deployment" /\ t.fund \notin rivalTx => deployment[t.fund] \in {NoTx, t.tx}
    /\ t.pc \in {"fund", "strategy"} =>
         /\ deployment[t.fund] # NoTx
         /\ t.fund \notin rivalTx => deployment[t.fund] = t.tx
    /\ t.pc = "strategy" => fund[t.fund] # NoFund
Backed(t) ==
    /\ SyncBacked(t)
    /\ t.pc \in {"join", "register"} => fund[t.fund] # NoFund
    /\ t.pc \in {"weigh", "stake", "weight"} => Entered(t.fund)

TasksBacked == \A h \in Handlers : Backed(task[h])

IInv == TypeOK /\ RowsInOrder /\ OneFundPerDeployment /\ MembersHaveStake
          /\ SameReport /\ TasksBacked
-----------------------------------------------------------------------------
(* How the steps of a request change its task. *)

LEMMA TaskReplaced ==
    ASSUME TypeOK, NEW h \in Handlers, NEW t, IsTask(t), task' = [task EXCEPT ![h] = t]
    PROVE  /\ DOMAIN task' = Handlers /\ task' = [k \in Handlers |-> task'[k]]
           /\ task'[h] = t
           /\ \A k \in Handlers : k # h => task'[k] = task[k]
           /\ \A k \in Handlers : IsTask(task'[k])
  BY DEF TypeOK

LEMMA SyncGoes ==
    ASSUME TypeOK, NEW h \in Handlers, task[h].pc \in Syncing, NEW p \in Syncing, Go(h, p)
    PROVE  /\ task[h] \in SyncTask
           /\ task' = [task EXCEPT ![h] =
                         [pc |-> p, fund |-> task[h].fund, id |-> task[h].id,
                          address |-> task[h].address, tx |-> task[h].tx]]
  <1>1. task[h] \in SyncTask
    BY DEF TypeOK, IsTask, Idle, Syncing, EntryTask, StakeTask
  <1>2. [task[h] EXCEPT !.pc = p] = [pc |-> p, fund |-> task[h].fund, id |-> task[h].id,
                                     address |-> task[h].address, tx |-> task[h].tx]
    BY <1>1 DEF SyncTask
  <1>3. task' = [task EXCEPT ![h] = [task[h] EXCEPT !.pc = p]]
    BY DEF Go
  <1> QED
    BY <1>1, <1>2, <1>3

(* What the rows hold, at most. *)
LEMMA Rows ==
    ASSUME TypeOK, NEW f \in Funds
    PROVE  /\ fund[f] # NoFund => fund[f] \in [id : BotIds, address : Addresses]
           /\ fund[f] = NoFund <=> fund[f].id = NoId
           /\ \A i \in BotIds :
                /\ member[f][i] # NoMember => member[f][i].address \in Addresses
                /\ member[f][i] = NoMember <=> member[f][i].role = "none"
  <1>1. fund[f] \in FundRow /\ \A i \in BotIds : member[f][i] \in MemberRow
    BY DEF TypeOK
  <1> QED
    BY <1>1, NoneAssumption DEF FundRow, NoFund, MemberRow, NoMember

LEMMA InitInv == Init => IInv
  <1> SUFFICES ASSUME Init PROVE IInv
    OBVIOUS
  <1>1. \A h \in Handlers : task[h] = Idle
    BY DEF Init
  <1>2. TypeOK
    BY <1>1, NoneAssumption DEF Init, TypeOK, IsTask, FundRow, MemberRow
  <1>3. \A f \in Funds : \A i \in BotIds : member[f][i].role = "none" /\ member[f][i] = NoMember
    BY DEF Init, NoMember
  <1>4. RowsInOrder /\ OneFundPerDeployment /\ MembersHaveStake
    BY <1>3 DEF Init, RowsInOrder, OneFundPerDeployment, MembersHaveStake, Entered, IsStrategyOf
  <1>5. SameReport /\ TasksBacked
    BY <1>1 DEF SameReport, TasksBacked, Backed, SyncBacked, Idle, Syncing
  <1> QED
    BY <1>2, <1>4, <1>5 DEF IInv

-----------------------------------------------------------------------------
(* What a step has to show of the tasks. *)

(* The step of h goes on with its report, or leaves it. *)
LEMMA SameReportKept ==
    ASSUME IInv, NEW h \in Handlers, NEW t, IsTask(t), task' = [task EXCEPT ![h] = t],
           UNCHANGED <<rivalTx, rivalId>>,
           t.pc \in Syncing => /\ task[h].pc \in Syncing
                               /\ t.fund = task[h].fund /\ t.tx = task[h].tx /\ t.id = task[h].id
    PROVE  SameReport'
  <1>1. /\ task'[h] = t
        /\ \A k \in Handlers : k # h => task'[k] = task[k]
    BY TaskReplaced DEF IInv
  <1> QED
    BY <1>1 DEF IInv, SameReport

(* What h owes, if anything, it goes on owing, has paid, or leaves behind. *)
Answered(t, f, a) ==
    \/ t.pc \in {"weigh", "stake"} /\ t.fund = f /\ t.address = a
    \/ stake'[f][a] # NoStake
    \/ <<f, a>> \in cutOff'

LEMMA CoverKept ==
    ASSUME IInv, NEW h \in Handlers, NEW t, IsTask(t), task' = [task EXCEPT ![h] = t],
           cutOff \subseteq cutOff',
           \A f \in Funds, a \in Addresses : stake[f][a] # NoStake => stake'[f][a] # NoStake,
           task[h].pc \in {"weigh", "stake"} => Answered(t, task[h].fund, task[h].address)
    PROVE  \A f \in Funds, a \in Addresses : Covered(f, a) => Covered(f, a)'
  <1>1. /\ task'[h] = t
        /\ \A k \in Handlers : k # h => task'[k] = task[k]
    BY TaskReplaced DEF IInv
  <1> SUFFICES ASSUME NEW f \in Funds, NEW a \in Addresses, Owed(f, a)
               PROVE  Covered(f, a)'
    BY DEF Covered
  <1>2. PICK k \in Handlers :
          task[k].pc \in {"weigh", "stake"} /\ task[k].fund = f /\ task[k].address = a
    BY DEF Owed
  <1>3. CASE k = h
    BY <1>1, <1>2, <1>3 DEF Answered, Covered, Owed
  <1>4. CASE k # h
    BY <1>1, <1>2, <1>4 DEF Covered, Owed
  <1> QED
    BY <1>3, <1>4

(* Nothing but the task of h, and the record of what died, changes. *)
LEMMA QuietStep ==
    ASSUME IInv, NEW h \in Handlers, NEW t, IsTask(t), task' = [task EXCEPT ![h] = t],
           UNCHANGED <<agent, db, rivalTx, rivalId>>, Backed(t),
           cutOff \subseteq cutOff', cutOff' \subseteq Funds \X Addresses,
           task[h].pc \in {"weigh", "stake"} => Answered(t, task[h].fund, task[h].address),
           t.pc \in Syncing => /\ task[h].pc \in Syncing
                               /\ t.fund = task[h].fund /\ t.tx = task[h].tx /\ t.id = task[h].id
    PROVE  IInv'
  <1>1. /\ DOMAIN task' = Handlers /\ task' = [k \in Handlers |-> task'[k]]
        /\ task'[h] = t
        /\ \A k \in Handlers : k # h => task'[k] = task[k]
        /\ \A k \in Handlers : IsTask(task'[k])
    BY TaskReplaced DEF IInv
  <1>2. TypeOK'
    BY <1>1 DEF IInv, TypeOK, db
  <1>3. RowsInOrder' /\ OneFundPerDeployment'
    BY DEF IInv, RowsInOrder, OneFundPerDeployment, Entered, IsStrategyOf, db
  <1>4. MembersHaveStake'
    <2>1. \A f \in Funds, a \in Addresses : Covered(f, a) => Covered(f, a)'
      BY CoverKept DEF db
    <2>2. ASSUME NEW f \in Funds, NEW i \in BotIds, member[f][i].role = "participant"
          PROVE  Covered(f, member[f][i].address)'
      <3>1. member[f][i].address \in Addresses
        BY <2>2, Rows DEF IInv
      <3> QED
        BY <2>1, <2>2, <3>1 DEF IInv, MembersHaveStake, db
    <2> QED
      BY <2>2 DEF MembersHaveStake, db
  <1>5. SameReport'
    BY SameReportKept
  <1>6. TasksBacked'
    <2>1. ASSUME NEW k \in Handlers PROVE Backed(task[k])'
      BY <1>1 DEF IInv, TasksBacked, Backed, SyncBacked, Entered, db
    <2> QED
      BY <2>1 DEF TasksBacked
  <1> QED
    BY <1>2, <1>3, <1>4, <1>5, <1>6 DEF IInv

(* A request ends, and owes nothing or leaves what it owes behind. *)
LEMMA Ends ==
    ASSUME IInv, NEW h \in Handlers, Done(h), UNCHANGED <<agent, db, rivalTx, rivalId>>,
           cutOff \subseteq cutOff', cutOff' \subseteq Funds \X Addresses,
           task[h].pc \in {"weigh", "stake"} => Answered(Idle, task[h].fund, task[h].address)
    PROVE  IInv'
  <1>1. IsTask(Idle) /\ Backed(Idle) /\ Idle.pc \notin Syncing
    BY DEF IsTask, Backed, SyncBacked, Idle, Syncing
  <1> QED
    BY <1>1, QuietStep DEF Done

-----------------------------------------------------------------------------
(* The steps of a report. *)

LEMMA CreateFundKeeps == ASSUME IInv, NEW a \in Addresses, CreateFund(a) PROVE IInv'
  <1>1. PICK t \in Txs : agent[t] = NoAddress /\ agent' = [agent EXCEPT ![t] = a]
    BY DEF CreateFund
  <1>2. UNCHANGED <<deployment, fund, member, stake, task, rivalTx, rivalId, cutOff>>
    BY DEF CreateFund, db, marks
  <1>3. \A u \in Txs : agent[u] # NoAddress => agent'[u] = agent[u]
    BY <1>1 DEF IInv, TypeOK
  <1>4. TypeOK'
    BY <1>1, <1>2 DEF IInv, TypeOK
  <1>5. RowsInOrder'
    <2>1. ASSUME NEW f \in Funds, fund[f] # NoFund, f \notin rivalTx
          PROVE  agent'[deployment[f]] = fund[f].address
      <3>1. fund[f].address \in Addresses
        BY <2>1, Rows DEF IInv
      <3>2. deployment[f] \in Txs /\ agent[deployment[f]] = fund[f].address
        BY <2>1 DEF IInv, TypeOK, RowsInOrder
      <3> QED
        BY <1>3, <3>1, <3>2, NoneAssumption
    <2> QED
      BY <1>2, <2>1 DEF IInv, RowsInOrder, Entered, IsStrategyOf
  <1>6. OneFundPerDeployment' /\ SameReport' /\ MembersHaveStake'
    BY <1>2 DEF IInv, OneFundPerDeployment, SameReport, MembersHaveStake, Covered, Owed
  <1>7. TasksBacked'
    <2>1. ASSUME NEW k \in Handlers PROVE Backed(task[k])'
      <3>1. task[k].pc \in {"deployment", "fund", "strategy"}
            => task[k].tx \in Txs /\ task[k].address \in Addresses
        BY DEF IInv, TypeOK, IsTask, Idle, SyncTask, EntryTask, StakeTask
      <3>2. SyncBacked(task[k])'
        BY <1>2, <1>3, <3>1, NoneAssumption DEF IInv, TasksBacked, Backed, SyncBacked
      <3> QED
        BY <1>2, <3>2 DEF IInv, TasksBacked, Backed, Entered
    <2> QED
      BY <2>1 DEF TasksBacked
  <1> QED
    BY <1>4, <1>5, <1>6, <1>7 DEF IInv

LEMMA AdmitSyncKeeps ==
    ASSUME IInv, NEW h \in Handlers, NEW i \in BotIds, NEW a \in Addresses,
           NEW f \in Funds, NEW t \in Txs, AdmitSync(h, i, a, f, t)
    PROVE  IInv'
  <1> DEFINE s == [pc |-> "check", fund |-> f, id |-> i, address |-> a, tx |-> t]
  <1>1. IsTask(s) /\ s.pc = "check" /\ s.fund = f /\ s.tx = t /\ s.id = i
    BY DEF IsTask, SyncTask, Syncing
  <1>2. /\ task' = [task EXCEPT ![h] = s]
        /\ UNCHANGED <<agent, deployment, fund, member, stake, cutOff>>
        /\ task[h] = Idle /\ fund[f].id \in {NoId, i}
    BY DEF AdmitSync, Begin, SameStrategy, db
  <1>3. /\ rivalTx \subseteq rivalTx' /\ rivalTx' \subseteq rivalTx \cup {f}
        /\ f \in rivalTx' \/ ~Rivals(f, "tx", t)
        /\ rivalId \subseteq rivalId' /\ rivalId' \subseteq rivalId \cup {f}
        /\ f \in rivalId' \/ ~Rivals(f, "id", i)
    BY DEF AdmitSync
  <1>4. \A g \in Handlers : task[g].pc \in Syncing /\ task[g].fund = f =>
          /\ f \notin rivalTx' => task[g].tx = t
          /\ f \notin rivalId' => task[g].id = i
    BY <1>3 DEF Rivals
  <1> HIDE DEF s
  <1>5. /\ DOMAIN task' = Handlers /\ task' = [k \in Handlers |-> task'[k]]
        /\ task'[h] = s
        /\ \A k \in Handlers : k # h => task'[k] = task[k]
        /\ \A k \in Handlers : IsTask(task'[k])
    BY <1>1, <1>2, TaskReplaced DEF IInv
  <1>6. TypeOK'
    BY <1>2, <1>3, <1>5 DEF IInv, TypeOK
  <1>7. RowsInOrder' /\ OneFundPerDeployment'
    BY <1>2, <1>3 DEF IInv, RowsInOrder, OneFundPerDeployment, Entered, IsStrategyOf
  <1>8. MembersHaveStake'
    <2>1. \A g \in Handlers : task[g].pc \in {"weigh", "stake"} => g # h
      BY <1>2 DEF Idle
    <2>2. \A g \in Funds : \A b : Owed(g, b) => Owed(g, b)'
      BY <1>5, <2>1 DEF Owed
    <2> QED
      BY <1>2, <2>2 DEF IInv, MembersHaveStake, Covered
  <1>9. SameReport'
    BY <1>1, <1>3, <1>4, <1>5 DEF IInv, SameReport
  <1>10. TasksBacked'
    <2>1. ASSUME NEW k \in Handlers PROVE Backed(task[k])'
      <3>1. CASE k = h
        BY <1>1, <1>2, <1>5, <3>1 DEF Backed, SyncBacked
      <3>2. CASE k # h
        BY <1>2, <1>3, <1>5, <3>2 DEF IInv, TasksBacked, Backed, SyncBacked, Entered
      <3> QED
        BY <3>1, <3>2
    <2> QED
      BY <2>1 DEF TasksBacked
  <1> QED
    BY <1>6, <1>7, <1>8, <1>9, <1>10 DEF IInv

LEMMA CheckKeeps == ASSUME IInv, NEW h \in Handlers, Check(h) PROVE IInv'
  <1>1. /\ task[h].pc = "check" /\ task[h].pc \in Syncing /\ "deployment" \in Syncing
        /\ UNCHANGED <<agent, db, rivalTx, rivalId>> /\ cutOff' = cutOff
        /\ cutOff \subseteq Funds \X Addresses
    BY DEF Check, marks, Syncing, IInv, TypeOK
  <1>2. CASE Done(h)
    BY <1>1, <1>2, Ends
  <1>3. CASE /\ Go(h, "deployment")
             /\ Unmapped(task[h].fund, task[h].tx) /\ DeployedFor(task[h].address, task[h].tx)
    <2> DEFINE t == [pc |-> "deployment", fund |-> task[h].fund, id |-> task[h].id,
                     address |-> task[h].address, tx |-> task[h].tx]
    <2>1. task[h] \in SyncTask /\ task' = [task EXCEPT ![h] = t]
      BY <1>1, <1>3, SyncGoes DEF IInv
    <2>2. /\ t.pc = "deployment" /\ t.fund = task[h].fund /\ t.id = task[h].id
          /\ t.address = task[h].address /\ t.tx = task[h].tx
      OBVIOUS
    <2>3. IsTask(t)
      BY <1>1, <2>1 DEF IsTask, SyncTask
    <2> HIDE DEF t
    <2>4. Backed(t)
      BY <1>1, <1>3, <2>2 DEF IInv, TasksBacked, Backed, SyncBacked, Unmapped, DeployedFor
    <2> QED
      BY <1>1, <2>1, <2>2, <2>3, <2>4, QuietStep
  <1> QED
    BY <1>2, <1>3 DEF Check

(* The step of a report that goes on, with the rows it leaves alone. *)
LEMMA Goes ==
    ASSUME IInv, NEW h \in Handlers, NEW p \in Syncing, task[h].pc \in Syncing, Go(h, p),
           UNCHANGED <<member, stake, rivalTx, rivalId, cutOff>>
    PROVE  /\ DOMAIN task' = Handlers /\ task' = [k \in Handlers |-> task'[k]]
           /\ \A k \in Handlers : IsTask(task'[k])
           /\ \A k \in Handlers : k # h => task'[k] = task[k]
           /\ /\ task'[h].pc = p /\ task'[h].fund = task[h].fund /\ task'[h].id = task[h].id
              /\ task'[h].address = task[h].address /\ task'[h].tx = task[h].tx
           /\ SameReport' /\ MembersHaveStake'
  <1> DEFINE t == [pc |-> p, fund |-> task[h].fund, id |-> task[h].id,
                   address |-> task[h].address, tx |-> task[h].tx]
  <1>1. task[h] \in SyncTask /\ task' = [task EXCEPT ![h] = t]
    BY SyncGoes DEF IInv
  <1>2. /\ t.pc = p /\ t.fund = task[h].fund /\ t.id = task[h].id
        /\ t.address = task[h].address /\ t.tx = task[h].tx
    OBVIOUS
  <1>3. IsTask(t)
    BY <1>1 DEF IsTask, SyncTask
  <1> HIDE DEF t
  <1>4. /\ DOMAIN task' = Handlers /\ task' = [k \in Handlers |-> task'[k]]
        /\ task'[h] = t
        /\ \A k \in Handlers : k # h => task'[k] = task[k]
        /\ \A k \in Handlers : IsTask(task'[k])
    BY <1>1, <1>3, TaskReplaced DEF IInv
  <1>5. SameReport'
    BY <1>1, <1>2, <1>3, SameReportKept
  <1>6. MembersHaveStake'
    <2>1. \A g \in Handlers : task[g].pc \in {"weigh", "stake"} => g # h
      BY DEF Syncing
    <2>2. \A g \in Funds : \A b : Owed(g, b) => Owed(g, b)'
      BY <1>4, <2>1 DEF Owed
    <2> QED
      BY <2>2 DEF IInv, MembersHaveStake, Covered
  <1> QED
    BY <1>2, <1>4, <1>5, <1>6

LEMMA UpsertFundDeploymentKeeps ==
    ASSUME IInv, NEW h \in Handlers, UpsertFundDeployment(h)
    PROVE  IInv'
  <1> DEFINE f == task[h].fund
             x == task[h].tx
  <1>1. /\ task[h].pc = "deployment" /\ task[h].pc \in Syncing /\ "fund" \in Syncing
        /\ UNCHANGED <<agent, fund, member, stake, rivalTx, rivalId, cutOff>>
        /\ cutOff \subseteq Funds \X Addresses
    BY DEF UpsertFundDeployment, marks, Syncing, IInv, TypeOK
  <1>2. CASE UNCHANGED deployment /\ Done(h)
    BY <1>1, <1>2, Ends DEF db
  <1>3. CASE /\ TxFree(f, x) /\ deployment' = [deployment EXCEPT ![f] = x]
             /\ Go(h, "fund")
    <2>1. /\ task[h] \in SyncTask /\ f \in Funds /\ x \in Txs
      BY <1>1, <1>3, SyncGoes DEF IInv, SyncTask
    <2>2. /\ DOMAIN task' = Handlers /\ task' = [k \in Handlers |-> task'[k]]
          /\ \A k \in Handlers : IsTask(task'[k])
          /\ \A k \in Handlers : k # h => task'[k] = task[k]
          /\ /\ task'[h].pc = "fund" /\ task'[h].fund = f /\ task'[h].id = task[h].id
             /\ task'[h].address = task[h].address /\ task'[h].tx = x
          /\ SameReport' /\ MembersHaveStake'
      BY <1>1, <1>3, Goes
    <2>3. /\ deployment'[f] = x /\ x # NoTx
          /\ \A g \in Funds : g # f => deployment'[g] = deployment[g]
          /\ f \notin rivalTx => deployment[f] \in {NoTx, x}
      BY <1>1, <1>3, <2>1, NoneAssumption DEF IInv, TypeOK, TasksBacked, Backed, SyncBacked
    <2>4. TypeOK'
      BY <1>1, <1>3, <2>1, <2>2 DEF IInv, TypeOK
    <2>5. RowsInOrder'
      BY <1>1, <2>1, <2>3 DEF IInv, RowsInOrder, Entered, IsStrategyOf
    <2>6. OneFundPerDeployment'
      BY <1>3, <2>1, <2>3 DEF IInv, OneFundPerDeployment, TxFree
    <2>7. TasksBacked'
      <3>1. ASSUME NEW k \in Handlers PROVE Backed(task[k])'
        <4>1. CASE k = h
          BY <1>1, <2>2, <2>3, <4>1 DEF IInv, TasksBacked, Backed, SyncBacked, Syncing
        <4>2. CASE k # h
          <5>1. task[k].pc \in Syncing => task[k].fund \in Funds
            BY DEF IInv, TypeOK, IsTask, Idle, SyncTask, EntryTask, StakeTask, Syncing
          <5>2. task[k].pc \in Syncing /\ task[k].fund = f /\ f \notin rivalTx
                => task[k].tx = x
            BY <1>1 DEF IInv, SameReport
          <5>3. SyncBacked(task[k])'
            BY <1>1, <2>2, <2>3, <4>2, <5>1, <5>2
               DEF IInv, TasksBacked, Backed, SyncBacked, Syncing
          <5> QED
            BY <1>1, <2>2, <4>2, <5>3 DEF IInv, TasksBacked, Backed, Entered
        <4> QED
          BY <4>1, <4>2
      <3> QED
        BY <3>1 DEF TasksBacked
    <2> QED
      BY <2>2, <2>4, <2>5, <2>6, <2>7 DEF IInv
  <1> QED
    BY <1>2, <1>3 DEF UpsertFundDeployment

LEMMA UpsertFundKeeps == ASSUME IInv, NEW h \in Handlers, UpsertFund(h) PROVE IInv'
  <1> DEFINE f == task[h].fund
  <1>1. /\ task[h].pc = "fund" /\ task[h].pc \in Syncing /\ "strategy" \in Syncing
        /\ UNCHANGED <<agent, deployment, member, stake, rivalTx, rivalId, cutOff>>
        /\ fund' = [fund EXCEPT ![f] = [id |-> task[h].id, address |-> task[h].address]]
        /\ Go(h, "strategy")
    BY DEF UpsertFund, marks, Syncing
  <1>2. /\ f \in Funds /\ task[h].id \in BotIds
        /\ task[h].address \in Addresses /\ task[h].tx \in Txs
    BY <1>1, SyncGoes DEF IInv, SyncTask
  <1>3. /\ DOMAIN task' = Handlers /\ task' = [k \in Handlers |-> task'[k]]
        /\ \A k \in Handlers : IsTask(task'[k])
        /\ \A k \in Handlers : k # h => task'[k] = task[k]
        /\ /\ task'[h].pc = "strategy" /\ task'[h].fund = f /\ task'[h].id = task[h].id
           /\ task'[h].address = task[h].address /\ task'[h].tx = task[h].tx
        /\ SameReport' /\ MembersHaveStake'
    BY <1>1, Goes
  <1>4. /\ fund'[f].id = task[h].id /\ fund'[f].address = task[h].address
        /\ fund'[f] # NoFund
        /\ \A g \in Funds : g # f => fund'[g] = fund[g]
    BY <1>1, <1>2, NoneAssumption DEF IInv, TypeOK, NoFund
  <1>5. /\ deployment[f] # NoTx /\ agent[task[h].tx] = task[h].address
        /\ f \notin rivalTx => deployment[f] = task[h].tx
        /\ f \notin rivalId => fund[f].id \in {NoId, task[h].id}
    BY <1>1 DEF IInv, TasksBacked, Backed, SyncBacked
  <1>6. TypeOK'
    <2>1. fund' \in [Funds -> FundRow]
      BY <1>1, <1>2 DEF IInv, TypeOK, FundRow
    <2> QED
      BY <1>1, <1>3, <2>1 DEF IInv, TypeOK
  <1>7. RowsInOrder' /\ OneFundPerDeployment'
    <2>1. ASSUME NEW i \in BotIds, f \notin rivalId, IsStrategyOf(i, f)
          PROVE  task[h].id = i
      <3>1. Entered(f)
        BY <2>1 DEF Entered, IsStrategyOf, NoMember
      <3>2. fund[f].id # NoId /\ fund[f].id = i
        BY <1>2, <2>1, <3>1, Rows DEF IInv, RowsInOrder
      <3> QED
        BY <1>5, <2>1, <3>2
    <2> QED
      BY <1>1, <1>2, <1>4, <1>5, <2>1
         DEF IInv, RowsInOrder, OneFundPerDeployment, Entered, IsStrategyOf
  <1>8. TasksBacked'
    <2>1. ASSUME NEW k \in Handlers PROVE Backed(task[k])'
      <3>1. CASE k = h
        BY <1>1, <1>3, <1>4, <1>5, <3>1 DEF Backed, SyncBacked
      <3>2. CASE k # h
        <4>1. task[k] # Idle => task[k].fund \in Funds
          BY DEF IInv, TypeOK, IsTask, SyncTask, EntryTask, StakeTask
        <4>2. task[k].pc \in Syncing /\ task[k].fund = f /\ f \notin rivalId
              => task[k].id = task[h].id
          BY <1>1 DEF IInv, SameReport
        <4>3. SyncBacked(task[k])'
          BY <1>1, <1>3, <1>4, <3>2, <4>1, <4>2
             DEF IInv, TasksBacked, Backed, SyncBacked, Idle, Syncing
        <4> QED
          BY <1>1, <1>3, <1>4, <3>2, <4>1, <4>3
             DEF IInv, TasksBacked, Backed, Entered, Idle
      <3> QED
        BY <3>1, <3>2
    <2> QED
      BY <2>1 DEF TasksBacked
  <1> QED
    BY <1>3, <1>6, <1>7, <1>8 DEF IInv

-----------------------------------------------------------------------------
(* The steps of the others. *)

(* A membership is written; a participant's is covered by what h does next. *)
LEMMA MemberWritten ==
    ASSUME IInv, NEW h \in Handlers, NEW t, IsTask(t), t.pc \notin Syncing,
           task' = [task EXCEPT ![h] = t], Backed(t)', task[h].pc \notin {"weigh", "stake"},
           NEW f \in Funds, NEW i \in BotIds, NEW a \in Addresses,
           NEW r \in {"participant", "strategy"},
           member' = [member EXCEPT ![f][i] = [role |-> r, address |-> a]],
           fund[f] # NoFund,
           r = "strategy" /\ f \notin rivalId => fund[f].id = i,
           r = "participant" => t.pc \in {"weigh", "stake"} /\ t.fund = f /\ t.address = a,
           UNCHANGED <<agent, deployment, fund, stake, marks>>
    PROVE  IInv'
  <1>1. /\ DOMAIN task' = Handlers /\ task' = [k \in Handlers |-> task'[k]]
        /\ task'[h] = t
        /\ \A k \in Handlers : k # h => task'[k] = task[k]
        /\ \A k \in Handlers : IsTask(task'[k])
    BY TaskReplaced DEF IInv
  <1>2. /\ UNCHANGED <<rivalTx, rivalId, cutOff>>
        /\ member'[f][i].role = r /\ member'[f][i].address = a /\ member'[f][i] # NoMember
        /\ \A g \in Funds, j \in BotIds : (g # f \/ j # i) => member'[g][j] = member[g][j]
    BY DEF IInv, TypeOK, NoMember, marks
  <1>3. \A g \in Funds : Entered(g) => Entered(g)'
    BY <1>2 DEF Entered
  <1>4. TypeOK'
    <2>1. member' \in [Funds -> [BotIds -> MemberRow]]
      BY DEF IInv, TypeOK, MemberRow
    <2> QED
      BY <1>1, <1>2, <2>1 DEF IInv, TypeOK
  <1>5. RowsInOrder' /\ OneFundPerDeployment'
    <2>1. \A g \in Funds : Entered(g)' => Entered(g) \/ g = f
      BY <1>2 DEF Entered
    <2>2. \A g \in Funds, j \in BotIds :
            IsStrategyOf(j, g)' => IsStrategyOf(j, g) \/ (g = f /\ j = i /\ r = "strategy")
      BY <1>2 DEF IsStrategyOf
    <2> QED
      BY <1>2, <1>3, <2>1, <2>2 DEF IInv, RowsInOrder, OneFundPerDeployment
  <1>6. MembersHaveStake'
    <2>1. \A g \in Funds, b \in Addresses : Covered(g, b) => Covered(g, b)'
      BY <1>2, CoverKept
    <2>2. r = "participant" => Covered(f, a)'
      BY <1>1 DEF Covered, Owed
    <2>3. ASSUME NEW g \in Funds, NEW j \in BotIds, member'[g][j].role = "participant",
                 g # f \/ j # i
          PROVE  Covered(g, member[g][j].address)'
      <3>1. member[g][j].address \in Addresses /\ member[g][j].role = "participant"
        BY <1>2, <2>3, Rows DEF IInv
      <3>2. PICK b \in Addresses : b = member[g][j].address
        BY <3>1
      <3>3. Covered(g, b)'
        BY <2>1, <3>1, <3>2 DEF IInv, MembersHaveStake
      <3>4. member'[g][j].address = b
        BY <1>2, <2>3, <3>2
      <3> QED
        BY <1>2, <2>3, <3>3, <3>4
    <2> QED
      BY <1>2, <2>2, <2>3 DEF MembersHaveStake
  <1>7. SameReport'
    BY <1>2, SameReportKept
  <1>8. TasksBacked'
    <2>1. ASSUME NEW k \in Handlers, k # h PROVE Backed(task[k])'
      <3>1. task[k].pc \in {"weigh", "stake", "weight"} => task[k].fund \in Funds
        BY DEF IInv, TypeOK, IsTask, Idle, SyncTask, EntryTask, StakeTask, Syncing
      <3>2. SyncBacked(task[k])'
        BY <1>1, <1>2, <2>1 DEF IInv, TasksBacked, Backed, SyncBacked
      <3> QED
        BY <1>1, <1>3, <2>1, <3>1, <3>2 DEF IInv, TasksBacked, Backed
    <2>2. Backed(task[h])'
      BY <1>1
    <2> QED
      BY <2>1, <2>2 DEF TasksBacked
  <1> QED
    BY <1>4, <1>5, <1>6, <1>7, <1>8 DEF IInv

LEMMA UpsertStrategyKeeps == ASSUME IInv, NEW h \in Handlers, UpsertStrategy(h) PROVE IInv'
  <1>1. task[h].pc = "strategy" /\ task[h].pc \in Syncing
    BY DEF UpsertStrategy, Syncing
  <1>2. task[h] \in SyncTask
    BY <1>1 DEF IInv, TypeOK, IsTask, Idle, EntryTask, StakeTask, Syncing
  <1>3. PICK f \in Funds, i \in BotIds, a \in Addresses :
          f = task[h].fund /\ i = task[h].id /\ a = task[h].address
    BY <1>2 DEF SyncTask
  <1>4. fund[f] # NoFund /\ (f \notin rivalId => fund[f].id = i)
    <2>1. fund[f] # NoFund /\ (f \notin rivalId => fund[f].id \in {NoId, i})
      BY <1>1, <1>3 DEF IInv, TasksBacked, Backed, SyncBacked
    <2> QED
      BY <2>1, Rows DEF IInv
  <1>5. IsTask(Idle) /\ Backed(Idle)' /\ Idle.pc \notin Syncing
    BY DEF IsTask, Backed, SyncBacked, Idle, Syncing
  <1>6. /\ task' = [task EXCEPT ![h] = Idle]
        /\ member' = [member EXCEPT ![f][i] = [role |-> "strategy", address |-> a]]
        /\ UNCHANGED <<agent, deployment, fund, stake, marks>>
    BY <1>3 DEF UpsertStrategy, WriteMember, Done
  <1> QED
    BY <1>1, <1>4, <1>5, <1>6, MemberWritten

LEMMA UpsertParticipantKeeps ==
    ASSUME IInv, NEW h \in Handlers, UpsertParticipant(h)
    PROVE  IInv'
  <1>1. task[h].pc \in {"join", "register"}
    BY DEF UpsertParticipant
  <1>2. task[h] \in EntryTask /\ fund[task[h].fund] # NoFund
    BY <1>1 DEF IInv, TypeOK, TasksBacked, Backed, IsTask, Idle, SyncTask, StakeTask, Syncing
  <1>3. PICK f \in Funds, i \in BotIds, a \in Addresses :
          f = task[h].fund /\ i = task[h].id /\ a = task[h].address
    BY <1>2 DEF EntryTask
  <1>4. PICK p \in {"weigh", "stake"} : p = IF task[h].pc = "join" THEN "weigh" ELSE "stake"
    OBVIOUS
  <1>5. PICK t : t = [pc |-> p, fund |-> f, address |-> a, weight |-> 1]
    OBVIOUS
  <1>6. /\ task' = [task EXCEPT ![h] = t]
        /\ member' = [member EXCEPT ![f][i] = [role |-> "participant", address |-> a]]
        /\ UNCHANGED <<agent, deployment, fund, stake, marks>>
    BY <1>3, <1>4, <1>5 DEF UpsertParticipant, WriteMember
  <1>7. t.pc \in {"weigh", "stake"} /\ t.fund = f /\ t.address = a /\ IsTask(t)
    BY <1>5 DEF IsTask, StakeTask
  <1>8. Entered(f)'
    <2>1. member'[f][i].role = "participant"
      BY <1>6 DEF IInv, TypeOK
    <2> QED
      BY <2>1 DEF Entered, NoMember
  <1>9. Backed(t)' /\ t.pc \notin Syncing
    BY <1>7, <1>8 DEF Backed, SyncBacked, Syncing
  <1>10. task[h].pc \notin {"weigh", "stake"} /\ fund[f] # NoFund
    BY <1>1, <1>2, <1>3
  <1> QED
    BY <1>6, <1>7, <1>9, <1>10, MemberWritten

(* A request that writes no report is let in. *)
LEMMA Admitted ==
    ASSUME IInv, NEW h \in Handlers, NEW t, IsTask(t), Begin(h, t), Backed(t),
           t.pc \notin Syncing, UNCHANGED <<agent, db, marks>>
    PROVE  IInv'
  <1>1. /\ task' = [task EXCEPT ![h] = t] /\ task[h].pc \notin {"weigh", "stake"}
        /\ UNCHANGED <<agent, db, rivalTx, rivalId>>
        /\ cutOff' = cutOff /\ cutOff \subseteq Funds \X Addresses
    BY DEF Begin, Idle, marks, IInv, TypeOK
  <1> QED
    BY <1>1, QuietStep

LEMMA EntryAdmitted ==
    ASSUME IInv, NEW h \in Handlers, NEW f \in Funds, NEW i \in BotIds, NEW a \in Addresses,
           NEW p \in {"join", "register"}, fund[f] # NoFund,
           Begin(h, [pc |-> p, fund |-> f, id |-> i, address |-> a]),
           UNCHANGED <<agent, db, marks>>
    PROVE  IInv'
  <1> DEFINE t == [pc |-> p, fund |-> f, id |-> i, address |-> a]
  <1>1. t.pc = p /\ t.fund = f /\ IsTask(t)
    BY DEF IsTask, EntryTask
  <1>2. Begin(h, t)
    OBVIOUS
  <1> HIDE DEF t
  <1>3. Backed(t) /\ t.pc \notin Syncing
    BY <1>1 DEF Backed, SyncBacked, Syncing
  <1> QED
    BY <1>1, <1>2, <1>3, Admitted

LEMMA AdmitStakeKeeps ==
    ASSUME IInv, NEW h \in Handlers, NEW i \in BotIds, NEW f \in Funds, NEW p \in BotIds,
           NEW a \in Addresses, AdmitStake(h, i, f, p, a)
    PROVE  IInv'
  <1>1. PICK w \in Stakes :
          Begin(h, [pc |-> "weight", fund |-> f, address |-> a, weight |-> w])
    BY DEF AdmitStake
  <1> DEFINE t == [pc |-> "weight", fund |-> f, address |-> a, weight |-> w]
  <1>2. t.pc = "weight" /\ t.fund = f /\ IsTask(t)
    BY StakeAssumption DEF IsTask, StakeTask
  <1>3. Begin(h, t)
    BY <1>1
  <1> HIDE DEF t
  <1>4. Entered(f)
    BY DEF AdmitStake, Entered, NoMember
  <1>5. Backed(t) /\ t.pc \notin Syncing
    BY <1>2, <1>4 DEF Backed, SyncBacked, Syncing
  <1> QED
    BY <1>2, <1>3, <1>5, Admitted DEF AdmitStake

LEMMA ReadStakeKeeps == ASSUME IInv, NEW h \in Handlers, ReadStake(h) PROVE IInv'
  <1>1. /\ task[h].pc = "weigh" /\ UNCHANGED <<agent, db, rivalTx, rivalId>>
        /\ cutOff' = cutOff /\ cutOff \subseteq Funds \X Addresses
    BY DEF ReadStake, marks, IInv, TypeOK
  <1>2. CASE Staked(task[h].fund, task[h].address) /\ Done(h)
    BY <1>1, <1>2, Ends DEF Staked, Answered, db
  <1>3. CASE Go(h, "stake")
    <2> DEFINE t == [pc |-> "stake", fund |-> task[h].fund,
                     address |-> task[h].address, weight |-> task[h].weight]
    <2>1. task[h] \in StakeTask
      BY <1>1 DEF IInv, TypeOK, IsTask, Idle, SyncTask, EntryTask, Syncing
    <2>2. [task[h] EXCEPT !.pc = "stake"] = t
      BY <2>1 DEF StakeTask
    <2>3. task' = [task EXCEPT ![h] = [task[h] EXCEPT !.pc = "stake"]]
      BY <1>3 DEF Go
    <2>4. /\ t.pc = "stake" /\ t.fund = task[h].fund /\ t.address = task[h].address
          /\ IsTask(t)
      BY <2>1 DEF IsTask, StakeTask
    <2>5. Entered(task[h].fund)
      BY <1>1 DEF IInv, TasksBacked, Backed
    <2>6. task' = [task EXCEPT ![h] = t]
      BY <2>2, <2>3
    <2> HIDE DEF t
    <2>7. Backed(t) /\ t.pc \notin Syncing /\ Answered(t, task[h].fund, task[h].address)
      BY <2>4, <2>5 DEF Backed, SyncBacked, Syncing, Answered
    <2> QED
      BY <1>1, <2>4, <2>6, <2>7, QuietStep
  <1> QED
    BY <1>2, <1>3 DEF ReadStake

LEMMA UpsertStakeWeightKeeps ==
    ASSUME IInv, NEW h \in Handlers, UpsertStakeWeight(h)
    PROVE  IInv'
  <1>1. task[h].pc \in {"stake", "weight"}
    BY DEF UpsertStakeWeight
  <1>2. task[h] \in StakeTask /\ Entered(task[h].fund)
    BY <1>1 DEF IInv, TypeOK, TasksBacked, Backed, IsTask, Idle, SyncTask, EntryTask, Syncing
  <1>3. PICK f \in Funds, a \in Addresses, w \in Nat :
          f = task[h].fund /\ a = task[h].address /\ w = task[h].weight
    BY <1>2 DEF StakeTask
  <1>4. /\ task' = [task EXCEPT ![h] = Idle]
        /\ stake' = [stake EXCEPT ![f][a] = w]
        /\ UNCHANGED <<agent, deployment, fund, member, rivalTx, rivalId, cutOff>>
    BY <1>3 DEF UpsertStakeWeight, Done, marks
  <1>5. IsTask(Idle) /\ Idle.pc \notin Syncing /\ Backed(Idle)'
    BY DEF IsTask, Idle, Syncing, Backed, SyncBacked
  <1>6. /\ DOMAIN task' = Handlers /\ task' = [k \in Handlers |-> task'[k]]
        /\ task'[h] = Idle
        /\ \A k \in Handlers : k # h => task'[k] = task[k]
        /\ \A k \in Handlers : IsTask(task'[k])
    BY <1>4, <1>5, TaskReplaced DEF IInv
  <1>7. /\ stake' \in [Funds -> [Addresses -> Nat \cup {NoStake}]]
        /\ \A g \in Funds, b \in Addresses : (g # f \/ b # a) => stake'[g][b] = stake[g][b]
        /\ stake'[f][a] = w /\ w # NoStake
    BY <1>4 DEF IInv, TypeOK, NoStake
  <1>8. TypeOK'
    BY <1>4, <1>6, <1>7 DEF IInv, TypeOK
  <1>9. RowsInOrder' /\ OneFundPerDeployment'
    BY <1>2, <1>3, <1>4, <1>7
       DEF IInv, RowsInOrder, OneFundPerDeployment, Entered, IsStrategyOf
  <1>10. MembersHaveStake'
    <2>1. \A g \in Funds, b \in Addresses : Covered(g, b) => Covered(g, b)'
      <3>1. \A g \in Funds, b \in Addresses : stake[g][b] # NoStake => stake'[g][b] # NoStake
        BY <1>7
      <3>2. Answered(Idle, task[h].fund, task[h].address)
        BY <1>3, <1>7 DEF Answered
      <3> QED
        BY <1>4, <1>5, <3>1, <3>2, CoverKept
    <2>2. ASSUME NEW g \in Funds, NEW j \in BotIds, member[g][j].role = "participant"
          PROVE  Covered(g, member[g][j].address)'
      <3>1. PICK b \in Addresses : b = member[g][j].address
        BY <2>2, Rows DEF IInv
      <3>2. Covered(g, b)'
        BY <2>1, <2>2, <3>1 DEF IInv, MembersHaveStake
      <3> QED
        BY <1>4, <3>1, <3>2
    <2> QED
      BY <1>4, <2>2 DEF MembersHaveStake
  <1>11. SameReport'
    BY <1>4, <1>5, SameReportKept
  <1>12. TasksBacked'
    <2>1. ASSUME NEW k \in Handlers PROVE Backed(task[k])'
      BY <1>4, <1>5, <1>6 DEF IInv, TasksBacked, Backed, SyncBacked, Entered
    <2> QED
      BY <2>1 DEF TasksBacked
  <1> QED
    BY <1>8, <1>9, <1>10, <1>11, <1>12 DEF IInv

LEMMA AbortKeeps == ASSUME IInv, NEW h \in Handlers, Abort(h) PROVE IInv'
  <1>1. /\ Done(h) /\ UNCHANGED <<agent, db, rivalTx, rivalId>>
        /\ cutOff \subseteq cutOff' /\ cutOff \subseteq Funds \X Addresses
    BY DEF Abort, IInv, TypeOK
  <1>2. CASE task[h].pc \in {"weigh", "stake"}
    <2>1. cutOff' = cutOff \cup {<<task[h].fund, task[h].address>>}
      BY <1>2 DEF Abort
    <2>2. task[h].fund \in Funds /\ task[h].address \in Addresses
      BY <1>2 DEF IInv, TypeOK, IsTask, Idle, SyncTask, EntryTask, StakeTask, Syncing
    <2>3. Answered(Idle, task[h].fund, task[h].address)
      BY <2>1 DEF Answered
    <2> QED
      BY <1>1, <2>1, <2>2, <2>3, Ends
  <1>3. CASE task[h].pc \notin {"weigh", "stake"}
    <2>1. cutOff' = cutOff
      BY <1>3 DEF Abort
    <2> QED
      BY <1>1, <1>3, <2>1, Ends
  <1> QED
    BY <1>2, <1>3

-----------------------------------------------------------------------------
(* The theorems. *)

LEMMA StepInv == ASSUME IInv, [Next]_vars PROVE IInv'
  <1>1. CASE UNCHANGED vars
    BY <1>1 DEF vars, db, marks, IInv, TypeOK, RowsInOrder, OneFundPerDeployment,
                MembersHaveStake, Covered, Owed, Entered, IsStrategyOf,
                SameReport, TasksBacked, Backed, SyncBacked
  <1>2. ASSUME NEW a \in Addresses, CreateFund(a)
        PROVE  IInv'
    BY <1>2, CreateFundKeeps
  <1>3. ASSUME NEW h \in Handlers, NEW i \in BotIds, NEW a \in Addresses, NEW f \in Funds,
               NEW t \in Txs, AdmitSync(h, i, a, f, t)
        PROVE  IInv'
    BY <1>3, AdmitSyncKeeps
  <1>4. ASSUME NEW h \in Handlers, NEW i \in BotIds, NEW a \in Addresses, NEW f \in Funds,
               AdmitJoin(h, i, a, f)
        PROVE  IInv'
    BY <1>4, EntryAdmitted DEF AdmitJoin, RoomKnown
  <1>5. ASSUME NEW h \in Handlers, NEW i \in BotIds, NEW f \in Funds, NEW p \in BotIds,
               NEW a \in Addresses, AdmitRegister(h, i, f, p, a)
        PROVE  IInv'
    <2>1. fund[f] # NoFund
      BY <1>5, NoneAssumption DEF AdmitRegister, NoFund
    <2> QED
      BY <1>5, <2>1, EntryAdmitted DEF AdmitRegister
  <1>6. ASSUME NEW h \in Handlers, NEW i \in BotIds, NEW f \in Funds, NEW p \in BotIds,
               NEW a \in Addresses, AdmitStake(h, i, f, p, a)
        PROVE  IInv'
    BY <1>6, AdmitStakeKeeps
  <1>7. ASSUME NEW h \in Handlers,
               Check(h) \/ UpsertFundDeployment(h) \/ UpsertFund(h) \/ UpsertStrategy(h)
        PROVE  IInv'
    BY <1>7, CheckKeeps, UpsertFundDeploymentKeeps, UpsertFundKeeps, UpsertStrategyKeeps
  <1>8. ASSUME NEW h \in Handlers,
               UpsertParticipant(h) \/ ReadStake(h) \/ UpsertStakeWeight(h) \/ Abort(h)
        PROVE  IInv'
    BY <1>8, UpsertParticipantKeeps, ReadStakeKeeps, UpsertStakeWeightKeeps, AbortKeeps
  <1> QED
    BY <1>1, <1>2, <1>3, <1>4, <1>5, <1>6, <1>7, <1>8 DEF Next

(* The invariant that the theorems below rest on. *)
THEOREM Inductive == Spec => []IInv
  BY InitInv, StepInv, PTL DEF Spec

(* Rows are never written before, nor left without, the rows they refer to,  *)
(* and without rivals a fund's row names its agent and its one strategy bot. *)
THEOREM NoRowWithoutItsParent == Spec => []RowsInOrder
  BY Inductive, PTL DEF IInv

(* The unique index decides which of two funds has a deployment.              *)
THEOREM DeploymentsAreNotShared == Spec => []OneFundPerDeployment
  BY Inductive, PTL DEF IInv

(* An entry gives its address a stake, or dies before; nothing takes it away. *)
THEOREM NoMemberWithoutStake == Spec => []MembersHaveStake
  BY Inductive, PTL DEF IInv

(* Without rivals, a step of the specification leaves the contracts, the      *)
(* strategy address and the strategy id of a fund alone, once they are known. *)
THEOREM IdentityIsKept == Spec => FundKeepsIdentity
  <1> DEFINE A == \A f \in Funds :
                    /\ deployment[f] # NoTx /\ f \notin rivalTx
                       => deployment'[f] = deployment[f]
                    /\ fund[f] # NoFund =>
                         /\ f \notin rivalTx => fund'[f].address = fund[f].address
                         /\ f \notin rivalId => fund'[f].id = fund[f].id
  <1>1. ASSUME IInv, [Next]_vars PROVE [A]_vars
    <2>1. CASE UNCHANGED <<deployment, fund>>
      BY <2>1
    <2>2. ASSUME NEW h \in Handlers, UpsertFundDeployment(h)
          PROVE  A
      BY <1>1, <2>2 DEF UpsertFundDeployment, IInv, TypeOK, TasksBacked, Backed, SyncBacked
    <2>3. ASSUME NEW h \in Handlers, UpsertFund(h)
          PROVE  A
      <3>1. /\ task[h].pc = "fund" /\ task[h].pc \in Syncing /\ UNCHANGED deployment
            /\ fund' = [fund EXCEPT ![task[h].fund] =
                          [id |-> task[h].id, address |-> task[h].address]]
        BY <2>3 DEF UpsertFund, Syncing
      <3>2. ASSUME NEW f \in Funds, fund[f] # NoFund, f = task[h].fund
            PROVE  /\ f \notin rivalTx => fund[f].address = task[h].address
                   /\ f \notin rivalId => fund[f].id = task[h].id
        <4>1. /\ agent[task[h].tx] = task[h].address
              /\ f \notin rivalTx => deployment[f] = task[h].tx
              /\ f \notin rivalId => fund[f].id \in {NoId, task[h].id}
          BY <1>1, <3>1, <3>2 DEF IInv, TasksBacked, Backed, SyncBacked
        <4>2. fund[f].id # NoId /\ (f \notin rivalTx => agent[deployment[f]] = fund[f].address)
          BY <1>1, <3>2, Rows DEF IInv, RowsInOrder
        <4> QED
          BY <4>1, <4>2
      <3>3. ASSUME NEW f \in Funds, f # task[h].fund PROVE fund'[f] = fund[f]
        BY <1>1, <3>1, <3>3 DEF IInv, TypeOK
      <3>4. ASSUME NEW f \in Funds, f = task[h].fund
            PROVE  fund'[f].id = task[h].id /\ fund'[f].address = task[h].address
        BY <1>1, <3>1, <3>4 DEF IInv, TypeOK
      <3> QED
        BY <3>1, <3>2, <3>3, <3>4
    <2>4. ASSUME NEW h \in Handlers,
                 \/ Check(h) \/ UpsertStrategy(h) \/ UpsertParticipant(h) \/ ReadStake(h)
                 \/ UpsertStakeWeight(h) \/ Abort(h)
                 \/ \E i, p \in BotIds, a \in Addresses, f \in Funds :
                      \/ \E t \in Txs : AdmitSync(h, i, a, f, t)
                      \/ AdmitJoin(h, i, a, f)
                      \/ AdmitRegister(h, i, f, p, a) \/ AdmitStake(h, i, f, p, a)
          PROVE  UNCHANGED <<deployment, fund>>
      BY <2>4 DEF db, AdmitSync, AdmitJoin, AdmitRegister, AdmitStake, Check, UpsertStrategy,
                  UpsertParticipant, ReadStake, UpsertStakeWeight, Abort
    <2>5. (\E a \in Addresses : CreateFund(a)) \/ UNCHANGED vars => UNCHANGED <<deployment, fund>>
      BY DEF CreateFund, vars, db
    <2> HIDE DEF A
    <2> QED
      BY <1>1, <2>1, <2>2, <2>3, <2>4, <2>5 DEF Next
  <1>2. IInv /\ [Next]_vars => [A]_vars
    BY <1>1
  <1> HIDE DEF A
  <1>3. Spec => [][A]_vars
    BY Inductive, <1>2, PTL DEF Spec
  <1> QED
    BY <1>3 DEF A, FundKeepsIdentity

-----------------------------------------------------------------------------
(* The feed: the history is a run of consecutive ids up to the last one, and *)
(* exactly what came before it is gone.                                      *)
StreamTypeOK ==
    /\ emitted \in Nat /\ attested \subseteq 1..emitted
    /\ history \in Seq(Nat) /\ seen \in Seq(Nat)
    /\ feed \in [open : BOOLEAN, queue : Seq(Nat)]

HistoryIsRecent ==
    /\ Len(history) <= emitted
    /\ \A i \in 1..Len(history) : history[i] = emitted - Len(history) + i
    /\ gone = 1..(emitted - Len(history))

Ascending(s) == \A i, j \in 1..Len(s) : i < j => s[i] < s[j]
In(id, s) == \E i \in 1..Len(s) : s[i] = id

(* What was received, and then what is on its way, is in order. *)
LineInOrder ==
    /\ Ascending(seen) /\ Ascending(feed.queue)
    /\ \A id \in Nat : In(id, seen) \/ In(id, feed.queue) => id \in attested
    /\ \A i \in 1..Len(seen), j \in 1..Len(feed.queue) : seen[i] < feed.queue[j]
    /\ ~feed.open => feed.queue = <<>>

(* Since the first of them, what is in neither is forgotten; while the feed *)
(* is down, up to the last one received.                                    *)
OnTheLine(id) == In(id, seen) \/ In(id, feed.queue)
MissedIsGone ==
    \A id \in attested :
        /\ \E x \in Nat : OnTheLine(x) /\ x < id
        /\ feed.open \/ id < LastSeen
        /\ ~OnTheLine(id)
        => id \in gone

FeedInv == StreamTypeOK /\ HistoryIsRecent /\ LineInOrder /\ MissedIsGone

-----------------------------------------------------------------------------
(* Sequences of ids. *)

LEMMA Appended ==
    ASSUME NEW s \in Seq(Nat), NEW e \in Nat
    PROVE  /\ Append(s, e) \in Seq(Nat) /\ Len(Append(s, e)) = Len(s) + 1
           /\ \A i \in 1..Len(s) : Append(s, e)[i] = s[i]
           /\ Append(s, e)[Len(s) + 1] = e
           /\ \A id : In(id, Append(s, e)) <=> In(id, s) \/ id = e
  <1> PICK t, n : t = Append(s, e) /\ n = Len(s)
    OBVIOUS
  <1>1. /\ t \in Seq(Nat) /\ n \in Nat /\ Len(t) = n + 1
        /\ \A i \in 1..n : t[i] = s[i]
        /\ t[n + 1] = e
    OBVIOUS
  <1>2. ASSUME NEW id PROVE In(id, t) <=> In(id, s) \/ id = e
    <2>1. 1..(n + 1) = 1..n \cup {n + 1}
      BY <1>1
    <2> QED
      BY <1>1, <2>1 DEF In
  <1> QED
    BY <1>1, <1>2

LEMMA AppendAscends ==
    ASSUME NEW s \in Seq(Nat), NEW e \in Nat, Ascending(s), \A i \in 1..Len(s) : s[i] < e
    PROVE  Ascending(Append(s, e))
  <1> PICK t, n : t = Append(s, e) /\ n = Len(s)
    OBVIOUS
  <1>1. /\ n \in Nat /\ Len(t) = n + 1 /\ t[n + 1] = e
        /\ \A i \in 1..n : t[i] = s[i]
    BY Appended
  <1>2. ASSUME NEW i \in 1..(n + 1), NEW j \in 1..(n + 1), i < j PROVE t[i] < t[j]
    <2>1. i \in 1..n
      BY <1>1, <1>2
    <2>2. CASE j = n + 1
      BY <1>1, <2>1, <2>2
    <2>3. CASE j # n + 1
      <3>1. j \in 1..n
        BY <1>1, <2>3
      <3> QED
        BY <1>1, <1>2, <2>1, <3>1 DEF Ascending
    <2> QED
      BY <2>2, <2>3
  <1> QED
    BY <1>1, <1>2 DEF Ascending

LEMMA RestOf ==
    ASSUME NEW s \in Seq(Nat), NEW n \in Nat, n = Len(s), NEW p \in 1..n
    PROVE  /\ SubSeq(s, p + 1, n) \in Seq(Nat) /\ Len(SubSeq(s, p + 1, n)) = n - p
           /\ \A i \in 1..(n - p) : SubSeq(s, p + 1, n)[i] = s[p + i]
  <1>1. \A i \in (p + 1)..n : s[i] \in Nat
    OBVIOUS
  <1>2. /\ SubSeq(s, p + 1, n) \in Seq(Nat)
        /\ Len(SubSeq(s, p + 1, n)) = IF p + 1 <= n THEN n - (p + 1) + 1 ELSE 0
        /\ \A i \in 1..(n - (p + 1) + 1) : SubSeq(s, p + 1, n)[i] = s[p + 1 + i - 1]
    BY <1>1, SubSeqProperties
  <1>3. n \in Nat /\ p \in 1..n /\ n - (p + 1) + 1 = n - p
    OBVIOUS
  <1>4. Len(SubSeq(s, p + 1, n)) = n - p
    BY ONLY <1>2, <1>3
  <1>5. ASSUME NEW i \in 1..(n - p) PROVE SubSeq(s, p + 1, n)[i] = s[p + i]
    <2>1. p + 1 + i - 1 = p + i
      BY ONLY <1>3, <1>5
    <2> QED
      BY ONLY <1>2, <1>3, <1>5, <2>1
  <1> QED
    BY <1>2, <1>4, <1>5

-----------------------------------------------------------------------------
(* The loop of a replay: its turns exist, and what they have queued. *)

Sending(f, events, n) ==
    f = [i \in 0..n |-> IF i = 0 THEN <<>> ELSE Send(f[i - 1], events[i])]

LEMMA SendingExists ==
    ASSUME NEW events
    PROVE  \A n \in Nat : \E f : Sending(f, events, n)
  <1> DEFINE S == {n \in Nat : \E f : Sending(f, events, n)}
  <1>1. 0 \in S
    <2> PICK f : f = [i \in 0..0 |-> <<>>]
      OBVIOUS
    <2>1. f = [i \in 0..0 |-> IF i = 0 THEN <<>> ELSE Send(f[i - 1], events[i])]
      OBVIOUS
    <2> QED
      BY <2>1 DEF Sending
  <1>2. ASSUME NEW n \in S PROVE n + 1 \in S
    <2>1. PICK f : Sending(f, events, n)
      OBVIOUS
    <2>2. f = [i \in 0..n |-> IF i = 0 THEN <<>> ELSE Send(f[i - 1], events[i])]
      BY <2>1 DEF Sending
    <2> PICK g : g = [i \in 0..(n + 1) |-> IF i <= n THEN f[i] ELSE Send(f[n], events[n + 1])]
      OBVIOUS
    <2>3. n \in Nat /\ DOMAIN f = 0..n
      BY <2>2
    <2>4. ASSUME NEW i \in 0..(n + 1)
          PROVE  g[i] = IF i = 0 THEN <<>> ELSE Send(g[i - 1], events[i])
      <3>1. CASE i = 0
        BY <2>2, <2>3, <3>1
      <3>2. CASE i # 0 /\ i <= n
        <4>1. i \in 0..n /\ i - 1 \in 0..n /\ i - 1 \in 0..(n + 1) /\ i - 1 <= n
          BY <2>3, <3>2
        <4>2. g[i] = f[i] /\ g[i - 1] = f[i - 1]
          BY <3>2, <4>1
        <4>3. f[i] = Send(f[i - 1], events[i])
          BY <2>2, <3>2, <4>1
        <4> QED
          BY <3>2, <4>2, <4>3
      <3>3. CASE i = n + 1
        <4>1. n \in 0..(n + 1) /\ n <= n /\ ~ (i <= n) /\ i # 0 /\ i - 1 = n
          BY <2>3, <3>3
        <4>2. g[i] = Send(f[n], events[n + 1]) /\ g[n] = f[n]
          BY <4>1
        <4> QED
          BY <3>3, <4>1, <4>2
      <3> QED
        BY <2>3, <3>1, <3>2, <3>3
    <2>5. g = [i \in 0..(n + 1) |-> IF i = 0 THEN <<>> ELSE Send(g[i - 1], events[i])]
      BY <2>4
    <2>6. Sending(g, events, n + 1)
      BY <2>5 DEF Sending
    <2> QED
      BY <2>3, <2>6
  <1> HIDE DEF S
  <1>3. S \subseteq Nat
    BY DEF S
  <1>4. S = Nat
    BY <1>1, <1>2, <1>3, NatSet
  <1> QED
    BY <1>4 DEF S

(* A replay queues the attested ids of an ascending sequence, in its order. *)
LEMMA ReplaySound ==
    ASSUME NEW s \in Seq(Nat), Ascending(s)
    PROVE  /\ Replay(s) \in Seq(Nat) /\ Ascending(Replay(s))
           /\ \A id \in Nat : In(id, Replay(s)) <=> In(id, s) /\ id \in attested
  <1> PICK m : m = Len(s)
    OBVIOUS
  <1>0. m \in Nat
    OBVIOUS
  <1>1. PICK f : Sending(f, s, m) /\ Replay(s) = f[m]
    <2> PICK g : g = CHOOSE h : Sending(h, s, m)
      OBVIOUS
    <2>1. Sending(g, s, m)
      BY <1>0, SendingExists
    <2>2. Replay(s) = g[m]
      BY DEF Replay, Sending
    <2> QED
      BY <2>1, <2>2
  <1>2. /\ f = [i \in 0..m |-> IF i = 0 THEN <<>> ELSE Send(f[i - 1], s[i])]
    BY <1>1 DEF Sending
  <1> DEFINE Queued(n) ==
        /\ f[n] \in Seq(Nat) /\ Ascending(f[n])
        /\ \A id \in Nat : In(id, f[n]) <=> id \in attested /\ \E i \in 1..n : s[i] = id
      T == {n \in Nat : n <= m => Queued(n)}
  <1>3. Queued(0)
    <2>1. f[0] = <<>>
      BY <1>0, <1>2
    <2>2. /\ f[0] \in Seq(Nat) /\ 1..Len(f[0]) = {} /\ 1..0 = {}
      BY <2>1
    <2> QED
      BY <2>2 DEF Ascending, In
  <1>4. ASSUME NEW n \in Nat, n + 1 <= m, Queued(n) PROVE Queued(n + 1)
    <2>1. n \in Nat /\ Queued(n) /\ n \in 0..m /\ n + 1 \in 1..m
      BY <1>0, <1>4
    <2> PICK q, e, r : q = f[n] /\ e = s[n + 1] /\ r = f[n + 1]
      OBVIOUS
    <2>2. r = Send(q, e)
      BY <1>2, <2>1
    <2>3. /\ q \in Seq(Nat) /\ Ascending(q) /\ e \in Nat
          /\ \A id \in Nat : In(id, q) <=> id \in attested /\ \E i \in 1..n : s[i] = id
      BY <2>1
    <2>4. \A i \in 1..n : s[i] < e /\ s[i] \in Nat
      BY <2>1 DEF Ascending
    <2>5. 1..(n + 1) = 1..n \cup {n + 1}
      BY <2>1
    <2>6. CASE e \in attested
      <3>1. r = Append(q, e)
        BY <2>2, <2>6 DEF Send
      <3>2. \A i \in 1..Len(q) : q[i] < e
        <4> SUFFICES ASSUME NEW i \in 1..Len(q) PROVE q[i] < e
          OBVIOUS
        <4>1. q[i] \in Nat /\ In(q[i], q)
          BY <2>3 DEF In
        <4> QED
          BY <2>3, <2>4, <4>1
      <3>3. r \in Seq(Nat) /\ Ascending(r) /\ \A id \in Nat : In(id, r) <=> In(id, q) \/ id = e
        <4>1. Append(q, e) \in Seq(Nat) /\ \A id : In(id, Append(q, e)) <=> In(id, q) \/ id = e
          BY <2>3, Appended
        <4>2. Ascending(Append(q, e))
          BY <2>3, <3>2, AppendAscends
        <4> QED
          BY <3>1, <4>1, <4>2
      <3> QED
        BY <2>3, <2>5, <2>6, <3>3
    <2>7. CASE e \notin attested
      <3>1. r = q
        BY <2>2, <2>7 DEF Send
      <3> QED
        BY <2>3, <2>5, <2>7, <3>1
    <2> QED
      BY <2>6, <2>7
  <1> HIDE DEF Queued
  <1>5. T = Nat
    <2>1. T \subseteq Nat /\ 0 \in T
      BY <1>3
    <2>2. ASSUME NEW n \in T PROVE n + 1 \in T
      <3>1. n \in Nat /\ (n <= m => Queued(n))
        BY <2>2
      <3>2. n + 1 \in Nat /\ (n + 1 <= m => n <= m)
        BY <1>0, <3>1
      <3>3. n + 1 <= m => Queued(n + 1)
        BY <1>4, <3>1, <3>2
      <3> QED
        BY <3>2, <3>3
    <2> HIDE DEF T
    <2> QED
      BY <2>1, <2>2, NatSet
  <1>6. Queued(m)
    BY <1>0, <1>5
  <1> QED
    BY <1>1, <1>6 DEF Queued, In

-----------------------------------------------------------------------------
(* What is replayed: the part of the history after the id seen last. *)

LEMMA HistoryAscends ==
    ASSUME StreamTypeOK, HistoryIsRecent
    PROVE  /\ history \in Seq(Nat) /\ Len(history) \in Nat /\ emitted \in Nat /\ Len(history) <= emitted
           /\ Ascending(history)
           /\ \A id \in Nat : In(id, history) <=> emitted - Len(history) < id /\ id <= emitted
  <1> PICK s, n, m : s = history /\ n = Len(history) /\ m = emitted
    OBVIOUS
  <1>1. /\ s \in Seq(Nat) /\ n \in Nat /\ m \in Nat /\ n <= m
        /\ \A i \in 1..n : s[i] = m - n + i
    BY DEF StreamTypeOK, HistoryIsRecent
  <1>2. Ascending(s)
    <2>1. ASSUME NEW i \in 1..n, NEW j \in 1..n, i < j PROVE s[i] < s[j]
      BY <1>1, <2>1
    <2> QED
      BY <2>1 DEF Ascending
  <1>3. ASSUME NEW id \in Nat PROVE In(id, s) <=> m - n < id /\ id <= m
    <2>1. ASSUME NEW i \in 1..n, s[i] = id PROVE m - n < id /\ id <= m
      BY <1>1, <2>1
    <2>2. ASSUME m - n < id, id <= m PROVE \E i \in 1..n : s[i] = id
      <3> PICK i : i = id - (m - n)
        OBVIOUS
      <3>0. m \in Nat /\ n \in Nat
        BY <1>1
      <3>1. i \in 1..n /\ m - n + i = id
        BY <2>2, <3>0
      <3> QED
        BY <1>1, <3>1
    <2> QED
      BY <2>1, <2>2 DEF In
  <1> QED
    BY <1>1, <1>2, <1>3

LEMMA HistorySound ==
    ASSUME StreamTypeOK, HistoryIsRecent, NEW last \in Nat, last <= emitted, last # 0
    PROVE  /\ GetHistory(last) \in Seq(Nat) /\ Ascending(GetHistory(last))
           /\ \A id \in Nat :
                In(id, GetHistory(last)) <=> last < id /\ In(id, history)
  <1> PICK s, n, m : s = history /\ n = Len(history) /\ m = emitted
    OBVIOUS
  <1>1. /\ s \in Seq(Nat) /\ n \in Nat /\ m \in Nat /\ n <= m /\ Ascending(s)
        /\ \A id \in Nat : In(id, s) <=> m - n < id /\ id <= m
        /\ \A i \in 1..n : s[i] = m - n + i
    BY HistoryAscends DEF HistoryIsRecent
  <1>0. n \in Nat /\ m \in Nat /\ n <= m
    BY <1>1
  <1>2. last \in Range(s) <=> In(last, s)
    <2>1. DOMAIN s = 1..n
      BY <1>1
    <2> QED
      BY <2>1 DEF Range, In
  <1>3. CASE ~In(last, s)
    <2>1. GetHistory(last) = s
      BY <1>2, <1>3 DEF GetHistory
    <2>2. ASSUME NEW id \in Nat, In(id, s) PROVE last < id
      BY <1>1, <1>3, <2>2
    <2> QED
      BY <1>1, <2>1, <2>2
  <1>4. CASE In(last, s)
    <2> PICK p, t : p = Position(last) /\ t = SubSeq(s, p + 1, n)
      OBVIOUS
    <2>1. p \in 1..n /\ s[p] = last
      <3>1. DOMAIN s = 1..n
        BY <1>1
      <3>2. \E i \in DOMAIN s : s[i] = last
        BY <1>4, <3>1 DEF In
      <3> QED
        BY <3>1, <3>2 DEF Position
    <2>2. GetHistory(last) = t
      BY <1>2, <1>4 DEF GetHistory
    <2>3. p \in Nat /\ p <= n /\ p = last - (m - n)
      <3>1. s[p] = m - n + p
        BY <1>1, <2>1
      <3> QED
        BY <1>0, <2>1, <3>1
    <2> PICK k : k = n - p
      OBVIOUS
    <2>4. k \in Nat /\ last + k = m
      BY <1>0, <2>3
    <2>5. \A i \in 1..k : p + i \in 1..n /\ m - n + (p + i) = last + i
      BY <1>0, <2>3
    <2>6. t \in Seq(Nat) /\ Len(t) = k /\ \A i \in 1..k : t[i] = s[p + i]
      <3>1. /\ SubSeq(s, p + 1, n) \in Seq(Nat) /\ Len(SubSeq(s, p + 1, n)) = n - p
            /\ \A i \in 1..(n - p) : SubSeq(s, p + 1, n)[i] = s[p + i]
        BY <1>1, <2>1, RestOf
      <3> QED
        BY <3>1
    <2>7. \A i \in 1..k : t[i] = last + i
      BY <1>1, <2>5, <2>6
    <2>8. Ascending(t)
      <3>1. \A i, j \in 1..k : i < j => last + i < last + j
        BY <2>4
      <3> QED
        BY <2>6, <2>7, <3>1 DEF Ascending
    <2>9. ASSUME NEW id \in Nat PROVE In(id, t) <=> last < id /\ In(id, s)
      <3>1. ASSUME NEW i \in 1..k, t[i] = id PROVE last < id /\ m - n < id /\ id <= m
        <4>1. id = last + i
          BY <2>7, <3>1
        <4> QED
          BY <1>0, <2>3, <2>4, <4>1
      <3>2. ASSUME last < id, id <= m PROVE \E i \in 1..k : t[i] = id
        <4> PICK i : i = id - last
          OBVIOUS
        <4>1. i \in 1..k /\ last + i = id
          BY <2>4, <3>2
        <4> QED
          BY <2>7, <4>1
      <3>3. In(id, s) <=> m - n < id /\ id <= m
        BY <1>1
      <3>4. In(id, t) <=> \E i \in 1..k : t[i] = id
        BY <2>6 DEF In
      <3> QED
        BY <3>1, <3>2, <3>3, <3>4
    <2> QED
      BY <2>2, <2>6, <2>8, <2>9
  <1> QED
    BY <1>3, <1>4

-----------------------------------------------------------------------------
(* The steps of the feed. *)

LEMMA FeedStarts == InitStream => FeedInv
  <1> SUFFICES ASSUME InitStream PROVE FeedInv
    OBVIOUS
  <1>1. /\ emitted = 0 /\ attested = {} /\ history = <<>> /\ gone = {} /\ seen = <<>>
        /\ feed.open = FALSE /\ feed.queue = <<>> /\ feed \in [open : BOOLEAN, queue : Seq(Nat)]
    BY DEF InitStream, Down
  <1>2. Len(history) = 0 /\ Len(seen) = 0 /\ Len(feed.queue) = 0 /\ 1..0 = {}
    BY <1>1
  <1>3. StreamTypeOK /\ HistoryIsRecent
    BY <1>1, <1>2 DEF StreamTypeOK, HistoryIsRecent
  <1>4. LineInOrder /\ MissedIsGone
    BY <1>1, <1>2 DEF LineInOrder, MissedIsGone, Ascending, In
  <1> QED
    BY <1>3, <1>4 DEF FeedInv

(* The history after an event: one id more, or one shorter in front. *)
LEMMA Remembered ==
    ASSUME FeedInv, EmitEvent
    PROVE  /\ emitted' \in Nat /\ history' \in Seq(Nat) /\ HistoryIsRecent'
           /\ gone \subseteq gone'
  <1> PICK s, n, m, e : s = history /\ n = Len(history) /\ m = emitted /\ e = emitted + 1
    OBVIOUS
  <1> PICK k, t : k = Append(s, e) /\ t = history'
    OBVIOUS
  <1>1. /\ s \in Seq(Nat) /\ n \in Nat /\ m \in Nat /\ n <= m /\ gone = 1..(m - n)
        /\ \A i \in 1..n : s[i] = m - n + i
    BY HistoryAscends DEF FeedInv, HistoryIsRecent
  <1>2. n \in Nat /\ m \in Nat /\ n <= m /\ e = m + 1
    BY <1>1
  <1>3. /\ emitted' = e /\ t = (IF Len(k) > MaxHistory THEN Tail(k) ELSE k)
        /\ gone' = gone \cup (Range(k) \ Range(t))
    BY DEF EmitEvent
  <1>4. k \in Seq(Nat) /\ Len(k) = n + 1 /\ \A i \in 1..(n + 1) : k[i] = m - n + i
    <2>1. /\ Append(s, e) \in Seq(Nat) /\ Len(Append(s, e)) = n + 1
          /\ \A i \in 1..n : Append(s, e)[i] = s[i]
          /\ Append(s, e)[n + 1] = e
      BY <1>1, <1>2, Appended
    <2>2. \A i \in 1..(n + 1) : k[i] = m - n + i
      BY <1>1, <1>2, <2>1
    <2> QED
      BY <2>1, <2>2
  <1>5. Range(k) = (m - n + 1)..e
    <2>1. DOMAIN k = 1..(n + 1)
      BY <1>4
    <2>2. \A x \in Range(k) : x \in (m - n + 1)..e
      BY <1>2, <1>4, <2>1 DEF Range
    <2>3. ASSUME NEW x \in (m - n + 1)..e PROVE x \in Range(k)
      <3> PICK i : i = x - (m - n)
        OBVIOUS
      <3>1. i \in 1..(n + 1) /\ m - n + i = x
        BY <1>2, <2>3
      <3>2. k[i] = x
        BY <1>4, <3>1
      <3> QED
        BY <2>1, <3>1, <3>2 DEF Range
    <2> QED
      BY <2>2, <2>3
  <1>6. CASE ~ (Len(k) > MaxHistory)
    <2>1. t = k /\ gone' = gone
      BY <1>3, <1>6
    <2>2. e - (n + 1) = m - n /\ n + 1 <= e /\ e \in Nat
      BY <1>2
    <2>3. Len(t) = n + 1 /\ t \in Seq(Nat) /\ \A i \in 1..(n + 1) : t[i] = m - n + i
      BY <1>4, <2>1
    <2>4. HistoryIsRecent'
      BY <1>1, <1>3, <2>1, <2>2, <2>3 DEF HistoryIsRecent
    <2> QED
      BY <1>3, <2>1, <2>2, <2>3, <2>4
  <1>7. CASE Len(k) > MaxHistory
    <2>1. t = Tail(k)
      BY <1>3, <1>7
    <2>2. t \in Seq(Nat) /\ Len(t) = n /\ \A i \in 1..n : t[i] = k[i + 1]
      <3>1. k # <<>> /\ Len(k) = n + 1 /\ k \in Seq(Nat)
        BY <1>2, <1>4
      <3>2. Tail(k) \in Seq(Nat) /\ Len(Tail(k)) = n /\ \A i \in 1..n : Tail(k)[i] = k[i + 1]
        BY <1>2, <3>1
      <3> QED
        BY <2>1, <3>2
    <2>3. \A i \in 1..n : t[i] = e - n + i
      <3> SUFFICES ASSUME NEW i \in 1..n PROVE t[i] = e - n + i
        OBVIOUS
      <3>1. i + 1 \in 1..(n + 1) /\ m - n + (i + 1) = e - n + i
        BY <1>2
      <3> QED
        BY <1>4, <2>2, <3>1
    <2>4. Range(t) = (e - n + 1)..e
      <3>1. DOMAIN t = 1..n
        BY <2>2
      <3>2. \A x \in Range(t) : x \in (e - n + 1)..e
        BY <1>2, <2>3, <3>1 DEF Range
      <3>3. ASSUME NEW x \in (e - n + 1)..e PROVE x \in Range(t)
        <4> PICK i : i = x - (e - n)
          OBVIOUS
        <4>1. i \in 1..n /\ e - n + i = x
          BY <1>2, <3>3
        <4>2. t[i] = x
          BY <2>3, <4>1
        <4> QED
          BY <3>1, <4>1, <4>2 DEF Range
      <3> QED
        BY <3>2, <3>3
    <2>5. gone' = 1..(e - n)
      <3>1. gone' = 1..(m - n) \cup (((m - n + 1)..e) \ ((e - n + 1)..e))
        BY <1>1, <1>3, <1>5, <2>4
      <3>2. 1..(m - n) \cup (((m - n + 1)..e) \ ((e - n + 1)..e)) = 1..(e - n)
        BY <1>2
      <3> QED
        BY <3>1, <3>2
    <2>6. n <= e /\ e \in Nat /\ gone \subseteq gone'
      BY <1>1, <1>2, <2>5
    <2>7. HistoryIsRecent'
      BY <1>3, <2>2, <2>3, <2>5, <2>6 DEF HistoryIsRecent
    <2> QED
      BY <1>3, <2>2, <2>6, <2>7
  <1> QED
    BY <1>6, <1>7

(* The ids in the line are old ones, and the last one seen is among them. *)
LEMMA LineIsOld ==
    ASSUME FeedInv
    PROVE  /\ seen \in Seq(Nat) /\ Len(seen) \in Nat
           /\ feed.queue \in Seq(Nat) /\ Len(feed.queue) \in Nat
           /\ \A id \in attested : id \in Nat /\ 1 <= id /\ id <= emitted
           /\ \A i \in 1..Len(seen) : seen[i] \in attested
           /\ \A i \in 1..Len(feed.queue) : feed.queue[i] \in attested
           /\ seen = <<>> => LastSeen = 0 /\ Len(seen) = 0
           /\ seen # <<>> => /\ Len(seen) \in 1..Len(seen) /\ LastSeen = seen[Len(seen)]
                             /\ LastSeen \in attested /\ In(LastSeen, seen)
           /\ \A i \in 1..Len(seen) : seen[i] <= LastSeen
  <1>1. seen \in Seq(Nat) /\ feed.queue \in Seq(Nat) /\ emitted \in Nat
    BY DEF FeedInv, StreamTypeOK
  <1>2. \A id \in attested : id \in Nat /\ 1 <= id /\ id <= emitted
    BY <1>1 DEF FeedInv, StreamTypeOK
  <1>3. \A i \in 1..Len(seen) : seen[i] \in attested
    <2>1. \A i \in 1..Len(seen) : seen[i] \in Nat /\ In(seen[i], seen)
      BY <1>1 DEF In
    <2> QED
      BY <2>1 DEF FeedInv, LineInOrder
  <1>4. \A i \in 1..Len(feed.queue) : feed.queue[i] \in attested
    <2>1. \A i \in 1..Len(feed.queue) : feed.queue[i] \in Nat /\ In(feed.queue[i], feed.queue)
      BY <1>1 DEF In
    <2> QED
      BY <2>1 DEF FeedInv, LineInOrder
  <1>5. seen = <<>> => LastSeen = 0 /\ Len(seen) = 0
    BY DEF LastSeen
  <1>6. ASSUME seen # <<>>
        PROVE  /\ Len(seen) \in 1..Len(seen) /\ LastSeen = seen[Len(seen)]
               /\ LastSeen \in attested /\ In(LastSeen, seen)
    <2>1. Len(seen) \in 1..Len(seen)
      BY <1>1, <1>6
    <2>2. LastSeen = seen[Len(seen)]
      BY <1>6 DEF LastSeen
    <2> QED
      BY <1>3, <2>1, <2>2 DEF In
  <1>7. ASSUME NEW i \in 1..Len(seen) PROVE seen[i] <= LastSeen
    <2>1. seen # <<>> /\ Len(seen) \in Nat
      BY <1>1, <1>7
    <2>2. Len(seen) \in 1..Len(seen) /\ LastSeen = seen[Len(seen)]
      BY <1>6, <2>1
    <2>3. CASE i = Len(seen)
      BY <1>2, <1>3, <2>2, <2>3
    <2>4. CASE i # Len(seen)
      <3>1. i < Len(seen)
        BY <2>1, <2>4
      <3>2. seen[i] < seen[Len(seen)]
        BY <2>2, <3>1 DEF FeedInv, LineInOrder, Ascending
      <3> QED
        BY <1>2, <1>3, <2>2, <3>2
    <2> QED
      BY <2>3, <2>4
  <1> QED
    BY <1>1, <1>2, <1>3, <1>4, <1>5, <1>6, <1>7

LEMMA EmitSound ==
    ASSUME FeedInv, EmitEvent
    PROVE  FeedInv'
  <1> PICK e : e = emitted + 1
    OBVIOUS
  <1>1. /\ emitted' = e /\ seen' = seen /\ emitted \in Nat /\ e \in Nat
        /\ \/ /\ attested' = attested \cup {e}
              /\ feed' = IF feed.open THEN [feed EXCEPT !.queue = Append(@, e)] ELSE feed
           \/ UNCHANGED <<attested, feed>>
    BY DEF EmitEvent, FeedInv, StreamTypeOK
  <1>2. history' \in Seq(Nat) /\ HistoryIsRecent' /\ gone \subseteq gone'
    BY Remembered
  <1>3. /\ seen \in Seq(Nat) /\ Len(seen) \in Nat
        /\ feed.queue \in Seq(Nat) /\ Len(feed.queue) \in Nat
        /\ \A id \in attested : id \in Nat /\ 1 <= id /\ id <= emitted
        /\ \A i \in 1..Len(seen) : seen[i] \in attested
        /\ \A i \in 1..Len(feed.queue) : feed.queue[i] \in attested
        /\ LastSeen \in Nat /\ LastSeen <= emitted
    BY <1>1, LineIsOld
  <1>4. LastSeen' = LastSeen
    BY <1>1 DEF LastSeen
  <1>5. feed \in [open : BOOLEAN, queue : Seq(Nat)]
    BY DEF FeedInv, StreamTypeOK
  <1>6. attested' \subseteq 1..e /\ attested \subseteq attested'
    BY <1>1, <1>3
  <1>7. CASE UNCHANGED <<attested, feed>>
    <2>1. StreamTypeOK'
      BY <1>1, <1>2, <1>3, <1>5, <1>6, <1>7 DEF StreamTypeOK
    <2>2. LineInOrder'
      BY <1>1, <1>7 DEF FeedInv, LineInOrder, Ascending, In
    <2>3. MissedIsGone'
      BY <1>1, <1>2, <1>4, <1>7 DEF FeedInv, MissedIsGone, OnTheLine, In
    <2> QED
      BY <1>2, <2>1, <2>2, <2>3 DEF FeedInv
  <1>8. CASE attested' = attested \cup {e} /\ ~feed.open
    <2>1. feed' = feed
      BY <1>1, <1>8
    <2>2. StreamTypeOK'
      BY <1>1, <1>2, <1>3, <1>5, <1>6, <2>1 DEF StreamTypeOK
    <2>3. LineInOrder'
      BY <1>1, <1>6, <2>1 DEF FeedInv, LineInOrder, Ascending, In
    <2>4. ~ (e < LastSeen) /\ ~feed'.open
      BY <1>1, <1>3, <1>8, <2>1
    <2>5. MissedIsGone'
      BY <1>1, <1>2, <1>4, <1>8, <2>1, <2>4 DEF FeedInv, MissedIsGone, OnTheLine, In
    <2> QED
      BY <1>2, <2>2, <2>3, <2>5 DEF FeedInv
  <1>9. CASE attested' = attested \cup {e} /\ feed.open
    <2> PICK q, r : q = feed.queue /\ r = feed'.queue
      OBVIOUS
    <2>1. feed' = [open |-> TRUE, queue |-> Append(q, e)]
      <3>1. e \notin attested
        BY <1>1, <1>3
      <3>2. feed' = [feed EXCEPT !.queue = Append(q, e)]
        BY <1>1, <1>9, <3>1
      <3> QED
        BY <1>5, <1>9, <3>2
    <2>2. /\ r \in Seq(Nat) /\ Len(r) = Len(q) + 1 /\ Len(q) \in Nat
          /\ \A i \in 1..Len(q) : r[i] = q[i]
          /\ r[Len(q) + 1] = e
          /\ \A id : In(id, r) <=> In(id, q) \/ id = e
      <3>1. /\ Append(q, e) \in Seq(Nat) /\ Len(Append(q, e)) = Len(q) + 1
            /\ \A i \in 1..Len(q) : Append(q, e)[i] = q[i]
            /\ Append(q, e)[Len(q) + 1] = e
            /\ \A id : In(id, Append(q, e)) <=> In(id, q) \/ id = e
        BY <1>1, <1>3, Appended
      <3> QED
        BY <1>3, <2>1, <3>1
    <2>3. \A i \in 1..Len(q) : q[i] < e
      BY <1>1, <1>3
    <2>4. Ascending(r)
      <3>1. Ascending(q)
        BY DEF FeedInv, LineInOrder
      <3>2. Ascending(Append(q, e))
        BY <1>1, <1>3, <2>3, <3>1, AppendAscends
      <3> QED
        BY <2>1, <3>2
    <2>5. StreamTypeOK'
      BY <1>1, <1>2, <1>3, <1>6, <2>1, <2>2 DEF StreamTypeOK
    <2>6. LineInOrder'
      <3>1. Ascending(seen)' /\ Ascending(feed.queue)'
        BY <1>1, <2>4 DEF FeedInv, LineInOrder, Ascending
      <3>2. ASSUME NEW id \in Nat, In(id, seen') \/ In(id, r) PROVE id \in attested'
        BY <1>1, <1>9, <2>2, <3>2 DEF FeedInv, LineInOrder
      <3>3. ASSUME NEW i \in 1..Len(seen), NEW j \in 1..Len(r) PROVE seen[i] < r[j]
        <4>1. CASE j = Len(q) + 1
          BY <1>1, <1>3, <2>2, <4>1
        <4>2. CASE j # Len(q) + 1
          <5>1. j \in 1..Len(q)
            BY <2>2, <4>2
          <5> QED
            BY <2>2, <5>1 DEF FeedInv, LineInOrder
        <4> QED
          BY <4>1, <4>2
      <3>4. feed'.open
        BY <2>1
      <3> QED
        BY <1>1, <3>1, <3>2, <3>3, <3>4 DEF LineInOrder, Ascending, In
    <2>7. MissedIsGone'
      <3> SUFFICES ASSUME NEW id \in attested', NEW x \in Nat, OnTheLine(x)', x < id, ~OnTheLine(id)'
                   PROVE  id \in gone'
        BY DEF MissedIsGone
      <3>1. ~In(id, seen) /\ ~In(id, q) /\ id # e
        BY <1>1, <2>2 DEF OnTheLine, In
      <3>2. id \in attested /\ id < e
        BY <1>1, <1>3, <1>9, <3>1
      <3>3. In(x, seen) \/ In(x, q)
        <4>1. x # e
          BY <1>1, <1>3, <3>2
        <4>2. In(x, seen) \/ In(x, r)
          BY <1>1 DEF OnTheLine, In
        <4> QED
          BY <2>2, <4>1, <4>2
      <3> QED
        BY <1>2, <1>9, <3>1, <3>2, <3>3 DEF FeedInv, MissedIsGone, OnTheLine
    <2> QED
      BY <1>2, <2>5, <2>6, <2>7 DEF FeedInv
  <1> QED
    BY <1>1, <1>7, <1>8, <1>9

LEMMA ReceiveSound ==
    ASSUME FeedInv, Receive
    PROVE  FeedInv'
  <1> PICK q, h, s, r, t : /\ q = feed.queue /\ h = Head(feed.queue) /\ s = seen
                           /\ r = feed'.queue /\ t = seen'
    OBVIOUS
  <1>1. /\ seen \in Seq(Nat) /\ Len(seen) \in Nat /\ q \in Seq(Nat) /\ Len(q) \in Nat
        /\ feed \in [open : BOOLEAN, queue : Seq(Nat)]
        /\ \A i \in 1..Len(q) : q[i] \in attested
        /\ \A id \in attested : id \in Nat
    BY LineIsOld DEF FeedInv, StreamTypeOK
  <1>2. /\ q # <<>> /\ t = Append(s, h) /\ feed' = [feed EXCEPT !.queue = Tail(q)]
        /\ UNCHANGED <<attested, emitted, history, gone>>
    BY DEF Receive
  <1>3. /\ Len(q) >= 1 /\ h = q[1] /\ h \in attested /\ h \in Nat
    BY <1>1, <1>2
  <1>4. feed' \in [open : BOOLEAN, queue : Seq(Nat)] /\ feed'.open = feed.open /\ r = Tail(q)
    <2>1. Tail(q) \in Seq(Nat)
      BY <1>1, <1>3
    <2>2. feed' = [open |-> feed.open, queue |-> Tail(q)] /\ feed.open \in BOOLEAN
      BY <1>1, <1>2
    <2> QED
      BY <2>1, <2>2
  <1>5. r \in Seq(Nat) /\ Len(r) = Len(q) - 1 /\ \A i \in 1..Len(r) : i + 1 \in 1..Len(q) /\ r[i] = q[i + 1]
    <2>1. /\ Tail(q) \in Seq(Nat) /\ Len(Tail(q)) = Len(q) - 1
          /\ \A i \in 1..(Len(q) - 1) : Tail(q)[i] = q[i + 1]
      BY <1>1, <1>2
    <2>2. \A i \in 1..(Len(q) - 1) : i + 1 \in 1..Len(q)
      BY <1>1
    <2> QED
      BY <1>4, <2>1, <2>2
  <1>6. /\ t \in Seq(Nat) /\ Len(t) = Len(s) + 1 /\ t[Len(s) + 1] = h
        /\ \A i \in 1..Len(s) : t[i] = s[i]
        /\ \A id : In(id, t) <=> In(id, s) \/ id = h
    <2>1. /\ Append(s, h) \in Seq(Nat) /\ Len(Append(s, h)) = Len(s) + 1
          /\ Append(s, h)[Len(s) + 1] = h
          /\ \A i \in 1..Len(s) : Append(s, h)[i] = s[i]
          /\ \A id : In(id, Append(s, h)) <=> In(id, s) \/ id = h
      BY <1>1, <1>3, Appended
    <2> QED
      BY <1>2, <2>1
  <1>7. /\ Ascending(s) /\ Ascending(q)
        /\ \A i \in 1..Len(s), j \in 1..Len(q) : s[i] < q[j]
        /\ \A id \in Nat : In(id, s) \/ In(id, q) => id \in attested
        /\ feed.open
    BY <1>2 DEF FeedInv, LineInOrder
  <1>8. \A id : In(id, q) <=> id = h \/ In(id, r)
    <2> TAKE id
    <2>1. ASSUME In(id, q) PROVE id = h \/ In(id, r)
      <3>1. PICK i \in 1..Len(q) : q[i] = id
        BY <2>1 DEF In
      <3>2. CASE i # 1
        <4>1. i - 1 \in 1..Len(r) /\ (i - 1) + 1 = i
          BY <1>1, <1>5, <3>1, <3>2
        <4>2. r[i - 1] = id
          BY <1>5, <3>1, <4>1
        <4> QED
          BY <4>1, <4>2 DEF In
      <3> QED
        BY <1>3, <3>1, <3>2
    <2>2. ASSUME In(id, r) PROVE In(id, q)
      BY <1>5, <2>2 DEF In
    <2>3. In(h, q)
      <3>1. 1 \in 1..Len(q)
        BY <1>1, <1>3
      <3> QED
        BY <1>3, <3>1 DEF In
    <2> QED
      BY <2>1, <2>2, <2>3
  <1>9. StreamTypeOK' /\ HistoryIsRecent'
    BY <1>2, <1>4, <1>6 DEF FeedInv, StreamTypeOK, HistoryIsRecent
  <1>10. LineInOrder'
    <2>1. Ascending(t)
      <3>1. \A i \in 1..Len(s) : s[i] < h
        <4>1. 1 \in 1..Len(q)
          BY <1>1, <1>3
        <4> QED
          BY <1>3, <1>7, <4>1
      <3>2. Ascending(Append(s, h))
        BY <1>1, <1>3, <1>7, <3>1, AppendAscends
      <3> QED
        BY <1>2, <3>2
    <2>2. Ascending(r)
      <3>1. ASSUME NEW i \in 1..Len(r), NEW j \in 1..Len(r), i < j PROVE r[i] < r[j]
        <4>1. i + 1 \in 1..Len(q) /\ j + 1 \in 1..Len(q) /\ i + 1 < j + 1
          BY <1>1, <1>5, <3>1
        <4> QED
          BY <1>5, <1>7, <4>1 DEF Ascending
      <3> QED
        BY <3>1 DEF Ascending
    <2>3. ASSUME NEW i \in 1..Len(t), NEW j \in 1..Len(r) PROVE t[i] < r[j]
      <3>1. j + 1 \in 1..Len(q) /\ r[j] = q[j + 1] /\ 1 \in 1..Len(q) /\ 1 < j + 1
        BY <1>1, <1>3, <1>5
      <3>2. CASE i = Len(s) + 1
        <4>1. q[1] < q[j + 1]
          BY <1>7, <3>1 DEF Ascending
        <4> QED
          BY <1>3, <1>6, <3>1, <3>2, <4>1
      <3>3. CASE i # Len(s) + 1
        <4>1. i \in 1..Len(s)
          BY <1>1, <1>6, <3>3
        <4> QED
          BY <1>6, <1>7, <3>1, <4>1
      <3> QED
        BY <3>2, <3>3
    <2>4. ASSUME NEW id \in Nat, In(id, t) \/ In(id, r) PROVE id \in attested'
      BY <1>2, <1>3, <1>6, <1>7, <1>8, <2>4
    <2>5. feed'.open
      BY <1>4, <1>7
    <2> QED
      BY <2>1, <2>2, <2>3, <2>4, <2>5 DEF LineInOrder, Ascending, In
  <1>11. MissedIsGone'
    <2>1. \A id : OnTheLine(id)' <=> OnTheLine(id)
      <3>1. \A id : OnTheLine(id)' <=> In(id, t) \/ In(id, r)
        BY DEF OnTheLine, In
      <3> QED
        BY <1>6, <1>8, <3>1 DEF OnTheLine
    <2> SUFFICES ASSUME NEW id \in attested', NEW x \in Nat, OnTheLine(x)', x < id, ~OnTheLine(id)'
                 PROVE  id \in gone'
      BY DEF MissedIsGone
    <2>2. OnTheLine(x) /\ ~OnTheLine(id) /\ id \in attested
      BY <1>2, <2>1
    <2> QED
      BY <1>2, <1>7, <2>2 DEF FeedInv, MissedIsGone
  <1> QED
    BY <1>9, <1>10, <1>11 DEF FeedInv

(* The connection is down: what was on its way is lost, and will be missed *)
(* only once something newer is received.                                  *)
LEMMA FeedLost ==
    ASSUME FeedInv, feed' = Down, UNCHANGED <<attested, emitted, seen>>,
           StreamTypeOK', HistoryIsRecent', gone \subseteq gone'
    PROVE  FeedInv'
  <1>1. feed'.open = FALSE /\ feed'.queue = <<>> /\ Len(feed'.queue) = 0 /\ 1..0 = {}
    BY DEF Down
  <1>2. LineInOrder'
    BY <1>1 DEF FeedInv, LineInOrder, Ascending, In
  <1>3. MissedIsGone'
    <2> SUFFICES ASSUME NEW id \in attested', NEW x \in Nat, OnTheLine(x)', x < id,
                        (feed.open \/ id < LastSeen)', ~OnTheLine(id)'
                 PROVE  id \in gone'
      BY DEF MissedIsGone
    <2>1. In(x, seen) /\ ~In(id, seen) /\ LastSeen' = LastSeen /\ id < LastSeen
      BY <1>1 DEF OnTheLine, In, LastSeen
    <2>2. id \in Nat /\ LastSeen \in Nat /\ seen # <<>>
      BY <2>1, LineIsOld
    <2>3. ~In(id, feed.queue)
      <3> SUFFICES ASSUME NEW j \in 1..Len(feed.queue), feed.queue[j] = id PROVE FALSE
        BY DEF In
      <3>1. LastSeen < feed.queue[j]
        BY <2>2, LineIsOld DEF FeedInv, LineInOrder
      <3> QED
        BY <2>1, <2>2, <3>1
    <2> QED
      BY <2>1, <2>3 DEF FeedInv, MissedIsGone, OnTheLine
  <1> QED
    BY <1>2, <1>3 DEF FeedInv

LEMMA BreakSound ==
    ASSUME FeedInv, BreakFeed
    PROVE  FeedInv'
  <1>1. feed' = Down /\ UNCHANGED <<attested, emitted, history, seen, gone>>
    BY DEF BreakFeed
  <1>2. <<>> \in Seq(Nat)
    OBVIOUS
  <1>3. StreamTypeOK' /\ HistoryIsRecent'
    BY <1>1, <1>2 DEF FeedInv, StreamTypeOK, HistoryIsRecent, Down
  <1> QED
    BY <1>1, <1>3, FeedLost

LEMMA RestartSound ==
    ASSUME FeedInv, Restart
    PROVE  FeedInv'
  <1> PICK n, m : n = Len(history) /\ m = emitted
    OBVIOUS
  <1>1. /\ feed' = Down /\ history' = <<>> /\ gone' = gone \cup Range(history)
        /\ UNCHANGED <<attested, emitted, seen>>
    BY DEF Restart
  <1>2. /\ history \in Seq(Nat) /\ n \in Nat /\ m \in Nat /\ n <= m /\ gone = 1..(m - n)
        /\ \A id \in Nat : In(id, history) <=> m - n < id /\ id <= m
    BY HistoryAscends DEF FeedInv, HistoryIsRecent
  <1>3. gone' = 1..m
    <2>1. DOMAIN history = 1..n
      BY <1>2
    <2>2. \A id : id \in Range(history) <=> In(id, history)
      BY <2>1 DEF Range, In
    <2>3. \A id \in Range(history) : id \in Nat
      BY <1>2, <2>1 DEF Range
    <2>4. \A id : id \in Range(history) <=> id \in (m - n + 1)..m
      BY <1>2, <2>2, <2>3
    <2>5. 1..(m - n) \cup ((m - n + 1)..m) = 1..m
      BY <1>2
    <2> QED
      BY <1>1, <1>2, <2>4, <2>5
  <1>4. <<>> \in Seq(Nat) /\ Len(history') = 0 /\ 1..0 = {}
    BY <1>1
  <1>5. StreamTypeOK'
    BY <1>1, <1>4 DEF FeedInv, StreamTypeOK, Down
  <1>6. HistoryIsRecent'
    BY <1>1, <1>2, <1>3, <1>4 DEF HistoryIsRecent
  <1>7. gone \subseteq gone'
    BY <1>1
  <1> QED
    BY <1>1, <1>5, <1>6, <1>7, FeedLost

(* A connection opened anew continues after the last id received: whatever *)
(* is newer is replayed, or is gone.                                       *)
LEMMA OpenSound ==
    ASSUME FeedInv, OpenFeed
    PROVE  FeedInv'
  <1> PICK q, last : q = Replay(GetHistory(LastSeen)) /\ last = LastSeen
    OBVIOUS
  <1>1. /\ ~feed.open /\ feed' = [open |-> TRUE, queue |-> q]
        /\ UNCHANGED <<attested, emitted, history, seen, gone>>
    BY DEF OpenFeed
  <1>2. feed'.open /\ feed'.queue = q /\ LastSeen' = LastSeen
    BY <1>1 DEF LastSeen
  <1>3. feed.queue = <<>> /\ Len(feed.queue) = 0 /\ 1..0 = {}
    BY <1>1 DEF FeedInv, LineInOrder
  <1>4. CASE seen = <<>>
    <2>1. GetHistory(LastSeen) = <<>>
      BY <1>4 DEF LastSeen, GetHistory
    <2>2. Len(<<>>) = 0 /\ <<>> \in Seq(Nat) /\ Ascending(<<>>) /\ \A id : ~In(id, <<>>)
      BY <1>3 DEF Ascending, In
    <2>3. q \in Seq(Nat) /\ \A id \in Nat : ~In(id, q)
      BY <2>1, <2>2, ReplaySound
    <2>4. q = <<>>
      <3>1. ASSUME Len(q) > 0 PROVE FALSE
        <4>1. 1 \in 1..Len(q) /\ q[1] \in Nat
          BY <2>3, <3>1
        <4> QED
          BY <2>3, <4>1 DEF In
      <3> QED
        BY <2>3, <3>1
    <2>5. StreamTypeOK' /\ HistoryIsRecent'
      BY <1>1, <2>3 DEF FeedInv, StreamTypeOK, HistoryIsRecent
    <2>6. LineInOrder'
      BY <1>1, <1>2, <1>3, <2>4 DEF FeedInv, LineInOrder, Ascending, In
    <2>7. MissedIsGone'
      BY <1>1, <1>2, <1>3, <1>4, <2>4 DEF MissedIsGone, OnTheLine, In
    <2> QED
      BY <2>5, <2>6, <2>7 DEF FeedInv
  <1>5. CASE seen # <<>>
    <2>1. /\ last \in attested /\ last \in Nat /\ last # 0 /\ last <= emitted /\ In(last, seen)
          /\ \A i \in 1..Len(seen) : seen[i] \in Nat /\ seen[i] <= last
          /\ \A id \in attested : id \in Nat /\ 1 <= id /\ id <= emitted
      BY <1>5, LineIsOld
    <2>2. /\ GetHistory(last) \in Seq(Nat) /\ Ascending(GetHistory(last))
          /\ \A id \in Nat : In(id, GetHistory(last)) <=> last < id /\ In(id, history)
      BY <2>1, HistorySound DEF FeedInv
    <2>3. /\ q \in Seq(Nat) /\ Ascending(q)
          /\ \A id \in Nat : In(id, q) <=> last < id /\ In(id, history) /\ id \in attested
      <3>1. /\ Replay(GetHistory(last)) \in Seq(Nat) /\ Ascending(Replay(GetHistory(last)))
            /\ \A id \in Nat : In(id, Replay(GetHistory(last)))
                                 <=> In(id, GetHistory(last)) /\ id \in attested
        BY <2>2, ReplaySound
      <3> QED
        BY <2>2, <3>1
    <2>4. StreamTypeOK' /\ HistoryIsRecent'
      BY <1>1, <2>3 DEF FeedInv, StreamTypeOK, HistoryIsRecent
    <2>5. \A j \in 1..Len(q) : q[j] \in Nat /\ In(q[j], q)
      BY <2>3 DEF In
    <2>6. LineInOrder'
      <3>1. ASSUME NEW i \in 1..Len(seen), NEW j \in 1..Len(q) PROVE seen[i] < q[j]
        BY <2>1, <2>3, <2>5
      <3>2. ASSUME NEW id \in Nat, In(id, seen) \/ In(id, q) PROVE id \in attested
        BY <2>3, <3>2 DEF FeedInv, LineInOrder
      <3> QED
        BY <1>1, <1>2, <2>3, <3>1, <3>2 DEF FeedInv, LineInOrder, Ascending, In
    <2>7. MissedIsGone'
      <3> SUFFICES ASSUME NEW id \in attested', NEW x \in Nat, OnTheLine(x)', x < id, ~OnTheLine(id)'
                   PROVE  id \in gone'
        BY DEF MissedIsGone
      <3>1. id \in attested /\ id \in Nat /\ ~In(id, seen) /\ ~In(id, q) /\ (In(x, seen) \/ In(x, q))
        BY <1>1, <1>2, <2>1 DEF OnTheLine, In
      <3>2. CASE id < last
        <4>1. In(x, seen)
          <5>1. ~ (last < x)
            BY <2>1, <3>1, <3>2
          <5> QED
            BY <2>3, <3>1, <5>1
        <4> QED
          BY <1>1, <1>3, <3>1, <3>2, <4>1 DEF FeedInv, MissedIsGone, OnTheLine, In
      <3>3. CASE ~ (id < last)
        <4>1. last < id
          BY <2>1, <3>1, <3>3
        <4>2. ~In(id, history)
          BY <2>3, <3>1, <4>1
        <4>3. id <= emitted - Len(history) /\ 1 <= id /\ emitted \in Nat /\ Len(history) \in Nat
          BY <2>1, <3>1, <4>2, HistoryAscends DEF FeedInv
        <4> QED
          BY <1>1, <3>1, <4>3 DEF FeedInv, HistoryIsRecent
      <3> QED
        BY <3>2, <3>3
    <2> QED
      BY <2>4, <2>6, <2>7 DEF FeedInv
  <1> QED
    BY <1>4, <1>5

LEMMA FeedKept ==
    ASSUME FeedInv, UNCHANGED feedVars
    PROVE  FeedInv'
  BY DEF FeedInv, feedVars, StreamTypeOK, HistoryIsRecent, LineInOrder, MissedIsGone,
         Ascending, In, OnTheLine, LastSeen

LEMMA FeedStepSound ==
    ASSUME FeedInv, [StreamStep]_streamVars
    PROVE  FeedInv'
  <1>1. CASE FeedStep
    BY <1>1, EmitSound, OpenSound, ReceiveSound, BreakSound, RestartSound DEF FeedStep
  <1>2. CASE DaemonStep
    <2>1. UNCHANGED feedVars
      BY <1>2 DEF DaemonStep, OnOpen, OnError, Tick, Stop
    <2> QED
      BY <2>1, FeedKept
  <1>3. CASE UNCHANGED streamVars
    BY <1>3, FeedKept DEF streamVars
  <1> QED
    BY <1>1, <1>2, <1>3 DEF StreamStep

(* The feed's inductive invariant holds in every state. *)
THEOREM FeedIsSound == StreamSpec => []FeedInv
  <1>1. InitStream => FeedInv
    <2> SUFFICES ASSUME InitStream PROVE FeedInv
      OBVIOUS
    <2>1. /\ attested = {} /\ emitted = 0 /\ history = <<>> /\ gone = {} /\ seen = <<>>
          /\ feed = [open |-> FALSE, queue |-> <<>>]
      BY DEF InitStream, Down
    <2>2. /\ <<>> \in Seq(Nat) /\ Len(<<>>) = 0
          /\ 1..0 = {}
      OBVIOUS
    <2> QED
      BY <2>1, <2>2 DEF FeedInv, StreamTypeOK, HistoryIsRecent, LineInOrder, MissedIsGone,
                        Ascending, In, OnTheLine
  <1> QED
    BY <1>1, FeedStepSound, PTL DEF StreamSpec

(* From the first event it received on, a client of the feed gets every one, *)
(* in order, except those the emitter had forgotten.                         *)
THEOREM FeedIsExact == StreamSpec => []FeedExact
  <1>1. FeedInv => FeedExact
    <2> SUFFICES ASSUME FeedInv PROVE FeedExact
      OBVIOUS
    <2>1. seen \in Seq(Nat) /\ DOMAIN seen = 1..Len(seen) /\ Len(seen) \in Nat
      BY DEF FeedInv, StreamTypeOK
    <2>2. \A i, j \in DOMAIN seen : i < j => seen[i] < seen[j]
      BY <2>1 DEF FeedInv, LineInOrder, Ascending
    <2>3. ASSUME seen # <<>>, NEW id \in attested,
                 seen[1] < id, id < LastSeen, id \notin Range(seen)
          PROVE  id \in gone
      <3>1. ~In(id, seen)
        BY <2>1, <2>3 DEF In, Range
      <3>2. id \in Nat /\ LastSeen \in Nat
        BY <2>3, LineIsOld
      <3>3. ~In(id, feed.queue)
        <4> SUFFICES ASSUME NEW j \in 1..Len(feed.queue), feed.queue[j] = id PROVE FALSE
          BY DEF In
        <4>1. LastSeen < feed.queue[j]
          BY <2>3, LineIsOld DEF FeedInv, LineInOrder
        <4> QED
          BY <2>3, <3>2, <4>1
      <3>4. In(seen[1], seen) /\ seen[1] \in Nat
        <4>1. 1 \in 1..Len(seen)
          BY <2>1, <2>3
        <4> QED
          BY <2>1, <4>1 DEF In
      <3> QED
        BY <2>3, <3>1, <3>3, <3>4 DEF FeedInv, MissedIsGone, OnTheLine
    <2> QED
      BY <2>2, <2>3 DEF FeedExact
  <1> QED
    BY <1>1, FeedIsSound, PTL

-----------------------------------------------------------------------------
(* The daemon. *)

LineTypeOK == timer \in 0..MaxBackoff /\ backoff \in 1..MaxBackoff

(* The daemon never has two subscriptions or timers at once, never waits      *)
(* longer than its limit, and has neither once it is stopped: the safety half *)
(* of DaemonStaysOnDuty.                                                      *)
THEOREM DaemonHasOneLine == StreamSpec => []OneLine
  <1> USE EventAssumption
  <1>1. InitStream => LineTypeOK /\ OneLine
    BY DEF InitStream, LineTypeOK, OneLine
  <1>2. LineTypeOK /\ OneLine /\ [StreamStep]_streamVars => (LineTypeOK /\ OneLine)'
    <2> SUFFICES ASSUME LineTypeOK, OneLine, [StreamStep]_streamVars
                 PROVE  (LineTypeOK /\ OneLine)'
      OBVIOUS
    <2>1. CASE OnOpen
      BY <2>1 DEF OnOpen, LineTypeOK, OneLine
    <2>2. CASE OnError
      BY <2>2 DEF OnError, ScheduleReconnect, LineTypeOK, OneLine
    <2>3. CASE Tick
      BY <2>3 DEF Tick, LineTypeOK, OneLine
    <2>4. CASE Stop
      BY <2>4 DEF Stop, LineTypeOK, OneLine
    <2>5. CASE UNCHANGED daemonVars
      BY <2>5 DEF daemonVars, LineTypeOK, OneLine
    <2>6. FeedStep => UNCHANGED daemonVars
      BY DEF FeedStep, EmitEvent, OpenFeed, Receive, BreakFeed, Restart
    <2> QED
      BY <2>1, <2>2, <2>3, <2>4, <2>5, <2>6 DEF StreamStep, DaemonStep, streamVars
  <1> QED
    BY <1>1, <1>2, PTL DEF StreamSpec
=============================================================================
