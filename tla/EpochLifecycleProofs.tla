------------------------ MODULE EpochLifecycleProofs ------------------------
(***************************************************************************)
(* Proofs about EpochLifecycle, for any numbers of ticks, bots, claims and *)
(* epochs, and any limits.  The inductive invariant IInv adds to the       *)
(* properties that the claim count is exact, which rows imply which, and   *)
(* what each request that is under way has read or written that still      *)
(* stands.  Rows only grow (RowsGrow), so a request stays backed by what   *)
(* others write; each step then has only its own job and rows to answer    *)
(* for.                                                                    *)
(***************************************************************************)
EXTENDS EpochLifecycle, FiniteSetTheorems, TLAPS

Filing == {c \in Claims : Stored(c)}

(* The claim count is exact, although it is incremented apart from the insert. *)
CountsKept == \A e \in Epochs : count[e] = Cardinality(Counted(e))

(* No more stamps are handed out than there are claims stored. *)
IsLastStamp(t) ==
    /\ \A c \in Claims : claim[c].at <= t
    /\ t = 0 \/ \E c \in Claims : claim[c].at = t
StampsBounded ==
    /\ \A c \in Claims : ~Stored(c) => claim[c].at = 0
    /\ \E t \in 0..Cardinality(Filing) : IsLastStamp(t)

(* Claims and states are of epochs that have a row. *)
RowsInPlace ==
    /\ \A c \in Claims : claim[c].pc # "new" =>
         claim[c].epoch \in Epochs /\ status[claim[c].epoch] # "NONE"
    /\ \A e \in Epochs : finalized[e] # {} => status[e] # "NONE"
    /\ latest > 0 => finalized[latest] # {}

(* What a request that is under way has read or written still stands. *)
OfEpoch == {"open", "decide", "list", "check", "publish", "upsert", "mark", "announce"}
Aggregating == {"check", "publish", "upsert"}

Backed(w, j) ==
    /\ j.pc \in OfEpoch => j.epoch \in Epochs
    /\ j.pc = "open" /\ j.epoch > 1 => finalized[j.epoch - 1] # {}
    /\ j.pc = "decide" => j.count <= count[j.epoch]
    /\ j.pc \in Aggregating => j.claims # {} /\ j.claims \subseteq Filed(j.epoch)
    /\ j.pc = "upsert" => <<j.epoch, j.claims>> \in published
    /\ j.pc = "mark" => finalized[j.epoch] # {}
    /\ j.pc = "announce" => status[j.epoch] = "AGGREGATED" /\ announced[j.epoch] = 0
    /\ w \in Ticks /\ j.pc \in Aggregating \cup {"list"} =>
         status[j.epoch] \in {"CLOSED", "AGGREGATED"}
    /\ w \in Ticks /\ j.pc \in Aggregating =>
         \A c \in Counted(j.epoch) : HeardIn(c, j.claims)

JobsBacked == \A w \in Workers : Backed(w, job[w])

OneAnnouncer ==
    \A v, w \in Workers :
        At(v, "announce") /\ At(w, "announce") /\ job[v].epoch = job[w].epoch => v = w

RowsInv ==
    /\ CountsKept /\ StampsBounded /\ RowsInPlace
    /\ StateFinalizedOnChain /\ EpochsFollowFinality /\ AnnouncedOnce

IInv == TypeOK /\ RowsInv /\ JobsBacked /\ OneAnnouncer

-----------------------------------------------------------------------------
(* Claims are counted as a finite set is. *)

LEMMA SomeClaims ==
    ASSUME NEW S, S \subseteq Claims
    PROVE  IsFiniteSet(S) /\ Cardinality(S) \in 0..Cardinality(Claims)
  <1>1. IsFiniteSet(S) /\ Cardinality(S) <= Cardinality(Claims)
    BY ClaimsFinite, FS_Subset
  <1>2. Cardinality(S) \in Nat /\ Cardinality(Claims) \in Nat
    BY <1>1, ClaimsFinite, FS_CardinalityType
  <1> QED
    BY <1>1, <1>2

LEMMA OneMoreClaim ==
    ASSUME NEW S, S \subseteq Claims, NEW c \in Claims, c \notin S
    PROVE  Cardinality(S \cup {c}) = Cardinality(S) + 1
  BY SomeClaims, FS_AddElement

-----------------------------------------------------------------------------
(* How the job of a worker changes. *)

LEMMA JobReplaced ==
    ASSUME TypeOK, NEW w \in Workers, NEW j \in Jobs, job' = [job EXCEPT ![w] = j]
    PROVE  /\ job' \in [Workers -> Jobs] /\ job'[w] = j
           /\ \A v \in Workers : v # w => job'[v] = job[v]
  BY DEF TypeOK

LEMMA JobGoes ==
    ASSUME TypeOK, NEW w \in Workers,
           NEW pc \in {"list", "publish", "upsert", "mark", "announce"}, Goto(w, pc)
    PROVE  \E j \in Jobs : /\ job' = [job EXCEPT ![w] = j]
                           /\ j.pc = pc /\ j.epoch = job[w].epoch /\ j.claims = job[w].claims
  <1> DEFINE j == [job[w] EXCEPT !.pc = pc]
  <1>1. job[w] \in Jobs
    BY DEF TypeOK
  <1>2. j \in Jobs /\ j.pc = pc /\ j.epoch = job[w].epoch /\ j.claims = job[w].claims
    BY <1>1 DEF Jobs
  <1>3. job' = [job EXCEPT ![w] = j]
    BY DEF Goto
  <1> QED
    BY <1>2, <1>3

LEMMA Resting ==
    ASSUME NEW w \in Workers
    PROVE  /\ IdleJob \in Jobs /\ [IdleJob EXCEPT !.pc = "failed"] \in Jobs
           /\ Backed(w, IdleJob) /\ Backed(w, [IdleJob EXCEPT !.pc = "failed"])
           /\ IdleJob.pc = "idle" /\ [IdleJob EXCEPT !.pc = "failed"].pc = "failed"
  <1>1. Cardinality(Claims) \in Nat /\ MaxEpoch \in Nat
    BY SomeClaims, ClaimsFinite, FS_CardinalityType, LimitAssumption
  <1>2. IdleJob \in Jobs /\ [IdleJob EXCEPT !.pc = "failed"] \in Jobs
    <2>1. 0 \in 0..MaxEpoch /\ 0 \in 0..Cardinality(Claims)
      BY <1>1
    <2>2. IdleJob \in Jobs
      BY <2>1 DEF IdleJob, Jobs
    <2> QED
      BY <2>2 DEF Jobs
  <1>3. IdleJob.pc = "idle" /\ [IdleJob EXCEPT !.pc = "failed"].pc = "failed"
    BY DEF IdleJob
  <1> QED
    BY <1>2, <1>3 DEF Backed, OfEpoch, Aggregating

-----------------------------------------------------------------------------
(* Rows only grow, and what is backed by them stays backed. *)

RowsGrow ==
    /\ \A e \in Epochs :
         /\ status[e] # "NONE" => status'[e] # "NONE"
         /\ status[e] \in {"CLOSED", "AGGREGATED"} => status'[e] \in {"CLOSED", "AGGREGATED"}
         /\ status[e] = "AGGREGATED" => status'[e] = "AGGREGATED"
         /\ finalized[e] # {} => finalized'[e] # {}
         /\ count'[e] \in {count[e], count[e] + 1}
    /\ published \subseteq published'
    /\ \A c \in Claims : Stored(c) =>
         Stored(c)' /\ claim'[c].epoch = claim[c].epoch /\ claim'[c].at = claim[c].at
    /\ \A c \in Claims :
         claim'[c].pc = "counted" /\ status[claim'[c].epoch] \in {"CLOSED", "AGGREGATED"} =>
           claim[c].pc = "counted" /\ claim'[c].epoch = claim[c].epoch

LEMMA StaysBacked ==
    ASSUME TypeOK, RowsGrow, NEW w \in Workers, NEW j \in Jobs, Backed(w, j),
           j.pc = "announce" => announced'[j.epoch] = announced[j.epoch]
    PROVE  Backed(w, j)'
  <1>1. j.epoch \in Nat /\ (j.pc \in OfEpoch => j.epoch \in Epochs)
    BY LimitAssumption DEF Backed, Jobs
  <1>2. j.pc = "open" /\ j.epoch > 1 => finalized'[j.epoch - 1] # {}
    BY <1>1, LimitAssumption DEF Backed, RowsGrow, Epochs, OfEpoch
  <1>3. ASSUME NEW c \in Claims, Stored(c)
        PROVE  Stored(c)' /\ claim'[c].epoch = claim[c].epoch /\ claim'[c].at = claim[c].at
    BY <1>3 DEF RowsGrow
  <1>4. Filed(j.epoch) \subseteq Filed(j.epoch)'
    BY <1>3 DEF Filed
  <1>5. ASSUME w \in Ticks, j.pc \in Aggregating, NEW c \in Counted(j.epoch)'
        PROVE  HeardIn(c, j.claims)'
    <2>1. j.epoch \in Epochs /\ status[j.epoch] \in {"CLOSED", "AGGREGATED"}
      BY <1>1, <1>5 DEF Backed, Aggregating, OfEpoch
    <2>2. c \in Counted(j.epoch)
      BY <2>1 DEF RowsGrow, Counted
    <2>3. PICK d \in j.claims : Author[d] = Author[c] /\ claim[d].at >= claim[c].at
      BY <1>5, <2>2 DEF Backed, HeardIn
    <2>4. d \in Claims /\ Stored(d) /\ c \in Claims /\ Stored(c)
      BY <1>5, <2>2, <2>3 DEF Backed, Filed, Counted, Stored
    <2>5. claim'[d].at = claim[d].at /\ claim'[c].at = claim[c].at
      BY <1>3, <2>4
    <2> QED
      BY <2>3, <2>5 DEF HeardIn
  <1>6. \A e \in Epochs :
          /\ status[e] \in {"CLOSED", "AGGREGATED"} => status'[e] \in {"CLOSED", "AGGREGATED"}
          /\ status[e] = "AGGREGATED" => status'[e] = "AGGREGATED"
          /\ finalized[e] # {} => finalized'[e] # {}
    BY DEF RowsGrow
  <1>7. published \subseteq published'
    BY DEF RowsGrow
  <1>8. /\ j.pc \in Aggregating => j.claims # {} /\ j.claims \subseteq Filed(j.epoch)'
        /\ j.pc = "upsert" => <<j.epoch, j.claims>> \in published'
        /\ j.pc = "mark" => finalized'[j.epoch] # {}
        /\ j.pc = "announce" => status'[j.epoch] = "AGGREGATED" /\ announced'[j.epoch] = 0
        /\ w \in Ticks /\ j.pc \in Aggregating \cup {"list"} =>
             status'[j.epoch] \in {"CLOSED", "AGGREGATED"}
    BY <1>1, <1>4, <1>6, <1>7 DEF Backed, OfEpoch, Aggregating
  <1>9. j.pc = "decide" => j.count <= count'[j.epoch]
    <2> SUFFICES ASSUME j.pc = "decide" PROVE j.count <= count'[j.epoch]
      OBVIOUS
    <2>1. j.epoch \in Epochs /\ j.count <= count[j.epoch]
      BY <1>1 DEF Backed, OfEpoch
    <2>2. j.count \in Nat /\ count[j.epoch] \in Nat
      BY <2>1, ClaimsFinite, FS_CardinalityType DEF TypeOK, Jobs
    <2>3. count'[j.epoch] \in {count[j.epoch], count[j.epoch] + 1}
      BY <2>1 DEF RowsGrow
    <2> QED
      BY <2>1, <2>2, <2>3
  <1> QED
    BY <1>1, <1>2, <1>5, <1>8, <1>9 DEF Backed

LEMMA JobsStayBacked ==
    ASSUME IInv, RowsGrow, NEW w \in Workers, NEW j \in Jobs, job' = [job EXCEPT ![w] = j],
           Backed(w, j)',
           \A v \in Workers : v # w /\ At(v, "announce") =>
             announced'[job[v].epoch] = announced[job[v].epoch]
    PROVE  JobsBacked'
  <1>1. job'[w] = j /\ \A v \in Workers : v # w => job'[v] = job[v]
    BY JobReplaced DEF IInv
  <1>2. ASSUME NEW v \in Workers, v # w PROVE Backed(v, job[v])'
    <2>1. PICK i \in Jobs : i = job[v]
      BY DEF IInv, TypeOK
    <2>2. Backed(v, i) /\ (i.pc = "announce" => announced'[i.epoch] = announced[i.epoch])
      BY <1>2, <2>1 DEF IInv, JobsBacked, At
    <2>3. Backed(v, i)'
      BY <2>2, StaysBacked DEF IInv
    <2> QED
      BY <1>1, <1>2, <2>1, <2>3 DEF Backed
  <1>3. Backed(w, job[w])'
    BY <1>1 DEF Backed
  <1> QED
    BY <1>2, <1>3 DEF JobsBacked

(* A step that leaves the jobs alone. *)
LEMMA RowsStep ==
    ASSUME IInv, RowsGrow, UNCHANGED <<job, announced>>
    PROVE  JobsBacked' /\ OneAnnouncer'
  <1>1. ASSUME NEW v \in Workers PROVE Backed(v, job[v])'
    <2>1. PICK i \in Jobs : i = job[v]
      BY DEF IInv, TypeOK
    <2>2. Backed(v, i)
      BY <2>1 DEF IInv, JobsBacked
    <2>3. Backed(v, i)'
      BY <2>2, StaysBacked DEF IInv
    <2> QED
      BY <2>1, <2>3 DEF Backed
  <1> QED
    BY <1>1 DEF JobsBacked, IInv, OneAnnouncer, At

(* A step that leaves the rows alone. *)
LEMMA QuietStep ==
    ASSUME IInv, NEW w \in Workers, NEW j \in Jobs, job' = [job EXCEPT ![w] = j],
           UNCHANGED <<epochVars, claim, stateVars, announced>>,
           Backed(w, j), j.pc # "announce"
    PROVE  IInv'
  <1>1. /\ job' \in [Workers -> Jobs] /\ job'[w] = j
        /\ \A v \in Workers : v # w => job'[v] = job[v]
    BY JobReplaced DEF IInv
  <1>2. UNCHANGED <<status, due, count, claim, finalized, latest, published, announced>>
    BY DEF epochVars, stateVars
  <1>3. TypeOK'
    BY <1>1, <1>2 DEF IInv, TypeOK
  <1>4. RowsInv'
    BY <1>2 DEF IInv, RowsInv, CountsKept, Counted, StampsBounded, IsLastStamp, Filing, Stored,
                RowsInPlace, StateFinalizedOnChain, EpochsFollowFinality, AnnouncedOnce
  <1>5. RowsGrow
    BY <1>2 DEF RowsGrow, Stored
  <1>6. Backed(w, j)'
    BY <1>2, <1>5, StaysBacked DEF IInv
  <1>7. JobsBacked'
    BY <1>2, <1>5, <1>6, JobsStayBacked
  <1>8. OneAnnouncer'
    BY <1>1 DEF IInv, OneAnnouncer, At
  <1> QED
    BY <1>3, <1>4, <1>7, <1>8 DEF IInv

(* A request that ends, or that dies. *)
LEMMA EndKeeps ==
    ASSUME IInv, NEW w \in Workers, End(w) \/ job' = [job EXCEPT ![w] = [IdleJob EXCEPT !.pc = "failed"]],
           UNCHANGED <<epochVars, claim, stateVars, announced>>
    PROVE  IInv'
  BY Resting, QuietStep DEF End

-----------------------------------------------------------------------------

LEMMA InitInv == Init => IInv
  <1> SUFFICES ASSUME Init PROVE IInv
    OBVIOUS
  <1>1. Cardinality(Claims) \in Nat /\ MaxEpoch \in Nat \ {0}
    BY ClaimsFinite, FS_CardinalityType, LimitAssumption
  <1>2. TypeOK
    <2>1. 0 \in 0..MaxEpoch /\ 0 \in 0..Cardinality(Claims)
      BY <1>1
    <2>2. job \in [Workers -> Jobs]
      BY Resting DEF Init
    <2> QED
      BY <2>1, <2>2 DEF Init, TypeOK
  <1>3. Filing = {} /\ \A e \in Epochs : Counted(e) = {}
    BY DEF Init, Filing, Stored, Counted
  <1>4. Cardinality({}) = 0
    BY FS_EmptySet
  <1>5. CountsKept
    BY <1>3, <1>4 DEF Init, CountsKept
  <1>6. IsLastStamp(0) /\ \A c \in Claims : claim[c].at = 0
    BY DEF Init, IsLastStamp
  <1>7. StampsBounded
    BY <1>3, <1>4, <1>6 DEF StampsBounded
  <1>8. RowsInPlace /\ StateFinalizedOnChain /\ EpochsFollowFinality /\ AnnouncedOnce
    BY DEF Init, RowsInPlace, StateFinalizedOnChain, EpochsFollowFinality, AnnouncedOnce
  <1>9. JobsBacked /\ OneAnnouncer
    BY Resting DEF Init, JobsBacked, OneAnnouncer, At
  <1> QED
    BY <1>2, <1>5, <1>7, <1>8, <1>9 DEF IInv, RowsInv

-----------------------------------------------------------------------------
(* The steps that read. *)

LEMMA ReadActiveKeeps == ASSUME IInv, NEW t \in Ticks, ReadActive(t) PROVE IInv'
  <1>1. t \in Workers /\ UNCHANGED <<epochVars, claim, stateVars, announced>>
    BY DEF ReadActive, Workers
  <1>2. Cardinality(Claims) \in Nat /\ MaxEpoch \in Nat \ {0}
    BY ClaimsFinite, FS_CardinalityType, LimitAssumption
  <1>3. CASE job' = [job EXCEPT ![t] = [IdleJob EXCEPT !.pc = "latest", !.rows = RowsIfAlone(t)]]
    <2>1. RowsIfAlone(t) \in SUBSET Epochs
      BY DEF RowsIfAlone, Rows
    <2>2. PICK R \in SUBSET Epochs : R = RowsIfAlone(t)
      BY <2>1
    <2>3. PICK j : j = [IdleJob EXCEPT !.pc = "latest", !.rows = R]
      OBVIOUS
    <2>4. j \in Jobs /\ j.pc = "latest"
      BY <2>3, Resting, <1>1 DEF IdleJob, Jobs
    <2>5. Backed(t, j)
      BY <2>4 DEF Backed, OfEpoch, Aggregating
    <2> QED
      BY <1>1, <1>3, <2>2, <2>3, <2>4, <2>5, QuietStep
  <1>4. CASE \E e \in OpenEpochs :
               job' = [job EXCEPT ![t] = [IdleJob EXCEPT !.pc = "decide", !.epoch = e,
                                              !.due = due[e], !.count = count[e]]]
    <2>1. PICK e \in Epochs :
               job' = [job EXCEPT ![t] = [IdleJob EXCEPT !.pc = "decide", !.epoch = e,
                                              !.due = due[e], !.count = count[e]]]
      BY <1>4 DEF OpenEpochs
    <2>2. PICK d \in BOOLEAN, n \in 0..Cardinality(Claims) : d = due[e] /\ n = count[e]
      BY DEF IInv, TypeOK
    <2>3. PICK j : j = [IdleJob EXCEPT !.pc = "decide", !.epoch = e, !.due = d, !.count = n]
      OBVIOUS
    <2>4. e \in 0..MaxEpoch
      BY <1>2 DEF Epochs
    <2>5. j \in Jobs /\ j.pc = "decide" /\ j.epoch = e
      BY <2>2, <2>3, <2>4, Resting, <1>1 DEF IdleJob, Jobs
    <2>6. Backed(t, j)
      <3>1. j.count = n /\ n \in Nat
        BY <1>2, <2>3 DEF IdleJob
      <3> QED
        BY <2>2, <2>5, <3>1 DEF Backed, OfEpoch, Aggregating
    <2> QED
      BY <1>1, <2>1, <2>2, <2>3, <2>5, <2>6, QuietStep
  <1> QED
    BY <1>3, <1>4 DEF ReadActive

LEMMA ReadLatestKeeps == ASSUME IInv, NEW t \in Ticks, ReadLatest(t) PROVE IInv'
  <1>1. t \in Workers /\ UNCHANGED <<epochVars, claim, stateVars, announced>>
    BY DEF ReadLatest, Workers
  <1>2. CASE End(t)
    BY <1>1, <1>2, EndKeeps
  <1>3. CASE /\ NextEpoch <= MaxEpoch
             /\ job' = [job EXCEPT ![t].pc = "open", ![t].epoch = NextEpoch]
    <2>1. PICK e : e = NextEpoch
      OBVIOUS
    <2>2. e = latest + 1 /\ e \in Epochs /\ e \in 0..MaxEpoch
      BY <1>3, <2>1, LimitAssumption DEF NextEpoch, IInv, TypeOK, Epochs
    <2>3. PICK i \in Jobs : i = job[t]
      BY <1>1 DEF IInv, TypeOK
    <2>4. PICK j : j = [i EXCEPT !.pc = "open", !.epoch = e]
      OBVIOUS
    <2>5. j \in Jobs /\ j.pc = "open" /\ j.epoch = e
      BY <2>2, <2>3, <2>4 DEF Jobs
    <2>6. job' = [job EXCEPT ![t] = j]
      BY <1>1, <1>3, <2>1, <2>3, <2>4 DEF IInv, TypeOK
    <2>7. e > 1 => finalized[e - 1] # {}
      BY <2>2, LimitAssumption DEF IInv, RowsInv, RowsInPlace, TypeOK
    <2>8. Backed(t, j)
      BY <2>2, <2>5, <2>7 DEF Backed, OfEpoch, Aggregating
    <2> QED
      BY <1>1, <2>5, <2>6, <2>8, QuietStep
  <1> QED
    BY <1>2, <1>3 DEF ReadLatest

LEMMA RequestAggregateKeeps ==
    ASSUME IInv, NEW b \in Bots, NEW e \in Epochs, RequestAggregate(b, e) PROVE IInv'
  <1>1. b \in Workers /\ b \notin Ticks /\ UNCHANGED <<epochVars, claim, stateVars, announced>>
    BY WorkersAssumption DEF RequestAggregate, Workers
  <1>2. PICK j : j = [IdleJob EXCEPT !.pc = "list", !.epoch = e]
    OBVIOUS
  <1>3. e \in 0..MaxEpoch
    BY LimitAssumption DEF Epochs
  <1>4. j \in Jobs /\ j.pc = "list" /\ j.epoch = e
    BY <1>1, <1>2, <1>3, Resting DEF IdleJob, Jobs
  <1>5. Backed(b, j)
    BY <1>1, <1>4 DEF Backed, OfEpoch, Aggregating
  <1> QED
    BY <1>1, <1>2, <1>4, <1>5, QuietStep DEF RequestAggregate

LEMMA ListClaimsKeeps == ASSUME IInv, NEW w \in Workers, ListClaims(w) PROVE IInv'
  <1>1. UNCHANGED <<epochVars, claim, stateVars, announced>> /\ job[w].pc = "list"
    BY DEF ListClaims, At
  <1>2. CASE End(w)
    BY <1>1, <1>2, EndKeeps
  <1>3. CASE /\ ~NoClaims(Filed(job[w].epoch))
             /\ \E L \in LatestOf(Filed(job[w].epoch)) :
                  job' = [job EXCEPT ![w].pc = "check", ![w].claims = L]
    <2>1. PICK i \in Jobs : i = job[w]
      BY DEF IInv, TypeOK
    <2>2. PICK L \in LatestOf(Filed(i.epoch)) :
                  job' = [job EXCEPT ![w].pc = "check", ![w].claims = L]
      BY <1>3, <2>1
    <2>3. /\ L \subseteq Filed(i.epoch) /\ Filed(i.epoch) # {} /\ L \subseteq Claims
          /\ \A c \in Filed(i.epoch) : HeardIn(c, L)
      BY <1>3, <2>1, <2>2 DEF LatestOf, HeardIn, NoClaims, Filed
    <2>4. L # {}
      BY <2>3 DEF HeardIn
    <2>5. PICK j : j = [i EXCEPT !.pc = "check", !.claims = L]
      OBVIOUS
    <2>6. j \in Jobs /\ j.pc = "check" /\ j.epoch = i.epoch /\ j.claims = L
      BY <2>1, <2>3, <2>5 DEF Jobs
    <2>7. job' = [job EXCEPT ![w] = j]
      BY <2>1, <2>2, <2>5 DEF IInv, TypeOK
    <2>8. Counted(i.epoch) \subseteq Filed(i.epoch)
      BY DEF Counted, Filed, Stored
    <2>9. Backed(w, i) /\ i.pc = "list"
      BY <1>1, <2>1 DEF IInv, JobsBacked
    <2>10. Backed(w, j)
      BY <2>3, <2>4, <2>6, <2>8, <2>9 DEF Backed, OfEpoch, Aggregating
    <2> QED
      BY <1>1, <2>6, <2>7, <2>10, QuietStep
  <1> QED
    BY <1>2, <1>3 DEF ListClaims

LEMMA CheckPublishedKeeps == ASSUME IInv, NEW w \in Workers, CheckPublished(w) PROVE IInv'
  <1>1. UNCHANGED <<epochVars, claim, stateVars, announced>> /\ job[w].pc = "check"
    BY DEF CheckPublished, At
  <1>2. PICK i \in Jobs : i = job[w]
    BY DEF IInv, TypeOK
  <1>3. Backed(w, i) /\ i.pc = "check"
    BY <1>1, <1>2 DEF IInv, JobsBacked
  <1>4. CASE End(w)
    BY <1>1, <1>4, EndKeeps
  <1>5. ASSUME NEW pc \in {"mark", "upsert", "publish"}, Goto(w, pc),
               pc = "mark" => finalized[i.epoch] # {},
               pc = "upsert" => <<i.epoch, i.claims>> \in published
        PROVE  IInv'
    <2>1. PICK j \in Jobs : /\ job' = [job EXCEPT ![w] = j]
                            /\ j.pc = pc /\ j.epoch = i.epoch /\ j.claims = i.claims
      BY <1>2, <1>5, JobGoes DEF IInv
    <2>2. Backed(w, j)
      BY <1>3, <1>5, <2>1 DEF Backed, OfEpoch, Aggregating
    <2> QED
      BY <1>1, <1>5, <2>1, <2>2, QuietStep
  <1> QED
    BY <1>2, <1>4, <1>5 DEF CheckPublished, Aggregated, OnChain, Root

-----------------------------------------------------------------------------
(* Claims. *)

LEMMA ReceiveClaimKeeps == ASSUME IInv, NEW c \in Claims, ReceiveClaim(c) PROVE IInv'
  <1>1. PICK e \in OpenEpochs :
          claim' = [claim EXCEPT ![c] = [pc |-> "accepted", epoch |-> e, at |-> 0]]
    BY DEF ReceiveClaim
  <1>2. /\ claim[c].pc = "new" /\ e \in Epochs /\ status[e] = "OPEN"
        /\ UNCHANGED <<status, due, count, finalized, latest, published, announced, job>>
    BY DEF ReceiveClaim, OpenEpochs, epochVars, stateVars
  <1>3. /\ \A d \in Claims : d # c => claim'[d] = claim[d]
        /\ claim'[c].pc = "accepted" /\ claim'[c].epoch = e /\ claim'[c].at = 0
    BY <1>1 DEF IInv, TypeOK
  <1>4. TypeOK'
    <2>1. e \in 0..MaxEpoch /\ 0 \in 0..Cardinality(Claims)
      BY <1>2, ClaimsFinite, FS_CardinalityType, LimitAssumption DEF Epochs
    <2>2. [pc |-> "accepted", epoch |-> e, at |-> 0] \in
             [pc : {"new", "accepted", "filed", "counted", "missed"},
              epoch : 0..MaxEpoch, at : 0..Cardinality(Claims)]
      BY <2>1
    <2> QED
      BY <1>1, <1>2, <2>2 DEF IInv, TypeOK
  <1>5. /\ Filing' = Filing /\ \A f \in Epochs : Counted(f)' = Counted(f)
        /\ \A d \in Claims : Stored(d) => Stored(d)' /\ d # c
    BY <1>2, <1>3 DEF Filing, Stored, Counted
  <1>6. RowsGrow
    BY <1>2, <1>3, <1>5 DEF RowsGrow
  <1>7. CountsKept'
    BY <1>2, <1>5 DEF IInv, RowsInv, CountsKept
  <1>8. StampsBounded'
    <2>1. PICK t \in 0..Cardinality(Filing) : IsLastStamp(t)
      BY DEF IInv, RowsInv, StampsBounded
    <2>2. t \in Nat
      BY <2>1, SomeClaims DEF Filing
    <2>3. claim[c].at = 0
      BY <1>2 DEF IInv, RowsInv, StampsBounded, Stored
    <2>4. \A d \in Claims : claim'[d].at = claim[d].at
      BY <1>3, <2>3
    <2>5. IsLastStamp(t)'
      BY <2>1, <2>4 DEF IsLastStamp
    <2>6. \A d \in Claims : ~Stored(d)' => claim'[d].at = 0
      BY <1>5, <2>4 DEF IInv, RowsInv, StampsBounded
    <2> QED
      BY <1>5, <2>1, <2>5, <2>6 DEF StampsBounded
  <1>9. RowsInPlace' /\ StateFinalizedOnChain' /\ EpochsFollowFinality' /\ AnnouncedOnce'
    BY <1>2, <1>3 DEF IInv, RowsInv, RowsInPlace, StateFinalizedOnChain, EpochsFollowFinality,
                      AnnouncedOnce
  <1>10. JobsBacked' /\ OneAnnouncer'
    BY <1>2, <1>6, RowsStep
  <1> QED
    BY <1>4, <1>7, <1>8, <1>9, <1>10 DEF IInv, RowsInv

LEMMA LastStampIsLast ==
    ASSUME TypeOK, NEW t \in 0..Cardinality(Claims), IsLastStamp(t)
    PROVE  LastStamp = t
  <1>1. Cardinality(Claims) \in Nat
    BY ClaimsFinite, FS_CardinalityType
  <1>2. LastStamp \in 0..Cardinality(Claims) /\ IsLastStamp(LastStamp)
    BY DEF LastStamp, IsLastStamp
  <1>3. \A c \in Claims : claim[c].at \in Nat
    BY <1>1 DEF TypeOK
  <1>4. \A u, v \in 0..Cardinality(Claims) : IsLastStamp(u) /\ IsLastStamp(v) => u <= v
    BY <1>1, <1>3 DEF IsLastStamp
  <1>5. LastStamp <= t /\ t <= LastStamp
    BY <1>2, <1>4
  <1> QED
    BY <1>1, <1>2, <1>5

LEMMA InsertClaimKeeps == ASSUME IInv, NEW c \in Claims, InsertClaim(c) PROVE IInv'
  <1>1. PICK s : /\ s \in {LastStamp, LastStamp + 1} \ {0}
                 /\ claim' = [claim EXCEPT ![c].pc = "filed", ![c].at = s]
    BY DEF InsertClaim
  <1>2. /\ claim[c].pc = "accepted"
        /\ UNCHANGED <<status, due, count, finalized, latest, published, announced, job>>
    BY DEF InsertClaim, epochVars, stateVars
  <1>3. /\ \A d \in Claims : d # c => claim'[d] = claim[d]
        /\ claim'[c].pc = "filed" /\ claim'[c].epoch = claim[c].epoch /\ claim'[c].at = s
    BY <1>1 DEF IInv, TypeOK
  <1>4. PICK t \in 0..Cardinality(Filing) : IsLastStamp(t)
    BY DEF IInv, RowsInv, StampsBounded
  <1>5. /\ Filing' = Filing \cup {c} /\ c \notin Filing
        /\ \A d \in Claims : Stored(d) => Stored(d)' /\ d # c
    BY <1>2, <1>3 DEF Filing, Stored
  <1>6. /\ Cardinality(Filing)' = Cardinality(Filing) + 1
        /\ Cardinality(Filing) \in Nat /\ Cardinality(Claims) \in Nat
        /\ Cardinality(Filing)' <= Cardinality(Claims)
    <2>1. Filing \subseteq Claims /\ Filing \cup {c} \subseteq Claims
      BY DEF Filing
    <2>2. Cardinality(Filing \cup {c}) = Cardinality(Filing) + 1
      BY <1>5, <2>1, OneMoreClaim
    <2>3. Cardinality(Filing) \in 0..Cardinality(Claims)
          /\ Cardinality(Filing \cup {c}) \in 0..Cardinality(Claims)
      BY <2>1, SomeClaims
    <2>4. Cardinality(Claims) \in Nat
      BY ClaimsFinite, FS_CardinalityType
    <2> QED
      BY <1>5, <2>2, <2>3, <2>4
  <1>7. LastStamp = t
    BY <1>4, <1>6, LastStampIsLast DEF IInv
  <1>8. s \in 0..Cardinality(Filing)' /\ s >= t /\ s # 0 /\ s \in 0..Cardinality(Claims)
    BY <1>1, <1>4, <1>6, <1>7
  <1>9. TypeOK'
    <2>1. [claim[c] EXCEPT !.pc = "filed", !.at = s] \in
             [pc : {"new", "accepted", "filed", "counted", "missed"},
              epoch : 0..MaxEpoch, at : 0..Cardinality(Claims)]
      BY <1>8 DEF IInv, TypeOK
    <2>2. claim' = [claim EXCEPT ![c] = [claim[c] EXCEPT !.pc = "filed", !.at = s]]
      BY <1>1 DEF IInv, TypeOK
    <2> QED
      BY <1>2, <2>1, <2>2 DEF IInv, TypeOK
  <1>10. \A f \in Epochs : Counted(f)' = Counted(f)
    BY <1>2, <1>3 DEF Counted
  <1>11. RowsGrow
    BY <1>2, <1>3, <1>5 DEF RowsGrow
  <1>12. CountsKept'
    BY <1>2, <1>10 DEF IInv, RowsInv, CountsKept
  <1>13. StampsBounded'
    <2>1. IsLastStamp(s)'
      <3>1. ASSUME NEW d \in Claims PROVE claim'[d].at <= s
        <4>1. claim[d].at <= t /\ claim[d].at \in Nat
          BY <1>4, <1>6 DEF IsLastStamp, IInv, TypeOK
        <4>2. t \in Nat /\ s \in Nat
          BY <1>4, <1>6, <1>8
        <4> QED
          BY <1>3, <1>8, <4>1, <4>2
      <3> QED
        BY <1>3, <3>1 DEF IsLastStamp
    <2>2. \A d \in Claims : ~Stored(d)' => claim'[d].at = 0
      BY <1>3, <1>5 DEF IInv, RowsInv, StampsBounded, Stored
    <2> QED
      BY <1>8, <2>1, <2>2 DEF StampsBounded
  <1>14. RowsInPlace' /\ StateFinalizedOnChain' /\ EpochsFollowFinality' /\ AnnouncedOnce'
    BY <1>2, <1>3 DEF IInv, RowsInv, RowsInPlace, StateFinalizedOnChain, EpochsFollowFinality,
                      AnnouncedOnce
  <1>15. JobsBacked' /\ OneAnnouncer'
    BY <1>2, <1>11, RowsStep
  <1> QED
    BY <1>9, <1>12, <1>13, <1>14, <1>15 DEF IInv, RowsInv

LEMMA CountClaimKeeps == ASSUME IInv, NEW c \in Claims, CountClaim(c) PROVE IInv'
  <1>1. PICK p \in {"counted", "missed"} :
          /\ claim' = [claim EXCEPT ![c].pc = p]
          /\ p = "counted" => /\ status[claim[c].epoch] = "OPEN"
                              /\ count' = [count EXCEPT ![claim[c].epoch] = @ + 1]
          /\ p = "missed" => UNCHANGED count
    BY DEF CountClaim, CountsFor
  <1>2. /\ claim[c].pc = "filed" /\ claim[c].epoch \in Epochs
        /\ UNCHANGED <<status, due, finalized, latest, published, announced, job>>
    BY DEF CountClaim, stateVars, IInv, RowsInv, RowsInPlace
  <1>3. /\ \A d \in Claims : d # c => claim'[d] = claim[d]
        /\ claim'[c].pc = p /\ claim'[c].epoch = claim[c].epoch /\ claim'[c].at = claim[c].at
    BY <1>1 DEF IInv, TypeOK
  <1>4. /\ Filing' = Filing
        /\ \A d \in Claims : Stored(d)' <=> Stored(d)
        /\ \A d \in Claims : claim'[d].at = claim[d].at /\ claim'[d].epoch = claim[d].epoch
    BY <1>1, <1>2, <1>3 DEF Filing, Stored
  <1>5. RowsGrow
    <2>1. \A e \in Epochs : count'[e] \in {count[e], count[e] + 1}
      BY <1>1 DEF IInv, TypeOK
    <2> QED
      BY <1>1, <1>2, <1>3, <1>4, <2>1 DEF RowsGrow
  <1>6. CountsKept'
    <2>1. ASSUME NEW e \in Epochs PROVE count'[e] = Cardinality(Counted(e)')
      <3>1. count[e] = Cardinality(Counted(e))
        BY DEF IInv, RowsInv, CountsKept
      <3>2. CASE p = "counted" /\ e = claim[c].epoch
        <4>1. Counted(e)' = Counted(e) \cup {c} /\ c \notin Counted(e) /\ Counted(e) \subseteq Claims
          BY <1>2, <1>3, <3>2 DEF Counted
        <4>2. count'[e] = count[e] + 1
          BY <1>1, <3>2 DEF IInv, TypeOK
        <4> QED
          BY <3>1, <4>1, <4>2, OneMoreClaim
      <3>3. CASE ~(p = "counted" /\ e = claim[c].epoch)
        <4>1. Counted(e)' = Counted(e)
          BY <1>1, <1>2, <1>3, <3>3 DEF Counted
        <4>2. count'[e] = count[e]
          BY <1>1, <3>3 DEF IInv, TypeOK
        <4> QED
          BY <3>1, <4>1, <4>2
      <3> QED
        BY <3>2, <3>3
    <2> QED
      BY <2>1 DEF CountsKept
  <1>7. TypeOK'
    <2>1. [claim[c] EXCEPT !.pc = p] \in
             [pc : {"new", "accepted", "filed", "counted", "missed"},
              epoch : 0..MaxEpoch, at : 0..Cardinality(Claims)]
      BY DEF IInv, TypeOK
    <2>2. claim' = [claim EXCEPT ![c] = [claim[c] EXCEPT !.pc = p]]
      BY <1>1
    <2>3. \A e \in Epochs : count'[e] \in 0..Cardinality(Claims)
      BY <1>6, SomeClaims DEF CountsKept, Counted
    <2>4. count' \in [Epochs -> 0..Cardinality(Claims)]
      BY <1>1, <2>3 DEF IInv, TypeOK
    <2> QED
      BY <1>2, <2>1, <2>2, <2>4 DEF IInv, TypeOK
  <1>8. StampsBounded'
    BY <1>4 DEF IInv, RowsInv, StampsBounded, IsLastStamp
  <1>9. RowsInPlace' /\ StateFinalizedOnChain' /\ EpochsFollowFinality' /\ AnnouncedOnce'
    BY <1>2, <1>3 DEF IInv, RowsInv, RowsInPlace, StateFinalizedOnChain, EpochsFollowFinality,
                      AnnouncedOnce
  <1>10. JobsBacked' /\ OneAnnouncer'
    BY <1>2, <1>5, RowsStep
  <1> QED
    BY <1>6, <1>7, <1>8, <1>9, <1>10 DEF IInv, RowsInv

-----------------------------------------------------------------------------
(* The steps of a tick that write. *)

LEMMA OpenEpochKeeps == ASSUME IInv, NEW t \in Ticks, OpenEpoch(t) PROVE IInv'
  <1>1. PICK e : e = job[t].epoch
    OBVIOUS
  <1>2. /\ t \in Workers /\ job[t].pc = "open" /\ status[e] = "NONE" /\ OpenEpochs = {}
        /\ status' = [status EXCEPT ![e] = "OPEN"] /\ job' = [job EXCEPT ![t] = IdleJob]
        /\ UNCHANGED <<due, count, claim, finalized, latest, published, announced>>
    BY <1>1 DEF OpenEpoch, Duplicate, End, At, stateVars, Workers
  <1>3. Backed(t, job[t])
    BY <1>2 DEF IInv, JobsBacked
  <1>4. e \in Epochs /\ (e > 1 => finalized[e - 1] # {})
    BY <1>1, <1>2, <1>3 DEF Backed, OfEpoch
  <1>5. /\ status'[e] = "OPEN" /\ \A f \in Epochs : f # e => status'[f] = status[f]
        /\ \A f \in Epochs : status[f] # "OPEN"
    BY <1>2, <1>4 DEF IInv, TypeOK, OpenEpochs
  <1>6. /\ job' \in [Workers -> Jobs] /\ job'[t] = IdleJob
        /\ \A v \in Workers : v # t => job'[v] = job[v]
    BY <1>2, JobReplaced, Resting DEF IInv
  <1>7. TypeOK'
    BY <1>2, <1>6 DEF IInv, TypeOK
  <1>8. RowsGrow
    <2>1. \A c \in Claims : claim[c].pc = "counted" => claim[c].epoch \in Epochs
      BY DEF IInv, RowsInv, RowsInPlace
    <2> QED
      BY <1>2, <1>5, <2>1 DEF RowsGrow, Stored
  <1>9. CountsKept' /\ StampsBounded'
    BY <1>2 DEF IInv, RowsInv, CountsKept, Counted, StampsBounded, IsLastStamp, Filing, Stored
  <1>10. RowsInPlace' /\ StateFinalizedOnChain' /\ AnnouncedOnce'
    BY <1>2, <1>5 DEF IInv, RowsInv, RowsInPlace, StateFinalizedOnChain, AnnouncedOnce
  <1>11. EpochsFollowFinality'
    <2>1. ASSUME NEW f \in Epochs, status'[f] # "NONE", f > 1
          PROVE  finalized[f - 1] # {} /\ status'[f - 1] # "OPEN"
      <3>1. finalized[f - 1] # {} /\ status[f - 1] # "OPEN" /\ f - 1 \in Epochs
        BY <1>4, <1>5, <2>1, LimitAssumption DEF IInv, RowsInv, EpochsFollowFinality, Epochs
      <3>2. status[f - 1] # "NONE"
        BY <3>1 DEF IInv, RowsInv, RowsInPlace
      <3> QED
        BY <1>2, <1>5, <3>1, <3>2
    <2>2. \A f \in Epochs : status'[f] = "AGGREGATED" => finalized[f] # {}
      BY <1>5 DEF IInv, RowsInv, EpochsFollowFinality
    <2> QED
      BY <1>2, <2>1, <2>2 DEF EpochsFollowFinality
  <1>12. JobsBacked'
    <2>1. Backed(t, IdleJob)'
      BY Resting DEF Backed, OfEpoch, Aggregating, IdleJob
    <2> QED
      BY <1>2, <1>8, <2>1, Resting, JobsStayBacked
  <1>13. OneAnnouncer'
    BY <1>6, Resting DEF IInv, OneAnnouncer, At
  <1> QED
    BY <1>7, <1>9, <1>10, <1>11, <1>12, <1>13 DEF IInv, RowsInv

(* A step that only touches the flag that an epoch is due, and ends or not. *)
LEMMA DueStep ==
    ASSUME IInv, due' \in [Epochs -> BOOLEAN],
           UNCHANGED <<status, count, claim, stateVars, announced>>,
           UNCHANGED job \/ \E w \in Workers : End(w)
    PROVE  IInv'
  <1>1. UNCHANGED <<status, count, claim, finalized, latest, published, announced>>
    BY DEF stateVars
  <1>2. RowsGrow
    BY <1>1 DEF RowsGrow, Stored
  <1>3. RowsInv'
    BY <1>1 DEF IInv, RowsInv, CountsKept, Counted, StampsBounded, IsLastStamp, Filing, Stored,
                RowsInPlace, StateFinalizedOnChain, EpochsFollowFinality, AnnouncedOnce
  <1>4. CASE UNCHANGED job
    <2>1. JobsBacked' /\ OneAnnouncer'
      BY <1>1, <1>2, <1>4, RowsStep
    <2> QED
      BY <1>1, <1>3, <1>4, <2>1 DEF IInv, TypeOK
  <1>5. ASSUME NEW w \in Workers, End(w) PROVE IInv'
    <2>1. job' = [job EXCEPT ![w] = IdleJob]
      BY <1>5 DEF End
    <2>2. /\ job' \in [Workers -> Jobs] /\ job'[w] = IdleJob
          /\ \A v \in Workers : v # w => job'[v] = job[v]
      BY <2>1, JobReplaced, Resting DEF IInv
    <2>3. Backed(w, IdleJob)'
      BY Resting DEF Backed, OfEpoch, Aggregating, IdleJob
    <2>4. JobsBacked'
      BY <1>1, <1>2, <2>1, <2>3, Resting, JobsStayBacked
    <2>5. OneAnnouncer'
      BY <2>2, Resting DEF IInv, OneAnnouncer, At
    <2> QED
      BY <1>1, <1>3, <2>2, <2>4, <2>5 DEF IInv, TypeOK
  <1> QED
    BY <1>4, <1>5

LEMMA CloseEpochKeeps == ASSUME IInv, NEW t \in Ticks, CloseEpoch(t) PROVE IInv'
  <1>1. t \in Workers /\ job[t].pc = "decide" /\ UNCHANGED <<due, count, claim, stateVars, announced>>
    BY DEF CloseEpoch, At, Workers
  <1>2. CASE UNCHANGED status /\ End(t)
    BY <1>1, <1>2, EndKeeps DEF epochVars
  <1>3. CASE /\ status[job[t].epoch] = "OPEN"
             /\ status' = [status EXCEPT ![job[t].epoch] = "CLOSED"] /\ Goto(t, "list")
    <2>1. PICK j \in Jobs : /\ job' = [job EXCEPT ![t] = j]
                            /\ j.pc = "list" /\ j.epoch = job[t].epoch
      BY <1>1, <1>3, JobGoes DEF IInv
    <2>2. UNCHANGED <<due, count, claim, finalized, latest, published, announced>>
      BY <1>1 DEF stateVars
    <2>3. Backed(t, job[t])
      BY <1>1 DEF IInv, JobsBacked
    <2>4. PICK e \in Epochs : e = job[t].epoch
      BY <1>1, <2>3 DEF Backed, OfEpoch
    <2>5. /\ status'[e] = "CLOSED" /\ \A f \in Epochs : f # e => status'[f] = status[f]
          /\ status[e] = "OPEN"
      BY <1>3, <2>4 DEF IInv, TypeOK
    <2>6. /\ job' \in [Workers -> Jobs] /\ job'[t] = j
          /\ \A v \in Workers : v # t => job'[v] = job[v]
      BY <1>1, <2>1, JobReplaced DEF IInv
    <2>7. TypeOK'
      BY <1>3, <2>2, <2>6 DEF IInv, TypeOK
    <2>8. RowsGrow
      BY <2>2, <2>5 DEF RowsGrow, Stored
    <2>9. CountsKept' /\ StampsBounded'
      BY <2>2 DEF IInv, RowsInv, CountsKept, Counted, StampsBounded, IsLastStamp, Filing, Stored
    <2>10. RowsInPlace' /\ StateFinalizedOnChain' /\ AnnouncedOnce'
      BY <2>2, <2>5 DEF IInv, RowsInv, RowsInPlace, StateFinalizedOnChain, AnnouncedOnce
    <2>11. EpochsFollowFinality'
      <3>1. \A f \in Epochs : f > 1 => f - 1 \in Epochs
        BY LimitAssumption DEF Epochs
      <3> QED
        BY <2>2, <2>5, <3>1 DEF IInv, RowsInv, EpochsFollowFinality
    <2>12. Backed(t, j)'
      BY <2>1, <2>4, <2>5 DEF Backed, OfEpoch, Aggregating
    <2>13. JobsBacked'
      BY <1>1, <2>1, <2>2, <2>8, <2>12, JobsStayBacked
    <2>14. OneAnnouncer'
      BY <2>1, <2>6 DEF IInv, OneAnnouncer, At
    <2> QED
      BY <2>7, <2>9, <2>10, <2>11, <2>13, <2>14 DEF IInv, RowsInv
  <1> QED
    BY <1>2, <1>3 DEF CloseEpoch, Closable

LEMMA MarkAggregatedKeeps == ASSUME IInv, NEW t \in Ticks, MarkAggregated(t) PROVE IInv'
  <1>1. t \in Workers /\ job[t].pc = "mark" /\ UNCHANGED <<due, count, claim, stateVars, announced>>
    BY DEF MarkAggregated, At, Workers
  <1>2. CASE UNCHANGED status /\ End(t)
    BY <1>1, <1>2, EndKeeps DEF epochVars
  <1>3. CASE /\ status[job[t].epoch] = "CLOSED"
             /\ status' = [status EXCEPT ![job[t].epoch] = "AGGREGATED"] /\ Goto(t, "announce")
    <2>1. PICK j \in Jobs : /\ job' = [job EXCEPT ![t] = j]
                            /\ j.pc = "announce" /\ j.epoch = job[t].epoch
      BY <1>1, <1>3, JobGoes DEF IInv
    <2>2. UNCHANGED <<due, count, claim, finalized, latest, published, announced>>
      BY <1>1 DEF stateVars
    <2>3. Backed(t, job[t])
      BY <1>1 DEF IInv, JobsBacked
    <2>4. PICK e \in Epochs : e = job[t].epoch
      BY <1>1, <2>3 DEF Backed, OfEpoch
    <2>5. /\ status'[e] = "AGGREGATED" /\ \A f \in Epochs : f # e => status'[f] = status[f]
          /\ status[e] = "CLOSED" /\ finalized[e] # {}
      BY <1>1, <1>3, <2>3, <2>4 DEF IInv, TypeOK, Backed
    <2>6. /\ job' \in [Workers -> Jobs] /\ job'[t] = j
          /\ \A v \in Workers : v # t => job'[v] = job[v]
      BY <1>1, <2>1, JobReplaced DEF IInv
    <2>7. TypeOK'
      BY <1>3, <2>2, <2>6 DEF IInv, TypeOK
    <2>8. RowsGrow
      BY <2>2, <2>5 DEF RowsGrow, Stored
    <2>9. CountsKept' /\ StampsBounded'
      BY <2>2 DEF IInv, RowsInv, CountsKept, Counted, StampsBounded, IsLastStamp, Filing, Stored
    <2>10. RowsInPlace' /\ StateFinalizedOnChain' /\ AnnouncedOnce'
      BY <2>2, <2>5 DEF IInv, RowsInv, RowsInPlace, StateFinalizedOnChain, AnnouncedOnce
    <2>11. EpochsFollowFinality'
      <3>1. \A f \in Epochs : f > 1 => f - 1 \in Epochs
        BY LimitAssumption DEF Epochs
      <3> QED
        BY <2>2, <2>5, <3>1 DEF IInv, RowsInv, EpochsFollowFinality
    <2>12. announced[e] = 0
      BY <2>5 DEF IInv, RowsInv, AnnouncedOnce, TypeOK
    <2>13. Backed(t, j)'
      BY <2>1, <2>2, <2>4, <2>5, <2>12 DEF Backed, OfEpoch, Aggregating
    <2>14. JobsBacked'
      BY <1>1, <2>1, <2>2, <2>8, <2>13, JobsStayBacked
    <2>15. ASSUME NEW v \in Workers, v # t, At(v, "announce") PROVE job[v].epoch # e
      BY <2>5, <2>15 DEF IInv, JobsBacked, Backed, At
    <2>16. OneAnnouncer'
      BY <2>1, <2>4, <2>6, <2>15 DEF IInv, OneAnnouncer, At
    <2> QED
      BY <2>7, <2>9, <2>10, <2>11, <2>14, <2>16 DEF IInv, RowsInv
  <1> QED
    BY <1>2, <1>3 DEF MarkAggregated

LEMMA AnnounceKeeps == ASSUME IInv, NEW t \in Ticks, Announce(t) PROVE IInv'
  <1>1. /\ t \in Workers /\ job[t].pc = "announce"
        /\ UNCHANGED <<status, due, count, claim, finalized, latest, published>>
        /\ job' = [job EXCEPT ![t] = IdleJob]
    BY DEF Announce, At, End, Workers, epochVars, stateVars
  <1>2. Backed(t, job[t])
    BY <1>1 DEF IInv, JobsBacked
  <1>3. PICK e \in Epochs : e = job[t].epoch
    BY <1>1, <1>2 DEF Backed, OfEpoch
  <1>4. /\ announced[e] = 0 /\ status[e] = "AGGREGATED"
        /\ announced' \in [Epochs -> Nat] /\ announced'[e] = 1
        /\ \A f \in Epochs : f # e => announced'[f] = announced[f]
    BY <1>1, <1>2, <1>3 DEF Announce, IInv, TypeOK, Backed
  <1>5. /\ job' \in [Workers -> Jobs] /\ job'[t] = IdleJob
        /\ \A v \in Workers : v # t => job'[v] = job[v]
    BY <1>1, JobReplaced, Resting DEF IInv
  <1>6. TypeOK'
    BY <1>1, <1>4, <1>5 DEF IInv, TypeOK
  <1>7. RowsGrow
    BY <1>1 DEF RowsGrow, Stored
  <1>8. CountsKept' /\ StampsBounded'
    BY <1>1 DEF IInv, RowsInv, CountsKept, Counted, StampsBounded, IsLastStamp, Filing, Stored
  <1>9. RowsInPlace' /\ StateFinalizedOnChain' /\ EpochsFollowFinality'
    BY <1>1 DEF IInv, RowsInv, RowsInPlace, StateFinalizedOnChain, EpochsFollowFinality
  <1>10. AnnouncedOnce'
    BY <1>1, <1>4 DEF IInv, RowsInv, AnnouncedOnce
  <1>11. JobsBacked'
    <2>1. Backed(t, IdleJob)'
      BY Resting, <1>1 DEF Backed, OfEpoch, Aggregating, IdleJob
    <2>2. ASSUME NEW v \in Workers, v # t, At(v, "announce")
          PROVE  announced'[job[v].epoch] = announced[job[v].epoch]
      <3>1. job[v].epoch # e
        BY <1>1, <1>3, <2>2 DEF IInv, OneAnnouncer, At
      <3>2. job[v].epoch \in Epochs
        BY <2>2 DEF IInv, JobsBacked, Backed, OfEpoch, At
      <3> QED
        BY <1>4, <3>1, <3>2
    <2> QED
      BY <1>1, <1>7, <2>1, <2>2, Resting, JobsStayBacked
  <1>12. OneAnnouncer'
    BY <1>1, <1>5, Resting DEF IInv, OneAnnouncer, At
  <1> QED
    BY <1>6, <1>8, <1>9, <1>10, <1>11, <1>12 DEF IInv, RowsInv

-----------------------------------------------------------------------------
(* Writing a state. *)

LEMMA PublishRootKeeps == ASSUME IInv, NEW w \in Workers, PublishRoot(w) PROVE IInv'
  <1>1. /\ job[w].pc = "publish" /\ Goto(w, "upsert")
        /\ UNCHANGED <<status, due, count, claim, finalized, latest, announced>>
    BY DEF PublishRoot, At, epochVars
  <1>2. PICK i \in Jobs : i = job[w]
    BY DEF IInv, TypeOK
  <1>3. Backed(w, i) /\ i.pc = "publish"
    BY <1>1, <1>2 DEF IInv, JobsBacked
  <1>4. /\ published' = published \cup {<<i.epoch, i.claims>>}
        /\ i.epoch \in Epochs /\ i.claims # {} /\ i.claims \subseteq Claims
    BY <1>2, <1>3 DEF PublishRoot, Root, Backed, OfEpoch, Aggregating, Filed
  <1>5. PICK j \in Jobs : /\ job' = [job EXCEPT ![w] = j]
                          /\ j.pc = "upsert" /\ j.epoch = i.epoch /\ j.claims = i.claims
    BY <1>1, <1>2, JobGoes DEF IInv
  <1>6. /\ job' \in [Workers -> Jobs] /\ job'[w] = j
        /\ \A v \in Workers : v # w => job'[v] = job[v]
    BY <1>5, JobReplaced DEF IInv
  <1>7. TypeOK'
    <2>1. published' \subseteq Epochs \X ((SUBSET Claims) \ {{}})
      BY <1>4 DEF IInv, TypeOK
    <2> QED
      BY <1>1, <1>6, <2>1 DEF IInv, TypeOK
  <1>8. RowsGrow
    BY <1>1, <1>4 DEF RowsGrow, Stored
  <1>9. CountsKept' /\ StampsBounded'
    BY <1>1 DEF IInv, RowsInv, CountsKept, Counted, StampsBounded, IsLastStamp, Filing, Stored
  <1>10. RowsInPlace' /\ StateFinalizedOnChain' /\ EpochsFollowFinality' /\ AnnouncedOnce'
    BY <1>1, <1>4 DEF IInv, RowsInv, RowsInPlace, StateFinalizedOnChain, EpochsFollowFinality,
                      AnnouncedOnce
  <1>11. Backed(w, j)'
    <2>1. j.pc = "upsert" /\ <<j.epoch, j.claims>> \in published'
      BY <1>4, <1>5
    <2> QED
      BY <1>1, <1>3, <1>5, <2>1
         DEF Backed, OfEpoch, Aggregating, Filed, Stored, Counted, HeardIn
  <1>12. JobsBacked'
    BY <1>1, <1>5, <1>8, <1>11, JobsStayBacked
  <1>13. OneAnnouncer'
    BY <1>5, <1>6 DEF IInv, OneAnnouncer, At
  <1> QED
    BY <1>7, <1>9, <1>10, <1>12, <1>13 DEF IInv, RowsInv

LEMMA UpsertStateKeeps == ASSUME IInv, NEW w \in Workers, UpsertState(w) PROVE IInv'
  <1>1. /\ job[w].pc = "upsert" /\ Aggregated(w)
        /\ UNCHANGED <<status, due, count, claim, published, announced>>
    BY DEF UpsertState, At, epochVars
  <1>2. PICK i \in Jobs : i = job[w]
    BY DEF IInv, TypeOK
  <1>3. Backed(w, i) /\ i.pc = "upsert"
    BY <1>1, <1>2 DEF IInv, JobsBacked
  <1>4. PICK e \in Epochs : e = i.epoch
    BY <1>3 DEF Backed, OfEpoch
  <1>5. /\ finalized' = [finalized EXCEPT ![e] = i.claims] /\ latest' = e
        /\ i.claims # {} /\ i.claims \subseteq Filed(e) /\ <<e, i.claims>> \in published
    BY <1>2, <1>3, <1>4 DEF UpsertState, Backed, Aggregating
  <1>6. /\ finalized'[e] = i.claims /\ \A f \in Epochs : f # e => finalized'[f] = finalized[f]
        /\ finalized' \in [Epochs -> SUBSET Claims]
    BY <1>4, <1>5 DEF IInv, TypeOK, Filed
  <1>7. status[e] # "NONE"
    <2>1. PICK c \in i.claims : c \in Claims /\ Stored(c) /\ claim[c].epoch = e
      BY <1>5 DEF Filed
    <2> QED
      BY <2>1 DEF IInv, RowsInv, RowsInPlace, Stored
  <1>8. \E j \in Jobs : /\ job' = [job EXCEPT ![w] = j]
                        /\ j.pc = "idle" \/ (j.pc = "mark" /\ j.epoch = e)
    <2>1. CASE End(w)
      BY <2>1, Resting DEF End
    <2>2. CASE Goto(w, "mark")
      BY <1>2, <1>4, <2>2, JobGoes DEF IInv
    <2> QED
      BY <1>1, <2>1, <2>2 DEF Aggregated
  <1>9. PICK j \in Jobs : /\ job' = [job EXCEPT ![w] = j]
                          /\ j.pc = "idle" \/ (j.pc = "mark" /\ j.epoch = e)
    BY <1>8
  <1>10. /\ job' \in [Workers -> Jobs] /\ job'[w] = j
         /\ \A v \in Workers : v # w => job'[v] = job[v]
    BY <1>9, JobReplaced DEF IInv
  <1>11. TypeOK'
    <2>1. e \in 0..MaxEpoch
      BY LimitAssumption DEF Epochs
    <2> QED
      BY <1>1, <1>5, <1>6, <1>10, <2>1 DEF IInv, TypeOK
  <1>12. RowsGrow
    BY <1>1, <1>5, <1>6 DEF RowsGrow, Stored
  <1>13. CountsKept' /\ StampsBounded'
    BY <1>1 DEF IInv, RowsInv, CountsKept, Counted, StampsBounded, IsLastStamp, Filing, Stored
  <1>14. RowsInPlace' /\ StateFinalizedOnChain' /\ AnnouncedOnce'
    BY <1>1, <1>5, <1>6, <1>7 DEF IInv, RowsInv, RowsInPlace, StateFinalizedOnChain, AnnouncedOnce
  <1>15. EpochsFollowFinality'
    <2>1. \A f \in Epochs : finalized[f] # {} => finalized'[f] # {}
      BY <1>5, <1>6
    <2>2. \A f \in Epochs : f > 1 => f - 1 \in Epochs
      BY LimitAssumption DEF Epochs
    <2> QED
      BY <1>1, <2>1, <2>2 DEF IInv, RowsInv, EpochsFollowFinality
  <1>16. Backed(w, j)'
    BY <1>5, <1>6, <1>9 DEF Backed, OfEpoch, Aggregating
  <1>17. JobsBacked'
    BY <1>1, <1>9, <1>12, <1>16, JobsStayBacked
  <1>18. OneAnnouncer'
    BY <1>9, <1>10 DEF IInv, OneAnnouncer, At
  <1> QED
    BY <1>11, <1>13, <1>14, <1>15, <1>17, <1>18 DEF IInv, RowsInv

-----------------------------------------------------------------------------
(* Every step, and what follows. *)

LEMMA AggregateKeeps == ASSUME IInv, NEW w \in Workers, Aggregate(w) PROVE IInv'
  BY ListClaimsKeeps, CheckPublishedKeeps, PublishRootKeeps, UpsertStateKeeps DEF Aggregate

LEMMA TickKeeps == ASSUME IInv, NEW t \in Ticks, Tick(t) PROVE IInv'
  <1>1. t \in Workers
    BY DEF Workers
  <1>2. CASE ReadActive(t)
    BY <1>2, ReadActiveKeeps
  <1>3. CASE ReadLatest(t)
    BY <1>3, ReadLatestKeeps
  <1>4. CASE OpenEpoch(t)
    BY <1>4, OpenEpochKeeps
  <1>5. CASE SkipEpoch(t) \/ Noop(t)
    BY <1>1, <1>5, EndKeeps DEF SkipEpoch, Noop
  <1>6. CASE ExtendEpoch(t)
    <2>1. due' \in [Epochs -> BOOLEAN]
      BY <1>6 DEF ExtendEpoch, IInv, TypeOK
    <2> QED
      BY <1>1, <1>6, <2>1, DueStep DEF ExtendEpoch
  <1>7. CASE CloseEpoch(t)
    BY <1>7, CloseEpochKeeps
  <1>8. CASE Aggregate(t)
    BY <1>1, <1>8, AggregateKeeps
  <1>9. CASE MarkAggregated(t)
    BY <1>9, MarkAggregatedKeeps
  <1>10. CASE Announce(t)
    BY <1>10, AnnounceKeeps
  <1> QED
    BY <1>2, <1>3, <1>4, <1>5, <1>6, <1>7, <1>8, <1>9, <1>10 DEF Tick

LEMMA StepInv == IInv /\ [Next]_vars => IInv'
  <1> SUFFICES ASSUME IInv, [Next]_vars PROVE IInv'
    OBVIOUS
  <1>1. ASSUME NEW t \in Ticks, Tick(t) PROVE IInv'
    BY <1>1, TickKeeps
  <1>2. ASSUME NEW b \in Bots, Bot(b) PROVE IInv'
    BY <1>2, AggregateKeeps, RequestAggregateKeeps DEF Bot, Workers
  <1>3. ASSUME NEW c \in Claims, Submit(c) PROVE IInv'
    BY <1>3, ReceiveClaimKeeps, InsertClaimKeeps, CountClaimKeeps DEF Submit
  <1>4. ASSUME NEW e \in Epochs, ComesDue(e) PROVE IInv'
    <2>1. due' \in [Epochs -> BOOLEAN]
      BY <1>4 DEF ComesDue, IInv, TypeOK
    <2> QED
      BY <1>4, <2>1, DueStep DEF ComesDue
  <1>5. ASSUME NEW w \in Workers, Fail(w) PROVE IInv'
    BY <1>5, EndKeeps DEF Fail
  <1>6. CASE UNCHANGED vars
    <2>1. due' \in [Epochs -> BOOLEAN]
      BY <1>6 DEF vars, epochVars, IInv, TypeOK
    <2> QED
      BY <1>6, <2>1, DueStep DEF vars, epochVars
  <1> QED
    BY <1>1, <1>2, <1>3, <1>4, <1>5, <1>6 DEF Next

(* The invariant that the theorems below rest on. *)
THEOREM Inductive == Spec => []IInv
  BY InitInv, StepInv, PTL DEF Spec

(* The rows and the requests keep their types; in particular no count and no *)
(* stamp runs past the number of claims.                                     *)
THEOREM EpochTypes == Spec => []TypeOK
  BY Inductive, PTL DEF IInv

(* A state is served only once its root is on chain, for any number of ticks *)
(* and bots that overlap, and wherever they die.                             *)
THEOREM StatesAreFinalized == Spec => []StateFinalizedOnChain
  BY Inductive, PTL DEF IInv, RowsInv

(* Epochs open in the order in which their states come about. *)
THEOREM EpochsInOrder == Spec => []EpochsFollowFinality
  BY Inductive, PTL DEF IInv, RowsInv

(* One tick announces an epoch, whatever ticks overlap. *)
THEOREM OneAnnouncement == Spec => []AnnouncedOnce
  BY Inductive, PTL DEF IInv, RowsInv

(* The count that closes an epoch is the number of the claims it holds, for *)
(* any interleaving of the inserts and the counts.                          *)
THEOREM CountsAreExact == Spec => []CountsKept
  BY Inductive, PTL DEF IInv, RowsInv

(* No claim that was counted towards the closing of an epoch goes unheard by *)
(* the tick that closed it.                                                  *)
THEOREM CountedAreHeard == Spec => []CountedClaimsHeard
  <1>1. IInv => CountedClaimsHeard
    BY DEF IInv, JobsBacked, Backed, Aggregating, Workers, CountedClaimsHeard
  <1> QED
    BY <1>1, Inductive, PTL

(* A closed epoch is never opened again, and its count is final. *)
THEOREM StatusIsMonotone == Spec => StatusNeverRegresses
  <1> DEFINE A == \A e \in Epochs :
                    /\ status[e] = "CLOSED" => status'[e] \in {"CLOSED", "AGGREGATED"}
                    /\ status[e] = "AGGREGATED" => status'[e] = "AGGREGATED"
                    /\ status[e] \in {"CLOSED", "AGGREGATED"} => count'[e] = count[e]
  <1>1. ASSUME IInv, [Next]_vars PROVE [A]_vars
    <2>1. CASE UNCHANGED <<status, count>>
      BY <2>1
    <2>2. ASSUME NEW c \in Claims, CountClaim(c) PROVE A
      BY <1>1, <2>2 DEF CountClaim, CountsFor, IInv, TypeOK
    <2>3. ASSUME NEW t \in Ticks, OpenEpoch(t) \/ CloseEpoch(t) \/ MarkAggregated(t) PROVE A
      BY <1>1, <2>3 DEF OpenEpoch, Duplicate, CloseEpoch, Closable, MarkAggregated, IInv, TypeOK
    <2>4. CASE UNCHANGED vars
      BY <2>1, <2>4 DEF vars, epochVars
    <2>5. ASSUME NEW t \in Ticks, Tick(t),
                 ~(OpenEpoch(t) \/ CloseEpoch(t) \/ MarkAggregated(t))
          PROVE  UNCHANGED <<status, count>>
      BY <2>5 DEF Tick, ReadActive, ReadLatest, SkipEpoch, Noop, ExtendEpoch, Announce,
                  Aggregate, ListClaims, CheckPublished, PublishRoot, UpsertState, epochVars
    <2>6. ASSUME NEW b \in Bots, Bot(b) PROVE UNCHANGED <<status, count>>
      BY <2>6 DEF Bot, RequestAggregate, Aggregate, ListClaims, CheckPublished, PublishRoot,
                  UpsertState, epochVars
    <2>7. ASSUME NEW c \in Claims, ReceiveClaim(c) \/ InsertClaim(c) PROVE UNCHANGED <<status, count>>
      BY <2>7 DEF ReceiveClaim, InsertClaim, epochVars
    <2>8. (\E e \in Epochs : ComesDue(e)) \/ (\E w \in Workers : Fail(w))
          => UNCHANGED <<status, count>>
      BY DEF ComesDue, Fail, epochVars
    <2> QED
      BY <1>1, <2>1, <2>2, <2>3, <2>4, <2>5, <2>6, <2>7, <2>8 DEF Next, Submit
  <1>2. IInv /\ [Next]_vars => [A]_vars
    BY <1>1
  <1> HIDE DEF A
  <1>3. Spec => [][A]_vars
    BY Inductive, <1>2, PTL DEF Spec
  <1> QED
    BY <1>3 DEF A, StatusNeverRegresses

-----------------------------------------------------------------------------
(* The rounds: every step of a request is one of theirs, or none. *)

LEMMA InitRounds == Init => Rounds!Init
  <1> SUFFICES ASSUME Init PROVE Rounds!Init
    OBVIOUS
  <1>1. \A e \in Epochs : Counted(e) = {}
    BY DEF Init, Counted
  <1> QED
    BY <1>1 DEF Init, Rounds!Init, Rounds!Rounds, Epochs

LEMMA NothingCounted ==
    ASSUME \A c \in Claims : /\ claim'[c].pc = "counted" <=> claim[c].pc = "counted"
                             /\ claim[c].pc = "counted" => claim'[c].epoch = claim[c].epoch
    PROVE  [e \in Epochs |-> Counted(e)]' = [e \in Epochs |-> Counted(e)]
  <1>1. \A e \in Epochs : Counted(e)' = Counted(e)
    BY DEF Counted
  <1> QED
    BY <1>1

LEMMA OpenRefines == ASSUME IInv, NEW t \in Ticks, OpenEpoch(t) PROVE Rounds!Next
  <1>1. PICK e : e = job[t].epoch
    OBVIOUS
  <1>2. /\ t \in Workers /\ job[t].pc = "open" /\ status[e] = "NONE" /\ OpenEpochs = {}
        /\ status' = [status EXCEPT ![e] = "OPEN"]
        /\ UNCHANGED <<claim, finalized, published, announced>>
    BY <1>1 DEF OpenEpoch, Duplicate, At, stateVars, Workers
  <1>3. e \in Epochs /\ (e > 1 => finalized[e - 1] # {})
    BY <1>1, <1>2 DEF IInv, JobsBacked, Backed, OfEpoch
  <1>4. \A f \in Epochs : status[f] # "OPEN"
    BY <1>2 DEF OpenEpochs
  <1>5. [f \in Epochs |-> Counted(f)]' = [f \in Epochs |-> Counted(f)]
    BY <1>2, NothingCounted
  <1>6. Rounds!Open(e)
    BY <1>2, <1>3, <1>4, <1>5 DEF Rounds!Open, Rounds!Rounds, Epochs
  <1> QED
    BY <1>3, <1>6 DEF Rounds!Next, Rounds!Rounds, Epochs

LEMMA CountRefines ==
    ASSUME IInv, NEW c \in Claims, CountClaim(c)
    PROVE  Rounds!Next \/ UNCHANGED Rounds!roundVars
  <1>1. PICK e : e = claim[c].epoch
    OBVIOUS
  <1>2. /\ claim[c].pc = "filed" /\ e \in Epochs
        /\ UNCHANGED <<status, finalized, published, announced>>
    BY <1>1 DEF CountClaim, stateVars, IInv, RowsInv, RowsInPlace
  <1>3. CASE claim' = [claim EXCEPT ![c].pc = "missed"]
    <2>1. \A d \in Claims : /\ claim'[d].pc = "counted" <=> claim[d].pc = "counted"
                            /\ claim'[d].epoch = claim[d].epoch
      BY <1>2, <1>3 DEF IInv, TypeOK
    <2> QED
      BY <1>2, <2>1, NothingCounted DEF Rounds!roundVars
  <1>4. CASE status[e] = "OPEN" /\ claim' = [claim EXCEPT ![c].pc = "counted"]
    <2>1. /\ \A d \in Claims : d # c => claim'[d] = claim[d]
          /\ claim'[c].pc = "counted" /\ claim'[c].epoch = e
      BY <1>1, <1>4 DEF IInv, TypeOK
    <2>2. Counted(e)' = Counted(e) \cup {c}
      BY <1>1, <1>2, <2>1 DEF Counted
    <2>3. \A f \in Epochs : c \notin Counted(f) /\ (f # e => Counted(f)' = Counted(f))
      BY <1>1, <1>2, <2>1 DEF Counted
    <2>4. [f \in Epochs |-> Counted(f)]'
            = [[f \in Epochs |-> Counted(f)] EXCEPT ![e] = @ \cup {c}]
      BY <1>2, <2>2, <2>3
    <2>5. Rounds!Count(e)
      BY <1>2, <1>4, <2>3, <2>4 DEF Rounds!Count, Rounds!Rounds, Epochs
    <2> QED
      BY <1>2, <2>5 DEF Rounds!Next, Rounds!Rounds, Epochs
  <1> QED
    BY <1>1, <1>3, <1>4 DEF CountClaim, CountsFor

(* A tick closes on a count that is old, but counts only grow. *)
LEMMA CloseRefines ==
    ASSUME IInv, NEW t \in Ticks, CloseEpoch(t)
    PROVE  Rounds!Next \/ UNCHANGED Rounds!roundVars
  <1>1. PICK e : e = job[t].epoch
    OBVIOUS
  <1>2. /\ t \in Workers /\ job[t].pc = "decide" /\ ~ (job[t].count < MinClaims)
        /\ UNCHANGED <<claim, finalized, published, announced>>
    BY DEF CloseEpoch, TooFew, At, stateVars, Workers
  <1>3. [f \in Epochs |-> Counted(f)]' = [f \in Epochs |-> Counted(f)]
    BY <1>2, NothingCounted
  <1>4. CASE UNCHANGED status
    BY <1>2, <1>3, <1>4 DEF Rounds!roundVars
  <1>5. CASE status[e] = "OPEN" /\ status' = [status EXCEPT ![e] = "CLOSED"]
    <2>1. e \in Epochs /\ job[t].count <= count[e]
      BY <1>1, <1>2 DEF IInv, JobsBacked, Backed, OfEpoch
    <2>2. count[e] = Cardinality(Counted(e))
      BY <2>1 DEF IInv, RowsInv, CountsKept
    <2>3. job[t].count \in Nat /\ Cardinality(Counted(e)) \in Nat /\ MinClaims \in Nat
      BY <1>2, SomeClaims, ClaimsFinite, FS_CardinalityType, LimitAssumption
         DEF IInv, TypeOK, Jobs, Counted
    <2>4. Cardinality(Counted(e)) >= MinClaims
      BY <1>2, <2>1, <2>2, <2>3
    <2>5. Rounds!Cardinality(Counted(e)) = Cardinality(Counted(e))
      BY DEF Rounds!Cardinality, Cardinality
    <2>6. Rounds!Close(e)
      BY <1>2, <1>3, <1>5, <2>1, <2>4, <2>5 DEF Rounds!Close
    <2> QED
      BY <2>1, <2>6 DEF Rounds!Next, Rounds!Rounds, Epochs
  <1> QED
    BY <1>1, <1>4, <1>5 DEF CloseEpoch, Closable

LEMMA PublishRefines == ASSUME IInv, NEW w \in Workers, PublishRoot(w) PROVE Rounds!Next
  <1>1. PICK e, S : e = job[w].epoch /\ S = job[w].claims
    OBVIOUS
  <1>2. /\ job[w].pc = "publish" /\ published' = published \cup {<<e, S>>}
        /\ UNCHANGED <<status, claim, finalized, announced>>
    BY <1>1 DEF PublishRoot, Root, At, epochVars
  <1>3. e \in Epochs /\ S # {} /\ S \subseteq Filed(e)
    BY <1>1, <1>2 DEF IInv, JobsBacked, Backed, OfEpoch, Aggregating
  <1>4. S \subseteq Claims /\ status[e] # "NONE"
    <2>1. PICK c \in S : c \in Claims /\ Stored(c) /\ claim[c].epoch = e
      BY <1>3 DEF Filed
    <2> QED
      BY <1>3, <2>1 DEF Filed, IInv, RowsInv, RowsInPlace, Stored
  <1>5. [f \in Epochs |-> Counted(f)]' = [f \in Epochs |-> Counted(f)]
    BY <1>2, NothingCounted
  <1>6. Rounds!Finalize(e)
    BY <1>2, <1>3, <1>4, <1>5 DEF Rounds!Finalize
  <1> QED
    BY <1>3, <1>6 DEF Rounds!Next, Rounds!Rounds, Epochs

LEMMA UpsertRefines == ASSUME IInv, NEW w \in Workers, UpsertState(w) PROVE Rounds!Next
  <1>1. PICK e, S : e = job[w].epoch /\ S = job[w].claims
    OBVIOUS
  <1>2. /\ job[w].pc = "upsert" /\ finalized' = [finalized EXCEPT ![e] = S]
        /\ UNCHANGED <<status, claim, published, announced>>
    BY <1>1 DEF UpsertState, At, epochVars
  <1>3. e \in Epochs /\ S \in SUBSET Claims /\ <<e, S>> \in published
    BY <1>1, <1>2 DEF IInv, JobsBacked, Backed, OfEpoch, Aggregating, Filed
  <1>4. [f \in Epochs |-> Counted(f)]' = [f \in Epochs |-> Counted(f)]
    BY <1>2, NothingCounted
  <1>5. Rounds!Serve(e)
    BY <1>2, <1>3, <1>4 DEF Rounds!Serve
  <1> QED
    BY <1>3, <1>5 DEF Rounds!Next, Rounds!Rounds, Epochs

LEMMA MarkRefines ==
    ASSUME IInv, NEW t \in Ticks, MarkAggregated(t)
    PROVE  Rounds!Next \/ UNCHANGED Rounds!roundVars
  <1>1. PICK e : e = job[t].epoch
    OBVIOUS
  <1>2. /\ t \in Workers /\ job[t].pc = "mark"
        /\ UNCHANGED <<claim, finalized, published, announced>>
    BY DEF MarkAggregated, At, stateVars, Workers
  <1>3. e \in Epochs /\ finalized[e] # {}
    BY <1>1, <1>2 DEF IInv, JobsBacked, Backed, OfEpoch
  <1>4. [f \in Epochs |-> Counted(f)]' = [f \in Epochs |-> Counted(f)]
    BY <1>2, NothingCounted
  <1>5. CASE UNCHANGED status
    BY <1>2, <1>4, <1>5 DEF Rounds!roundVars
  <1>6. CASE status[e] = "CLOSED" /\ status' = [status EXCEPT ![e] = "AGGREGATED"]
    <2>1. Rounds!Mark(e)
      BY <1>2, <1>3, <1>4, <1>6 DEF Rounds!Mark
    <2> QED
      BY <1>3, <2>1 DEF Rounds!Next, Rounds!Rounds, Epochs
  <1> QED
    BY <1>1, <1>5, <1>6 DEF MarkAggregated

LEMMA AnnounceRefines == ASSUME IInv, NEW t \in Ticks, Announce(t) PROVE Rounds!Next
  <1>1. PICK e : e = job[t].epoch
    OBVIOUS
  <1>2. /\ t \in Workers /\ job[t].pc = "announce"
        /\ announced' = [announced EXCEPT ![e] = @ + 1]
        /\ UNCHANGED <<status, claim, finalized, published>>
    BY <1>1 DEF Announce, At, epochVars, stateVars, Workers
  <1>3. e \in Epochs /\ status[e] = "AGGREGATED" /\ announced[e] = 0
    BY <1>1, <1>2 DEF IInv, JobsBacked, Backed, OfEpoch
  <1>4. announced' = [announced EXCEPT ![e] = 1]
    BY <1>2, <1>3
  <1>5. [f \in Epochs |-> Counted(f)]' = [f \in Epochs |-> Counted(f)]
    BY <1>2, NothingCounted
  <1>6. Rounds!Tell(e)
    BY <1>2, <1>3, <1>4, <1>5 DEF Rounds!Tell
  <1> QED
    BY <1>3, <1>6 DEF Rounds!Next, Rounds!Rounds, Epochs

(* What the other steps of a request write, the rounds do not see. *)
LEMMA HiddenStep ==
    ASSUME UNCHANGED <<status, claim, finalized, published, announced>>
    PROVE  UNCHANGED Rounds!roundVars
  BY NothingCounted DEF Rounds!roundVars

LEMMA ClaimHidden ==
    ASSUME IInv, NEW c \in Claims, ReceiveClaim(c) \/ InsertClaim(c)
    PROVE  UNCHANGED Rounds!roundVars
  <1>1. UNCHANGED <<status, finalized, published, announced>>
    BY DEF ReceiveClaim, InsertClaim, epochVars, stateVars
  <1>2. claim[c].pc # "counted" /\ claim'[c].pc # "counted"
    BY DEF ReceiveClaim, InsertClaim, IInv, TypeOK
  <1>3. \A d \in Claims : d # c => claim'[d] = claim[d]
    BY DEF ReceiveClaim, InsertClaim, IInv, TypeOK
  <1> QED
    BY <1>1, <1>2, <1>3, NothingCounted DEF Rounds!roundVars

LEMMA AggregateRefines ==
    ASSUME IInv, NEW w \in Workers, Aggregate(w)
    PROVE  Rounds!Next \/ UNCHANGED Rounds!roundVars
  <1>1. ListClaims(w) \/ CheckPublished(w) => UNCHANGED Rounds!roundVars
    BY HiddenStep DEF ListClaims, CheckPublished, epochVars, stateVars
  <1> QED
    BY <1>1, PublishRefines, UpsertRefines DEF Aggregate

LEMMA TickRefines ==
    ASSUME IInv, NEW t \in Ticks, Tick(t)
    PROVE  Rounds!Next \/ UNCHANGED Rounds!roundVars
  <1>1. ReadActive(t) \/ ReadLatest(t) \/ SkipEpoch(t) \/ Noop(t) \/ ExtendEpoch(t)
          => UNCHANGED Rounds!roundVars
    BY HiddenStep DEF ReadActive, ReadLatest, SkipEpoch, Noop, ExtendEpoch, epochVars, stateVars
  <1>2. t \in Workers
    BY DEF Workers
  <1> QED
    BY <1>1, <1>2, OpenRefines, CloseRefines, AggregateRefines, MarkRefines, AnnounceRefines DEF Tick

LEMMA StepRefines == IInv /\ [Next]_vars => [Rounds!Next]_(Rounds!roundVars)
  <1> SUFFICES ASSUME IInv, [Next]_vars PROVE Rounds!Next \/ UNCHANGED Rounds!roundVars
    OBVIOUS
  <1>1. ASSUME NEW t \in Ticks, Tick(t) PROVE Rounds!Next \/ UNCHANGED Rounds!roundVars
    BY <1>1, TickRefines
  <1>2. ASSUME NEW b \in Bots, Bot(b) PROVE Rounds!Next \/ UNCHANGED Rounds!roundVars
    <2>1. ASSUME NEW e \in Epochs, RequestAggregate(b, e) PROVE UNCHANGED Rounds!roundVars
      BY <2>1, HiddenStep DEF RequestAggregate, epochVars, stateVars
    <2> QED
      BY <1>2, <2>1, AggregateRefines DEF Bot, Workers
  <1>3. ASSUME NEW c \in Claims, Submit(c) PROVE Rounds!Next \/ UNCHANGED Rounds!roundVars
    BY <1>3, ClaimHidden, CountRefines DEF Submit
  <1>4. ASSUME NEW e \in Epochs, ComesDue(e) PROVE UNCHANGED Rounds!roundVars
    BY <1>4, HiddenStep DEF ComesDue, stateVars
  <1>5. ASSUME NEW w \in Workers, Fail(w) PROVE UNCHANGED Rounds!roundVars
    BY <1>5, HiddenStep DEF Fail, epochVars, stateVars
  <1>6. CASE UNCHANGED vars
    BY <1>6, HiddenStep DEF vars, epochVars, stateVars
  <1> QED
    BY <1>1, <1>2, <1>3, <1>4, <1>5, <1>6 DEF Next

(* The relayer's epochs go through the rounds of EpochRounds, for any number *)
(* of ticks, bots and claims that overlap, and wherever a request dies.      *)
THEOREM EpochsAreRounds == Spec => ImplementsRounds
  BY InitRounds, StepRefines, Inductive, PTL DEF Spec, ImplementsRounds, Rounds!Spec
=============================================================================
