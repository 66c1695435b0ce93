----------------------------- MODULE EventStream -----------------------------
(*******************************************************************************)
(* What bots learn from the relayer as it happens: the emitter with its short  *)
(* history (event-emitter.ts), the feed of attested intents that a client      *)
(* resumes by the id it saw last (events/intents/route.ts), and the daemon     *)
(* that subscribes to the event stream and reconnects (daemon.ts).             *)
(*                                                                             *)
(* The client of the feed is the EventSource of relayer-client.ts: it connects *)
(* again by itself and sends the last id it received.  The daemon closes its   *)
(* EventSource at the first error and opens a new one, without any id.         *)
(*******************************************************************************)
EXTENDS Integers, Sequences, Functions

CONSTANTS
    MaxHistory,   \* MAX_HISTORY of the emitter
    MaxBackoff,   \* MAX_BACKOFF_MS in units of INITIAL_BACKOFF_MS
    MaxEvents     \* bound on emitted events

ASSUME EventAssumption == {MaxHistory, MaxBackoff, MaxEvents} \subseteq Nat \ {0}

VARIABLES
    attested,  \* ids of the intent:attested events among all that were emitted
    emitted,   \* number of events emitted; the n-th has id n
    history,   \* ids the emitter remembers, oldest first
    feed,      \* the feed's connection: events on their way while it is open
    seen,      \* ids of the events the feed's client received
    gone,      \* history: ids forgotten by the emitter
    sub,       \* the daemon's subscription
    timer,     \* time until its reconnect timer fires, 0 if none is set
    backoff,   \* reconnectDelayMs
    stopped    \* stop was called

feedVars == <<attested, emitted, history, feed, seen, gone>>
daemonVars == <<sub, timer, backoff, stopped>>
streamVars == <<feedVars, daemonVars>>

Ids == 1..MaxEvents
Down == [open |-> FALSE, queue |-> <<>>]
LastSeen == IF seen = <<>> THEN 0 ELSE seen[Len(seen)]

InitStream ==
    /\ attested = {} /\ emitted = 0 /\ history = <<>> /\ gone = {}
    /\ feed = Down /\ seen = <<>>
    /\ sub = "connecting" /\ timer = 0 /\ backoff = 1 /\ stopped = FALSE

-----------------------------------------------------------------------------
(* The emitter and the feed. *)

(* An event is remembered for all funds and types alike, and written to every *)
(* connection that listens for it.                                            *)
EmitEvent ==
    LET id == emitted + 1
        kept == Append(history, id)
    IN  /\ emitted < MaxEvents
        /\ emitted' = id
        /\ history' = IF Len(kept) > MaxHistory THEN Tail(kept) ELSE kept
        /\ gone' = gone \cup (Range(kept) \ Range(history'))
        /\ \/ /\ attested' = attested \cup {id}
              /\ feed' = IF feed.open THEN [feed EXCEPT !.queue = Append(@, id)] ELSE feed
           \/ UNCHANGED <<attested, feed>>
        /\ UNCHANGED <<seen, daemonVars>>

Position(id) == CHOOSE i \in DOMAIN history : history[i] = id

FromLastSeen(last) ==                                                   \* mutant
    IF last = 0 THEN <<>>
    ELSE IF last \notin Range(history) THEN history
    ELSE SubSeq(history, Position(last), Len(history))

(* All of the history when the id is not in it, nothing without an id. *)
GetHistory(last) ==
    IF last = 0 THEN <<>>
    ELSE IF last \notin Range(history) THEN history
    ELSE SubSeq(history, Position(last) + 1, Len(history))

(* The feed carries one type of event. *)
Send(queue, id) == IF id \in attested THEN Append(queue, id) ELSE queue

(* What is queued after the loop over events. *)
Replay(events) ==
    LET sent[n \in 0..Len(events)] ==
            IF n = 0 THEN <<>> ELSE Send(sent[n - 1], events[n])
    IN  sent[Len(events)]

(* The history is sent and the listener added without giving way to another *)
(* event.                                                                   *)
OpenFeed ==
    /\ ~feed.open
    /\ feed' = [open |-> TRUE, queue |-> Replay(GetHistory(LastSeen))]
    /\ UNCHANGED <<attested, emitted, history, seen, gone, daemonVars>>

Receive ==
    /\ feed.queue # <<>>
    /\ seen' = Append(seen, Head(feed.queue))
    /\ feed' = [feed EXCEPT !.queue = Tail(@)]
    /\ UNCHANGED <<attested, emitted, history, gone, daemonVars>>

(* The connection breaks and loses what was on its way. *)
BreakFeed ==
    /\ feed.open
    /\ feed' = Down
    /\ UNCHANGED <<attested, emitted, history, seen, gone, daemonVars>>

(* The relayer's process restarts: its history was in memory. *)
Restart ==
    /\ history # <<>>
    /\ history' = <<>> /\ gone' = gone \cup Range(history)
    /\ feed' = Down
    /\ UNCHANGED <<attested, emitted, seen, daemonVars>>

-----------------------------------------------------------------------------
(* The daemon. *)

OnOpen ==
    /\ sub = "connecting"
    /\ sub' = "open" /\ backoff' = 1
    /\ UNCHANGED <<timer, stopped, feedVars>>

NoReconnect == UNCHANGED <<timer, backoff>>                             \* mutant
ScheduleReconnect ==
    /\ timer' = backoff
    /\ backoff' = IF 2 * backoff > MaxBackoff THEN MaxBackoff ELSE 2 * backoff

(* Any error of the stream, or of the attempt to open it. *)
OnError ==
    /\ sub # "none"
    /\ sub' = "none"
    /\ ScheduleReconnect
    /\ UNCHANGED <<stopped, feedVars>>

(* Time passes; when the timer fires the daemon subscribes again. *)
Tick ==
    /\ timer # 0
    /\ timer' = timer - 1
    /\ sub' = IF timer = 1 THEN "connecting" ELSE sub
    /\ UNCHANGED <<backoff, stopped, feedVars>>

Stop ==
    /\ ~stopped
    /\ stopped' = TRUE /\ timer' = 0 /\ sub' = "none"
    /\ UNCHANGED <<backoff, feedVars>>

FeedStep == EmitEvent \/ OpenFeed \/ Receive \/ BreakFeed \/ Restart
DaemonStep == OnOpen \/ OnError \/ Tick \/ Stop
StreamStep == FeedStep \/ DaemonStep

(* Timers fire; nothing is assumed of the network. *)
StreamSpec == InitStream /\ [][StreamStep]_streamVars /\ WF_streamVars(Tick)

-----------------------------------------------------------------------------
(* Properties. *)

(* Broken connections and restarts make the feed of a client repeat or      *)
(* reorder nothing, and from the first event on it misses only what the     *)
(* emitter had forgotten (event-emitter.ts:36-46, events/intents/route.ts). *)
FeedExact ==
    /\ \A i, j \in DOMAIN seen : i < j => seen[i] < seen[j]
    /\ seen # <<>> =>
         \A id \in attested :
           seen[1] < id /\ id < LastSeen /\ id \notin Range(seen) => id \in gone

(* The daemon never has a second subscription or timer, waits no longer than *)
(* its limit, and has neither once it is stopped.                            *)
OneLine ==
    /\ timer # 0 => sub = "none" /\ timer <= MaxBackoff
    /\ stopped => timer = 0 /\ sub = "none"

(* The daemon has one line at a time, and as long as it is not stopped it       *)
(* always subscribes again, however often the stream breaks (daemon.ts:60-118). *)
DaemonStaysOnDuty == []OneLine /\ (sub = "none" ~> sub # "none" \/ stopped)
=============================================================================
