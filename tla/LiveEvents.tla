------------------------------ MODULE LiveEvents ------------------------------
(***************************************************************************)
(* The live channel: the ring and the bus of a gateway (live-ring.ts,      *)
(* live-bus.service.ts), the EventSource of a browser and the hook of a    *)
(* tab over it (useEventStream.ts).  An id is a pair of the epoch of the   *)
(* gateway and the number of the event in it, as in the code; the data of  *)
(* an event is whether the tab is subscribed to it.                        *)
(***************************************************************************)
EXTENDS Naturals, Sequences, FiniteSets

CONSTANTS
  Capacity,    \* SSE_RING_SIZE
  MaxEvents,   \* events of an epoch
  MaxEpochs,   \* starts of the gateway
  MaxRenewals, \* new access tokens: the effect of the hook runs again
  MaxFaults,
  NoId         \* no Last-Event-ID

Epochs == 1..MaxEpochs
Ids == Epochs \X (0..MaxEvents)

ASSUME LiveAssumption ==
  /\ Capacity \in Nat \ {0} /\ MaxEpochs \in Nat \ {0} /\ MaxEvents \in Nat
  /\ NoId \notin Ids

VARIABLES
  log,      \* per epoch, whether the tab may see each of its events
  epoch,
  ring,     \* LiveRing.buffer: the numbers of the events it holds
  source,   \* the EventSource: connecting, open, hung (a dead socket it takes for alive), dead
  pipe,     \* frames on their way
  lastId,   \* the last event id of the EventSource, and the last_event_id of its address
  store,    \* lastEventId of useLiveStore
  seen,     \* runtime.seen
  armed,    \* whether the silence timer runs
  applied,  \* history: events given to onFrame
  reread,   \* history: events covered by a full re-read, or before the first greeting
  asked,    \* history: what the current connection was asked for and was sent
  renewals, faults

server == <<log, epoch, ring>>
bounds == <<renewals, faults>>
vars == <<log, epoch, ring, source, pipe, lastId, store, seen, armed, applied, reread, asked,
          renewals, faults>>

Seq0 == Len(log[epoch])
CurrentId == <<epoch, Seq0>>
Published == UNION {{<<e, n>> : n \in 1..Len(log[e])} : e \in Epochs}
Allowed(id) == log[id[1]][id[2]]
After(a, b) == a[1] > b[1] \/ (a[1] = b[1] /\ a[2] > b[2])

Frame(type, id) == [type |-> type, id |-> id]
NotAsked == [from |-> NoId, at |-> 0, sent |-> {}, resync |-> FALSE]

Init ==
  /\ log = [e \in Epochs |-> <<>>] /\ epoch = 1 /\ ring = <<>>
  /\ source = "connecting" /\ pipe = <<>>
  /\ lastId = [own |-> NoId, query |-> NoId] /\ store = NoId
  /\ seen = {} /\ armed = TRUE
  /\ applied = <<>> /\ reread = {} /\ asked = NotAsked
  /\ renewals = 0 /\ faults = 0

Fault == faults < MaxFaults /\ faults' = faults + 1

-----------------------------------------------------------------------------
(* The gateway.                                                            *)

(* LiveRing.append: the oldest event makes room.                           *)
Appended(n) == LET all == Append(ring, n) IN IF Len(all) > Capacity THEN Tail(all) ELSE all

(* LiveBusService.publish: into the ring, and to whoever is subscribed.    *)
Publish(mine) ==
  /\ Seq0 < MaxEvents
  /\ log' = [log EXCEPT ![epoch] = Append(log[epoch], mine)]
  /\ ring' = Appended(Seq0 + 1)
  /\ IF mine /\ source = "open"
     THEN /\ pipe' = Append(pipe, Frame("event", <<epoch, Seq0 + 1>>))
          /\ asked' = [asked EXCEPT !.sent = asked.sent \cup {Seq0 + 1}]
     ELSE UNCHANGED <<pipe, asked>>
  /\ UNCHANGED <<epoch, source, lastId, store, seen, armed, applied, reread, bounds>>

(* Mutant: one event too few is asked of the ring. *)
OutOfReachLate(n) == n + 2 < IF ring = <<>> THEN Seq0 ELSE Head(ring)

(* The event after number n has been pushed out of the ring.               *)
OutOfReach(n) == n + 1 < IF ring = <<>> THEN Seq0 ELSE Head(ring)

(* LiveRing.since: what was missed, or the demand to read everything.      *)
NeedsResync(from) ==
  from # NoId /\ (from[1] # epoch \/ from[2] > Seq0 \/ OutOfReach(from[2]))

(* The places in the ring of the events that were missed.                  *)
MissedSince(from) ==
  IF from = NoId THEN {}
  ELSE {k \in DOMAIN ring : ring[k] > from[2] /\ Allowed(<<epoch, ring[k]>>)}

InOrder(places) ==
  {order \in [1..Cardinality(places) -> places] : \A j, k \in DOMAIN order : j < k => order[j] < order[k]}

(* LiveBusService.stream: the greeting, the backfill or the resync, both   *)
(* greeting and resync under the current id; then the subscription.        *)
Greeting(from, order) ==
  <<Frame("hello", CurrentId)>> \o
    IF NeedsResync(from) THEN <<Frame("resync", CurrentId)>>
    ELSE [j \in DOMAIN order |-> Frame("event", <<epoch, ring[order[j]]>>)]

(* A restart: a new epoch, an empty ring, and no connection left.          *)
Restart ==
  /\ Fault
  /\ epoch < MaxEpochs
  /\ epoch' = epoch + 1 /\ ring' = <<>>
  /\ source' = IF source = "open" THEN "connecting" ELSE source
  /\ pipe' = <<>>
  /\ asked' = NotAsked
  /\ UNCHANGED <<log, lastId, store, seen, armed, applied, reread, renewals>>

-----------------------------------------------------------------------------
(* The browser.                                                            *)

(* The header of an automatic reconnect goes before the query of the       *)
(* address (EventsController.stream).                                      *)
Presented == IF lastId.own # NoId THEN lastId.own ELSE lastId.query

Connect ==
  /\ source = "connecting"
  /\ source' = "open" /\ armed' = TRUE
  /\ \E order \in InOrder(MissedSince(Presented)) : pipe' = Greeting(Presented, order)
  /\ asked' = [from |-> Presented, at |-> Seq0, resync |-> NeedsResync(Presented),
               sent |-> IF NeedsResync(Presented) THEN {}
                        ELSE {ring[k] : k \in MissedSince(Presented)}]
  /\ reread' = IF Presented = NoId THEN reread \cup Published ELSE reread
  /\ UNCHANGED <<server, lastId, store, seen, applied, bounds>>

(* An answer that is not 200: the EventSource gives up for good.           *)
Refuse ==
  /\ source = "connecting"
  /\ Fault
  /\ source' = "dead"
  /\ UNCHANGED <<server, pipe, lastId, store, seen, armed, applied, reread, asked, renewals>>

(* A broken connection is made again with the last id the browser has seen.*)
Break ==
  /\ source = "open"
  /\ Fault
  /\ source' = "connecting" /\ pipe' = <<>>
  /\ asked' = NotAsked
  /\ UNCHANGED <<server, lastId, store, seen, armed, applied, reread, renewals>>

(* The network swallows what is sent: nobody notices.                      *)
Hang ==
  /\ source = "open"
  /\ Fault
  /\ source' = "hung" /\ pipe' = <<>>
  /\ asked' = NotAsked
  /\ UNCHANGED <<server, lastId, store, seen, armed, applied, reread, renewals>>

-----------------------------------------------------------------------------
(* The hook.                                                               *)

(* handle: a frame whose id was seen is dropped; any other is noted, keeps *)
(* the watchdog waiting, and is acted on by its kind.                      *)
Handle ==
  /\ source = "open" /\ pipe # <<>>
  /\ LET frame == Head(pipe) IN
       /\ pipe' = Tail(pipe)
       /\ lastId' = [lastId EXCEPT !.own = frame.id]
       /\ IF frame.id \in seen THEN UNCHANGED <<seen, store, armed, applied, reread>>
          ELSE /\ seen' = seen \cup {frame.id}
               /\ store' = frame.id
               /\ armed' = TRUE
               /\ applied' = IF frame.type = "event" THEN Append(applied, frame.id) ELSE applied
               /\ reread' = IF frame.type = "resync" THEN reread \cup Published ELSE reread
  /\ UNCHANGED <<server, source, asked, bounds>>

(* reopen: the address carries the last id of the store.                   *)
Open == source' = "connecting" /\ pipe' = <<>> /\ lastId' = [own |-> NoId, query |-> store]

(* Mutant: a stream that takes itself for alive is left alone. *)
SilenceTrusting ==
  /\ armed /\ source = "dead"
  /\ Open
  /\ armed' = FALSE
  /\ asked' = NotAsked
  /\ UNCHANGED <<server, store, seen, applied, reread, bounds>>

(* Three pings are missed: the timer fires once and opens the stream anew. *)
Silence ==
  /\ armed /\ source # "open"
  /\ Open
  /\ armed' = FALSE
  /\ asked' = NotAsked
  /\ UNCHANGED <<server, store, seen, applied, reread, bounds>>

(* A new access token: the effect is cleaned up and runs again.            *)
Renew ==
  /\ renewals < MaxRenewals /\ renewals' = renewals + 1
  /\ Open
  /\ seen' = {} /\ armed' = TRUE
  /\ asked' = NotAsked
  /\ UNCHANGED <<server, store, applied, reread, faults>>

Next ==
  \/ \E mine \in BOOLEAN : Publish(mine)
  \/ Restart \/ Connect \/ Refuse \/ Break \/ Hang \/ Handle \/ Silence \/ Renew

Spec == Init /\ [][Next]_vars

(* A browser reconnects and hands frames over, a timer fires.              *)
Fairness == WF_vars(Connect) /\ WF_vars(Handle) /\ WF_vars(Silence)
FairSpec == Spec /\ Fairness

-----------------------------------------------------------------------------
TypeOK ==
  /\ \A e \in Epochs : log[e] \in Seq(BOOLEAN) /\ Len(log[e]) <= MaxEvents
  /\ epoch \in Epochs /\ Len(ring) <= Capacity
  /\ source \in {"connecting", "open", "hung", "dead"}
  /\ \A k \in DOMAIN pipe : pipe[k].type \in {"hello", "resync", "event"} /\ pipe[k].id \in Ids
  /\ store \in Ids \cup {NoId} /\ seen \subseteq Ids /\ armed \in BOOLEAN

(* The gateway keeps "no third outcome" (live-ring.ts): on a connection    *)
(* that is open everything the tab may see since the id it came with is    *)
(* sent, or the demand to read everything is.                              *)
ServerOmitsNothing ==
  source = "open" /\ ~asked.resync =>
    \A n \in 1..Seq0 :
      /\ Allowed(<<epoch, n>>)
      /\ IF asked.from = NoId THEN n > asked.at ELSE n > asked.from[2]
      => n \in asked.sent

(* Over breaks, reopenings and renewals a tab applies events in the order  *)
(* they were published and none of them twice: the counters of alarms on   *)
(* the screens are moved by one for each.                                  *)
AppliedInOrderOnce == \A j, k \in DOMAIN applied : j < k => After(applied[k], applied[j])

StreamIsFaithful == TypeOK /\ ServerOmitsNothing /\ AppliedInOrderOnce

(* Nothing the tab may see is passed over in silence: it was applied, or   *)
(* is on its way, or will be asked for, or a full re-read covers it        *)
(* (docs/adr/0007-sse-ring-buffer.md: no loss within the ring, and what is *)
(* beyond it shows as an explicit demand).                                 *)
Covered(id) ==
  \/ id \in reread
  \/ \E k \in DOMAIN applied : applied[k] = id
  \/ \E k \in DOMAIN pipe : pipe[k] = Frame("event", id) \/ pipe[k].type = "resync"
  \/ source # "open" /\ (LET p == IF source = "connecting" THEN Presented ELSE store IN
                           p = NoId \/ After(id, p) \/ p[1] # epoch)
NoSilentGap == \A id \in Published : Allowed(id) => Covered(id)
===============================================================================
