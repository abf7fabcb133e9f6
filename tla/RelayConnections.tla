--------------------------- MODULE RelayConnections ---------------------------
(***************************************************************************)
(* How a document finds relays, keeps connected to them and has a          *)
(* signaling room on them: core/src/peer-discovery.ts, relay-cache.ts, the *)
(* relay wiring of p2p-layer.ts, sync/src/webrtc/multi-relay-room.ts and   *)
(* the reconnection create-doc.ts asks for when no room is left.           *)
(*                                                                         *)
(*   Dialled, Found    a relay from the cache, the DHT, the configuration  *)
(*                     or another peer                                     *)
(*   Disconnected, TimerFires, RedialOk, RedialFails, Resume   redialling  *)
(*   WaitTimeout       no relay in time                                    *)
(*   SignalOk, SignalFails   an attempt at a signaling stream ends         *)
(*   StreamEnds, PeerUp, PeerDown      the room of a relay                 *)
(*   Autodial, Drop, Break, Expire     libp2p, the network and the storage *)
(*                                                                         *)
(* Delays (the backoff, its stability window) are left out: a timer is     *)
(* armed or not.  A room is known by the state PeerManager describes.      *)
(***************************************************************************)
EXTENDS Integers, FiniteSets

CONSTANTS
  Relays,     \* relays of the network
  NoRelay,    \* no relay
  MaxDrops,   \* bound on connections lost
  MaxMisses,  \* bound on redials and signaling attempts that fail
  MaxBreaks   \* bound on streams that end alone and cache entries that expire

ASSUME RelayAssumption ==
  /\ NoRelay \notin Relays
  /\ MaxDrops \in Nat /\ MaxMisses \in Nat /\ MaxBreaks \in Nat

VARIABLES
  conn,       \* relays libp2p has a connection to
  lost,       \* relays whose peer:disconnect is still to be handled
  tracked,    \* relayPeerIds
  cached,     \* relays in localStorage, young enough, with an address to dial
  timer,      \* reconnectTimers: "none", "armed", or "stale", cleared but listed
  redialing,  \* relays being dialled by their timer
  layer,      \* setupP2PLayer(): "waiting", "first" (attempt) or "ready"
  flight,     \* the relay of the signaling attempt under way
  pend,       \* pendingRelay
  room,       \* the multi-relay room: each relay's room, by signaling and peers
  broken,     \* rooms whose stream has ended, to be handled
  drops, misses, breaks,  \* counters of the bounds
  stranded    \* the code gave up on a relay it could use (history)

discoveryVars == <<tracked, cached, timer, redialing>>
layerVars     == <<layer, flight, pend>>
bounds        == <<drops, misses, breaks>>
relayVars == <<conn, lost, discoveryVars, layerVars, room, broken, bounds, stranded>>

RelayTypeOK ==
  /\ conn \subseteq Relays /\ lost \subseteq Relays /\ tracked \subseteq Relays
  /\ cached \subseteq Relays /\ redialing \subseteq Relays /\ broken \subseteq Relays
  /\ timer \in [Relays -> {"none", "armed", "stale"}]
  /\ layer \in {"waiting", "first", "ready"}
  /\ flight \in Relays \cup {NoRelay} /\ pend \in Relays \cup {NoRelay}
  /\ room \in [Relays -> {"none", "alone", "joined", "orphan"}]
  /\ drops \in 0..MaxDrops /\ misses \in 0..MaxMisses /\ breaks \in 0..MaxBreaks
  /\ stranded \in BOOLEAN

Rooms(table) == {r \in Relays : table[r] # "none"}

RelayInit ==
  /\ conn = {} /\ lost = {} /\ tracked = {} /\ cached \in SUBSET Relays
  /\ timer = [r \in Relays |-> "none"]
  /\ redialing = {}
  /\ layer = "waiting" /\ flight = NoRelay /\ pend = NoRelay
  /\ room = [r \in Relays |-> "none"] /\ broken = {}
  /\ drops = 0 /\ misses = 0 /\ breaks = 0 /\ stranded = FALSE

Miss == misses < MaxMisses /\ misses' = misses + 1

-----------------------------------------------------------------------------
(* connectRelay(r): one attempt at a time, and one place to wait.  An       *)
(* attempt at a relay without a connection, of those that are up, ends at   *)
(* once.                                                                    *)
ConnectRelay(r, up) ==
  \/ /\ flight # NoRelay
     /\ pend' = r /\ UNCHANGED flight
  \/ /\ flight = NoRelay
     /\ pend' = NoRelay /\ flight' = IF r \in up THEN r ELSE NoRelay

(* The attempt is over: the relay that waited is next. *)
Finished ==
  /\ pend' = NoRelay
  /\ flight' = IF pend # NoRelay /\ pend \in conn THEN pend ELSE NoRelay

(* requestReconnect(): some connected relay, if there is one. *)
RequestReconnect_Never == UNCHANGED <<flight, pend>>
RequestReconnect ==
  \/ \E r \in tracked \cap conn : ConnectRelay(r, conn)
  \/ tracked \cap conn = {} /\ UNCHANGED <<flight, pend>>

(* removeRelay(r), and checkNeedsSwap() *)
Remove(r) ==
  /\ room' = [room EXCEPT ![r] = "none"]
  /\ IF Rooms(room) = {r} THEN RequestReconnect ELSE UNCHANGED <<flight, pend>>

(* trackRelay(r) and upsertCachedRelay(): whoever waits for a first relay    *)
(* has it.                                                                  *)
Track(r) ==
  /\ tracked' = tracked \cup {r} /\ cached' = cached \cup {r}
  /\ IF layer = "waiting"
       THEN layer' = "first" /\ flight' = r /\ UNCHANGED pend
       ELSE UNCHANGED layerVars

-----------------------------------------------------------------------------
(* dialCachedRelays(), discoverRelays() or addExternalRelays() meets a relay:*)
(* a dial of one without a connection has succeeded (one that fails changes *)
(* nothing), or it has a connection already.                                *)
Dialled(r) ==
  /\ r \notin conn
  /\ conn' = conn \cup {r}
  /\ Track(r)
  /\ UNCHANGED <<lost, timer, redialing, room, broken, bounds, stranded>>

Found(r) ==
  /\ r \in conn
  /\ Track(r)
  /\ UNCHANGED <<conn, lost, timer, redialing, room, broken, bounds, stranded>>

(* Nothing is scheduled when a redial is listed already, be it cleared. *)
Disconnected_Once(r) ==
  /\ r \in lost
  /\ lost' = lost \ {r}
  /\ \/ r \notin tracked /\ UNCHANGED <<timer, stranded>>
     \/ /\ r \in tracked /\ r \notin conn
        /\ timer' = [timer EXCEPT ![r] = IF @ = "none" THEN "armed" ELSE @]
        /\ UNCHANGED stranded
     \/ /\ r \in tracked /\ r \in conn
        /\ timer' = [timer EXCEPT ![r] = IF @ = "armed" THEN "stale" ELSE @]
        /\ stranded' = (stranded \/ timer[r] = "armed" \/ Rooms(room) = {})
  /\ UNCHANGED <<conn, tracked, cached, redialing, layerVars, room, broken,
                 bounds>>

(* disconnectHandler: the timer is cleared, and set again only when no      *)
(* connection is left.                                                      *)
Disconnected(r) ==
  /\ r \in lost
  /\ lost' = lost \ {r}
  /\ \/ r \notin tracked /\ UNCHANGED <<timer, stranded>>
     \/ /\ r \in tracked /\ r \notin conn
        /\ timer' = [timer EXCEPT ![r] = "armed"]
        /\ UNCHANGED stranded
     \/ /\ r \in tracked /\ r \in conn
        /\ timer' = [timer EXCEPT ![r] = IF @ = "armed" THEN "stale" ELSE @]
        /\ stranded' = (stranded \/ timer[r] = "armed" \/ Rooms(room) = {})
  /\ UNCHANGED <<conn, tracked, cached, redialing, layerVars, room, broken,
                 bounds>>

(* The callback of scheduleReconnect(): without a cache entry the relay is  *)
(* given up.                                                                *)
TimerFires(r) ==
  /\ timer[r] = "armed"
  /\ timer' = [timer EXCEPT ![r] = "none"]
  /\ \/ /\ r \in cached
        /\ redialing' = redialing \cup {r}
        /\ UNCHANGED <<tracked, stranded>>
     \/ /\ r \notin cached
        /\ tracked' = tracked \ {r} /\ stranded' = TRUE
        /\ UNCHANGED redialing
  /\ UNCHANGED <<conn, lost, cached, layerVars, room, broken, bounds>>

(* The relay is tracked, and connectRelay() told once it is registered. *)
RedialOk(r) ==
  /\ r \in redialing
  /\ redialing' = redialing \ {r} /\ conn' = conn \cup {r}
  /\ \/ layer # "ready" /\ Track(r)
     \/ /\ layer = "ready"
        /\ tracked' = tracked \cup {r} /\ cached' = cached \cup {r}
        /\ ConnectRelay(r, conn \cup {r}) /\ UNCHANGED layer
  /\ UNCHANGED <<lost, timer, room, broken, bounds, stranded>>

(* It is not scheduled again. *)
RedialFails_Last(r) ==
  /\ r \in redialing /\ Miss
  /\ redialing' = redialing \ {r}
  /\ UNCHANGED <<conn, lost, tracked, cached, timer, layerVars, room, broken,
                 drops, breaks, stranded>>

RedialFails(r) ==
  /\ r \in redialing /\ Miss
  /\ redialing' = redialing \ {r}
  /\ timer' = [timer EXCEPT ![r] = "armed"]
  /\ UNCHANGED <<conn, lost, tracked, cached, layerVars, room, broken, drops,
                 breaks, stranded>>

(* onVisibilityResume() *)
Resume ==
  /\ tracked \ conn # {}
  /\ timer' = [r \in Relays |-> IF r \in tracked \ conn THEN "armed" ELSE timer[r]]
  /\ UNCHANGED <<conn, lost, tracked, cached, redialing, layerVars, room,
                 broken, bounds, stranded>>

-----------------------------------------------------------------------------
(* waitForRelay() gives up; from now on reconnected relays are listened to. *)
WaitTimeout ==
  /\ layer = "waiting"
  /\ layer' = "ready" /\ stranded' = TRUE
  /\ UNCHANGED <<conn, lost, discoveryVars, flight, pend, room, broken, bounds>>

(* The attempt under way ends: the first one is outside the gate.           *)
Over == layer' = "ready" /\ Finished

(* trySignaling() has a stream and a room, for addRelay(), which destroys   *)
(* the room of a relay that has one.                                        *)
SignalOk ==
  /\ flight \in conn
  /\ room' = [room EXCEPT ![flight] = IF @ = "none" THEN "alone" ELSE @]
  /\ Over
  /\ UNCHANGED <<conn, lost, discoveryVars, broken, bounds, stranded>>

SignalFails ==
  /\ flight # NoRelay
  /\ \/ flight \notin conn /\ UNCHANGED <<misses, stranded>>
     \/ flight \in conn /\ Miss /\ stranded' = TRUE
  /\ Over
  /\ UNCHANGED <<conn, lost, discoveryVars, room, broken, drops, breaks>>

(* A room is dead when its stream has ended and it has no peers. *)
StreamEnds(r) ==
  /\ r \in broken
  /\ broken' = broken \ {r}
  /\ \/ room[r] = "alone" /\ Remove(r)
     \/ /\ room[r] = "joined"
        /\ room' = [room EXCEPT ![r] = "orphan"]
        /\ UNCHANGED <<flight, pend>>
  /\ UNCHANGED <<conn, lost, discoveryVars, layer, bounds, stranded>>

PeerUp(r) ==
  /\ room[r] = "alone"
  /\ room' = [room EXCEPT ![r] = "joined"]
  /\ UNCHANGED <<conn, lost, discoveryVars, layerVars, broken, bounds, stranded>>

PeerDown(r) ==
  /\ \/ /\ room[r] = "joined"
        /\ room' = [room EXCEPT ![r] = "alone"]
        /\ UNCHANGED <<flight, pend>>
     \/ room[r] = "orphan" /\ Remove(r)
  /\ UNCHANGED <<conn, lost, discoveryVars, layer, broken, bounds, stranded>>

-----------------------------------------------------------------------------
(* libp2p connects for reasons of its own. *)
Autodial(r) ==
  /\ r \notin conn
  /\ conn' = conn \cup {r}
  /\ UNCHANGED <<lost, discoveryVars, layerVars, room, broken, bounds, stranded>>

Streaming(r) == room[r] \in {"alone", "joined"}

(* A connection goes, and the stream over it. *)
Drop(r) ==
  /\ r \in conn /\ drops < MaxDrops /\ drops' = drops + 1
  /\ conn' = conn \ {r} /\ lost' = lost \cup {r}
  /\ broken' = IF Streaming(r) THEN broken \cup {r} ELSE broken
  /\ UNCHANGED <<discoveryVars, layerVars, room, misses, breaks, stranded>>

(* A stream ends alone. *)
Break(r) ==
  /\ Streaming(r) /\ r \notin broken /\ breaks < MaxBreaks /\ breaks' = breaks + 1
  /\ broken' = broken \cup {r}
  /\ UNCHANGED <<conn, lost, discoveryVars, layerVars, room, drops, misses, stranded>>

Expire(r) ==
  /\ r \in cached /\ breaks < MaxBreaks /\ breaks' = breaks + 1
  /\ cached' = cached \ {r}
  /\ UNCHANGED <<conn, lost, tracked, timer, redialing, layerVars, room, broken,
                 drops, misses, stranded>>

RelayNext ==
  \/ Resume \/ WaitTimeout \/ SignalOk \/ SignalFails
  \/ \E r \in Relays :
       \/ Dialled(r) \/ Found(r)
       \/ Disconnected(r) \/ TimerFires(r) \/ RedialOk(r) \/ RedialFails(r)
       \/ StreamEnds(r) \/ PeerUp(r) \/ PeerDown(r)
       \/ Autodial(r) \/ Drop(r) \/ Break(r) \/ Expire(r)

RelaySpec == RelayInit /\ [][RelayNext]_relayVars

(* Redials and attempts settle, timers fire, events are delivered.  Nothing *)
(* is assumed of discovery, of libp2p or of peers.                          *)
RelayFairness ==
  /\ WF_relayVars(WaitTimeout) /\ WF_relayVars(SignalOk \/ SignalFails)
  /\ \A r \in Relays :
       /\ WF_relayVars(RedialOk(r) \/ RedialFails(r))
       /\ WF_relayVars(TimerFires(r)) /\ WF_relayVars(Disconnected(r))
       /\ WF_relayVars(StreamEnds(r))

RelayFairSpec == RelaySpec /\ RelayFairness

-----------------------------------------------------------------------------
(* A relay the page knows and has no connection to is going to be dialled   *)
(* again: its timer runs, or the dial, or the event that sets the timer is  *)
(* under way.  Timers are cleared by events that come late, by a tab that   *)
(* comes back and by each other; none of that may end the redialling.       *)
RedialIsPending ==
  \A r \in tracked \ conn : timer[r] = "armed" \/ r \in redialing \cup lost

(* A document that had a relay does not stay without a room: whatever drops,*)
(* whichever attempt is under way and whoever waits for it.  The exceptions *)
(* are what the code gives up on, kept in stranded: no relay in the first   *)
(* 30 s, an attempt that fails on a connected relay, an event that comes    *)
(* when libp2p has connected again, a relay that is no longer in the cache. *)
RoomReturns ==
  layer # "waiting" /\ Rooms(room) = {} ~> Rooms(room) # {} \/ stranded
=============================================================================
