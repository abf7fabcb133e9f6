------------------------------ MODULE PeerManager ------------------------------
(***************************************************************************)
(* The WebRTC peer manager of one awareness room of a browser, and the     *)
(* bookkeeping of that room: sync/src/signaling/peer-connection.ts and     *)
(* sync/src/webrtc/rooms.ts.                                               *)
(*                                                                         *)
(*   PeerJoined, PeerLeft   the relay announces a peer or its departure    *)
(*   SdpOffer, SdpAnswer    a description of the remote peer comes         *)
(*   Applied, Refused       its awaited application ends                   *)
(*   OfferReady, OfferFails the awaited creation of an offer ends          *)
(*   OfferTimeout, GraceExpires, RetryDue    the three timers of a peer    *)
(*   Connected, Disconnected, Failed    connection states the browser      *)
(*                          reports (external)                             *)
(*   SignalingClosed        the stream to the relay ends                   *)
(*                                                                         *)
(* The remote peers are the environment: they answer or not, come, go and  *)
(* come back.  A connection object (PC) is named by a small number; timers *)
(* and callbacks hold the number of the PC they were made for, and a       *)
(* number is used again when nothing holds it.  A closed PC reports        *)
(* nothing, and its awaited operations do not complete.                    *)
(***************************************************************************)
EXTENDS Integers, FiniteSets, FiniteSetsExt

CONSTANTS
  Remotes,      \* the other peers of the room
  Lower,        \* those with a lower id than ours: they send the offers
  MaxRetries,   \* MAX_RETRIES
  MaxEvents,    \* bound on the messages of the relay
  MaxDrops,     \* bound on connections lost after they were up
  MaxErrors     \* bound on offers that cannot be created and descriptions refused

ASSUME PeerManagerAssumption ==
  /\ Lower \subseteq Remotes /\ IsFiniteSet(Remotes)
  /\ {MaxRetries, MaxEvents, MaxDrops, MaxErrors} \subseteq Nat

VARIABLES
  pc,         \* peers: the current PC of a peer, 0 when there is none
  state,      \* its connectionState
  described,  \* it has a remote description
  applying,   \* a description of the remote peer is being applied to it
  broken,     \* its offer could not be created or an answer was refused (history)
  offering,   \* the PC whose offer is being created, 0 when none is
  tracked,    \* the peer has an entry in peerState
  attempts,   \* retries since it was last connected
  offerT,     \* the PC of the running offer timer, 0 when it is not running
  graceT,     \* the same of the grace timer
  retryT,     \* the same of the backoff timer
  asked,      \* offers sent that were not answered yet, 2 for more
  alive,      \* signalingAlive
  active,     \* activePeers
  connected,  \* the room's connected flag
  swapped,    \* needsSwapFired: the room is replaced
  counted,    \* peers counted in active and not discounted since (history)
  recounted,  \* a peer was counted twice (history)
  events, drops, errors   \* counters of the bounds

timerVars == <<offerT, graceT, retryT>>
peerVars  == <<pc, state, described, applying, broken, offering, tracked, attempts, timerVars, asked>>
roomVars  == <<alive, active, connected, swapped, counted, recounted>>
bounds    == <<events, drops, errors>>
vars      == <<peerVars, roomVars, bounds>>

Initiates(r) == r \notin Lower

(* A number no closure about r holds. *)
Fresh(r) ==
  Min((1..5) \ {pc[r], offering[r], offerT[r], graceT[r], retryT[r]})

Init ==
  /\ pc = [r \in Remotes |-> 0]
  /\ state = [r \in Remotes |-> "new"]
  /\ described = [r \in Remotes |-> FALSE]
  /\ applying = [r \in Remotes |-> FALSE]
  /\ broken = [r \in Remotes |-> FALSE]
  /\ offering = [r \in Remotes |-> 0]
  /\ tracked = [r \in Remotes |-> FALSE]
  /\ attempts = [r \in Remotes |-> 0]
  /\ offerT = [r \in Remotes |-> 0]
  /\ graceT = [r \in Remotes |-> 0]
  /\ retryT = [r \in Remotes |-> 0]
  /\ asked = [r \in Remotes |-> 0]
  /\ alive = TRUE /\ active = 0 /\ connected = FALSE /\ swapped = FALSE
  /\ counted = {} /\ recounted = FALSE
  /\ events = 0 /\ drops = 0 /\ errors = 0

-----------------------------------------------------------------------------
(* closePC(), getOrCreatePC() and sendOffer() on the entries of r.          *)
PutPC(r, id) ==
  /\ pc' = [pc EXCEPT ![r] = id]
  /\ state' = [state EXCEPT ![r] = "new"]
  /\ described' = [described EXCEPT ![r] = FALSE]
  /\ applying' = [applying EXCEPT ![r] = FALSE]
  /\ broken' = [broken EXCEPT ![r] = FALSE]

Offering(r, id) ==
  offering' = [offering EXCEPT ![r] = IF Initiates(r) THEN id ELSE 0]

Untrack(r) ==
  /\ tracked' = [tracked EXCEPT ![r] = FALSE]
  /\ attempts' = [attempts EXCEPT ![r] = 0]

ClearTimers_ButRetry(r) ==
  /\ offerT' = [offerT EXCEPT ![r] = 0]
  /\ graceT' = [graceT EXCEPT ![r] = 0]
  /\ UNCHANGED retryT

ClearTimers(r) ==
  /\ offerT' = [offerT EXCEPT ![r] = 0]
  /\ graceT' = [graceT EXCEPT ![r] = 0]
  /\ retryT' = [retryT EXCEPT ![r] = 0]

ClosePC_TimersRun(r) == PutPC(r, 0) /\ Untrack(r) /\ Offering(r, 0) /\ UNCHANGED timerVars

ClosePC(r) == PutPC(r, 0) /\ Untrack(r) /\ Offering(r, 0) /\ ClearTimers(r)

(* disconnCbs: the room counts down, and is replaced when the signaling is  *)
(* dead and no peer is left.                                                *)
Swaps(live, n) == ~ live /\ n = 0

Disconn_Unchecked(r) ==
  LET n == Max({0, active - 1})
  IN /\ active' = n
     /\ connected' = (connected /\ n > 0)
     /\ counted' = counted \ {r}
     /\ UNCHANGED <<alive, swapped, recounted>>

Disconn(r) ==
  LET n == Max({0, active - 1})
  IN /\ active' = n
     /\ connected' = (connected /\ n > 0)
     /\ swapped' = (swapped \/ Swaps(alive, n))
     /\ counted' = counted \ {r}
     /\ UNCHANGED <<alive, recounted>>

-----------------------------------------------------------------------------
(* Messages of the relay; none comes once the stream has ended.             *)
FromRelay ==
  /\ alive /\ ~ swapped /\ events < MaxEvents
  /\ events' = events + 1
  /\ UNCHANGED <<drops, errors>>

Healthy(r) == pc[r] # 0 /\ state[r] \in {"new", "connecting", "connected"}

PeerJoined(r) ==
  /\ FromRelay
  /\ IF Healthy(r)
       THEN UNCHANGED peerVars
       ELSE LET id == Fresh(r)
            IN /\ PutPC(r, id) /\ Untrack(r) /\ ClearTimers(r) /\ Offering(r, id)
               /\ UNCHANGED asked
  /\ UNCHANGED roomVars

PeerLeft(r) ==
  /\ FromRelay
  /\ ClosePC(r)
  /\ IF pc[r] # 0 \/ tracked[r] THEN Disconn(r) ELSE UNCHANGED roomVars
  /\ UNCHANGED asked

(* An offer makes a PC when there is none and is to be applied to the one   *)
(* there is.                                                                *)
SdpOffer(r) ==
  /\ FromRelay /\ ~ Initiates(r)
  /\ pc' = [pc EXCEPT ![r] = IF @ = 0 THEN Fresh(r) ELSE @]
  /\ applying' = [applying EXCEPT ![r] = TRUE]
  /\ UNCHANGED <<state, described, broken, offering, tracked, attempts, timerVars, asked,
                 roomVars>>

(* An answer ends the offer timer of the current PC, whichever PC it is     *)
(* for, before it is applied; a PC that waits for none rejects it.          *)
SdpAnswer(r) ==
  /\ FromRelay /\ Initiates(r) /\ asked[r] > 0
  /\ asked' = [asked EXCEPT ![r] = @ - 1]
  /\ IF pc[r] = 0
       THEN UNCHANGED <<offerT, applying>>
       ELSE /\ offerT' = [offerT EXCEPT ![r] = 0]
            /\ applying' = [applying EXCEPT ![r] = @ \/ (offering[r] = 0 /\ ~ described[r])]
  /\ UNCHANGED <<pc, state, described, broken, offering, tracked, attempts, graceT, retryT,
                 roomVars>>

(* setRemoteDescription resolved, and a responder's answer went out. *)
Applied(r) ==
  /\ applying[r] /\ ~ swapped
  /\ applying' = [applying EXCEPT ![r] = FALSE]
  /\ described' = [described EXCEPT ![r] = TRUE]
  /\ state' = [state EXCEPT ![r] = IF @ = "new" THEN "connecting" ELSE @]
  /\ UNCHANGED <<pc, broken, offering, tracked, attempts, timerVars, asked, roomVars, bounds>>

(* It was rejected, or a responder could not create its answer to the       *)
(* description it has: both are only logged.                                *)
Refused(r) ==
  /\ applying[r] /\ ~ swapped /\ errors < MaxErrors
  /\ errors' = errors + 1
  /\ applying' = [applying EXCEPT ![r] = FALSE]
  /\ \/ UNCHANGED described
     \/ ~ Initiates(r) /\ described' = [described EXCEPT ![r] = TRUE]
  /\ broken' = [broken EXCEPT ![r] = @ \/ Initiates(r)]
  /\ UNCHANGED <<pc, state, offering, tracked, attempts, timerVars, asked, roomVars,
                 events, drops>>

SignalingClosed ==
  /\ alive /\ ~ swapped
  /\ alive' = FALSE
  /\ swapped' = Swaps(FALSE, active)
  /\ UNCHANGED <<peerVars, active, connected, counted, recounted, bounds>>

-----------------------------------------------------------------------------
(* sendOffer() after its awaits: the timer is armed and the offer is sent,  *)
(* or dropped when the stream has closed.                                   *)
OfferReady_Unarmed(r) ==
  /\ offering[r] # 0 /\ offering[r] = pc[r] /\ ~ swapped
  /\ offering' = [offering EXCEPT ![r] = 0]
  /\ tracked' = [tracked EXCEPT ![r] = alive]
  /\ offerT' = [offerT EXCEPT ![r] = IF alive THEN pc[r] ELSE 0]
  /\ asked' = [asked EXCEPT ![r] = IF alive /\ @ < 2 THEN @ + 1 ELSE @]
  /\ UNCHANGED <<pc, state, described, applying, broken, attempts, graceT, retryT, roomVars, bounds>>

OfferReady(r) ==
  /\ offering[r] # 0 /\ offering[r] = pc[r] /\ ~ swapped
  /\ offering' = [offering EXCEPT ![r] = 0]
  /\ tracked' = [tracked EXCEPT ![r] = TRUE]
  /\ offerT' = [offerT EXCEPT ![r] = pc[r]]
  /\ asked' = [asked EXCEPT ![r] = IF alive /\ @ < 2 THEN @ + 1 ELSE @]
  /\ UNCHANGED <<pc, state, described, applying, broken, attempts, graceT, retryT, roomVars, bounds>>

OfferFails(r) ==
  /\ offering[r] # 0 /\ ~ swapped /\ errors < MaxErrors
  /\ errors' = errors + 1
  /\ offering' = [offering EXCEPT ![r] = 0]
  /\ broken' = [broken EXCEPT ![r] = TRUE]
  /\ UNCHANGED <<pc, state, described, applying, tracked, attempts, timerVars, asked,
                 roomVars, events, drops>>

(* handleFailure: a retry is scheduled, once, or the peer is given up.  The *)
(* timer that fired is no longer in "offer" or "grace".                     *)
Exhausted(r) == attempts[r] >= MaxRetries

Counted_Not(r) == UNCHANGED attempts

Counted(r) == attempts' = [attempts EXCEPT ![r] = @ + 1]

HandleFailure(r, offer, grace, st) ==
  IF retryT[r] # 0
    THEN /\ offerT' = offer /\ graceT' = grace
         /\ state' = [state EXCEPT ![r] = st]
         /\ UNCHANGED <<pc, described, applying, broken, offering, tracked, attempts, retryT,
                        roomVars>>
    ELSE IF Exhausted(r)
      THEN ClosePC(r) /\ Disconn(r)
      ELSE /\ tracked' = [tracked EXCEPT ![r] = TRUE]
           /\ Counted(r)
           /\ offerT' = [offer EXCEPT ![r] = 0]
           /\ graceT' = [grace EXCEPT ![r] = 0]
           /\ retryT' = [retryT EXCEPT ![r] = pc[r]]
           /\ state' = [state EXCEPT ![r] = st]
           /\ UNCHANGED <<pc, described, applying, broken, offering, roomVars>>

OfferTimeout(r) ==
  /\ offerT[r] # 0 /\ ~ swapped
  /\ LET offer == [offerT EXCEPT ![r] = 0] IN
       IF offerT[r] = pc[r]
         THEN HandleFailure(r, offer, graceT, state[r])
         ELSE /\ offerT' = offer
              /\ UNCHANGED <<pc, state, described, applying, broken, offering, tracked,
                             attempts, graceT, retryT, roomVars>>
  /\ UNCHANGED <<asked, bounds>>

GraceExpires(r) ==
  /\ graceT[r] # 0 /\ ~ swapped
  /\ LET grace == [graceT EXCEPT ![r] = 0] IN
       IF graceT[r] = pc[r]
         THEN HandleFailure(r, offerT, grace, state[r])
         ELSE /\ graceT' = grace
              /\ UNCHANGED <<pc, state, described, applying, broken, offering, tracked,
                             attempts, offerT, retryT, roomVars>>
  /\ UNCHANGED <<asked, bounds>>

(* executeRetry: the old PC is closed if it is still there, and a fresh one *)
(* is made unless another has taken its place; its offer is created.        *)
RetryDue(r) ==
  /\ retryT[r] # 0 /\ ~ swapped
  /\ retryT' = [retryT EXCEPT ![r] = 0]
  /\ IF pc[r] \in {retryT[r], 0}
       THEN LET id == Fresh(r) IN PutPC(r, id) /\ Offering(r, id)
       ELSE Offering(r, pc[r]) /\ UNCHANGED <<pc, state, described, applying, broken>>
  /\ UNCHANGED <<tracked, attempts, offerT, graceT, asked, roomVars, bounds>>

-----------------------------------------------------------------------------
(* What the browser reports of the current PC. *)
Connected(r) ==
  /\ pc[r] # 0 /\ described[r] /\ state[r] \in {"connecting", "disconnected"} /\ ~ swapped
  /\ state' = [state EXCEPT ![r] = "connected"]
  /\ IF tracked[r] THEN ClearTimers(r) ELSE UNCHANGED timerVars
  /\ attempts' = [attempts EXCEPT ![r] = 0]
  /\ active' = active + 1 /\ connected' = TRUE
  /\ counted' = counted \cup {r} /\ recounted' = (recounted \/ r \in counted)
  /\ UNCHANGED <<pc, described, applying, broken, offering, tracked, asked, alive, swapped,
                 bounds>>

Dropped ==
  /\ drops < MaxDrops
  /\ drops' = drops + 1
  /\ UNCHANGED <<events, errors>>

Disconnected(r) ==
  /\ pc[r] # 0 /\ state[r] = "connected" /\ ~ swapped
  /\ Dropped
  /\ state' = [state EXCEPT ![r] = "disconnected"]
  /\ tracked' = [tracked EXCEPT ![r] = TRUE]
  /\ graceT' = [graceT EXCEPT ![r] = IF @ = 0 THEN pc[r] ELSE @]
  /\ UNCHANGED <<pc, described, applying, broken, offering, attempts, offerT, retryT, asked,
                 roomVars>>

Failed(r) ==
  /\ pc[r] # 0 /\ described[r] /\ ~ swapped
  /\ \/ state[r] \in {"connecting", "disconnected"} /\ UNCHANGED bounds
     \/ state[r] = "connected" /\ Dropped
  /\ HandleFailure(r, offerT, graceT, "failed")
  /\ UNCHANGED asked

Next ==
  \/ SignalingClosed
  \/ \E r \in Remotes :
       \/ PeerJoined(r) \/ PeerLeft(r) \/ SdpOffer(r) \/ SdpAnswer(r)
       \/ Applied(r) \/ Refused(r)
       \/ OfferReady(r) \/ OfferFails(r)
       \/ OfferTimeout(r) \/ GraceExpires(r) \/ RetryDue(r)
       \/ Connected(r) \/ Disconnected(r) \/ Failed(r)

Spec == Init /\ [][Next]_vars

(* Promises settle, timers fire, and a PC with both descriptions does not   *)
(* stay between up and down.                                                *)
Fairness ==
  \A r \in Remotes :
    /\ WF_vars(OfferReady(r) \/ OfferFails(r)) /\ WF_vars(Applied(r) \/ Refused(r))
    /\ WF_vars(OfferTimeout(r)) /\ WF_vars(GraceExpires(r)) /\ WF_vars(RetryDue(r))
    /\ WF_vars(state[r] \in {"connecting", "disconnected"} /\ (Connected(r) \/ Failed(r)))

FairSpec == Spec /\ Fairness

-----------------------------------------------------------------------------
(* Type invariant. *)
TypeOK ==
  /\ {pc, offering, offerT, graceT, retryT} \subseteq [Remotes -> 0..5]
  /\ state \in [Remotes -> {"new", "connecting", "connected", "disconnected", "failed"}]
  /\ {described, applying, broken, tracked} \subseteq [Remotes -> BOOLEAN]
  /\ asked \in [Remotes -> 0..2]
  /\ attempts \in [Remotes -> 0..MaxRetries]
  /\ active \in Nat /\ {alive, connected, swapped} \subseteq BOOLEAN
  /\ connected = (active > 0) /\ counted \subseteq Remotes /\ recounted \in BOOLEAN
  /\ events \in 0..MaxEvents /\ drops \in 0..MaxDrops /\ errors \in 0..MaxErrors

(* No timer outlives the PC it was started for: none runs for a peer that   *)
(* left or was given up, and the guards against a replaced PC never fail.   *)
TimersAreCurrent ==
  \A r \in Remotes :
    /\ {offering[r], offerT[r], graceT[r], retryT[r]} \subseteq {0, pc[r]}
    /\ pc[r] = 0 => ~ tracked[r] /\ attempts[r] = 0
    /\ retryT[r] # 0 => offerT[r] = 0 /\ graceT[r] = 0

(* An initiator is never without a next step: a PC that has no description  *)
(* has its offer under way, an answer being applied, or waits for an answer *)
(* or for a retry with a timer, unless its own offer could not be created   *)
(* or an answer to it was refused.                                          *)
InitiatorIsPursued ==
  \A r \in Remotes :
    Initiates(r) /\ pc[r] # 0 /\ ~ described[r] /\ ~ broken[r]
      => offering[r] # 0 \/ applying[r] \/ offerT[r] # 0 \/ retryT[r] # 0

(* A connection that is down is waited for or retried, and one that is up   *)
(* is not torn down by a timer of its earlier troubles.                     *)
DownIsHandled ==
  \A r \in Remotes : pc[r] # 0 =>
    /\ state[r] = "failed" => retryT[r] # 0
    /\ state[r] = "disconnected" => graceT[r] # 0 \/ retryT[r] # 0
    /\ state[r] = "connected" => offerT[r] = 0 /\ graceT[r] = 0 /\ retryT[r] = 0

(* The room of a dead signaling stream is replaced once no peer is left,    *)
(* unless a peer was counted twice: that came up again before it was given  *)
(* up.                                                                      *)
DeadRoomIsReplaced ==
  ~ alive /\ ~ recounted /\ (\A r \in Remotes : pc[r] = 0) => swapped

(* The attempts to reach a peer end: connected, given up or replaced, or    *)
(* stuck with a PC whose offer was not created or whose answer was refused. *)
InitiatorSettles ==
  \A r \in Remotes :
    (Initiates(r) /\ pc[r] # 0)
      ~> \/ pc[r] = 0 \/ state[r] = "connected" \/ swapped
         \/ broken[r] /\ retryT[r] = 0

=============================================================================
