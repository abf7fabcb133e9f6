------------------------- MODULE PeerManagerProofs -------------------------
(***************************************************************************)
(* Proofs about PeerManager, for every set of remote peers, every order of *)
(* their ids and every bound.                                              *)
(***************************************************************************)
EXTENDS PeerManager, FiniteSetTheorems, TLAPS
-----------------------------------------------------------------------------
States == {"new", "connecting", "connected", "disconnected", "failed"}

\* The types of what the manager keeps for the peers, one by one.
PeersOK ==
  /\ pc \in [Remotes -> 0..5] /\ offering \in [Remotes -> 0..5]
  /\ offerT \in [Remotes -> 0..5] /\ graceT \in [Remotes -> 0..5]
  /\ retryT \in [Remotes -> 0..5]
  /\ state \in [Remotes -> States]
  /\ described \in [Remotes -> BOOLEAN] /\ tracked \in [Remotes -> BOOLEAN]
  /\ applying \in [Remotes -> BOOLEAN] /\ broken \in [Remotes -> BOOLEAN]
  /\ asked \in [Remotes -> 0..2]
  /\ attempts \in [Remotes -> 0..MaxRetries]

NoTimer(r) == offerT[r] = 0 /\ graceT[r] = 0 /\ retryT[r] = 0

\* What holds of each peer by itself: timers belong to the current connection,
\* only a tracked peer has any, an offer is created for a connection that is new,
\* without a description and without timers, and one without a description whose
\* offer and answer did not fail has a step ahead.
PeerInv(r) ==
  /\ offering[r] \in {0, pc[r]} /\ offerT[r] \in {0, pc[r]}
  /\ graceT[r] \in {0, pc[r]} /\ retryT[r] \in {0, pc[r]}
  /\ pc[r] = 0 => /\ ~tracked[r] /\ attempts[r] = 0
                  /\ state[r] = "new" /\ ~described[r] /\ ~applying[r]
  /\ retryT[r] # 0 => offerT[r] = 0 /\ graceT[r] = 0
  /\ ~tracked[r] => NoTimer(r)
  /\ offering[r] # 0 => /\ Initiates(r) /\ ~described[r] /\ ~applying[r]
                        /\ state[r] = "new" /\ NoTimer(r)
  /\ pc[r] # 0 /\ state[r] = "failed" => retryT[r] # 0
  /\ pc[r] # 0 /\ state[r] = "disconnected" => graceT[r] # 0 \/ retryT[r] # 0
  /\ state[r] = "connected" => NoTimer(r)
  /\ Initiates(r) /\ pc[r] # 0 /\ ~described[r] /\ ~broken[r]
       => offering[r] # 0 \/ applying[r] \/ offerT[r] # 0 \/ retryT[r] # 0

\* All that the manager and its callbacks keep for r stays.
Kept(r) ==
  /\ pc'[r] = pc[r] /\ offering'[r] = offering[r]
  /\ offerT'[r] = offerT[r] /\ graceT'[r] = graceT[r] /\ retryT'[r] = retryT[r]
  /\ state'[r] = state[r] /\ (described'[r] <=> described[r])
  /\ (applying'[r] <=> applying[r]) /\ (broken'[r] <=> broken[r])
  /\ (tracked'[r] <=> tracked[r]) /\ attempts'[r] = attempts[r]

\* A step for one peer.
LEMMA OnePeer ==
  ASSUME PeersOK, \A q \in Remotes : PeerInv(q),
         NEW r \in Remotes, PeerInv(r)', \A q \in Remotes \ {r} : Kept(q)
  PROVE  (\A q \in Remotes : PeerInv(q))'
<1> SUFFICES ASSUME NEW q \in Remotes, q # r PROVE PeerInv(q)'
  OBVIOUS
<1>1. PeerInv(q) /\ Kept(q)
  OBVIOUS
<1> QED BY <1>1 DEF PeerInv, Kept, NoTimer, Initiates

\* A fresh number is a number, and not that of the current connection.
LEMMA FreshIsNew ==
  ASSUME PeersOK, NEW r \in Remotes, PeerInv(r)
  PROVE  Fresh(r) \in 1..5 /\ Fresh(r) # pc[r]
<1> DEFINE S == (1..5) \ {pc[r], offering[r], offerT[r], graceT[r], retryT[r]}
<1>1. \E x \in S : \A y \in S : x <= y
  <2>1. CASE pc[r] = 1
    <3>1. 2 \in S /\ \A y \in S : 2 <= y
      BY <2>1 DEF PeerInv
    <3> QED BY <3>1
  <2>2. CASE pc[r] # 1
    <3>1. 1 \in S /\ \A y \in S : 1 <= y
      BY <2>2 DEF PeerInv
    <3> QED BY <3>1
  <2> QED BY <2>1, <2>2
<1>2. Fresh(r) \in S
  <2>1. Fresh(r) = CHOOSE x \in S : \A y \in S : x <= y
    BY DEF Fresh, Min
  <2> HIDE DEF S
  <2> QED BY <1>1, <2>1
<1> QED BY <1>2

\* handleFailure keeps the types, whichever of its three ways it takes.
LEMMA HandleFailureType ==
  ASSUME PeersOK, NEW r \in Remotes, NEW offer \in [Remotes -> 0..5],
         NEW grace \in [Remotes -> 0..5], NEW st \in States,
         HandleFailure(r, offer, grace, st), asked' = asked
  PROVE  PeersOK'
<1>1. CASE retryT[r] # 0
  BY <1>1 DEF HandleFailure, PeersOK
<1>2. CASE retryT[r] = 0 /\ Exhausted(r)
  <2>1. ClosePC(r)
    BY <1>2 DEF HandleFailure
  <2>2. 0 \in 0..5 /\ 0 \in 0..MaxRetries /\ "new" \in States
    BY PeerManagerAssumption DEF States
  <2> QED BY <2>1, <2>2 DEF PeersOK, ClosePC, PutPC, Untrack, ClearTimers, Offering
<1>3. CASE retryT[r] = 0 /\ ~Exhausted(r)
  <2>1. attempts[r] + 1 \in 0..MaxRetries
    BY <1>3, PeerManagerAssumption DEF PeersOK, Exhausted
  <2>2. attempts' = [attempts EXCEPT ![r] = attempts[r] + 1]
    BY <1>3 DEF HandleFailure, Counted
  <2>3. attempts' \in [Remotes -> 0..MaxRetries]
    BY <2>1, <2>2 DEF PeersOK
  <2>4. tracked' \in [Remotes -> BOOLEAN]
    BY <1>3 DEF HandleFailure, PeersOK
  <2> QED BY <1>3, <2>3, <2>4 DEF HandleFailure, PeersOK
<1> QED BY <1>1, <1>2, <1>3

\* Each action on r: its types, its own part of the invariant, and that it leaves
\* the other peers alone.
Steps(r) ==
  /\ PeersOK' /\ PeerInv(r)'
  /\ \A q \in Remotes \ {r} : Kept(q)

LEMMA PeerJoinedSteps ==
  ASSUME PeersOK, NEW r \in Remotes, PeerInv(r), PeerJoined(r)
  PROVE  Steps(r)
<1>0. Fresh(r) \in 0..5 /\ Fresh(r) # 0 /\ Fresh(r) # pc[r]
  BY FreshIsNew
<1>1. PeersOK'
  <2>1. CASE Healthy(r)
    <3>1. UNCHANGED peerVars
      BY <2>1 DEF PeerJoined
    <3> QED BY <3>1 DEF PeersOK, peerVars, timerVars
  <2>2. CASE ~ Healthy(r)
    <3> DEFINE id == Fresh(r)
    <3>1. /\ PutPC(r, id) /\ Untrack(r) /\ ClearTimers(r) /\ Offering(r, id)
          /\ UNCHANGED asked
      BY <2>2 DEF PeerJoined
    <3>2. 0 \in 0..5 /\ 0 \in 0..MaxRetries /\ "new" \in States /\ id \in 0..5
      BY <1>0, PeerManagerAssumption DEF States
    <3> HIDE DEF id
    <3> QED BY <3>1, <3>2 DEF PeersOK, PutPC, Untrack, ClearTimers, Offering
  <2> QED BY <2>1, <2>2
<1>2. PeerInv(r)'
  BY <1>0, PeerManagerAssumption DEF PeersOK, PeerInv, States, NoTimer, Initiates, PeerJoined, FromRelay, PutPC, Untrack, ClearTimers, Offering, roomVars, peerVars, timerVars, Healthy
<1>3. \A q \in Remotes \ {r} : Kept(q)
  BY <1>0, PeerManagerAssumption DEF PeersOK, PeerInv, Kept, PeerJoined, FromRelay, PutPC, Untrack, ClearTimers, Offering, roomVars, peerVars, timerVars, Healthy
<1> QED BY <1>1, <1>2, <1>3 DEF Steps

LEMMA PeerLeftSteps ==
  ASSUME PeersOK, NEW r \in Remotes, PeerInv(r), PeerLeft(r)
  PROVE  Steps(r)
<1>1. PeersOK'
  BY PeerManagerAssumption DEF PeersOK, PeerInv, States, PeerLeft, FromRelay, ClosePC, PutPC, Untrack, ClearTimers, Offering
<1>2. PeerInv(r)'
  BY PeerManagerAssumption DEF PeersOK, PeerInv, States, NoTimer, Initiates, PeerLeft, FromRelay, ClosePC, PutPC, Untrack, ClearTimers, Offering
<1>3. \A q \in Remotes \ {r} : Kept(q)
  BY PeerManagerAssumption DEF PeersOK, PeerInv, Kept, PeerLeft, FromRelay, ClosePC, PutPC, Untrack, ClearTimers, Offering
<1> QED BY <1>1, <1>2, <1>3 DEF Steps

LEMMA SdpOfferSteps ==
  ASSUME PeersOK, NEW r \in Remotes, PeerInv(r), SdpOffer(r)
  PROVE  Steps(r)
<1>0. Fresh(r) \in 0..5 /\ Fresh(r) # 0 /\ Fresh(r) # pc[r]
  BY FreshIsNew
<1>1. PeersOK'
  <2> DEFINE id == Fresh(r)
  <2>1. /\ pc' = IF pc[r] = 0 THEN [pc EXCEPT ![r] = id] ELSE pc
        /\ applying' = [applying EXCEPT ![r] = TRUE]
        /\ UNCHANGED <<state, described, broken, offering, tracked, attempts, offerT, graceT,
                       retryT, asked>>
    BY DEF SdpOffer, timerVars, PeersOK
  <2>2. id \in 0..5
    BY <1>0
  <2> HIDE DEF id
  <2> QED BY <2>1, <2>2 DEF PeersOK
<1>2. PeerInv(r)'
  BY <1>0, PeerManagerAssumption DEF PeersOK, PeerInv, States, NoTimer, Initiates, SdpOffer, FromRelay, timerVars
<1>3. \A q \in Remotes \ {r} : Kept(q)
  BY <1>0, PeerManagerAssumption DEF PeersOK, PeerInv, Kept, SdpOffer, FromRelay, timerVars
<1> QED BY <1>1, <1>2, <1>3 DEF Steps

LEMMA SdpAnswerSteps ==
  ASSUME PeersOK, NEW r \in Remotes, PeerInv(r), SdpAnswer(r)
  PROVE  Steps(r)
<1>1. PeersOK'
  <2>1. asked[r] - 1 \in 0..2
    BY DEF SdpAnswer, PeersOK
  <2>2. asked' = [asked EXCEPT ![r] = asked[r] - 1]
    BY DEF SdpAnswer
  <2>3. asked' \in [Remotes -> 0..2]
    BY <2>1, <2>2 DEF PeersOK
  <2>4. offerT' \in [Remotes -> 0..5]
    BY DEF SdpAnswer, PeersOK
  <2>5. applying' \in [Remotes -> BOOLEAN]
    BY DEF SdpAnswer, PeersOK
  <2> QED BY <2>3, <2>4, <2>5 DEF SdpAnswer, PeersOK
<1>2. PeerInv(r)'
  BY PeerManagerAssumption DEF PeersOK, PeerInv, States, NoTimer, Initiates, SdpAnswer, FromRelay
<1>3. \A q \in Remotes \ {r} : Kept(q)
  BY PeerManagerAssumption DEF PeersOK, PeerInv, Kept, SdpAnswer, FromRelay
<1> QED BY <1>1, <1>2, <1>3 DEF Steps

LEMMA AppliedSteps ==
  ASSUME PeersOK, NEW r \in Remotes, PeerInv(r), Applied(r)
  PROVE  Steps(r)
<1>1. PeersOK'
  BY PeerManagerAssumption DEF PeersOK, PeerInv, States, Applied, timerVars
<1>2. PeerInv(r)'
  BY PeerManagerAssumption DEF PeersOK, PeerInv, States, NoTimer, Initiates, Applied, timerVars
<1>3. \A q \in Remotes \ {r} : Kept(q)
  BY PeerManagerAssumption DEF PeersOK, PeerInv, Kept, Applied, timerVars
<1> QED BY <1>1, <1>2, <1>3 DEF Steps

LEMMA RefusedSteps ==
  ASSUME PeersOK, NEW r \in Remotes, PeerInv(r), Refused(r)
  PROVE  Steps(r)
<1>1. PeersOK'
  BY PeerManagerAssumption DEF PeersOK, PeerInv, States, Refused, timerVars
<1>2. PeerInv(r)'
  BY PeerManagerAssumption DEF PeersOK, PeerInv, States, NoTimer, Initiates, Refused, timerVars
<1>3. \A q \in Remotes \ {r} : Kept(q)
  BY PeerManagerAssumption DEF PeersOK, PeerInv, Kept, Refused, timerVars
<1> QED BY <1>1, <1>2, <1>3 DEF Steps

LEMMA OfferReadySteps ==
  ASSUME PeersOK, NEW r \in Remotes, PeerInv(r), OfferReady(r)
  PROVE  Steps(r)
<1>1. PeersOK'
  <2> DEFINE n == IF alive /\ asked[r] < 2 THEN asked[r] + 1 ELSE asked[r]
  <2>1. n \in 0..2
    BY DEF PeersOK
  <2>2. asked' = [asked EXCEPT ![r] = n]
    BY DEF OfferReady
  <2> HIDE DEF n
  <2>3. asked' \in [Remotes -> 0..2]
    BY <2>1, <2>2 DEF PeersOK
  <2> QED BY <2>3 DEF OfferReady, PeersOK
<1>2. PeerInv(r)'
  BY PeerManagerAssumption DEF PeersOK, PeerInv, States, NoTimer, Initiates, OfferReady, bounds
<1>3. \A q \in Remotes \ {r} : Kept(q)
  BY PeerManagerAssumption DEF PeersOK, PeerInv, Kept, OfferReady, bounds
<1> QED BY <1>1, <1>2, <1>3 DEF Steps

LEMMA OfferFailsSteps ==
  ASSUME PeersOK, NEW r \in Remotes, PeerInv(r), OfferFails(r)
  PROVE  Steps(r)
<1>1. PeersOK'
  BY PeerManagerAssumption DEF PeersOK, PeerInv, States, OfferFails, timerVars
<1>2. PeerInv(r)'
  BY PeerManagerAssumption DEF PeersOK, PeerInv, States, NoTimer, Initiates, OfferFails, timerVars
<1>3. \A q \in Remotes \ {r} : Kept(q)
  BY PeerManagerAssumption DEF PeersOK, PeerInv, Kept, OfferFails, timerVars
<1> QED BY <1>1, <1>2, <1>3 DEF Steps

\* handleFailure of a peer that has no retry yet either gives it up or schedules
\* one: in both cases what holds of the peer still does.
LEMMA HandleFailureInv ==
  ASSUME PeersOK, NEW r \in Remotes, PeerInv(r), pc[r] # 0, retryT[r] = 0,
         NEW offer \in [Remotes -> 0..5], NEW grace \in [Remotes -> 0..5],
         NEW st \in States, st # "connected", offering[r] = 0,
         HandleFailure(r, offer, grace, st)
  PROVE  PeerInv(r)'
<1>1. CASE ClosePC(r)
  BY <1>1 DEF PeersOK, PeerInv, NoTimer, ClosePC, PutPC, Untrack, ClearTimers, Offering
<1>2. CASE ~ Exhausted(r)
  <2>1. /\ tracked' = [tracked EXCEPT ![r] = TRUE]
        /\ offerT' = [offer EXCEPT ![r] = 0] /\ graceT' = [grace EXCEPT ![r] = 0]
        /\ retryT' = [retryT EXCEPT ![r] = pc[r]] /\ state' = [state EXCEPT ![r] = st]
        /\ UNCHANGED <<pc, described, offering>>
    BY <1>2 DEF HandleFailure
  <2> QED BY <2>1 DEF PeersOK, PeerInv, NoTimer, Initiates
<1> QED BY <1>1, <1>2 DEF HandleFailure

LEMMA OfferTimeoutSteps ==
  ASSUME PeersOK, NEW r \in Remotes, PeerInv(r), OfferTimeout(r)
  PROVE  Steps(r)
<1>1. PeersOK'
  <2> DEFINE offer == [offerT EXCEPT ![r] = 0]
  <2>1. offer \in [Remotes -> 0..5] /\ state[r] \in States
    BY DEF PeersOK
  <2>2. CASE HandleFailure(r, offer, graceT, state[r]) /\ asked' = asked
    <3> HIDE DEF offer
    <3> QED BY <2>1, <2>2, HandleFailureType DEF PeersOK
  <2>3. CASE offerT' = offer /\ UNCHANGED <<pc, state, described, applying, broken, offering,
                                            tracked, attempts, graceT, retryT, asked>>
    BY <2>1, <2>3 DEF PeersOK
  <2> QED BY <2>2, <2>3 DEF OfferTimeout
<1>2. PeerInv(r)'
  <2>1. offerT[r] = pc[r] /\ pc[r] # 0 /\ retryT[r] = 0 /\ offering[r] = 0
    BY DEF OfferTimeout, PeerInv, NoTimer
  <2>2. state[r] # "connected" /\ state[r] \in States
    BY <2>1 DEF PeerInv, NoTimer, PeersOK
  <2>3. HandleFailure(r, [offerT EXCEPT ![r] = 0], graceT, state[r])
    BY <2>1 DEF OfferTimeout
  <2>4. [offerT EXCEPT ![r] = 0] \in [Remotes -> 0..5]
    BY DEF PeersOK
  <2> QED BY <2>1, <2>2, <2>3, <2>4, HandleFailureInv DEF PeersOK
<1>3. \A q \in Remotes \ {r} : Kept(q)
  BY PeerManagerAssumption DEF PeersOK, PeerInv, Kept, OfferTimeout, HandleFailure, Exhausted, Counted, ClosePC, PutPC, Untrack, ClearTimers, Offering, bounds
<1> QED BY <1>1, <1>2, <1>3 DEF Steps

LEMMA GraceExpiresSteps ==
  ASSUME PeersOK, NEW r \in Remotes, PeerInv(r), GraceExpires(r)
  PROVE  Steps(r)
<1>1. PeersOK'
  <2> DEFINE grace == [graceT EXCEPT ![r] = 0]
  <2>1. grace \in [Remotes -> 0..5] /\ state[r] \in States
    BY DEF PeersOK
  <2>2. CASE HandleFailure(r, offerT, grace, state[r]) /\ asked' = asked
    <3> HIDE DEF grace
    <3> QED BY <2>1, <2>2, HandleFailureType DEF PeersOK
  <2>3. CASE graceT' = grace /\ UNCHANGED <<pc, state, described, applying, broken, offering,
                                            tracked, attempts, offerT, retryT, asked>>
    BY <2>1, <2>3 DEF PeersOK
  <2> QED BY <2>2, <2>3 DEF GraceExpires
<1>2. PeerInv(r)'
  <2>1. graceT[r] = pc[r] /\ pc[r] # 0 /\ retryT[r] = 0 /\ offering[r] = 0
    BY DEF GraceExpires, PeerInv, NoTimer
  <2>2. state[r] # "connected" /\ state[r] \in States
    BY <2>1 DEF PeerInv, NoTimer, PeersOK
  <2>3. HandleFailure(r, offerT, [graceT EXCEPT ![r] = 0], state[r])
    BY <2>1 DEF GraceExpires
  <2>4. [graceT EXCEPT ![r] = 0] \in [Remotes -> 0..5]
    BY DEF PeersOK
  <2> QED BY <2>1, <2>2, <2>3, <2>4, HandleFailureInv DEF PeersOK
<1>3. \A q \in Remotes \ {r} : Kept(q)
  BY PeerManagerAssumption DEF PeersOK, PeerInv, Kept, GraceExpires, HandleFailure, Exhausted, Counted, ClosePC, PutPC, Untrack, ClearTimers, Offering, bounds
<1> QED BY <1>1, <1>2, <1>3 DEF Steps

LEMMA RetryDueSteps ==
  ASSUME PeersOK, NEW r \in Remotes, PeerInv(r), RetryDue(r)
  PROVE  Steps(r)
<1>0. Fresh(r) \in 0..5 /\ Fresh(r) # 0 /\ Fresh(r) # pc[r]
  BY FreshIsNew
<1>1. PeersOK'
  <2> DEFINE id == Fresh(r)
  <2>1. retryT' = [retryT EXCEPT ![r] = 0]
        /\ UNCHANGED <<tracked, attempts, offerT, graceT, asked>>
    BY DEF RetryDue
  <2>2. id \in 0..5 /\ pc[r] \in 0..5 /\ "new" \in States
    BY <1>0 DEF PeersOK, States
  <2>3. CASE PutPC(r, id) /\ Offering(r, id)
    <3> HIDE DEF id
    <3> QED BY <2>1, <2>2, <2>3 DEF PeersOK, PutPC, Offering
  <2>4. CASE Offering(r, pc[r]) /\ UNCHANGED <<pc, state, described, applying, broken>>
    BY <2>1, <2>2, <2>4 DEF PeersOK, Offering
  <2> QED BY <2>3, <2>4 DEF RetryDue
<1>2. PeerInv(r)'
  BY <1>0, PeerManagerAssumption DEF PeersOK, PeerInv, States, NoTimer, Initiates, RetryDue, PutPC, Offering, bounds
<1>3. \A q \in Remotes \ {r} : Kept(q)
  BY <1>0, PeerManagerAssumption DEF PeersOK, PeerInv, Kept, RetryDue, PutPC, Offering, bounds
<1> QED BY <1>1, <1>2, <1>3 DEF Steps

LEMMA ConnectedSteps ==
  ASSUME PeersOK, NEW r \in Remotes, PeerInv(r), Connected(r)
  PROVE  Steps(r)
<1>1. PeersOK'
  BY PeerManagerAssumption DEF PeersOK, PeerInv, States, Connected, ClearTimers, timerVars, bounds
<1>2. PeerInv(r)'
  BY PeerManagerAssumption DEF PeersOK, PeerInv, States, NoTimer, Initiates, Connected, ClearTimers, timerVars, bounds
<1>3. \A q \in Remotes \ {r} : Kept(q)
  BY PeerManagerAssumption DEF PeersOK, PeerInv, Kept, Connected, ClearTimers, timerVars, bounds
<1> QED BY <1>1, <1>2, <1>3 DEF Steps

LEMMA DisconnectedSteps ==
  ASSUME PeersOK, NEW r \in Remotes, PeerInv(r), Disconnected(r)
  PROVE  Steps(r)
<1>1. PeersOK'
  BY PeerManagerAssumption DEF PeersOK, PeerInv, States, Disconnected, Dropped
<1>2. PeerInv(r)'
  BY PeerManagerAssumption DEF PeersOK, PeerInv, States, NoTimer, Initiates, Disconnected, Dropped
<1>3. \A q \in Remotes \ {r} : Kept(q)
  BY PeerManagerAssumption DEF PeersOK, PeerInv, Kept, Disconnected, Dropped
<1> QED BY <1>1, <1>2, <1>3 DEF Steps

LEMMA FailedSteps ==
  ASSUME PeersOK, NEW r \in Remotes, PeerInv(r), Failed(r)
  PROVE  Steps(r)
<1>1. PeersOK'
  BY HandleFailureType DEF Failed, PeersOK, States
<1>2. PeerInv(r)'
  BY PeerManagerAssumption DEF PeersOK, PeerInv, States, NoTimer, Initiates, Failed, HandleFailure, Exhausted, Counted, ClosePC, PutPC, Untrack, ClearTimers, Offering, Dropped, bounds
<1>3. \A q \in Remotes \ {r} : Kept(q)
  BY PeerManagerAssumption DEF PeersOK, PeerInv, Kept, Failed, HandleFailure, Exhausted, Counted, ClosePC, PutPC, Untrack, ClearTimers, Offering, Dropped, bounds
<1> QED BY <1>1, <1>2, <1>3 DEF Steps
-----------------------------------------------------------------------------
\* What holds of the room.  A peer is counted at most once while none was counted
\* twice, and only a peer with a connection is.
RoomOK ==
  /\ active \in Nat /\ alive \in BOOLEAN /\ swapped \in BOOLEAN
  /\ recounted \in BOOLEAN /\ counted \subseteq Remotes
  /\ connected = (active > 0)
  /\ events \in 0..MaxEvents /\ drops \in 0..MaxDrops /\ errors \in 0..MaxErrors

Counts ==
  /\ \A r \in counted : pc[r] # 0
  /\ ~ recounted => active <= Cardinality(counted)
  /\ ~ alive /\ active = 0 => swapped

\* Counting down removes the peer from those counted and takes one from active,
\* which stays natural.
LEMMA DisconnKeeps ==
  ASSUME RoomOK, Counts, NEW r \in Remotes, Disconn(r)
  PROVE  /\ active' = IF active = 0 THEN 0 ELSE active - 1
         /\ connected' = (active' > 0)
         /\ counted' \subseteq Remotes /\ counted' = counted \ {r}
         /\ swapped' \in BOOLEAN /\ alive' = alive /\ recounted' = recounted
         /\ ~ alive' /\ active' = 0 => swapped'
<1> DEFINE n == IF active = 0 THEN 0 ELSE active - 1
<1>1. Max({0, active - 1}) = n
  <2>1. n \in {0, active - 1} /\ \A x \in {0, active - 1} : n >= x
    BY DEF RoomOK
  <2>2. \A m \in {0, active - 1} : (\A x \in {0, active - 1} : m >= x) => m = n
    BY DEF RoomOK
  <2> HIDE DEF n
  <2> QED BY <2>1, <2>2 DEF Max
<1>2. active' = n
  BY <1>1 DEF Disconn
<1>3. connected' = (connected /\ n > 0)
  BY <1>1 DEF Disconn
<1>4. swapped' = (swapped \/ Swaps(alive, n))
  BY <1>1 DEF Disconn
<1>5. n > 0 => active > 0
  BY DEF RoomOK
<1>6. connected' = (active' > 0)
  <2>1. connected' = (active > 0 /\ n > 0)
    BY <1>3 DEF RoomOK
  <2> HIDE DEF n
  <2> QED BY <2>1, <1>2, <1>5
<1>7. ~ alive' /\ active' = 0 => swapped'
  <2>1. alive' = alive
    BY DEF Disconn
  <2> HIDE DEF n
  <2> QED BY <2>1, <1>2, <1>4 DEF Swaps, RoomOK
<1>8. swapped' \in BOOLEAN
  BY <1>4 DEF RoomOK, Swaps
<1> QED BY <1>2, <1>6, <1>7, <1>8 DEF Disconn, RoomOK

\* With fewer peers counted, the count still bounds active.
LEMMA OneLess ==
  ASSUME RoomOK, Counts, NEW r \in Remotes, ~ recounted,
         NEW n, n = IF active = 0 THEN 0 ELSE active - 1
  PROVE  n <= Cardinality(counted \ {r})
<1>1. IsFiniteSet(counted)
  BY PeerManagerAssumption, FS_Subset DEF RoomOK
<1>2. IsFiniteSet(counted \ {r}) /\ Cardinality(counted) \in Nat
      /\ Cardinality(counted \ {r}) \in Nat
  BY <1>1, FS_CardinalityType, FS_RemoveElement
<1>3. CASE r \in counted
  <2>1. Cardinality(counted \ {r}) = Cardinality(counted) - 1
    BY <1>1, <1>3, FS_RemoveElement
  <2> QED BY <1>2, <2>1 DEF RoomOK, Counts
<1>4. CASE r \notin counted
  <2>1. Cardinality(counted \ {r}) = Cardinality(counted)
    <3>1. counted \ {r} = counted
      BY <1>4
    <3> QED BY <3>1, Zenon
  <2>2. active \in Nat /\ active <= Cardinality(counted)
    BY DEF RoomOK, Counts
  <2> DEFINE c == Cardinality(counted)
             d == Cardinality(counted \ {r})
  <2>3. c \in Nat /\ d = c /\ active <= c
    BY <1>2, <2>1, <2>2
  <2> HIDE DEF c, d
  <2>4. n <= d
    BY <2>2, <2>3
  <2> QED BY <2>4 DEF d
<1> QED BY <1>3, <1>4

\* A peer that is given up, or that left, is counted down: the room stays right.
LEMMA GiveUp ==
  ASSUME PeersOK, RoomOK, Counts, NEW r \in Remotes, ClosePC(r), Disconn(r),
         (events \in 0..MaxEvents)', (drops \in 0..MaxDrops)', (errors \in 0..MaxErrors)'
  PROVE  RoomOK' /\ Counts'
<1>1. RoomOK'
  BY DisconnKeeps DEF RoomOK
<1>2. Counts'
  <2>1. \A q \in counted' : pc'[q] # 0
    BY DisconnKeeps DEF Counts, ClosePC, PutPC, PeersOK, RoomOK
  <2>2. ~ recounted' => active' <= Cardinality(counted')
    <3> SUFFICES ASSUME ~ recounted PROVE active' <= Cardinality(counted \ {r})
      BY DisconnKeeps
    <3> QED BY DisconnKeeps, OneLess
  <2>3. ~ alive' /\ active' = 0 => swapped'
    BY DisconnKeeps
  <2> QED BY <2>1, <2>2, <2>3 DEF Counts
<1> QED BY <1>1, <1>2

\* A step that leaves the room and keeps a connection where there was one.
LEMMA RoomKept ==
  ASSUME RoomOK, Counts, UNCHANGED roomVars,
         \A r \in Remotes : pc[r] # 0 => pc'[r] # 0,
         (events \in 0..MaxEvents)', (drops \in 0..MaxDrops)', (errors \in 0..MaxErrors)'
  PROVE  RoomOK' /\ Counts'
BY DEF RoomOK, Counts, roomVars
-----------------------------------------------------------------------------
\* The actions that change the room: a connection comes up, and a peer is given up
\* or has left; the other actions leave it.
LEMMA PutPCKeeps ==
  ASSUME PeersOK, NEW r \in Remotes, NEW id, id # 0, PutPC(r, id)
  PROVE  \A q \in Remotes : pc[q] # 0 => pc'[q] # 0
BY DEF PeersOK, PutPC

LEMMA RelayBounds ==
  ASSUME RoomOK, FromRelay
  PROVE  (events \in 0..MaxEvents)' /\ (drops \in 0..MaxDrops)' /\ (errors \in 0..MaxErrors)'
BY PeerManagerAssumption DEF RoomOK, FromRelay

LEMMA ConnectedRoom ==
  ASSUME PeersOK, RoomOK, Counts, NEW r \in Remotes, Connected(r)
  PROVE  RoomOK' /\ Counts'
<1>1. IsFiniteSet(counted)
  BY PeerManagerAssumption, FS_Subset DEF RoomOK
<1>2. /\ active' = active + 1 /\ connected' = TRUE
      /\ counted' = counted \cup {r} /\ recounted' = (recounted \/ r \in counted)
      /\ pc[r] # 0 /\ UNCHANGED <<pc, alive, swapped, events, drops, errors>>
  BY DEF Connected, bounds
<1>3. connected' = (active' > 0)
  <2>1. active' > 0
    BY <1>2 DEF RoomOK
  <2> QED BY <1>2, <2>1
<1>4. RoomOK'
  BY <1>2, <1>3 DEF RoomOK
<1>5. ~ recounted' => active' <= Cardinality(counted')
  <2> SUFFICES ASSUME ~ recounted, r \notin counted
               PROVE  active + 1 <= Cardinality(counted \cup {r})
    BY <1>2
  <2>1. Cardinality(counted \cup {r}) = Cardinality(counted) + 1
    BY <1>1, FS_AddElement
  <2>2. Cardinality(counted) \in Nat /\ active \in Nat /\ active <= Cardinality(counted)
    BY <1>1, FS_CardinalityType DEF RoomOK, Counts
  <2> QED BY <2>1, <2>2
<1>6. active' # 0
  BY <1>2 DEF RoomOK
<1> QED BY <1>2, <1>4, <1>5, <1>6 DEF Counts

LEMMA HandleFailureRoom ==
  ASSUME PeersOK, RoomOK, Counts, NEW r \in Remotes, NEW offer, NEW grace, NEW st,
         HandleFailure(r, offer, grace, st),
         (events \in 0..MaxEvents)', (drops \in 0..MaxDrops)', (errors \in 0..MaxErrors)'
  PROVE  RoomOK' /\ Counts'
<1>1. CASE ClosePC(r) /\ Disconn(r)
  BY <1>1, GiveUp
<1>2. CASE UNCHANGED <<pc, roomVars>>
  BY <1>2, RoomKept
<1> QED BY <1>1, <1>2 DEF HandleFailure
LEMMA PeerJoinedRoom ==
  ASSUME PeersOK, RoomOK, Counts, NEW r \in Remotes, PeerInv(r), PeerJoined(r)
  PROVE  RoomOK' /\ Counts'
<1>1. (events \in 0..MaxEvents)' /\ (drops \in 0..MaxDrops)' /\ (errors \in 0..MaxErrors)'
  BY RelayBounds DEF PeerJoined
<1>2. UNCHANGED roomVars
  BY DEF PeerJoined
<1>3. \A q \in Remotes : pc[q] # 0 => pc'[q] # 0
  <2>1. CASE Healthy(r)
    BY <2>1 DEF PeerJoined, peerVars
  <2>2. CASE ~ Healthy(r)
    <3>1. PutPC(r, Fresh(r))
      BY <2>2 DEF PeerJoined
    <3> QED BY <3>1, FreshIsNew, PutPCKeeps
  <2> QED BY <2>1, <2>2
<1> QED BY <1>1, <1>2, <1>3, RoomKept

LEMMA PeerLeftRoom ==
  ASSUME PeersOK, RoomOK, Counts, NEW r \in Remotes, PeerInv(r), PeerLeft(r)
  PROVE  RoomOK' /\ Counts'
<1>1. (events \in 0..MaxEvents)' /\ (drops \in 0..MaxDrops)' /\ (errors \in 0..MaxErrors)'
  BY RelayBounds DEF PeerLeft
<1>2. CASE ClosePC(r) /\ Disconn(r)
  BY <1>1, <1>2, GiveUp
<1>3. CASE pc[r] = 0 /\ ClosePC(r) /\ UNCHANGED roomVars
  <2>1. \A q \in Remotes : pc[q] # 0 => pc'[q] # 0
    BY <1>3 DEF ClosePC, PutPC, PeersOK
  <2> QED BY <1>1, <1>3, <2>1, RoomKept
<1> QED BY <1>2, <1>3 DEF PeerLeft

LEMMA SdpOfferRoom ==
  ASSUME PeersOK, RoomOK, Counts, NEW r \in Remotes, PeerInv(r), SdpOffer(r)
  PROVE  RoomOK' /\ Counts'
<1>1. (events \in 0..MaxEvents)' /\ (drops \in 0..MaxDrops)' /\ (errors \in 0..MaxErrors)'
  BY RelayBounds DEF SdpOffer
<1>2. \A q \in Remotes : pc[q] # 0 => pc'[q] # 0
  BY FreshIsNew DEF SdpOffer, PeersOK
<1>3. UNCHANGED roomVars
  BY DEF SdpOffer
<1> QED BY <1>1, <1>2, <1>3, RoomKept

LEMMA SdpAnswerRoom ==
  ASSUME PeersOK, RoomOK, Counts, NEW r \in Remotes, PeerInv(r), SdpAnswer(r)
  PROVE  RoomOK' /\ Counts'
<1>1. (events \in 0..MaxEvents)' /\ (drops \in 0..MaxDrops)' /\ (errors \in 0..MaxErrors)'
  BY RelayBounds DEF SdpAnswer
<1>2. UNCHANGED <<pc, roomVars>>
  BY DEF SdpAnswer
<1> QED BY <1>1, <1>2, RoomKept

LEMMA AppliedRoom ==
  ASSUME PeersOK, RoomOK, Counts, NEW r \in Remotes, PeerInv(r), Applied(r)
  PROVE  RoomOK' /\ Counts'
<1>1. UNCHANGED <<pc, roomVars, bounds>>
  BY DEF Applied
<1> QED BY <1>1, RoomKept DEF RoomOK, bounds

LEMMA RefusedRoom ==
  ASSUME PeersOK, RoomOK, Counts, NEW r \in Remotes, PeerInv(r), Refused(r)
  PROVE  RoomOK' /\ Counts'
<1>1. UNCHANGED <<pc, roomVars, events, drops>>
  BY DEF Refused
<1>2. (errors \in 0..MaxErrors)'
  BY PeerManagerAssumption DEF Refused, RoomOK
<1> QED BY <1>1, <1>2, RoomKept DEF RoomOK

LEMMA OfferReadyRoom ==
  ASSUME PeersOK, RoomOK, Counts, NEW r \in Remotes, PeerInv(r), OfferReady(r)
  PROVE  RoomOK' /\ Counts'
<1>1. UNCHANGED <<pc, roomVars, bounds>>
  BY DEF OfferReady
<1> QED BY <1>1, RoomKept DEF RoomOK, bounds

LEMMA OfferFailsRoom ==
  ASSUME PeersOK, RoomOK, Counts, NEW r \in Remotes, PeerInv(r), OfferFails(r)
  PROVE  RoomOK' /\ Counts'
<1>1. UNCHANGED <<pc, roomVars, events, drops>>
  BY DEF OfferFails
<1>2. (errors \in 0..MaxErrors)'
  BY PeerManagerAssumption DEF OfferFails, RoomOK
<1> QED BY <1>1, <1>2, RoomKept DEF RoomOK

LEMMA OfferTimeoutRoom ==
  ASSUME PeersOK, RoomOK, Counts, NEW r \in Remotes, PeerInv(r), OfferTimeout(r)
  PROVE  RoomOK' /\ Counts'
<1>1. (events \in 0..MaxEvents)' /\ (drops \in 0..MaxDrops)' /\ (errors \in 0..MaxErrors)'
  BY DEF OfferTimeout, RoomOK, bounds
<1>2. CASE HandleFailure(r, [offerT EXCEPT ![r] = 0], graceT, state[r])
  BY <1>1, <1>2, HandleFailureRoom
<1>3. CASE UNCHANGED <<pc, roomVars>>
  BY <1>1, <1>3, RoomKept
<1> QED BY <1>2, <1>3 DEF OfferTimeout

LEMMA GraceExpiresRoom ==
  ASSUME PeersOK, RoomOK, Counts, NEW r \in Remotes, PeerInv(r), GraceExpires(r)
  PROVE  RoomOK' /\ Counts'
<1>1. (events \in 0..MaxEvents)' /\ (drops \in 0..MaxDrops)' /\ (errors \in 0..MaxErrors)'
  BY DEF GraceExpires, RoomOK, bounds
<1>2. CASE HandleFailure(r, offerT, [graceT EXCEPT ![r] = 0], state[r])
  BY <1>1, <1>2, HandleFailureRoom
<1>3. CASE UNCHANGED <<pc, roomVars>>
  BY <1>1, <1>3, RoomKept
<1> QED BY <1>2, <1>3 DEF GraceExpires

LEMMA RetryDueRoom ==
  ASSUME PeersOK, RoomOK, Counts, NEW r \in Remotes, PeerInv(r), RetryDue(r)
  PROVE  RoomOK' /\ Counts'
<1>1. (events \in 0..MaxEvents)' /\ (drops \in 0..MaxDrops)' /\ (errors \in 0..MaxErrors)'
  BY DEF RetryDue, RoomOK, bounds
<1>2. \A q \in Remotes : pc[q] # 0 => pc'[q] # 0
  <2>1. CASE PutPC(r, Fresh(r))
    BY <2>1, FreshIsNew, PutPCKeeps
  <2>2. CASE UNCHANGED pc
    BY <2>2
  <2> QED BY <2>1, <2>2 DEF RetryDue
<1>3. UNCHANGED roomVars
  BY DEF RetryDue
<1> QED BY <1>1, <1>2, <1>3, RoomKept

LEMMA DisconnectedRoom ==
  ASSUME PeersOK, RoomOK, Counts, NEW r \in Remotes, PeerInv(r), Disconnected(r)
  PROVE  RoomOK' /\ Counts'
<1>1. UNCHANGED <<pc, roomVars, events, errors>>
  BY DEF Disconnected, Dropped
<1>2. (drops \in 0..MaxDrops)'
  BY PeerManagerAssumption DEF Disconnected, Dropped, RoomOK
<1> QED BY <1>1, <1>2, RoomKept DEF RoomOK

LEMMA FailedRoom ==
  ASSUME PeersOK, RoomOK, Counts, NEW r \in Remotes, PeerInv(r), Failed(r)
  PROVE  RoomOK' /\ Counts'
<1>1. (events \in 0..MaxEvents)' /\ (drops \in 0..MaxDrops)' /\ (errors \in 0..MaxErrors)'
  BY PeerManagerAssumption DEF Failed, Dropped, RoomOK, bounds
<1>2. HandleFailure(r, offerT, graceT, "failed")
  BY DEF Failed
<1> QED BY <1>1, <1>2, HandleFailureRoom

-----------------------------------------------------------------------------
\* The inductive invariant: the peers one by one, and the room.
IInv == PeersOK /\ (\A r \in Remotes : PeerInv(r)) /\ RoomOK /\ Counts

LEMMA InitIInv == Init => IInv
<1> SUFFICES ASSUME Init PROVE IInv
  OBVIOUS
<1>1. PeersOK
  <2>1. 0 \in 0..5 /\ 0 \in 0..MaxRetries /\ "new" \in States
    BY PeerManagerAssumption DEF States
  <2> QED BY <2>1 DEF Init, PeersOK
<1>2. \A r \in Remotes : PeerInv(r)
  BY DEF Init, PeerInv, NoTimer
<1>3. RoomOK
  <2>1. connected = FALSE /\ active = 0
    BY DEF Init
  <2>2. (active > 0) = FALSE
    BY <2>1
  <2>3. connected = (active > 0)
    BY <2>1, <2>2
  <2>4. /\ active \in Nat /\ alive \in BOOLEAN /\ swapped \in BOOLEAN
        /\ recounted \in BOOLEAN /\ counted \subseteq Remotes
    BY DEF Init
  <2>5. events \in 0..MaxEvents /\ drops \in 0..MaxDrops /\ errors \in 0..MaxErrors
    BY PeerManagerAssumption DEF Init
  <2> QED BY <2>3, <2>4, <2>5 DEF RoomOK
<1>4. Counts
  BY FS_EmptySet DEF Init, Counts
<1> QED BY <1>1, <1>2, <1>3, <1>4 DEF IInv

LEMMA ActionKeeps ==
  ASSUME PeersOK, RoomOK, Counts, NEW r \in Remotes, PeerInv(r),
         \/ PeerJoined(r) \/ PeerLeft(r) \/ SdpOffer(r) \/ SdpAnswer(r)
         \/ Applied(r) \/ Refused(r)
         \/ OfferReady(r) \/ OfferFails(r)
         \/ OfferTimeout(r) \/ GraceExpires(r) \/ RetryDue(r)
         \/ Connected(r) \/ Disconnected(r) \/ Failed(r)
  PROVE  Steps(r) /\ RoomOK' /\ Counts'
<1>1. CASE PeerJoined(r)
  <2>1. Steps(r)
    BY <1>1, PeerJoinedSteps
  <2>2. RoomOK' /\ Counts'
    BY <1>1, PeerJoinedRoom
  <2> QED BY <2>1, <2>2
<1>2. CASE PeerLeft(r)
  <2>1. Steps(r)
    BY <1>2, PeerLeftSteps
  <2>2. RoomOK' /\ Counts'
    BY <1>2, PeerLeftRoom
  <2> QED BY <2>1, <2>2
<1>3. CASE SdpOffer(r)
  <2>1. Steps(r)
    BY <1>3, SdpOfferSteps
  <2>2. RoomOK' /\ Counts'
    BY <1>3, SdpOfferRoom
  <2> QED BY <2>1, <2>2
<1>4. CASE SdpAnswer(r)
  <2>1. Steps(r)
    BY <1>4, SdpAnswerSteps
  <2>2. RoomOK' /\ Counts'
    BY <1>4, SdpAnswerRoom
  <2> QED BY <2>1, <2>2
<1>5. CASE OfferReady(r)
  <2>1. Steps(r)
    BY <1>5, OfferReadySteps
  <2>2. RoomOK' /\ Counts'
    BY <1>5, OfferReadyRoom
  <2> QED BY <2>1, <2>2
<1>6. CASE OfferFails(r)
  <2>1. Steps(r)
    BY <1>6, OfferFailsSteps
  <2>2. RoomOK' /\ Counts'
    BY <1>6, OfferFailsRoom
  <2> QED BY <2>1, <2>2
<1>7. CASE OfferTimeout(r)
  <2>1. Steps(r)
    BY <1>7, OfferTimeoutSteps
  <2>2. RoomOK' /\ Counts'
    BY <1>7, OfferTimeoutRoom
  <2> QED BY <2>1, <2>2
<1>8. CASE GraceExpires(r)
  <2>1. Steps(r)
    BY <1>8, GraceExpiresSteps
  <2>2. RoomOK' /\ Counts'
    BY <1>8, GraceExpiresRoom
  <2> QED BY <2>1, <2>2
<1>9. CASE RetryDue(r)
  <2>1. Steps(r)
    BY <1>9, RetryDueSteps
  <2>2. RoomOK' /\ Counts'
    BY <1>9, RetryDueRoom
  <2> QED BY <2>1, <2>2
<1>10. CASE Connected(r)
  <2>1. Steps(r)
    BY <1>10, ConnectedSteps
  <2>2. RoomOK' /\ Counts'
    BY <1>10, ConnectedRoom
  <2> QED BY <2>1, <2>2
<1>11. CASE Disconnected(r)
  <2>1. Steps(r)
    BY <1>11, DisconnectedSteps
  <2>2. RoomOK' /\ Counts'
    BY <1>11, DisconnectedRoom
  <2> QED BY <2>1, <2>2
<1>12. CASE Failed(r)
  <2>1. Steps(r)
    BY <1>12, FailedSteps
  <2>2. RoomOK' /\ Counts'
    BY <1>12, FailedRoom
  <2> QED BY <2>1, <2>2
<1>13. CASE Applied(r)
  <2>1. Steps(r)
    BY <1>13, AppliedSteps
  <2>2. RoomOK' /\ Counts'
    BY <1>13, AppliedRoom
  <2> QED BY <2>1, <2>2
<1>14. CASE Refused(r)
  <2>1. Steps(r)
    BY <1>14, RefusedSteps
  <2>2. RoomOK' /\ Counts'
    BY <1>14, RefusedRoom
  <2> QED BY <2>1, <2>2
<1> QED BY <1>1, <1>2, <1>3, <1>4, <1>5, <1>6, <1>7, <1>8, <1>9, <1>10, <1>11, <1>12,
           <1>13, <1>14

LEMMA NextIInv == IInv /\ [Next]_vars => IInv'
<1> SUFFICES ASSUME IInv, [Next]_vars PROVE IInv'
  OBVIOUS
<1>1. CASE UNCHANGED vars
  <2>1. /\ UNCHANGED <<pc, state, described, applying, broken, offering, tracked, attempts, asked>>
        /\ UNCHANGED <<offerT, graceT, retryT>> /\ UNCHANGED roomVars
        /\ UNCHANGED <<events, drops, errors>>
    BY <1>1 DEF vars, peerVars, timerVars, bounds
  <2> QED BY <2>1 DEF IInv, PeersOK, PeerInv, NoTimer, RoomOK, Counts, roomVars
<1>2. CASE SignalingClosed
  <2>1. /\ UNCHANGED <<pc, state, described, applying, broken, offering, tracked, attempts, asked>>
        /\ UNCHANGED <<offerT, graceT, retryT, active, connected, counted, recounted>>
        /\ UNCHANGED <<events, drops, errors>> /\ alive' = FALSE
        /\ swapped' = (active = 0)
    BY <1>2 DEF SignalingClosed, Swaps, peerVars, timerVars, bounds
  <2> QED BY <2>1 DEF IInv, PeersOK, PeerInv, NoTimer, RoomOK, Counts
<1>3. ASSUME NEW r \in Remotes,
             \/ PeerJoined(r) \/ PeerLeft(r) \/ SdpOffer(r) \/ SdpAnswer(r)
             \/ Applied(r) \/ Refused(r)
             \/ OfferReady(r) \/ OfferFails(r)
             \/ OfferTimeout(r) \/ GraceExpires(r) \/ RetryDue(r)
             \/ Connected(r) \/ Disconnected(r) \/ Failed(r)
      PROVE  IInv'
  <2>1. Steps(r) /\ RoomOK' /\ Counts'
    BY <1>3, ActionKeeps DEF IInv
  <2>2. (\A q \in Remotes : PeerInv(q))'
    BY <2>1, OnePeer DEF IInv, Steps
  <2> QED BY <2>1, <2>2 DEF IInv, Steps
<1> QED BY <1>1, <1>2, <1>3 DEF Next

LEMMA Invariance == Spec => []IInv
BY InitIInv, NextIInv, PTL DEF Spec

\* Everything the manager and the room keep has its type, for any peers and bounds.
THEOREM TypeCorrect == Spec => []TypeOK
<1>1. IInv => TypeOK
  BY DEF IInv, PeersOK, RoomOK, TypeOK, States
<1> QED BY <1>1, Invariance, PTL

\* No timer, retry or awaited offer of a peer outlives the connection it was
\* started for (closePC, clearPeerTimers and executeRetry of peer-connection.ts).
THEOREM TimersCorrect == Spec => []TimersAreCurrent
<1>1. IInv => TimersAreCurrent
  BY DEF IInv, PeerInv, TimersAreCurrent
<1> QED BY <1>1, Invariance, PTL

\* An initiator always has an offer, an answer being applied, a timeout or a retry
\* ahead of it, unless its offer could not be created or an answer was refused.
THEOREM PursuedCorrect == Spec => []InitiatorIsPursued
<1>1. IInv => InitiatorIsPursued
  BY DEF IInv, PeerInv, InitiatorIsPursued
<1> QED BY <1>1, Invariance, PTL

\* A connection that went down has its grace period or its retry ahead of it, and
\* one that is up is disturbed by no timer.
THEOREM DownCorrect == Spec => []DownIsHandled
<1>1. IInv => DownIsHandled
  BY DEF IInv, PeerInv, NoTimer, DownIsHandled
<1> QED BY <1>1, Invariance, PTL

\* The room of a dead signaling stream is replaced when its last peer goes, if no
\* peer was counted twice: active is then at most the number of peers counted,
\* who all have a connection.
THEOREM RoomReplaced == Spec => []DeadRoomIsReplaced
<1>1. IInv => DeadRoomIsReplaced
  <2> SUFFICES ASSUME IInv, ~ alive, ~ recounted, \A r \in Remotes : pc[r] = 0
               PROVE  swapped
    BY DEF DeadRoomIsReplaced
  <2>1. counted = {}
    BY DEF IInv, Counts, RoomOK
  <2>2. Cardinality(counted) = 0
    BY <2>1, FS_EmptySet
  <2>3. active = 0
    BY <2>2 DEF IInv, Counts, RoomOK
  <2> QED BY <2>3 DEF IInv, Counts
<1> QED BY <1>1, Invariance, PTL
=============================================================================
