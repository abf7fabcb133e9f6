---------------------------- MODULE RelaySignaling ----------------------------
(***************************************************************************)
(* The signaling relays and one room: node/src/signaling/registry.ts,      *)
(* handler.ts and relay-forward.ts, with the part of the browser's         *)
(* signaling client (sync/src/signaling/client.ts) that joins and leaves.  *)
(*                                                                         *)
(*   Open       a browser opens a stream to a relay and joins the room     *)
(*   Leave      it leaves the room and closes the stream                   *)
(*   Break      a stream fails; what was not sent yet is lost              *)
(*   Process    a relay takes the next frame of a stream, or its end       *)
(*   Gossip     a relay takes the next message of another relay            *)
(*   Restart    a relay restarts with an empty registry                    *)
(*                                                                         *)
(* A browser may hold a stream to several relays at once (the multi-relay  *)
(* room), and an old stream may still be open at the relay when a new one  *)
(* joins.  Frames of a stream and messages between two relays keep their   *)
(* order; the payload of SIGNAL is what a relay tells a member of another. *)
(***************************************************************************)
EXTENDS Integers, Sequences, FiniteSets, SequencesExt

CONSTANTS
  Relays,       \* relays of the network
  Browsers,     \* peers of the room
  MaxStreams,   \* bound on the streams of a browser to a relay
  MaxOpened,    \* bound on the streams of a run
  MaxRestarts,  \* bound on restarts of relays
  None,         \* no entry
  Virtual       \* an entry whose send() publishes to the other relays

ASSUME SignalingAssumption ==
  /\ {MaxStreams, MaxOpened, MaxRestarts} \subseteq Nat
  /\ None # Virtual
  /\ None \notin Relays
  /\ IsFiniteSet(Relays) /\ IsFiniteSet(Browsers)

Streams == Browsers \X Relays \X (1..MaxStreams)
Owner(s) == s[1]
At(s)    == s[2]

ASSUME EntriesAssumption == {None, Virtual} \cap Streams = {}

VARIABLES
  up,         \* up[s]: frames under way to the relay, then "end"
  phase,      \* phase[s]: "none", "open" or, once the browser is done with it, "closed"
  reg,        \* reg[r][b]: the entry of b in the room at relay r
  remote,     \* remote[r][b]: the relay that owns the remote peer b, as r knows it
  link,       \* link[a][r]: messages of relay a under way to relay r
  told,       \* told[s]: peers that joined and did not leave, as s was told
  opened,     \* streams opened so far
  restarts    \* restarts so far

vars == <<up, phase, reg, remote, link, told, opened, restarts>>

Init ==
  /\ up = [s \in Streams |-> <<>>]
  /\ phase = [s \in Streams |-> "none"]
  /\ reg = [r \in Relays |-> [b \in Browsers |-> None]]
  /\ remote = [r \in Relays |-> [b \in Browsers |-> None]]
  /\ link = [a \in Relays |-> [r \in Relays |-> <<>>]]
  /\ told = [s \in Streams |-> {}]
  /\ opened = 0 /\ restarts = 0

-----------------------------------------------------------------------------
(* The browser: one room per relay.  Negotiating a stream takes a round     *)
(* trip, so of an earlier stream to the relay only the end may be late.     *)
Open(s) ==
  /\ phase[s] = "none" /\ opened < MaxOpened
  /\ \A n \in 1..(s[3] - 1) : LET t == <<Owner(s), At(s), n>> IN
       phase[t] = "closed" /\ up[t] \in {<<>>, <<"end">>}
  /\ opened' = opened + 1
  /\ phase' = [phase EXCEPT ![s] = "open"]
  /\ up' = [up EXCEPT ![s] = <<"join">>]
  /\ UNCHANGED <<reg, remote, link, told, restarts>>

(* destroy(): LEAVE_ROOM, then the outbound queue is flushed and closed *)
Leave(s) ==
  /\ phase[s] = "open"
  /\ phase' = [phase EXCEPT ![s] = "closed"]
  /\ up' = [up EXCEPT ![s] = @ \o <<"leave", "end">>]
  /\ UNCHANGED <<reg, remote, link, told, opened, restarts>>

Break(s) ==
  /\ phase[s] = "open"
  /\ phase' = [phase EXCEPT ![s] = "closed"]
  /\ \E n \in 0..Len(up[s]) : up' = [up EXCEPT ![s] = Append(SubSeq(@, 1, n), "end")]
  /\ UNCHANGED <<reg, remote, link, told, opened, restarts>>

-----------------------------------------------------------------------------
Members(r) == {b \in Browsers : reg[r][b] # None}

Join(r, b)        == [type |-> "join", owner |-> r, peer |-> b]
Gone(r, b)        == [type |-> "leave", owner |-> r, peer |-> b]
Signal(b, what, p) == [type |-> "signal", target |-> b, what |-> what, peer |-> p]

(* publish(): every other relay gets the messages *)
Published(l, r, msgs) ==
  [l EXCEPT ![r] = [a \in Relays |-> IF a = r THEN <<>> ELSE @[a] \o msgs]]

(* member.send() to a set of members: a local one is told on its stream, a *)
(* virtual one by a SIGNAL through the other relays.                       *)
Hears(t, s, what, p) ==
  [t EXCEPT ![s] = IF what = "joined" THEN @ \cup {p} ELSE @ \ {p}]

ToldLocally(entries, members, what, p) ==
  [s \in Streams |->
     IF Owner(s) \in members /\ entries[Owner(s)] = s
       THEN Hears(told, s, what, p)[s]
       ELSE told[s]]

Relayed(entries, members, what, p) ==
  LET far == {b \in members : entries[b] = Virtual}
  IN SetToSeq({Signal(b, what, p) : b \in far})

(* JOIN_ROOM: members are told of the joiner and the joiner of them, the    *)
(* entry is replaced, and the other relays are told.                        *)
Cleared_Not(known, b) == known

Cleared(known, b) == [known EXCEPT ![b] = None]

OnJoin(s) ==
  LET r == At(s)
      b == Owner(s)
      existing == Members(r)
  IN /\ told' = [ToldLocally(reg[r], existing, "joined", b) EXCEPT ![s] = existing]
     /\ link' = Published(link, r,
                  Append(Relayed(reg[r], existing, "joined", b), Join(r, b)))
     /\ reg' = [reg EXCEPT ![r][b] = s]
     /\ remote' = [remote EXCEPT ![r] = Cleared(@, b)]

(* What follows a departure: the other relays and the members are told. *)
Departed(r, b, entries) ==
  LET rest == {m \in Browsers : entries[m] # None}
  IN /\ reg' = [reg EXCEPT ![r] = entries]
     /\ told' = ToldLocally(entries, rest, "left", b)
     /\ link' = Published(link, r, <<Gone(r, b)>> \o Relayed(entries, rest, "left", b))
     /\ UNCHANGED remote

(* LEAVE_ROOM removes whatever entry the peer has *)
OnLeave(s) == Departed(At(s), Owner(s), [reg[At(s)] EXCEPT ![Owner(s)] = None])

(* cleanup(): only the entry of this stream is removed *)
OnEnd_AnyStream(s) ==
  IF reg[At(s)][Owner(s)] # None
    THEN Departed(At(s), Owner(s), [reg[At(s)] EXCEPT ![Owner(s)] = None])
    ELSE UNCHANGED <<reg, told, link, remote>>

OnEnd(s) ==
  IF reg[At(s)][Owner(s)] = s
    THEN Departed(At(s), Owner(s), [reg[At(s)] EXCEPT ![Owner(s)] = None])
    ELSE UNCHANGED <<reg, told, link, remote>>

Process(s) ==
  /\ up[s] # <<>>
  /\ up' = [up EXCEPT ![s] = Tail(@)]
  /\ \/ Head(up[s]) = "join" /\ OnJoin(s)
     \/ Head(up[s]) = "leave" /\ OnLeave(s)
     \/ Head(up[s]) = "end" /\ OnEnd(s)
  /\ UNCHANGED <<phase, opened, restarts>>

-----------------------------------------------------------------------------
(* handleRemoteJoin: local members are told, a virtual entry takes the      *)
(* place of any other, and the local members are announced in return.       *)
(* The order of the members is that of the registry.                        *)
Locals(r, known) == {b \in Members(r) : known[b] = None}

Announced_Not(r, locals) == <<>>

Announced(r, locals) == SetToSeq({Join(r, b) : b \in locals})

RemoteJoin(a, r, msg) ==
  LET b      == msg.peer
      known  == [remote[r] EXCEPT ![b] = msg.owner]
      locals == Locals(r, known)
      taken  == [link EXCEPT ![a][r] = Tail(@)]
  IN IF remote[r][b] = msg.owner
       THEN /\ link' = taken
            /\ UNCHANGED <<reg, remote, told>>
       ELSE /\ remote' = [remote EXCEPT ![r] = known]
            /\ reg' = [reg EXCEPT ![r][b] = Virtual]
            /\ told' = ToldLocally(reg[r], locals, "joined", b)
            /\ link' = Published(taken, r, Announced(r, locals))

(* handleRemoteLeave: only from the relay that owns the peer *)
Disowned_Not(known, b) == known

Disowned(known, b) == [known EXCEPT ![b] = None]

RemoteLeave(a, r, msg) ==
  LET known   == Disowned(remote[r], msg.peer)
      entries == [reg[r] EXCEPT ![msg.peer] = None]
      rest    == {m \in Browsers : entries[m] # None /\ known[m] = None}
  IN /\ link' = [link EXCEPT ![a][r] = Tail(@)]
     /\ IF remote[r][msg.peer] = msg.owner
          THEN /\ remote' = [remote EXCEPT ![r] = known]
               /\ reg' = [reg EXCEPT ![r] = entries]
               /\ told' = ToldLocally(entries, rest, "left", msg.peer)
          ELSE UNCHANGED <<reg, remote, told>>

(* handleRemoteSignal, and sendTo() at the relay of the sender: the stream  *)
(* on which a message for b that reaches relay r comes out.                 *)
LocalTarget(r, b) == IF remote[r][b] = None /\ reg[r][b] \in Streams THEN {reg[r][b]} ELSE {}

RemoteSignal(a, r, msg) ==
  /\ link' = [link EXCEPT ![a][r] = Tail(@)]
  /\ told' = [s \in Streams |->
                IF s \in LocalTarget(r, msg.target)
                  THEN Hears(told, s, msg.what, msg.peer)[s] ELSE told[s]]
  /\ UNCHANGED <<reg, remote>>

Reached(r, b) ==
  IF reg[r][b] = Virtual THEN UNION {LocalTarget(a, b) : a \in Relays \ {r}}
                         ELSE {reg[r][b]} \ {None}

Gossip(a, r) ==
  /\ link[a][r] # <<>>
  /\ LET msg == Head(link[a][r]) IN
       \/ msg.type = "join" /\ RemoteJoin(a, r, msg)
       \/ msg.type = "leave" /\ RemoteLeave(a, r, msg)
       \/ msg.type = "signal" /\ RemoteSignal(a, r, msg)
  /\ UNCHANGED <<up, phase, opened, restarts>>

(* The registry and the remote peers are in memory; its streams end. *)
Restart(r) ==
  /\ restarts < MaxRestarts
  /\ restarts' = restarts + 1
  /\ reg' = [reg EXCEPT ![r] = [b \in Browsers |-> None]]
  /\ remote' = [remote EXCEPT ![r] = [b \in Browsers |-> None]]
  /\ link' = [a \in Relays |-> [x \in Relays |-> IF r \in {a, x} THEN <<>> ELSE link[a][x]]]
  /\ phase' = [s \in Streams |-> IF At(s) = r /\ phase[s] = "open" THEN "closed" ELSE phase[s]]
  /\ up' = [s \in Streams |-> IF At(s) = r THEN <<>> ELSE up[s]]
  /\ UNCHANGED <<told, opened>>

Next ==
  \/ \E s \in Streams : Open(s) \/ Leave(s) \/ Break(s) \/ Process(s)
  \/ \E a, r \in Relays : Gossip(a, r)
  \/ \E r \in Relays : Restart(r)

Spec == Init /\ [][Next]_vars

-----------------------------------------------------------------------------
Messages ==
  [type : {"join", "leave"}, owner : Relays, peer : Browsers]
  \cup [type : {"signal"}, target : Browsers, what : {"joined", "left"}, peer : Browsers]

(* Type invariant. *)
TypeOK ==
  /\ up \in [Streams -> Seq({"join", "leave", "end"})]
  /\ phase \in [Streams -> {"none", "open", "closed"}]
  /\ reg \in [Relays -> [Browsers -> Streams \cup {None, Virtual}]]
  /\ remote \in [Relays -> [Browsers -> Relays \cup {None}]]
  /\ link \in [Relays -> [Relays -> Seq(Messages)]]
  /\ told \in [Streams -> SUBSET Browsers]
  /\ opened \in 0..MaxOpened /\ restarts \in 0..MaxRestarts

(* What a relay holds for a peer agrees with whom it believes to own it: a  *)
(* local entry has no remote owner, so its messages are delivered here, and *)
(* a virtual one has an owner that may remove it.                           *)
TablesAgree ==
  \A r \in Relays, b \in Browsers :
    /\ reg[r][b] \in Streams => remote[r][b] = None
    /\ reg[r][b] = Virtual => remote[r][b] \in Relays \ {r}

(* An entry belongs to a stream whose end the relay has not seen yet, and   *)
(* an old stream that ends does not leave the entry of another behind.      *)
RegisteredIsLive ==
  \A r \in Relays, b \in Browsers :
    reg[r][b] \in Streams =>
      LET s == reg[r][b]
      IN Owner(s) = b /\ At(s) = r /\ (phase[s] = "open" \/ up[s] # <<>>)

(* A peer that has used one relay only and joined on its last stream, which *)
(* is open.  The end of an older stream may still be under way.             *)
Faithful(b, s) ==
  /\ Owner(s) = b /\ phase[s] = "open" /\ up[s] = <<>>
  /\ \A t \in Streams : Owner(t) = b /\ phase[t] # "none" => At(t) = At(s)

Quiet == \A a, r \in Relays : link[a][r] = <<>>

(* The relay of a faithful peer has it registered on that stream, whatever  *)
(* other peers and relays do and however late its older streams end.        *)
OwnRelayKeepsIt ==
  \A b \in Browsers, s \in Streams : Faithful(b, s) => reg[At(s)][b] = s

(* When the relays have told each other all, and none has restarted, a      *)
(* message for a faithful peer that any relay is given comes out on the     *)
(* stream of that peer.                                                     *)
FaithfulIsReachable ==
  Quiet /\ restarts = 0 => \A b \in Browsers, s \in Streams, r \in Relays :
    Faithful(b, s) => s \in Reached(r, b)

(* "so the joining peer discovers them": a peer that some relay has         *)
(* registered locally was told of every faithful peer; after restarts too,  *)
(* when it never was in the room before.                                    *)
Newcomer(c) == Cardinality({t \in Streams : Owner(t) = c /\ phase[t] # "none"}) = 1

FaithfulIsIntroduced ==
  Quiet => \A b, c \in Browsers, s \in Streams, r \in Relays :
    Faithful(b, s) /\ b # c /\ reg[r][c] \in Streams /\ (restarts = 0 \/ Newcomer(c))
      => b \in told[reg[r][c]]

=============================================================================
