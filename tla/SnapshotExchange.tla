--------------------------- MODULE SnapshotExchange ---------------------------
(***************************************************************************)
(* The snapshot exchange of one document between two peers on one ordered  *)
(* data channel: sync/src/reconciliation/snapshot-exchange.ts with the     *)
(* wiring of core/src/reconciliation-wiring.ts and the block resolver that *)
(* answers it.                                                             *)
(*                                                                         *)
(*   Advertise   a catalog of what the resolver has(), and the tip         *)
(*   Receive     a catalog, a request, a chunk or a refusal (NAK)          *)
(*   Verified    the hash and the signatures of a reassembled block        *)
(*   Obtain      a block comes by another route (publication, gossip,      *)
(*               fetch)                                                    *)
(*   Evict       the memory tier of the resolver drops a block             *)
(*   Reconnect   the channel goes and comes back, with a reload of the     *)
(*               page of one peer or without                               *)
(*                                                                         *)
(* A snapshot is named by its sequence number.  Both peers follow the      *)
(* protocol: a request is answered by the chunks of a block in order, so a *)
(* reassembly is the number of chunks it has.  The chunks of one answer    *)
(* are sent in one go: what is left of them is one entry of the channel,   *)
(* with the number of the next chunk.                                      *)
(***************************************************************************)
EXTENDS Integers, Sequences, FiniteSets

CONSTANTS
  Peers,        \* the two peers
  Cids,         \* snapshots, by sequence number
  Invalid,      \* those whose bytes do not pass the verification
  Parts(_),     \* the number of chunks of a block
  Budget,       \* CIDs requested for one catalog
  MaxAdverts,   \* bound on the catalogs of a peer on one connection
  MaxObtained,  \* bound on the blocks that come by other routes
  MaxLosses     \* bound on evictions and reconnections

ASSUME ExchangeAssumption ==
  /\ \E p, q \in Peers : p # q /\ Peers = {p, q}
  /\ Cids \subseteq Nat \ {0} /\ Invalid \subseteq Cids
  /\ \A c \in Cids : Parts(c) \in Nat \ {0}
  /\ {Budget, MaxAdverts, MaxObtained, MaxLosses} \subseteq Nat

VARIABLES
  mem,        \* blocks the resolver has in memory: getCached()
  stored,     \* blocks it has in IndexedDB, and lists
  tip,        \* the tip of the chain, 0 when there is none
  chan,       \* chan[p]: messages under way to p
  requested,  \* CIDs asked for
  pending,    \* chunks of each CID that have come
  verifying,  \* reassembled blocks under verification
  delivered,  \* CIDs handed to onBlock on this connection, with the number of times
  adverts,    \* catalogs sent on this connection
  offered,    \* the tip of the last catalog, while its block stays in memory (history)
  obtained,   \* blocks that came by other routes so far
  losses      \* evictions and reconnections so far

resolverVars == <<mem, stored, tip>>
vars == <<resolverVars, chan, requested, pending, verifying, delivered, adverts,
          offered, obtained, losses>>

Other(p) == CHOOSE q \in Peers : q # p

-----------------------------------------------------------------------------
Catalog(entries, t) == [type |-> "catalog", cids |-> entries, tip |-> t]
Request(asked)      == [type |-> "request", asked |-> asked]
Chunks(c, i)        == [type |-> "block", cid |-> c, part |-> i]
Nak(c)              == [type |-> "nak", cid |-> c]

(* What is left on a channel once its next message has come. *)
Rest(s) ==
  LET m == Head(s) IN
    IF m.type = "block" /\ m.part < Parts(m.cid)
      THEN [s EXCEPT ![1] = Chunks(m.cid, m.part + 1)]
      ELSE Tail(s)

(* resolver.has(), without I/O *)
Has(p) == mem[p] \cup stored[p]

(* The n highest of a set of numbers. *)
Highest(n, S) == {c \in S : Cardinality({d \in S : d > c}) < n}

(* selectCidsToRequest: the tip, then what is missing by descending number, *)
(* within the budget; what is not in memory is missing.                     *)
Selected(p, catalog) ==
  LET wanted == {catalog.tip} \ ({0} \cup mem[p])
      others == (catalog.cids \ mem[p]) \ {catalog.tip}
  IN wanted \cup Highest(Budget - Cardinality(wanted), others)

(* These in the order they are asked for in. *)
InOrder(S, t) ==
  {s \in [1..Cardinality(S) -> S] :
     /\ S = {s[i] : i \in DOMAIN s}
     /\ \A i, j \in DOMAIN s : i < j => s[j] # t /\ (s[i] = t \/ s[i] > s[j])}

Init ==
  /\ mem = [p \in Peers |-> {}]
  /\ stored = [p \in Peers |-> {}]
  /\ tip = [p \in Peers |-> 0]
  /\ chan = [p \in Peers |-> <<>>]
  /\ requested = [p \in Peers |-> {}]
  /\ pending = [p \in Peers |-> [c \in Cids |-> 0]]
  /\ verifying = [p \in Peers |-> {}]
  /\ delivered = [p \in Peers |-> [c \in Cids |-> 0]]
  /\ adverts = [p \in Peers |-> 0]
  /\ offered = [p \in Peers |-> 0]
  /\ obtained = 0 /\ losses = 0

-----------------------------------------------------------------------------
(* The coordinators of all channels are done: reconcile() lets the catalog  *)
(* be sent once more.  The tip is named whether its block is there or not.  *)
Advertise(p) ==
  /\ adverts[p] < MaxAdverts
  /\ adverts' = [adverts EXCEPT ![p] = @ + 1]
  /\ chan' = [chan EXCEPT ![Other(p)] = Append(@, Catalog(Has(p), tip[p]))]
  /\ offered' = [offered EXCEPT ![p] = IF tip[p] \in mem[p] THEN tip[p] ELSE 0]
  /\ UNCHANGED <<resolverVars, requested, pending, verifying, delivered, obtained, losses>>

(* handleCatalog: what was requested before is not requested again. *)
Ask(p, fresh, t) ==
  /\ requested' = [requested EXCEPT ![p] = @ \cup fresh]
  /\ \/ fresh = {} /\ chan' = [chan EXCEPT ![p] = Rest(@)]
     \/ /\ fresh # {}
        /\ \E asked \in InOrder(fresh, t) :
             chan' = [chan EXCEPT ![p] = Rest(@), ![Other(p)] = Append(@, Request(asked))]
  /\ UNCHANGED <<pending, verifying>>

OnCatalog_Again(p, catalog) == Ask(p, Selected(p, catalog), catalog.tip)

OnCatalog(p, catalog) == Ask(p, Selected(p, catalog) \ requested[p], catalog.tip)

(* handleRequest: every CID is answered from memory, in chunks or by a NAK. *)
Answer(p, c) == IF c \in mem[p] THEN Chunks(c, 1) ELSE Nak(c)

OnRequest_Silent(p, asked) ==
  LET held == SelectSeq(asked, LAMBDA c : c \in mem[p])
  IN /\ chan' = [chan EXCEPT ![p] = Rest(@),
                   ![Other(p)] = @ \o [i \in DOMAIN held |-> Answer(p, held[i])]]
     /\ UNCHANGED <<requested, pending, verifying>>

OnRequest(p, asked) ==
  /\ chan' = [chan EXCEPT ![p] = Rest(@),
                ![Other(p)] = @ \o [i \in DOMAIN asked |-> Answer(p, asked[i])]]
  /\ UNCHANGED <<requested, pending, verifying>>

(* handleBlock: a NAK lets the CID be requested again ... *)
OnNak_Kept(p, c) ==
  /\ pending' = [pending EXCEPT ![p][c] = 0]
  /\ chan' = [chan EXCEPT ![p] = Rest(@)]
  /\ UNCHANGED <<requested, verifying>>

OnNak(p, c) ==
  /\ requested' = [requested EXCEPT ![p] = @ \ {c}]
  /\ pending' = [pending EXCEPT ![p][c] = 0]
  /\ chan' = [chan EXCEPT ![p] = Rest(@)]
  /\ UNCHANGED verifying

(* ... and the last chunk starts the verification. *)
OnChunk_Early(p, c) ==
  /\ IF pending[p][c] + 1 < Parts(c)
       THEN /\ pending' = [pending EXCEPT ![p][c] = @ + 1]
            /\ UNCHANGED <<requested, verifying>>
       ELSE /\ pending' = [pending EXCEPT ![p][c] = 0]
            /\ verifying' = [verifying EXCEPT ![p] = @ \cup {c}]
            /\ requested' = [requested EXCEPT ![p] = @ \ {c}]
  /\ chan' = [chan EXCEPT ![p] = Rest(@)]

OnChunk(p, c) ==
  /\ \/ /\ pending[p][c] + 1 < Parts(c)
        /\ pending' = [pending EXCEPT ![p][c] = @ + 1]
        /\ UNCHANGED verifying
     \/ /\ pending[p][c] + 1 >= Parts(c)
        /\ pending' = [pending EXCEPT ![p][c] = 0]
        /\ verifying' = [verifying EXCEPT ![p] = @ \cup {c}]
  /\ chan' = [chan EXCEPT ![p] = Rest(@)]
  /\ UNCHANGED requested

Receive(p) ==
  /\ chan[p] # <<>>
  /\ LET msg == Head(chan[p]) IN
       \/ msg.type = "catalog" /\ OnCatalog(p, msg)
       \/ msg.type = "request" /\ OnRequest(p, msg.asked)
       \/ msg.type = "nak" /\ OnNak(p, msg.cid)
       \/ msg.type = "block" /\ OnChunk(p, msg.cid)
  /\ UNCHANGED <<resolverVars, delivered, adverts, offered, obtained, losses>>

(* onBlock: resolver.put(), then ingestion, which may make it the tip. *)
Handed(p, c) ==
  /\ mem' = [mem EXCEPT ![p] = @ \cup {c}]
  /\ stored' = [stored EXCEPT ![p] = @ \cup {c}]
  /\ \E t \in {tip[p], c} : tip' = [tip EXCEPT ![p] = t]

Verified(p, c) ==
  /\ c \in verifying[p]
  /\ verifying' = [verifying EXCEPT ![p] = @ \ {c}]
  /\ IF c \in Invalid
       THEN /\ requested' = [requested EXCEPT ![p] = @ \ {c}]
            /\ UNCHANGED <<resolverVars, delivered>>
       ELSE /\ delivered' = [delivered EXCEPT ![p][c] = @ + 1]
            /\ Handed(p, c)
            /\ UNCHANGED requested
  /\ UNCHANGED <<chan, pending, adverts, offered, obtained, losses>>

-----------------------------------------------------------------------------
(* Another route: the resolver does not verify what it is given. *)
Obtain(p, c) ==
  /\ obtained < MaxObtained /\ c \notin Has(p)
  /\ obtained' = obtained + 1
  /\ mem' = [mem EXCEPT ![p] = @ \cup {c}]
  /\ stored' = [stored EXCEPT ![p] = @ \cup {c}]
  /\ \E t \in {tip[p]} \cup ({c} \ Invalid) : tip' = [tip EXCEPT ![p] = t]
  /\ UNCHANGED <<chan, requested, pending, verifying, delivered, adverts, offered, losses>>

Evict(p, c) ==
  /\ losses < MaxLosses /\ c \in mem[p]
  /\ losses' = losses + 1
  /\ mem' = [mem EXCEPT ![p] = @ \ {c}]
  /\ offered' = [offered EXCEPT ![p] = IF @ = c THEN 0 ELSE @]
  /\ UNCHANGED <<stored, tip, chan, requested, pending, verifying, delivered, adverts,
                 obtained>>

(* destroy() on both sides and a new exchange.  A reload empties the memory *)
(* tier; the version index brings the tip back.                             *)
Reconnect_Reused(reloaded) ==
  /\ losses < MaxLosses
  /\ losses' = losses + 1
  /\ mem' = [p \in Peers |-> IF p \in reloaded THEN {} ELSE mem[p]]
  /\ chan' = [p \in Peers |-> <<>>]
  /\ adverts' = [p \in Peers |-> 0]
  /\ offered' = [p \in Peers |-> 0]
  /\ UNCHANGED <<stored, tip, obtained, requested, pending, verifying, delivered>>

Reconnect(reloaded) ==
  /\ losses < MaxLosses
  /\ losses' = losses + 1
  /\ mem' = [p \in Peers |-> IF p \in reloaded THEN {} ELSE mem[p]]
  /\ chan' = [p \in Peers |-> <<>>]
  /\ requested' = [p \in Peers |-> {}]
  /\ pending' = [p \in Peers |-> [c \in Cids |-> 0]]
  /\ verifying' = [p \in Peers |-> {}]
  /\ delivered' = [p \in Peers |-> [c \in Cids |-> 0]]
  /\ adverts' = [p \in Peers |-> 0]
  /\ offered' = [p \in Peers |-> 0]
  /\ UNCHANGED <<stored, tip, obtained>>

Next ==
  \/ \E p \in Peers :
       \/ Advertise(p) \/ Receive(p)
       \/ \E c \in Cids : Verified(p, c) \/ Obtain(p, c) \/ Evict(p, c)
  \/ \E reloaded \in SUBSET Peers : Reconnect(reloaded)

Spec == Init /\ [][Next]_vars

(* The channel delivers while it is open, and promises settle. *)
Fairness ==
  \A p \in Peers : WF_vars(Receive(p)) /\ WF_vars(\E c \in Cids : Verified(p, c))

FairSpec == Spec /\ Fairness

-----------------------------------------------------------------------------
Messages ==
  [type : {"catalog"}, cids : SUBSET Cids, tip : Cids \cup {0}]
  \cup [type : {"request"}, asked : Seq(Cids)]
  \cup [type : {"block"}, cid : Cids, part : Nat \ {0}]
  \cup [type : {"nak"}, cid : Cids]

(* Type invariant; a reassembly never holds a whole block. *)
TypeOK ==
  /\ {mem, stored, requested, verifying} \subseteq [Peers -> SUBSET Cids]
  /\ {tip, offered} \subseteq [Peers -> Cids \cup {0}]
  /\ chan \in [Peers -> Seq(Messages)]
  /\ pending \in [Peers -> [Cids -> Nat]]
  /\ \A p \in Peers, c \in Cids : pending[p][c] < Parts(c)
  /\ delivered \in [Peers -> [Cids -> Nat]]
  /\ adverts \in [Peers -> 0..MaxAdverts]
  /\ obtained \in 0..MaxObtained /\ losses \in 0..MaxLosses

(* A message that asks for c, or answers for it, and where a channel has one. *)
Asks(m, c)    == m.type = "request" /\ \E k \in DOMAIN m.asked : m.asked[k] = c
Answers(m, c) == m.type \in {"block", "nak"} /\ m.cid = c

Asking(s, c)    == {i \in DOMAIN s : Asks(s[i], c)}
Answering(s, c) == {i \in DOMAIN s : Answers(s[i], c)}

(* The ways in which a CID is being pursued. *)
Ways(p, c) ==
  {<<"asked", i>> : i \in Asking(chan[Other(p)], c)}
  \cup {<<"answered", i>> : i \in Answering(chan[p], c)}
  \cup {<<"verifying", d>> : d \in {c} \cap verifying[p]}
  \cup {<<"delivered", d>> : d \in {e \in {c} : delivered[p][e] > 0}}

(* Each CID in "requested" is pursued in exactly one way: its request is    *)
(* under way, or a refusal, or the rest of its chunks in order, or it is    *)
(* being verified, or it was handed over.  Nothing else is under way, so a  *)
(* request that was dropped from the set can be repeated without mixing two *)
(* transfers of a block.                                                    *)
RequestedIsPursued ==
  \A p \in Peers, c \in Cids :
    /\ Cardinality(Ways(p, c)) = IF c \in requested[p] THEN 1 ELSE 0
    /\ \A i \in Answering(chan[p], c) :
         chan[p][i].type = "block" => chan[p][i].part = pending[p][c] + 1
    /\ pending[p][c] > 0 => Answering(chan[p], c) # {}

(* The exchange implements the abstract transfer of blocks: on one          *)
(* connection a block is asked for while nothing else is known of it, is    *)
(* verified once, and is handed to the document at most once and only after *)
(* the verification.                                                        *)
Stage(p, c) ==
  IF c \in verifying[p] THEN "checking"
  ELSE IF delivered[p][c] > 0 THEN "had"
  ELSE IF c \in requested[p] THEN "asked" ELSE "idle"

Transfer == INSTANCE BlockTransfer WITH
  stage <- [p \in Peers |-> [c \in Cids |-> Stage(p, c)]]

ImplementsTransfer == Transfer!Spec

(* When the exchange is at rest, the tip a peer named in its last catalog   *)
(* has arrived, whatever else was asked, refused or lost before.            *)
Quiet == \A p \in Peers : chan[p] = <<>> /\ verifying[p] = {}

OfferedTipArrives ==
  Quiet => \A p \in Peers :
    offered[p] \notin {0} \cup Invalid => offered[p] \in Has(Other(p))

(* A requested CID is settled: handed over, or free to be requested again.  *)
RequestsSettle ==
  \A p \in Peers : \A c \in Cids :
    c \in requested[p] ~> (delivered[p][c] > 0 \/ c \notin requested[p])

=============================================================================
