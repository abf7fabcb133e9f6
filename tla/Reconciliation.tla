--------------------------- MODULE Reconciliation ---------------------------
(***************************************************************************)
(* Two peers that keep one document channel in step over a WebRTC data     *)
(* channel: packages/core/src/peer-sync.ts (when to reconcile, forwarding  *)
(* of edits as they are typed), reconciliation-wiring.ts (a coordinator    *)
(* per channel, signing, the end of a cycle) and                           *)
(* packages/sync/src/reconciliation/coordinator.ts (two sessions, one that *)
(* answers the peer's search and one that searches the peer's edits).      *)
(*                                                                         *)
(* The data channel is reliable and ordered while it is open and loses     *)
(* what is under way when it closes.  A new one gets a new wiring.         *)
(* Signing an outgoing batch and verifying an incoming edit are            *)
(* asynchronous and complete in any order.                                 *)
(***************************************************************************)
EXTENDS Session

CONSTANTS
    Peer,            \* the two peers
    Trees,           \* what their trees may start with, a set of functions to bags of payloads
    MaxConnections   \* bound on the data channels opened, one after the other

ASSUME PeerAssumption == \E p, q \in Peer : p # q /\ Peer = {p, q}

ASSUME BoundAssumption == MaxConnections \in Nat

\* A channel's tree starts empty and holds what was typed before the peers met.
ASSUME TreesAssumption ==
    \A t \in Trees : \A p \in Peer :
        /\ DOMAIN t = Peer
        /\ IsABag(t[p]) /\ IsFiniteSet(BagToSet(t[p]))
        /\ BagToSet(t[p]) \subseteq {Typed(x) : x \in Edit}

VARIABLES
    tree,          \* what each peer's channel tree holds, a bag of payloads
    shown,         \* the typed edits each peer's editor surface has applied
    link,          \* each peer's end of the data channel
    coordinator,   \* each peer's coordinator for this channel
    wire,          \* the messages each peer has sent that have not arrived, in order
    stamping,      \* typed edits whose author's signature each surface awaits, a bag
    signing,       \* the batches each peer is signing before it sends them, a bag
    verifying,     \* the received edits each peer is verifying, a bag
    timer,         \* whether each peer's debounced reconcile is pending
    connections    \* data channels opened so far

vars == <<tree, shown, link, coordinator, wire, stamping, signing, verifying, timer, connections>>

Other(p) == CHOOSE q \in Peer : q # p

Held(p) == BagToSet(tree[p])

One(x) == SetToBag({x})

IsBagOf(bag, S) == IsABag(bag) /\ BagToSet(bag) \subseteq S

IsSession(s) ==
    /\ DOMAIN s = {"hashes", "odd", "count", "queue", "buffer"}
    /\ s.hashes \subseteq Payload /\ s.odd \subseteq s.hashes
    /\ s.count \in Nat
    /\ s.queue \in Seq(Prefix)
    /\ IsBagOf(s.buffer, Payload)

IsCoordinator(c) ==
    /\ DOMAIN c = {"out", "in", "searching", "snapshot", "done", "snapshotApplied"}
    /\ IsSession(c.out) /\ IsSession(c.in)
    /\ c.snapshot \in Payload
    /\ {c.searching, c.done, c.snapshotApplied} \subseteq BOOLEAN

\* A coordinator as start() leaves it: it answers searches of what the tree
\* holds now and waits for the peer's START to search in turn.
Started(contents) ==
    [out             |-> NewSession(contents),
     in              |-> NewSession(EmptyBag),
     searching       |-> FALSE,
     snapshot        |-> SnapshotOf(Covered(BagToSet(contents))),
     done            |-> FALSE,
     snapshotApplied |-> FALSE]

NoCoordinator == Started(EmptyBag)

TypeOK ==
    /\ {DOMAIN tree, DOMAIN coordinator, DOMAIN stamping, DOMAIN signing, DOMAIN verifying} = {Peer}
    /\ shown \in [Peer -> SUBSET Edit]
    /\ link \in [Peer -> {"closed", "connecting", "open"}]
    /\ wire \in [Peer -> Seq(Message)]
    /\ timer \in [Peer -> BOOLEAN]
    /\ connections \in 0 .. MaxConnections
    /\ \A p \in Peer : /\ IsBagOf(tree[p], Payload)
                       /\ IsBagOf(stamping[p], Edit)
                       /\ IsBagOf(signing[p], SUBSET Payload)
                       /\ IsBagOf(verifying[p], Payload)
                       /\ IsCoordinator(coordinator[p])

Init ==
    /\ tree \in Trees
    /\ shown = [p \in Peer |-> Covered(Held(p))]
    /\ link = [p \in Peer |-> "closed"]
    /\ coordinator = [p \in Peer |-> NoCoordinator]
    /\ wire = [p \in Peer |-> <<>>]
    /\ stamping = [p \in Peer |-> EmptyBag]
    /\ signing = [p \in Peer |-> EmptyBag]
    /\ verifying = [p \in Peer |-> EmptyBag]
    /\ timer = [p \in Peer |-> FALSE]
    /\ connections = 0

----------------------------------------------------------------------------
(* Sending and receiving.                                                  *)

\* What p has under way once it has sent these messages too; what is sent to
\* a closed end is lost.
Posted(p, messages) == IF link[Other(p)] = "closed" THEN wire[p] ELSE wire[p] \o messages

Send(p, messages) == wire' = [wire EXCEPT ![p] = Posted(p, messages)]

Arrived(p) == Head(wire[Other(p)])

Receives(p, type) ==
    /\ link[p] = "open"
    /\ wire[Other(p)] # <<>>
    /\ Arrived(p).type = type

\* Take the message that arrived, and send these.
Respond(p, messages) ==
    wire' = [wire EXCEPT ![Other(p)] = Tail(@), ![p] = Posted(p, messages)]

\* appendEdit on the document's channel: the tree grows and, the edit being
\* remote, the surface applies it.
Appended(p, payloads) ==
    /\ tree' = [tree EXCEPT ![p] = @ (+) SetToBag(payloads)]
    /\ shown' = [shown EXCEPT ![p] = @ \cup Covered(payloads)]

----------------------------------------------------------------------------
(* The local side: the user types, the debounce timer fires, the data      *)
(* channel opens and closes.                                               *)

\* A new wiring, or an old one whose coordinators are cleared, starts over.
Reconcile(p) ==
    LET fresh == Started(tree[p])
    IN  /\ coordinator' = [coordinator EXCEPT ![p] = fresh]
        /\ Send(p, <<Start(fresh.out)>>)

\* appendEdit of a typed edit: the surface has it, so only the tree grows; an
\* open channel forwards it once it is signed for the wire.
AppendTyped(p, x) ==
    /\ tree' = [tree EXCEPT ![p] = @ (+) One(Typed(x))]
    /\ signing' = [signing EXCEPT ![p] = IF link[p] = "open" THEN @ (+) One({Typed(x)}) ELSE @]

\* The user edits the surface.  The document starts to sign the edit, and the
\* debounce timer starts unless it is running.  An edit without an origin is
\* also appended at once, by the edit bridge; that of an editor's plugin,
\* which has one, is not.
Type(p, x) ==
    /\ \A q \in Peer : x \notin shown[q]
    /\ shown' = [shown EXCEPT ![p] = @ \cup {x}]
    /\ stamping' = [stamping EXCEPT ![p] = @ (+) One(x)]
    /\ timer' = [timer EXCEPT ![p] = TRUE]
    /\ AppendTyped(p, x) \/ UNCHANGED <<tree, signing>>
    /\ UNCHANGED <<link, coordinator, wire, verifying, connections>>

\* The signature is there, or failed: the document appends the edit.
Stamped(p) ==
    \E x \in BagToSet(stamping[p]) :
        /\ stamping' = [stamping EXCEPT ![p] = @ (-) One(x)]
        /\ AppendTyped(p, x)
        /\ UNCHANGED <<shown, link, coordinator, wire, verifying, timer, connections>>

\* The timer reconciles every wiring; without one it does nothing.
TimerFires(p) ==
    /\ timer[p]
    /\ timer' = [timer EXCEPT ![p] = FALSE]
    /\ IF link[p] = "open" THEN Reconcile(p) ELSE UNCHANGED <<coordinator, wire>>
    /\ UNCHANGED <<tree, shown, link, stamping, signing, verifying, connections>>

Connect ==
    /\ \A p \in Peer : link[p] = "closed"
    /\ connections < MaxConnections
    /\ link' = [p \in Peer |-> "connecting"]
    /\ wire' = [p \in Peer |-> <<>>]
    /\ connections' = connections + 1
    /\ UNCHANGED <<tree, shown, coordinator, stamping, signing, verifying, timer>>

Open(p) ==
    /\ link[p] = "connecting"
    /\ link[Other(p)] # "closed"
    /\ link' = [link EXCEPT ![p] = "open"]
    /\ Reconcile(p)
    /\ UNCHANGED <<tree, shown, stamping, signing, verifying, timer, connections>>

\* The coordinators go, with what they had under way, except for the edits
\* being verified: those are appended all the same.
Close(p) ==
    /\ link[p] # "closed"
    /\ link' = [link EXCEPT ![p] = "closed"]
    /\ coordinator' = [coordinator EXCEPT ![p] = NoCoordinator]
    /\ wire' = [wire EXCEPT ![Other(p)] = <<>>]
    /\ signing' = [signing EXCEPT ![p] = EmptyBag]
    /\ UNCHANGED <<tree, shown, stamping, verifying, timer, connections>>

Signed(p) ==
    \E edits \in BagToSet(signing[p]) :
        /\ signing' = [signing EXCEPT ![p] = @ (-) One(edits)]
        /\ Send(p, <<[type |-> "BATCH", edits |-> edits]>>)
        /\ UNCHANGED <<tree, shown, link, coordinator, stamping, verifying, timer, connections>>

Verified(p) ==
    \E h \in BagToSet(verifying[p]) :
        /\ verifying' = [verifying EXCEPT ![p] = @ (-) One(h)]
        /\ Appended(p, {h})
        /\ UNCHANGED <<link, coordinator, wire, stamping, signing, timer, connections>>

----------------------------------------------------------------------------
(* Messages for the session that answers the peer's search.                *)

ReceiveQuery(p) ==
    /\ Receives(p, "QUERY")
    /\ Respond(p, OnQuery(coordinator[p].out, Arrived(p)).reply)
    /\ UNCHANGED <<tree, shown, link, coordinator, stamping, signing, verifying, timer, connections>>

\* A batch is signed before it is sent.
ReceiveSet(p) ==
    /\ Receives(p, "SET")
    /\ LET batch == Head(OnSet(coordinator[p].out, Arrived(p)).reply)
       IN  signing' = [signing EXCEPT ![p] = @ (+) One(batch.edits)]
    /\ Respond(p, <<>>)
    /\ UNCHANGED <<tree, shown, link, coordinator, stamping, verifying, timer, connections>>

----------------------------------------------------------------------------
(* Messages for the session that searches the peer's edits.  It exists     *)
(* from the first START on; before that everything but a START is ignored. *)

\* The search takes a step.  When it ends, the coordinator is done and the
\* reconcile cycle ends with it.
Advance(p, step) ==
    /\ coordinator' = [coordinator EXCEPT ![p].in = step.session,
                                          ![p].searching = TRUE,
                                          ![p].done = @ \/ step.ends]
    /\ Respond(p, step.reply)

Ignore(p) ==
    /\ UNCHANGED coordinator
    /\ Respond(p, <<>>)

ReceiveStart(p) ==
    /\ Receives(p, "START")
    /\ LET c == coordinator[p]
           in == IF c.searching THEN c.in ELSE NewSession(tree[p])
       IN  Advance(p, OnStart(in, Arrived(p), c.snapshot))
    /\ UNCHANGED <<tree, shown, link, stamping, signing, verifying, timer, connections>>

ReceiveResponse(p) ==
    /\ Receives(p, "RESPONSE")
    /\ IF coordinator[p].searching
       THEN Advance(p, OnResponse(coordinator[p].in, Arrived(p)))
       ELSE Ignore(p)
    /\ UNCHANGED <<tree, shown, link, stamping, signing, verifying, timer, connections>>

\* The edits of a search that the tree has not, to be verified and appended.
Missing(p, edits) ==
    [h \in DOMAIN edits \ Held(p) |-> edits[h]]

\* Fault: batches that the coordinator takes are left to it.
HandleLive_Unsearched(p) ==
    IF coordinator[p].searching
    THEN UNCHANGED <<tree, shown>>
    ELSE Appended(p, Arrived(p).edits)

\* The handler of live edits appends every edit of every batch.
HandleLive(p) == Appended(p, Arrived(p).edits)

\* A batch goes to the coordinator first and then, whatever the coordinator
\* makes of it, to the handler of live edits.
ReceiveBatch(p) ==
    /\ Receives(p, "BATCH")
    /\ IF coordinator[p].searching
       THEN LET step == OnBatch(coordinator[p].in, Arrived(p))
            IN  /\ Advance(p, step)
                /\ verifying' = [verifying EXCEPT ![p] =
                       IF coordinator[p].snapshotApplied THEN @ ELSE @ (+) Missing(p, step.edits)]
       ELSE /\ Ignore(p)
            /\ UNCHANGED verifying
    /\ HandleLive(p)
    /\ UNCHANGED <<link, stamping, signing, timer, connections>>

\* A snapshot goes into the tree but not to the surface, and the coordinator
\* applies nothing after it.
ReceiveFull(p) ==
    /\ Receives(p, "FULL")
    /\ Respond(p, <<>>)
    /\ IF coordinator[p].searching
       THEN /\ coordinator' = [coordinator EXCEPT ![p].done = TRUE, ![p].snapshotApplied = TRUE]
            /\ tree' = IF coordinator[p].snapshotApplied THEN tree
                       ELSE [tree EXCEPT ![p] = @ (+) One(Arrived(p).snapshot)]
       ELSE UNCHANGED <<coordinator, tree>>
    /\ UNCHANGED <<shown, link, stamping, signing, verifying, timer, connections>>

----------------------------------------------------------------------------

Receive(p) ==
    \/ ReceiveStart(p) \/ ReceiveQuery(p) \/ ReceiveResponse(p)
    \/ ReceiveSet(p) \/ ReceiveBatch(p) \/ ReceiveFull(p)

Next ==
    \/ Connect
    \/ \E p \in Peer :
           \/ \E x \in Edit : Type(p, x)
           \/ Stamped(p)
           \/ TimerFires(p)
           \/ Open(p)
           \/ Close(p)
           \/ Signed(p)
           \/ Verified(p)
           \/ Receive(p)

\* Timers fire, promises settle and an open channel delivers.  Nobody has to
\* type or to connect, and a channel need not fail; but when one end of it has
\* closed the other end closes too.
Fairness ==
    \A p \in Peer :
        /\ WF_vars(TimerFires(p))
        /\ WF_vars(Stamped(p))
        /\ WF_vars(Open(p))
        /\ WF_vars(Signed(p))
        /\ WF_vars(Verified(p))
        /\ WF_vars(Receive(p))
        /\ WF_vars(link[Other(p)] = "closed" /\ connections > 0 /\ Close(p))

Spec == Init /\ [][Next]_vars /\ Fairness

----------------------------------------------------------------------------
(* Properties.                                                             *)

Connected == \A p \in Peer : link[p] = "open"

\* Everything sent has arrived and been dealt with, and no timer is pending.
Quiet ==
    \A p \in Peer : /\ wire[p] = <<>>
                    /\ stamping[p] = EmptyBag
                    /\ signing[p] = EmptyBag
                    /\ verifying[p] = EmptyBag
                    /\ ~timer[p]

\* The peer's START looks like what p's search started from.
Matches(p) ==
    LET mine == coordinator[p].in
        theirs == coordinator[Other(p)].out
    IN  mine.odd = theirs.odd /\ mine.count = theirs.count

Agrees(p) == coordinator[p].in.hashes = coordinator[Other(p)].out.hashes

\* A search finds everything.  When all is quiet, a peer whose search ran after
\* its own last reconcile() shows every edit the other one announced when it
\* last reconciled: splitting and queueing subtrees, draining the queue after
\* a match or a batch, live edits that drain it too, a second START on an old
\* session and the snapshot sent to a late joiner leave no edit behind.  Only
\* a START that looks like the own tree and is not hides edits: an edit without
\* an origin is in the tree twice and cancels in the fingerprint.
PullIsComplete ==
    Connected /\ Quiet =>
        \A p \in Peer :
            coordinator[p].searching /\ (Matches(p) => Agrees(p)) =>
                Covered(coordinator[Other(p)].out.hashes) \subseteq shown[p]

\* The exchange ends.  Searches that interleave on one session, restarts and
\* batches that trigger queries never keep the peers talking for ever.
Settles == []<>Quiet

\* A live edit arrives.  What one peer is signing for the other is in the end
\* shown by both, unless the data channel closes: the coordinators that either
\* peer clears meanwhile, and edits skipped after a snapshot, do not lose it.
LiveEditsArrive ==
    \A x \in Edit :
        (\E p \in Peer : \E edits \in BagToSet(signing[p]) : Typed(x) \in edits)
            ~> ((\A q \in Peer : x \in shown[q]) \/ ~Connected)

============================================================================
