# pokapali in TLA+

Pokapali is a library for collaborative documents without a central server.  A
document is a Yjs CRDT, edited by several replicas at once and published now and
then as an encrypted, signed snapshot.  Snapshots are content-addressed blocks, each
linked to the one it was built on; readers hear of them through gossip, IPNS, HTTP
and each other, and pinners keep them available.  This directory holds
specifications of the parts of that machinery that run concurrently, the instances
TLC checks and the theorems TLAPS proves about them.

- [Components](#components)
- [Modules](#modules)
- [Runs](#runs)
- [Proofs](#proofs)
- [Where code and text disagree](#where-code-and-text-disagree)
- [Not modelled](#not-modelled)
- [Plan](#plan)

## Components

| component | state | operations | talks to |
|---|---|---|---|
| chain reducer (`core/reducers.ts`, `facts.ts`) | `ChainState`: an entry per CID with status, number, parent, sources; the tip; the newest fetched CID | one per fact | called by the runtime and by `publish()` |
| interpreter (`core/interpreter.ts`, `effect-handlers.ts`) | retry timers, the state before and after each fact | fetch, retry, apply, prefetch, announce | reads the fact stream, pushes facts back |
| ingestion (`core/ingest-snapshot.ts`, `snapshot-ops.ts`) | `placedCids`, the pending sideband, its contexts | `ingestSnapshot`, `rescanPending` | called by the interpreter, the catalog exchange and the end of a reconciliation |
| snapshot codec (`core/snapshot-codec.ts`) | `prev`, `seq`, `lastAppliedCid` | `push`, `applyRemote`, `loadVersion` | publication and ingestion share it |
| runtime (`core/doc-runtime.ts`, `doc-gossip-bridge.ts`) | last tip info, feeds | sources of discoveries, `captureState` | network to fact queue, state to feeds |
| document handle (`core/create-doc.ts`, `auto-save.ts`, `edit-bridge.ts`) | `contentDirty`, `isSaving`, `lastSaveError`, `localChain` | `publish`, `loadVersion`, edits, save state | user to codec, fact queue and feeds |
| block resolver (`core/block-resolver.ts`, `fetch-block.ts`, `protocol/`) | memory cache, negative cache | `get`, `put` | blockstore, pinners, bitswap |
| reconciliation (`sync/reconciliation`, `core/reconciliation-wiring.ts`, `peer-sync.ts`) | two sessions per channel and peer, a trie of edit hashes | START, QUERY, RESPONSE, SET, BATCH, FULL_STATE | a data channel; edits into the epoch tree |
| snapshot exchange (`sync/reconciliation/snapshot-exchange.ts`) | reassemblies, requested CIDs | catalog, request, block | a data channel; blocks into ingestion |
| epochs and convergence (`document/`, `sync/convergence.ts`, `hydration/`) | the epoch tree of a channel, matching counts | append, close, snapshot, check | awareness |
| signaling and WebRTC (`sync/signaling`, `sync/webrtc`, `node/signaling`) | rooms, peer connections, negotiation state | join, leave, offer, answer, candidate | relays |
| pinner (`node/pinner.ts` and its stores and limiters) | known names, tips, history, acks, guarantees, schedule | announcement, HTTP ingestion, resolve, republish, prune, persist | gossip, blockstore, LevelDB |
| node HTTP and relay (`node/http.ts`, `relay.ts`) | connections | requests | pinner, libp2p |
| announcements (`core/announce.ts`) | none | encode, publish with retries | gossip |
| discovery and topology (`core/peer-discovery.ts`, `relay-cache.ts`, `node-registry.ts`, ...) | tracked relays, redial timers, relay cache, known nodes | dial, reconnect, share | libp2p, awareness |
| P2P layer (`core/helia.ts`, `p2p-layer.ts`) | the state of the one Helia instance of the page with its count, the gate of the signaling attempts | acquire, release, set up, tear down, connect a relay | documents, libp2p, the rooms |
| local store (`store/`) | documents, edits, snapshots in IndexedDB | append, load, migrate | the document handle |
| finger tree, crypto, capability, blocks, codec, comments, react, log | none that is shared | pure functions, views | |

What is hard about it:

- *One thread, many awaits.*  Nothing is locked; every await of a hash, a signature, a
  decryption, a disk or a dial is a point where anything else may run and what was read
  before is stale after.  Three callers run the ingestion of snapshots concurrently, a
  pinner runs many handlers, and all documents of a page share one network instance.
- *Facts are late.*  The interpreter folds a queue of facts in the order they were
  pushed, and its own effects push more.  Meanwhile `create-doc.ts` shows the user the
  same state from local flags.
- *The network owes nothing.*  Announcements come in any order, twice, never, and with
  numbers their sender chose; blocks may be forged, missing, or late; streams end late,
  joins cross, peers come back before their departure was heard of.
- *Timers race events.*  Retries, offers, grace periods, backoffs, debounces, prunes.
- *Crashes.*  A pinner writes a block, a LevelDB row and an index file by separate
  awaits and promises to keep what it acknowledged.  A tab ends in the middle of a
  migration, next to others that migrate the same data.
- *Limits.*  Three retries, ten pending snapshots, two memory tiers, one signaling
  attempt at a time, a capacity of names.

What makes the parts correct: the chain's cached pointers are exact; a tip has passed
ingestion; every failed fetch is retried and the pipeline still comes to rest; a
publication contains what it links to; no edit is forgotten between publications; the
save state does not hang; searches find what they were told of; a block is handed over
once and after its verification; a pinner keeps what it guaranteed and forgets what
nobody uses; the relays' tables agree and a peer is reachable; no timer outlives its
connection; no document has its network stopped under it; a lost relay is redialled; a
migration that was cut off is completed.

## Modules

| module | models | extends / implements |
|---|---|---|
| `ChainReducer` | the pure reducer of facts | |
| `DocPipeline` | one reader: runtime, interpreter, ingestion, codec | extends `ChainReducer`, implements `ChainFollower` |
| `ChainFollower` | abstract: what a reader promises about the chain | |
| `Publishing` | one writer: publication, save state, auto-save | |
| `Session` | the pure part of a search for missing edits | |
| `Reconciliation` | two peers reconciling one channel | extends `Session` |
| `SnapshotExchange` | two peers exchanging snapshots | implements `BlockTransfer` |
| `BlockTransfer` | abstract: the life of one block on one connection | |
| `Pinner` | the pinner with its disk, crashes and restarts | |
| `RelaySignaling` | relays, their gossip and the browsers of one room | |
| `PeerManager` | one browser's connections and its room at one relay | |
| `SharedHelia` | the documents of a page and their network instance | |
| `LocalStore` | the tabs of a device, their migrations, identity and replay | |
| `RelayConnections` | how a document finds, keeps and uses relays | the room of a relay is `PeerManager`, seen from outside |

`MC...` modules give TLC constants that a configuration cannot write; the other
configurations name the module itself.  `...Proofs` modules hold the theorems,
`NetworkProofs` and `DeviceProofs` those of two modules each, in one of which the
specification therefore has a longer name (`RelaySpec`, `PublishingSpec`).
Operators that are not used by `Next` and whose name ends in an underscore and a word
(`Release_Any`, `OnEnd_Kept`) are variants of the definition after them with a plausible
bug; they show that a property can fail.

In every module a step is the code between two awaits (or the handling of one message
with everything its listeners do synchronously).  What the code does not decide (which
promise settles first, what the network delivers, what a user does) is the choice of an
action or of its parameters.

### The reader: `ChainReducer`, `DocPipeline`

Each fact is an operator from a chain to the next one.  Snapshots are CIDs; their
number and parent are constants of the model because the hash covers them.

| variable | code |
|---|---|
| `ch` | `runtimeState.interpreterState.chain` |
| `queue` | `factQueue` |
| `inflight`, `cached` | calls of `resolver.get` that have not settled, and the resolver's memory |
| `timers` | `blockRetries` in `interpreter.ts` |
| `job` | for each of the three callers, the await it stands at inside `attempt()` |
| `todo` | the rest of `items` in `rescanPending` |
| `placed`, `sideband`, `contexts` | `placedCids`, `pending`, `pendingContexts` |
| `codec` | the codec's `prev`, `seq`, `lastAppliedCid` |
| `merged` | how often a snapshot was merged into the document: history, not code |
| `opened`, `arrivals` | the environment's one-shot sources and its bound |

`Take` is a whole turn of the interpreter's loop up to its one await (the apply):
reduce, auto-fetch, retry timers, inline decoding, the decision to apply, prefetch.  The
gates of `attempt()` that need no await are one step, the merge after decryption
another.  The environment delivers CIDs from each source as that source does: gossip
with or without the block, IPNS without, HTTP once with, the local store once as a
batch, a user loading a version, a peer's catalog.  `Genuine` and `Readable` stand for
the outcome of the hash, the signature and the decryption.

`ChainFollower` is what all this promises: known CIDs only grow, a snapshot is placed
when it is genuine and its parent known, the tip moves only to a placed snapshot,
content only grows.  It does not promise that the tip was merged, which the code does
not keep (run `tip_unmerged`), nor that anything is ever placed or shown.  `DocPipeline`
implements it with `known` the entries of the chain, `merged` the snapshots merged at
least once, `tip` and `placed` themselves (`ImplementsFollower`).

### The writer: `Publishing`

A document is held twice: `surface` is what the editor shows, `content` what is in the
trees of its channels, which is what a publication folds.  A typed edit enters both in one
step and marks the document dirty (`EditMade`).  The edit of an editor's plugin has an
origin: it marks the document dirty at once and is in `signing` until `signBytes` settles,
which puts it into the tree and marks nothing (`PluginEdit`, `Signed`).  An edit `replayed`
from the store marks the document dirty and never enters the tree, unless a snapshot that
has it is merged (`Replayed`).  What a publication could not fold for these reasons is
`missed` (history).

`snaps` is what has been published by anyone, `pushes` the publications between the
start of the encoding and its end with what they captured, `codec` and `placed` as
above, `local` the flags of `create-doc.ts`, `interp` the interpreter's copy of them,
`queue` the facts between the two, `feed` what the user and the auto-saver see, `timer`
the auto-saver's debounce.  The merge of a snapshot is atomic here: `DocPipeline` has
its steps.  A document is a set of edits, because merging Yjs documents is their union.

### Reconciliation: `Session`, `Reconciliation`

A trie is the set it was built from and a node the subset under a prefix, so equal
fingerprints are equal sets; the fingerprint of a whole channel, which the code computes
over a list with repetitions, keeps what occurs an odd number of times.

| variable | code |
|---|---|
| `tree` | the edits of the channel's epoch tree, with repetitions |
| `shown` | what the editor surface has applied, through the document's edit listener |
| `link` | the state of each end's data channel, and whether its wiring exists |
| `coordinator` | `outSession`, `inSession` (there if `searching`), `localSnapshot`, `inDone`, `snapshotApplied` |
| `wire` | the ordered data channel, one sequence per direction |
| `stamping` | promises of `signBytes` in `Document.surface`, each with its edit |
| `signing`, `verifying` | promises of `signEdit` and `verifyEdit` that have not settled |
| `timer` | `reconcileTimer` |

Edits are signed, as they are wherever the application has an identity.  `done` ends the
reconcile cycle at once, because the model has one channel.  A snapshot is a payload
like an edit, as in the code, and brings the content of several.  Trees start with typed
edits: a tree is in memory only and empty when a document opens.  The snapshots that
ingestion merges into a tree (`ingest-snapshot.ts:502`) belong to the reader and are not
in this module; the ones a late joiner is sent are.

### Snapshot exchange: `SnapshotExchange`, `BlockTransfer`

| variable | code |
|---|---|
| `mem`, `stored` | the resolver's memory tier (`getCached`) and what it lists from IndexedDB (`has`) |
| `tip` | the chain tip put in a catalog |
| `chan` | the data channel, one sequence per direction: catalog, request, chunk, refusal |
| `requested`, `pending` | `requested` and the reassemblies by CID |
| `verifying` | blocks between the last chunk and the end of their verification |
| `delivered` | what was handed to `onBlock` on this connection |
| `adverts`, `offered`, `obtained`, `losses` | bounds, and the tip of the last catalog (history) |

Both peers follow the protocol and a request is answered by the chunks in order, so a
reassembly is the number of chunks it has.  The chunks of one answer are sent in one go
and nothing comes between them, so what is left of them is one entry of the channel with
the number of the next chunk; taking a chunk advances it, and the last one removes it
(`Rest`).  A request asks for the tip first and then by descending number (`InOrder`).
A reconnection drops the wiring and, if the page was reloaded, the memory tier.
`BlockTransfer` says of each block on each connection: idle, asked, checking, had, and
back to idle when it is refused or fails the check.  The mapping reads the stage off
`verifying`, `delivered` and `requested`.

### Pinner: `Pinner`

| variable | code |
|---|---|
| `known`, `apps`, `seen`, `resolved`, `passive` | `knownNames`, `nameToAppId`, `lastSeenAt`, `lastResolvedAt`, `deactivatedNames` |
| `guar`, `acked` | `guaranteedUntil`, `lastAckedCid` |
| `hist` | the records and the tip of each name in `HistoryTracker` |
| `queued`, `swept` | the re-announce heap, `resolveAllCompleted` |
| `doomed`, `victim` | the names a `pruneIfNeeded()` under way decided to delete; the one it is deleting |
| `jobs` | the other handlers under way, each at its await |
| `blocks` | the blockstore |
| `store`, `disk`, `index` | LevelDB with its writes applied, LevelDB as a crash leaves it, `history-index.json` |
| `promise`, `excused`, `durable` | published guarantees, those the code cannot keep, uploads answered with true (history) |

A snapshot is named by the time its writer put in it.  A unit of the clock stands for
half a day to a few days and a handler takes at most 30 s, so the clock moves only
between handlers, when the start-up sweep is done and the index is saved.  Refusals that
depend on rate limiters and on the query cooldown are handlers that do not run.  Crashes
fall between any two steps and lose unsettled LevelDB writes and the unsaved index.

A guarantee is published in acks, answers and HTTP replies.  The cases in which the code
cannot keep it make its name *excused*:

1. a guarantee for a name without `lastSeenAt` (an ack to another pinner's
   announcement, a query): the next prune finds the name past its retention, against
   `infrastructure.md:66-82`;
2. activity for a name a prune under way has already decided to delete
   (`pinner.ts:995-1024`: the decision is not looked at again);
3. the capacity backstop, which drops the names with the oldest activity (with one name
   it never acts in the runs);
4. a crash before LevelDB or the index was written;
5. `store.setTip` for a CID that is not the tip of the history (537 and 1828);
6. `lastAckedCid` set after its name was forgotten, or forgotten and heard of again with
   nothing in its history yet (1400): the next announcement of that CID is answered with
   a guarantee and nothing is fetched;
7. a block deleted between `blockstore.get` and `history.add`;
8. a CID recorded again while thinning deletes its block (1256).

### Signaling: `RelaySignaling`

| variable | code |
|---|---|
| `up`, `phase` | the frames of a stream under way to its relay; what the browser did with the stream |
| `reg` | a relay's room: the entry of each peer, a stream or a virtual one |
| `remote` | `remotePeers`: the relay that owns each remote peer |
| `link` | gossip between relays, one sequence per pair |
| `told` | what the members were told by `PEER_JOINED` and `PEER_LEFT` |

Gossip between two relays keeps its order and is not lost, except by a restart.  This is
an assumption: the relays forward through pubsub and drop the error of a publication
that fails (`relay-forward.ts:234-236`), which nothing repeats.  What the properties say
of remote tables rests on it.  Of an earlier stream to the same relay only the end may
still be under way when a new one joins, because negotiating a stream takes a round
trip.  The routing of a signal is an operator over the tables (`Reached`).  There is one
room.

### Peer connections: `PeerManager`

| variable | code |
|---|---|
| `pc`, `state`, `described`, `offering` | the `PeerEntry`, its connection, `remoteDescSet`, the awaited `createOffer` |
| `tracked`, `attempts`, `offerT`, `graceT`, `retryT` | `peerState`: retries and the three timers, each by the connection its closure holds |
| `alive`, `active`, `connected`, `swapped` | `signalingAlive`, `activePeers`, the room's flag, `needsSwapFired` |
| `applying` | a `setRemoteDescription` that has not settled |
| `broken` | the offer could not be created, or an answer to it was refused (history) |
| `asked` | offers sent and not answered: the environment |
| `counted`, `recounted` | whom `active` counts; somebody was counted twice (history) |

An answer clears the offer timer in the step that receives it and is applied or refused
later (`SdpAnswer`, `Applied`, `Refused`), as an offer is on the other side.
ICE candidates and awareness data are left out.  The guards against stale connections
are not modelled, because `TimersAreCurrent` shows that they never fail.

### The network of a page: `SharedHelia`, `RelayConnections`

`SharedHelia` is `helia.ts` with its callers: `setupP2PLayer()` and `teardown()`.

| variable | code |
|---|---|
| `stage`, `inst`, `destroyed` | where each document's set-up stands, with which instance; whether the user closed it |
| `phase`, `cur`, `refs`, `deferred` | `state`: its phase, instance or promise, `refCount`, `deferredDestroy` |
| `run` | what each instance is doing, those nobody has in hand included |
| `unbalanced` | acquisitions and releases stopped matching (history) |

An instance is named by the document that creates it.  Everything that resumes on one
promise resumes in one step.  The blockstores' closing is not modelled.  Two cases make
the state `unbalanced`, and most properties say nothing from then on: two documents that
wait for one shutdown, and a document without a P2P layer that is closed while there is
an instance.  `stop()` is assumed to succeed: if it rejects, `releaseHelia` never leaves
`destroying` (`helia.ts:281-291`) and whoever waits for the shutdown is rejected too.  A
document closed during its set-up is `leaked`: it keeps its reference. An instance whose
creation timed out is `lost`: it goes on and nobody stops it.

`RelayConnections` is one document's relays.

| variable | code |
|---|---|
| `conn`, `lost` | libp2p's connections; disconnect events to come |
| `tracked`, `cached`, `timer`, `redialing` | `relayPeerIds`, the relay cache, `reconnectTimers`, dials of a timer |
| `layer`, `flight`, `pend` | the first attempt of `setupP2PLayer()`, `signalingInFlight` with its relay, `pendingRelay` |
| `room`, `broken` | the rooms of `createMultiRelayRoom`, by signaling and peers; ends of streams to come |
| `stranded` | the code gave up on a relay it could use (history) |

Delays are left out.  A dial by discovery is atomic, because one that fails changes
nothing.  Stopping the discovery is not modelled.

### The store of a device: `LocalStore`

| variable | code |
|---|---|
| `version`, `seed`, `flags`, `versions`, `epoch0` | the database and its object stores `identities`, `meta`, `snapshots`, `epochs` |
| `copies` | the records of `edits` with a `legacyId` |
| `old`, `before`, `oldTab` | the keys in the databases of y-indexeddb and the seed of the old identity database; a tab of the release before, which writes to them or blocks the upgrade |
| `trimmed`, `unread` | the old databases that y-indexeddb rewrote; whether a tab passed over an old seed (history) |
| `tab` | each tab: its start (`Store.create`), its background migration (`migrateYIndexeddb`), its identity, its replay |
| `opens`, `faults` | bounds on the tabs and on what fails in them |

A step is an IndexedDB transaction.  A crash, a reload and a closed tab are the same:
what is committed stays.  There is one document.

What fails is in the model where the code meets it (`Fault`).  `idbOpen` answers null for
a database that cannot be opened as for one that is not there: the two small migrations
are then marked as done (`SkipIdentity`, `SkipDocCache`), an old channel is passed over
until the next start (`SkipOld`).  The page keeps the promises of its store and of its
identity until it is reloaded, rejected ones too, and those that never settle because a
transaction was aborted when it commits and fires neither `complete` nor `error`: the tab
is then `rejected` or `keyless` (`StartFails`, `IdentityFails`).  An error of the
background migration is logged and the next database follows (`Fail`); after an abort
nothing follows (`Hang`).  An error of the replay is logged and the channel counts as
replayed (`ReplayFails`).

An old database has keys numbered from 1; a tab of the release before adds one, or, from
`TrimSize` updates on (500 in y-indexeddb), writes its whole state under the next key and
deletes the others (`OldTabTrims`).  What tabs write
later (edits, view cache, `destroy`) is left out; the snapshots they store are not,
because the migration reads them.

## Runs

| run | checks | expected |
|---|---|---|
| `doc_pipeline_network` | NewestIsExact, FetchingIsPursued, FailedIsRetried, SidebandIsCoherent, BaseIsNewestMerged, ImplementsFollower | holds |
| `doc_pipeline_opening` | ComesToRest | holds |
| `tip_unmerged` | TipIsMerged | violated |
| `publishing` | SnapshotExtendsParent, EditsAreAccountedFor, SavingEnds | holds |
| `reconciliation` | PullIsComplete, Settles, LiveEditsArrive | holds |
| `snapshot_exchange` | RequestedIsPursued, OfferedTipArrives, ImplementsTransfer, RequestsSettle | holds |
| `pinner` | PromiseKept, TipIsHeld, IngestIsDurable, ExpiredIsForgotten | holds |
| `relay_signaling` | TablesAgree, OwnRelayKeepsIt, FaithfulIsReachable, FaithfulIsIntroduced | holds |
| `peer_manager` | TimersAreCurrent, InitiatorIsPursued, DownIsHandled, DeadRoomIsReplaced, InitiatorSettles | holds |
| `shared_helia` | HoldersAreServed, OneInstance, FailsForAReason, SetupEnds, UnusedIsStopped | holds |
| `relay_connections` | RedialIsPending, RoomReturns | holds |
| `local_store` | ReplayIsComplete, OldIdentityIsKept, OpensInTheEnd | holds |

Each property is stated in words above its definition.  The type invariants,
`TipIsSound`, `RegisteredIsLive` and `CountIsExact` are proved and have no run of their own.

### Bounds

*Reader.*  Three snapshots in a chain give a tip, a parent and a grandparent, so a gap
in the chain, an unplaceable snapshot and a walk of two.  The network run adds a fork, a
second child of the first snapshot with the number of the second, and forges the first:
the ancestor of every candidate may be known and yet never placed, two snapshots can
wait in the sideband at once, and numbers tie.  It has two deliveries by the
environment, which is enough for a snapshot and its rival, or one snapshot twice, to be
at any two stages; the violated run takes three.  `MaxRetries = 2` (3 in the code) gives
a first failure, a last one and the step between.  `MaxPending = 1` (10 in the code)
makes the second deferred snapshot evict the first.  At most one rescan and one catalog
block are ingested at a time, next to the interpreter's.

*Writer.*  One edit on opening and two more of any kind, two publications with those of
peers, and one failure: two overlapping publications, or one and a peer's snapshot merged
during it.

*Reconciliation.*  The run starts either with two edits on one peer, one on the other
and none to type, or with both on one peer, so that the other is a late joiner, and one
that either peer types while the channel opens or is open.  `Threshold = 0` and
`MaxDepth = 2` (10 and 16 in the code) make three edits enough for two levels of
splitting, a queue of two and empty subtrees on either side; two of the hashes share
their first bit.  One data channel is opened and may close at either end.

*Exchange.*  Three snapshots, one forged, one of two chunks; a budget of two, so that a
catalog does not ask for all; two catalogs per connection, so that the second meets the
transfers of the first; one eviction or reconnection.

*Pinner.*  One name, two snapshots, a clock of three units after the start, which is
past the retention (2) and the deactivated retention (1); two handlers under way next to
a prune, one crash, two messages from outside.  Names interact only through the capacity
and through `doomed`, and one name that returns while it is deleted has the races of
both.  By the constraint `SomePromise` there is only one message from outside once
no name has a guarantee left that can be kept.

*Relays.*  Two browsers, two relays, two streams of a browser to a relay, three in all,
one restart: a peer that moves, one whose old stream ends late, and joins that cross.

*Peers.*  A peer to whom we offer and one that offers to us, the code's three retries,
six messages of the relay, two connections lost after they were up, one offer that
cannot be created or description that is refused.

*Helia.*  Three documents: one that creates, one that joins or waits, one that closes
meanwhile; two failures, one document without a P2P layer.

*Relay connections.*  Two relays, so that one waits while the other is tried and one
room is left when the other goes; two connections lost, one redial or attempt that
fails, one stream that ends alone or cache entry that expires.

*Store.*  Two starts of two tabs, together or one after a crash of the other; one channel
with an old database, because channels are migrated one after another and share no
records; three keys of updates, those after the first written by the old release before,
between or after the migrations, and `TrimSize = 2`, so that it rewrites what it has once
there are two; a device with an identity and one without; one snapshot, and one more
stored later; one error or abort, in either tab.

Outside the bounds: a chain of three exercises two of the three steps of the prefetch,
announced numbers are those encoded in the block, rescans do not overlap each other,
three browsers or rooms, three waiters for a shutdown.

### Fairness

- `DocPipeline`: the event loop runs what is ready (`Take`, `Ingest`, `RescanNext`),
  `resolver.get` always settles (every layer has a timeout and errors are caught),
  timers fire.  Nothing is assumed of peers, the user or reconciliation.
- `Publishing`: encodings settle, the debounce timer fires, the interpreter runs once it
  is started.  The runtime may never start.
- `Reconciliation`: an open channel delivers, promises settle, the debounce timer fires,
  a channel that is opening opens or closes, and when one end has closed the other does.
  Nobody must type.
- `SnapshotExchange`: an open channel delivers, verifications settle.
- `Pinner`: the prune runs on (it has an interval timer), handlers settle (timeouts),
  writes are made, and a process that is down is started again.
- `PeerManager`: offers and descriptions being applied settle, timers fire, a connection
  with both descriptions does not stay between up and down (ICE ends in one or the
  other).  Nothing is assumed of the relay or of the remote peers.
- `SharedHelia`: blockstores open or fail, `createHelia()` ends within its timeout,
  `stop()` ends, set-up ends (it waits for a relay for at most 30 s).
- `RelayConnections`: redials and attempts end, timers fire, events are delivered.
  Nothing is assumed of discovery, of libp2p's own dials or of peers.
- `LocalStore`: in each tab the start with the migration behind it runs on, and so do the
  identity and the replay: transactions end and the event loop runs what is ready.  Tabs
  need not stay and old tabs need not close; what fails is bounded and not fair.

Deadlock is not checked: when the environment's budget is used up there is nothing left
to do in any of these systems.

Premises.  `SavingEnds` excludes a publication before the runtime has started, whose facts
are lost in part; `EditsAreAccountedFor` is stated for runs without a failed publication,
because the documented behaviour after a failure is to wait for the next edit, and leaves
out what is `missed`; `InitiatorIsPursued` and `InitiatorSettles` excuse an initiator
whose offer could not be created or whose answer was refused; `ReplayIsComplete` leaves
out channels whose migration or replay failed in the tab and databases that y-indexeddb
rewrote; `OldIdentityIsKept` devices where a tab could not read the old seed;
`OpensInTheEnd` tabs whose store or identity failed, whose migration waits for an aborted
transaction, or that an old tab may keep waiting; `PullIsComplete` excludes a START that
looks like the receiver's own tree and is not; `FaithfulIsReachable` is about a peer that
uses one relay; `DeadRoomIsReplaced` about rooms that did not count a peer twice;
`RoomReturns` until the code gives up (`stranded`).  Each excluded case is in the list of
disagreements below.

## Proofs

TLAPS proves, for all values of the constants that satisfy the modules' assumptions:

| theorems | state |
|---|---|
| `DocPipelineProofs` TypeCorrect, NewestCorrect, TipCorrect, BaseCorrect, RetriesCorrect, SidebandCorrect, FetchingCorrect, FollowerImplemented | `[]TypeOK`, `[]NewestIsExact`, `[]TipIsSound`, `[]BaseIsNewestMerged`, `[]FailedIsRetried`, `[]SidebandIsCoherent`, `[]FetchingIsPursued`, and `ImplementsFollower`, the refinement |
| `DeviceProofs` PublishingTypeCorrect, ParentsCorrect, EditsCorrect (of `Publishing`) | `[]PublishingTypeOK`, `[]SnapshotExtendsParent`, `[]EditsAreAccountedFor` |
| `ReconciliationProofs` TypeCorrect, PullCorrect | `[]TypeOK`, `[]PullIsComplete` |
| `RelaySignalingProofs` TypeCorrect, TablesCorrect, RegisteredCorrect, OwnRelayCorrect, ReachableCorrect, IntroducedCorrect | `[]TypeOK`, `[]TablesAgree`, `[]RegisteredIsLive`, `[]OwnRelayKeepsIt`, `[]FaithfulIsReachable`, `[]FaithfulIsIntroduced` |
| `PeerManagerProofs` TypeCorrect, TimersCorrect, PursuedCorrect, DownCorrect, RoomReplaced | `[]TypeOK`, `[]TimersAreCurrent`, `[]InitiatorIsPursued`, `[]DownIsHandled`, `[]DeadRoomIsReplaced` |
| `NetworkProofs` TypeCorrect, HoldersCorrect, InstanceCorrect, CountCorrect, FailureCorrect (of `SharedHelia`) | `[]TypeOK`, `[]HoldersAreServed`, `[]OneInstance`, `[]CountIsExact`, `[]FailsForAReason` |
| `NetworkProofs` RelayTypeCorrect, RedialCorrect (of `RelayConnections`) | `[]RelayTypeOK`, `[]RedialIsPending` |
| `SnapshotExchangeProofs` TypeCorrect, PursuitCorrect, OfferCorrect, TransferImplemented | `[]TypeOK`, `[]RequestedIsPursued`, `[]OfferedTipArrives`, and `ImplementsTransfer`, the refinement |
| `PinnerProofs` TypeCorrect, PromisesAreKept, TipsAreHeld, UploadsAreDurable | `[]TypeOK`, `[]PromiseKept`, `[]TipIsHeld`, `[]IngestIsDurable` |
| `DeviceProofs` TypeCorrect, IdentityIsKept, ReplayShowsAll (of `LocalStore`) | `[]TypeOK`, `[]OldIdentityIsKept`, `[]ReplayIsComplete` |

Assumptions: parents and numbers are functions of the CID (`ChainAssumption`,
`PipelineAssumption`), genuine snapshots are numbered from 1 (`NumberingAssumption`,
needed by `BaseCorrect`: the codec's counter starts there), relays, browsers, remote
peers and documents are finite sets (the code lists or counts them), the values that
stand for "none" are no relays, streams or documents, and bounds are natural numbers.
An exchange has two peers, and a block at least one chunk (`ExchangeAssumption`); its
snapshots may be any set of numbers, and that each resolver holds finitely many is part
of the invariant.  A reconciliation has two peers (`PeerAssumption`), whose trees start
with finitely many typed edits (`TreesAssumption`); a hash consists of bits
(`BitAssumption`) and may be any function of the payload, the search may be of any depth
and threshold.  For the pinner the guaranteed time is at most the retention of a passive
name, and that at most the general one, as in `config` of `pinner.ts`
(`PinnerAssumption`).

*The reader.*  Types are inductive with the lemma that each reducer operator maps
chains to chains.  `NewestIsExact` needs that the three facts which do not recompute the
pointer leave the set of fetched entries alone.  `TipIsSound` is not inductive: the tip
changes when a tip fact is folded, and what makes that tip sound was true when the fact
was queued.  The strengthening `TipInv` says of every queued tip fact what the property
says of the tip, of every placed CID that it is genuine with a known parent, and of an
applied entry that it is placed; known CIDs are never forgotten, so all of it persists.
`BaseIsNewestMerged` is strengthened with the relation between `codec.seq` and the number
of `codec.prev`.  `FailedIsRetried` needs that what the timers lose is on the queue.
`FetchingIsPursued` is strengthened to `FetchInv`: an entry that is being fetched has its
call open or a result on the queue, and each queued start its call or a result behind it;
a turn of the interpreter takes the head of the queue and appends starts only with their
calls.  `SidebandIsCoherent` is inductive; eviction and removal of an element are lemmas
about injective sequences.  The
refinement takes one lemma per action: a turn of the interpreter learns or shows, a gate
or a merge places, everything else stutters; that a shown snapshot is placed is `TipInv`
again.

*The writer.*  `TypeInv` adds that snapshots and publications together stay within the
bound.  `SnapshotExtendsParent` is about finished snapshots; the strengthening `BaseInv`
says the same of each publication in progress towards its captured base and of the
document towards the codec's base, which every merge and every finished publication
re-establishes.  `EditsAreAccountedFor` needs `TreeInv`: what the surface shows is in the
tree, being signed, or replayed; so a publication, which clears the flag, captures
everything but what it puts into `missed`.

*The relays.*  `StreamsOK` says which frames a stream may have under way in which phase
and that of two streams of a browser to a relay only the later one can still join;
`TablesOK` is `TablesAgree` with `RegisteredIsLive`; `LinksOK` that a relay announces
itself as the owner and never to itself.  With these `OwnRelayKeepsIt` is inductive:
only the end of its own stream, or a join heard from another relay, could remove the
entry, and of a faithful peer there is no other join.

`FaithfulIsReachable` and `FaithfulIsIntroduced` speak of quiet relays only; the
invariant behind them, `FInv`, speaks of every queue between two relays.  Of a peer b
that has used no relay but o it says (`Faith`): other relays send nothing about b (`Own`)
and have it from o or not at all (`Tabled`); while o has b and none has restarted, each
relay knows it, or a join of b is under way that no departure follows (`Spread`,
`KnownAt`); a signal that b left is always behind the departure itself, so that no relay
which knows b still passes it on (`Clean`); and everyone registered at o, or at a relay
that knows b, was told of it (`ToldHere`, `ToldThere`).  For what holds after restarts:
the relay of a newcomer knows b or has its own announcement of the newcomer under way to
o, which will answer (`Asked`); this needs that nobody has heard of a peer whose first
join no relay has taken (`Fresh`).  The steps of a relay are reduced to six kinds by what
they do to the tables and the queues (`Joins`, `Departs`, `Learns`, `Forgets`, `Skips`,
`Signals`), each kind has one lemma for `Faith`, and the lemmas about queues say what
appending to one and taking its head do to `Knows` and `Swept`.  `FInv` was first checked
by TLC with the constants of `relay_signaling`.

*The peers.*  `PeerInv(r)` relates the connection of one peer, its three timers and its
offer under way (an untracked peer has no timer; a connection whose offer is under way
is new and has no description; one that is up has no timer).  Each action touches one
peer, so the preservation of the others is one lemma.  `DeadRoomIsReplaced` needs that
the count is the number of counted peers while none was counted twice.

*The instance.*  While acquisitions and releases match, the phase of the state
determines what every document and instance is doing: in `idle` nobody refers to
anything, in `bootstrapping` one creates and the rest join it, in `ready` all refer to
the running instance and the count is their number, in `destroying` all wait.  This
(`Phased`), and that a document which has acquired nothing has no instance (`Fresh`), is
inductive, and the four properties follow from it.

*The redials.*  `RedialIsPending` is inductive with the types: a relay leaves `conn` by
a disconnection, which adds it to `lost`; each event that consumes one of the three
reasons gives another, or the relay is connected or no longer tracked.

*The pinner.*  Each property is about one name and is false of the name in some state
that handlers of it can leave; what rules those states out is the rest of `IInv`.
`Alive(n)` says of a name that is not excused that its deletion was decided only past
its retention, that without its history it is not tracked, that its tip is held unless
it is being deleted, and that a promise which stands counts from its last activity: so a
name that is being deleted has no promise left (`DoomedIsOver`), because a guarantee is
never longer than a retention.  `Persisted(n)` says the same of LevelDB and the index
while the process is down, where the deletion that a crash interrupted is recognised by
the activity in the row; `Down` and `Start` carry the one into the other, which needs
`Rows` (LevelDB with its writes applied has what the memory has) and `Histories` (the tip
is among the records, so thinning cannot drop it unseen).  `Uploads` says of an upload
under way that its name is tracked, active now and not about to be deleted.  A step
touches one name, so the preservation for the others is one lemma (`Untouched`).  The
proof of `Alive` failed at first for acknowledgements: a handler that was announcing an
ack while its name was deleted, forgotten and announced again by a pinner leaves
`lastAckedCid` set with nothing in the history, and the next announcement by a writer is
promised at once.  TLC shows it with four messages; it is the second half of case 6.

*The store.*  `SeedIsCopied` says that wherever a tab is past the identity migration,
the record is the old one unless some tab could not read it, so that no tab finds it empty
and makes its own; `MigrationIsExact` says of each tab and database that what the tab read
is copied, or the tab is still copying it, or the migration failed or hangs in it, and that
a replay which did not fail shows it.  What makes the comparison of two numbers enough is
`CopiesArePrefixes`: as long as y-indexeddb has not rewritten a database, its keys and the
copied ones are each 1 up to some k (`Initial`), and two such sets of one size are equal
(`EqualCounts`).  Of a rewritten database this is false, and with it the property (see the
disagreements below).

*The search.*  `PullIsComplete` is about what is left when all is quiet; `IInv` says the
same of every moment.  `Searches(p)` says of a search that has seen the peer's last START,
and found it to differ, that each payload the peer answers for is in p's tree or is
`Pursued`: in a batch that is being signed or is on its way, under a question or a
response that found a difference, or under a queued subtree while something else is under
way, so that the queue will be drained.  The second disjunct of `Pursued` is what a match
or a live batch consumes, and `AsksOn` says of each step of a session that what it takes
away it asks for or leaves in the queue behind a question.  That one START is the last
comes from `Linked`: the last START on a channel announces what its sender answers for
now, because `reconcile()` sends one with every new session and a closed end has nothing
on its way.  `Holds` says that everything a peer's sessions, questions and promises refer
to is in its tree, which is why a match, a SET that leaves an edit out, and a START with
the count 0 hide nothing.  `Authors` leads from trees to surfaces: whatever a snapshot
covers was typed by one of the two, so it is in the peer's session or in the other tree as
typed, and the typed edits of a tree are shown.  The messages are reduced by one lemma per
handler to what it takes and sends (`Answered`, `ReceiveStartFacts`), and the four parts of
`IInv` have one lemma per action each.  `IInv` was first checked by TLC with the constants
of `reconciliation` and two data channels, one after the other.

*The exchange.*  Nothing in the code says that a request and an answer for the same CID
are not both under way; it follows from what every message on both channels may be.
`IInv` says of each peer and CID (`Pursued`) that at most one message on the outgoing
channel asks for it and at most one on the incoming channel answers for it, that these,
the verification and the delivery exclude one another, that `requested` holds the CID
exactly when one of them is there, and that the answer continues the reassembly.  What a
request lists is without repetitions (`Sent`), or one request would have two answers.
`Offer` says of an offered tip that the other peer has it, or is about to hear of it in a
catalog with no refusal behind it, or has asked for it with no refusal under way; the
offering peer has the block in memory, so it sends none.  At rest only the first is left,
because a CID that is asked for and in no channel was delivered, and `Kept` says that what
was delivered is stored.  The lemmas about channels say what taking the next message
(`AskedRest`, `AnsweredRest`, `PromisedRest`) and sending more (`AskedCat`, `AnsweredCat`,
`PromisedCat`) do to what a channel asks, answers and promises, and each action has a lemma
that only uses these.  The refinement reads the stage of a CID off the same invariant: a
fresh CID is idle, a refused or completed one was asked for and neither verified nor
delivered.  `IInv` was first checked by TLC with the constants of `snapshot_exchange`.

Only model-checked: the liveness properties (`ComesToRest`, `SavingEnds`, `Settles`,
`LiveEditsArrive`, `RequestsSettle`, `ExpiredIsForgotten`, `InitiatorSettles`,
`SetupEnds`, `UnusedIsStopped`, `RoomReturns`, `OpensInTheEnd`), which are out of the
prover's reach.  Every safety property that a run finds to hold is proved.

## Where code and text disagree

One is kept as a run, with a property that quotes the text and is violated:

- *A tip that was never merged* (`tip_unmerged`): a rescan places a snapshot without merging
  it; the interpreter later finds it a duplicate and makes it the tip, against
  `ingest-snapshot.ts:490-496`.

Others were met while modelling.  The models have these behaviours unless noted, and the
properties exclude them where they would break:

- The edit of an editor's plugin has an origin: it marks the document dirty
  (`edit-bridge.ts:90-112`) before it is in the tree, which it enters when `signBytes` has
  settled (`document.ts:320-346`) without marking the document again.  A publication in
  between clears the flag without it (`create-doc.ts:1268-1284`), and the edit is in no
  snapshot until the next one, against `edit-bridge.ts:81-84` ("the epoch tree stays
  up-to-date for immediate publish()"; `missed` in `Publishing`).
- Replayed edits mark the document dirty and are never in the tree
  (`create-doc.ts:411-434`): the document is published and shown as saved without them,
  against `integration-guide.md:349` ("Latest edits have been published"; `missed` again).
- An answer clears the offer timer before it is applied, and a rejection is only logged
  (`peer-connection.ts:719-738`, against 519-523): the initiator has no description, timer
  or retry, and a second `PEER_JOINED` makes no new connection (`broken` in `PeerManager`).
- Peers that never came up are counted down (`rooms.ts:168`): a room whose signaling has
  ended is replaced under another peer that is connected, against `rooms.ts:73-75` ("AND no
  WebRTC peers remain").  `DeadRoomIsReplaced` says only that a dead room is replaced.
- An old identity database that cannot be opened counts as none (`migrate.ts:53-57`, against
  48-49: "DB doesn't exist yet"), its migration is marked as done (117-122), and the device
  makes a new identity for good, against `identity.ts:20-22` (`unread` in `LocalStore`).
  The doc-cache is passed over in the same way (185-190).
- The migration compares how many edits are copied with how many there are and not which
  (`migrate.ts:437`, against 12-13: "Per-edit precision").  y-indexeddb rewrites its updates
  as one under a new key, so an old tab that does this between two starts leaves an update
  which is never migrated (`trimmed`).
- The writes of the migration settle in `oncomplete` and `onerror` only
  (`migrate.ts:490-493`, 518-519); a transaction aborted when it commits leaves `migrated`
  open for good, against `store.ts:98` ("Resolves when background migrations complete"),
  and every document awaits it (`hung`).
- The tip can go back: an older snapshot whose block comes late is applied
  (`ingest-snapshot.ts:317-319` says the tip stays).
- A merge or a publication during the encoding of another leaves the codec with a parent
  and a number that do not belong together; `reducers.ts:192-194` infers numbers from
  parents.
- An edit made during a publication is shown as saved when it ends
  (again `integration-guide.md:349`).
- A document published before its P2P layer is up is shown as being saved once it is
  (`create-doc.ts:602-603`: "converges to the same state").
- The peer that answers a late joiner with its full state is never done, and so never
  advertises its snapshots to it (`reconciliation-wiring.ts:62-64`: once per cycle).
- A peer that types while it pulls clears its own coordinator and nothing pulls again
  until the other peer types (`reconciliation-wiring.ts:210`, against
  `reconciliation-wiring.test.ts:253` and `peer-sync.ts:68-69`).
- A local edit without an origin is appended to the channel twice: at once by
  `edit-bridge.ts:99-105` and, when its signature has settled, by `document.ts:321-352`.
  Its two hashes cancel in `channelFingerprint`, so two users who wrote as many edits
  apart from each other have equal fingerprints and equal counts, which `session.ts:166`
  calls "already in sync".  Batches that the search brought are appended twice too, by
  the coordinator and by the live handler.
- An edit of an editor's plugin, whose transactions have an origin, does not come through
  the bridge (`yjs-codec.ts:99`), against the comment at `edit-bridge.ts:88-93`, and is
  therefore not given to `persistEdit`.
- A reload replays the store into the surfaces and not into the channel trees
  (`create-doc.ts:427-434`): a peer that wrote offline and was reloaded announces nothing
  and its publications do not contain those edits either, because `publish()` folds the
  same trees (`create-doc.ts:1268-1284`), against
  `docs/internals/principles.md:95-96` ("edit offline indefinitely and merge cleanly when
  reconnected"; `Reconciliation` starts with filled trees and does not have it).
- The identity is loaded and saved in two transactions; two tabs of a new device make one
  each, and the later save wins (against `identity.ts:20-22`).
- A rejected promise of the store or of the identity, or one left open by an abort, is
  kept for the life of the page (`index.ts:162-178`), so one failed transaction keeps
  every document from opening until a reload.
- A replay that fails is logged and the document is marked ready without the edits
  (`create-doc.ts:442-449`).
- The migration closes epoch 0 in a transaction after that of the edits; if the tab ends
  between them, every later tab finds all edits there and never comes to the epoch
  (against `migrate.ts:404-406`).
- A catalog lists blocks that are only in IndexedDB, which the responder refuses
  (`snapshot-exchange.ts:60-63`: "CIDs we can serve").
- Hydration and a failed write that ends late break `knownCids` disjoint from
  `memoryOnlyCids` (`doc-block-resolver.ts:23`; not in the model).
- A guarantee without `lastSeenAt` is pruned (case 1 of the pinner).
- A browser whose joins to two relays cross is a remote peer at both and gets no signals
  (`relay-forward.ts:293` and 346-350, against 4-7).
- A peer that reconnects after it went down is counted twice, and the dead room is then
  not replaced (against `rooms.ts:73-75`).
- Two documents that wait for one shutdown create two instances with one count
  (`helia.ts:91-92`: "prevents race #186").
- A document without a P2P layer releases what it never acquired; a document closed
  while it is set up never releases what it acquired; a creation that times out leaves
  an instance that nobody stops.
- The creator of the instance closes its blockstore while others still use it
  (`create-doc.ts:1092`: "after Helia releases it"; not in the model).
- Where a browser cannot list its databases, old edits of a document without a snapshot
  are not migrated (`migrate.ts:291-313`, against 534: "Migrate
  all old y-indexeddb databases").
- `Store.Document.destroy` deletes the migrated edits and not the old database, so the
  next start migrates them again (not in the model).
- New edits are stored in epoch 0 although the migration closed it, because
  `create-doc.ts:655-657` counts the epochs of a tree that starts empty (not in the
  model).
- A relay first met after the wait of 30 s gets no room (`p2p-layer.ts:196-198`:
  "connectRelay will retry when relays appear").

## Not modelled

- IPNS publication and the pinner's republication of records, the migration of a
  pinner's old state, metrics, `GET /history`, `POST /block`: they write to no state the
  properties are about, or only once.
- The local store's later writes: appended edits, epochs, view cache, `destroy`, each one
  transaction.
- Epochs, convergence and hydration of channels: trees over the finger tree, merged
  idempotently; the convergence class is exported and not used by the core.
- The status, loading and guarantee feeds of a document, acks on the writer's side,
  topology that is shared and drawn, the node registry, rotation, invitations.
- The retries, negative cache and timeouts inside the block resolvers: time is
  abstracted, `FetchMiss` stands for all of them.
- Cryptography, encodings and Yjs itself are constants or sets.  The finger tree and
  other pure data structures are property-tested in the repository and recursive.
- react, comments, examples, load tests and tools hold no shared state of interest; they
  are a large part of the repository's lines, which is why the map covers a small share
  of them.

## Plan

Done: the reader with its abstract follower, the writer, reconciliation of two peers,
the snapshot exchange with its abstract transfer, the pinner, relays, peer connections,
the shared instance, relay connections, the store with its migrations.

Left, in order of what can go wrong:

1. `Publishing` and `DocPipeline` composed over one codec; the save state before and
   after the runtime's start.
2. Three peers in `Reconciliation`.
3. The two block resolvers with their clocks, LRU bounds and hydration.
4. The writer's side of acks and guarantees, composed with `Pinner`.
5. The store's later writes, composed with `Publishing`.
6. The finger tree and the views of a document as pure operators.
