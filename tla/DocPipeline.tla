---------------------------- MODULE DocPipeline ----------------------------
(***************************************************************************)
(* How one reader's document follows the chain of published snapshots      *)
(* (core/src/interpreter.ts, ingest-snapshot.ts, snapshot-ops.ts,          *)
(* snapshot-codec.ts, doc-runtime.ts).                                     *)
(*                                                                         *)
(* Facts about snapshots enter one queue.  The interpreter takes them one  *)
(* at a time: it folds the fact into the chain, starts block fetches and   *)
(* retry timers, and awaits the ingestion of the snapshot that should      *)
(* become the tip.  Two more callers run the same ingestion concurrently   *)
(* with it: the catalog exchange with peers, and the rescan of the pending *)
(* sideband that ends a reconciliation cycle.                              *)
(*                                                                         *)
(* Environment: Gossip, HttpTip, Ipns, VersionIndex, Hydrate, LoadVersion, *)
(*   CatalogBlock, RescanStart.                                            *)
(* Resolver: FetchOk, FetchMiss.  Timer: RetryDue.                         *)
(* Interpreter: Take.                                                      *)
(* Ingestion, for each worker: Reject, Duplicate, Defer, PlaceNow,         *)
(*   StartApply, FailApply, FinishApply; RescanNext walks the sideband.  *)
(*                                                                         *)
(* One step is the code between two awaits.  An await of an already        *)
(* settled promise is not a switch point.                                  *)
(***************************************************************************)
EXTENDS ChainReducer, SequencesExt

CONSTANTS
  Genuine,        \* snapshots whose bytes hash to the CID and whose signature is good
  Readable,       \* those of them that decrypt with the document's read key
  MaxRetries,     \* MAX_INTERPRETER_RETRIES
  MaxPending,     \* entries the sideband holds (DEFAULT_MAX_ENTRIES)
  Feeds,          \* the sources the environment uses
  Stored,         \* the versions the local store had when the document was opened
  MaxArrivals     \* bound: how many times the environment delivers a CID

ASSUME PipelineAssumption ==
  /\ Genuine \subseteq Cid
  /\ Readable \subseteq Genuine
  /\ MaxRetries \in Nat
  /\ MaxPending \in Nat
  /\ Stored \in Seq(Cid)
  /\ MaxArrivals \in Nat

\* Publishers number their snapshots from 1 (the codec's seq starts there).
ASSUME NumberingAssumption == \A c \in Genuine : SeqNo[c] > 0

VARIABLES
  ch,         \* interpreterState.chain
  queue,      \* the fact queue
  inflight,   \* resolver.get calls not settled: [cid, attempt]
  timers,     \* CIDs with a pending retry timer (blockRetries)
  cached,     \* CIDs whose block the resolver holds in memory
  job,        \* what each worker's ingestion awaits
  todo,       \* the sideband entries the running rescan has left
  placed,     \* placedCids
  sideband,   \* pending, in insertion order
  contexts,   \* the keys of pendingContexts
  codec,      \* the snapshot codec: prev, seq, lastAppliedCid
  merged,     \* how often a snapshot's content went into the document
  opened,     \* one-shot sources already used: the local store, the HTTP tip
  arrivals    \* deliveries so far

chainVars  == <<ch, queue, inflight, timers, cached>>
ingestVars == <<job, todo, placed, sideband, contexts, codec, merged>>
envVars == <<opened, arrivals>>
vars == <<chainVars, ingestVars, envVars>>

Worker == {"interpreter", "catalog", "rescan"}
Idle == [stage |-> "idle", cid |-> NoCid]
Job == [stage : {"idle", "verify", "decrypt"}, cid : Cid \cup {NoCid}]

AutoFetchSources == {"gossipsub", "ipns", "http-tip", "reannounce", "chain-walk"}
-----------------------------------------------------------------------------
(***************************************************************************)
(* Facts.                                                                  *)
(***************************************************************************)
DiscoveredFact(c, source, block, seq) ==
  [type |-> "cid-discovered", cid |-> c, source |-> source, block |-> block,
   seq |-> seq]
FetchedFact(c)      == [type |-> "block-fetched", cid |-> c]
FailedFact(c, n)    == [type |-> "block-fetch-failed", cid |-> c, attempt |-> n]
StartedFact(c)      == [type |-> "block-fetch-started", cid |-> c]
RetryFact(c)        == [type |-> "block-retry-reset", cid |-> c]
TipFact(c)          == [type |-> "tip-advanced", cid |-> c]

Fact ==
  [type : {"cid-discovered"}, cid : Cid, source : Source, block : BOOLEAN,
   seq : Nat \cup {NoSeq}]
    \cup
  [type : {"block-fetch-failed"}, cid : Cid, attempt : Nat]
    \cup
  [type : {"block-fetched", "block-fetch-started", "block-retry-reset",
           "tip-advanced"}, cid : Cid]

Queued(f) == \E i \in 1..Len(queue) : queue[i] = f

Reduce(c, f) ==
  CASE f.type = "cid-discovered"      -> Discover(c, f.cid, f.source, f.block, f.seq)
    [] f.type = "block-fetch-started" -> FetchStart(c, f.cid)
    [] f.type = "block-fetched"       -> Fetched(c, f.cid)
    [] f.type = "block-fetch-failed"  -> Fail(c, f.cid, f.attempt)
    [] f.type = "block-retry-reset"   -> RetryReset(c, f.cid)
    [] f.type = "tip-advanced"        -> AdvanceTip(c, f.cid)
-----------------------------------------------------------------------------
(***************************************************************************)
(* The interpreter.  `next` is the chain after the fact, ch the one before.*)
(***************************************************************************)
ShouldFetch(next, c) ==
  LET e == next.entries[c]
  IN  \/ e.via \cap AutoFetchSources # {}
      \/ "cache" \in e.via /\ e.seq = next.maxSeq

\* Entries the fact turned unknown; a fact concerns at most one such entry.
NewlyUnknown(next) ==
  {c \in Cid : /\ next.entries[c].status = "unknown"
               /\ ch.entries[c].status # "unknown"
               /\ ShouldFetch(next, c)}

\* A fetch is announced on the queue and handed to the resolver.
Dispatched(next, c) == [cid |-> c, attempt |-> next.entries[c].attempt + 1]

\* The parent of c, as far as its own entry tells.
Up(next, c) == IF c = NoCid THEN NoCid ELSE next.entries[c].prev

\* The three ancestors of a new tip (DEFAULT_PREFETCH_DEPTH) that still need
\* their block.
Prefetch(next, f) ==
  LET a == Up(next, f.cid)
      b == Up(next, a)
      c == Up(next, b)
      Needed(d) == IF /\ d # NoCid
                      /\ next.entries[d].status = "unknown"
                      /\ d \notin cached
                   THEN <<d>> ELSE <<>>
  IN  IF f.type = "tip-advanced" THEN Needed(a) \o Needed(b) \o Needed(c)
      ELSE <<>>

\* The CIDs whose fetch is dispatched by the auto-fetch loop.
AutoFetch(next) ==
  IF NewlyUnknown(next) \ cached = {} THEN <<>>
  ELSE <<CHOOSE c \in NewlyUnknown(next) \ cached : TRUE>>

\* The blocks the auto-fetch loop finds in memory.
FastPath(next) ==
  IF NewlyUnknown(next) \cap cached = {} THEN <<>>
  ELSE <<FetchedFact(CHOOSE c \in NewlyUnknown(next) \cap cached : TRUE)>>

\* An inline block is decoded for its parent link.
DecodeInline(f) ==
  IF f.type = "cid-discovered" /\ f.block THEN <<FetchedFact(f.cid)>> ELSE <<>>

\* Fault: one retry too few.
TimersAfter_OffByOne(next, f) ==
  CASE f.type = "block-fetch-failed"
       /\ next.entries[f.cid].status # "absent"
       /\ next.entries[f.cid].attempt + 1 < MaxRetries -> timers \cup {f.cid}
    [] f.type \in {"block-fetched", "tip-advanced"} -> timers \ {f.cid}
    [] OTHER -> timers

\* Timers armed by a failed fetch, cancelled by a block or a tip.
TimersAfter(next, f) ==
  CASE f.type = "block-fetch-failed"
       /\ next.entries[f.cid].status # "absent"
       /\ next.entries[f.cid].attempt < MaxRetries -> timers \cup {f.cid}
    [] f.type \in {"block-fetched", "tip-advanced"} -> timers \ {f.cid}
    [] OTHER -> timers

\* The newest fetched snapshot is applied when this fact made it fetched.
MustApply(next) ==
  /\ next.newest # NoCid
  /\ next.newest # next.tip
  /\ ch.entries[next.newest].status # "fetched"
  /\ next.newest \in cached

Take ==
  /\ job["interpreter"] = Idle
  /\ queue # <<>>
  /\ LET f == Head(queue)
         next == Reduce(ch, f)
         auto == AutoFetch(next)
         ahead == Prefetch(next, f)
         Started(s) == [i \in DOMAIN s |-> StartedFact(s[i])]
         Calls(s) == [i \in DOMAIN s |-> Dispatched(next, s[i])]
     IN  /\ ch' = next
         /\ queue' = Tail(queue) \o FastPath(next) \o Started(auto)
                       \o DecodeInline(f) \o Started(ahead)
         /\ inflight' = inflight \o Calls(auto) \o Calls(ahead)
         /\ timers' = TimersAfter(next, f)
         /\ job' = IF MustApply(next)
                   THEN [job EXCEPT !["interpreter"] =
                           [stage |-> "verify", cid |-> next.newest]]
                   ELSE job
  /\ UNCHANGED <<cached, todo, placed, sideband, contexts, codec, merged, envVars>>
-----------------------------------------------------------------------------
(***************************************************************************)
(* The block resolver and the retry timers.                                *)
(***************************************************************************)
FetchOk(i) ==
  LET c == inflight[i].cid
  IN  /\ inflight' = RemoveAt(inflight, i)
      /\ cached' = cached \cup {c}
      /\ queue' = Append(queue, FetchedFact(c))
      /\ UNCHANGED <<ch, timers, ingestVars, envVars>>

\* Fault: a miss is reported only while retries are left.
FetchMiss_Silent(i) ==
  LET r == inflight[i]
  IN  /\ inflight' = RemoveAt(inflight, i)
      /\ queue' = IF r.attempt < MaxRetries
                  THEN Append(queue, FailedFact(r.cid, r.attempt)) ELSE queue
      /\ UNCHANGED <<ch, timers, cached, ingestVars, envVars>>

FetchMiss(i) ==
  LET r == inflight[i]
  IN  /\ inflight' = RemoveAt(inflight, i)
      /\ queue' = Append(queue, FailedFact(r.cid, r.attempt))
      /\ UNCHANGED <<ch, timers, cached, ingestVars, envVars>>

RetryDue(c) ==
  /\ c \in timers
  /\ timers' = timers \ {c}
  /\ queue' = Append(queue, RetryFact(c))
  /\ UNCHANGED <<ch, inflight, cached, ingestVars, envVars>>
-----------------------------------------------------------------------------
(***************************************************************************)
(* Ingestion (attempt, ingestSnapshot and rescanPending).  A worker awaits *)
(* the hash and the signature at "verify"; the gates that follow read the  *)
(* chain as it is by then.                                                 *)
(***************************************************************************)
\* Fault: the parent is not looked for.
Placeable_Anywhere(c) == c \in Cid

\* isPlaceable
Placeable(c) == Prev[c] = NoCid \/ Prev[c] \in Known(ch)

IsDuplicate(c) == c \in placed \/ ch.entries[c].status = "applied"

Verifying(w, c) == job[w] = [stage |-> "verify", cid |-> c]

\* What the worker's caller tells the interpreter.
Report(w, c, outcome) ==
  queue' = CASE w = "interpreter" /\ outcome \in {"placed", "duplicate"} -> Append(queue, TipFact(c))
             [] w = "catalog" /\ outcome = "placed" ->
                  Append(queue, DiscoveredFact(c, "catalog", TRUE, NoSeq))
             [] OTHER -> queue

\* Added last; when the sideband is full its oldest entry leaves (FIFO), which
\* is c itself if the sideband holds none.
Overflows(c) == ~Contains(sideband, c) /\ Len(sideband) >= MaxPending

\* Fault: an evicted entry leaves its context behind.
Stash_KeepsContext(c) ==
  LET longer == Append(sideband, c)
  IN  /\ sideband' = IF Contains(sideband, c) THEN sideband
                     ELSE IF Overflows(c) THEN Tail(longer) ELSE longer
      /\ contexts' = contexts \cup {c}

Stash(c) ==
  LET longer == Append(sideband, c)
  IN  /\ sideband' = IF Contains(sideband, c) THEN sideband
                     ELSE IF Overflows(c) THEN Tail(longer) ELSE longer
      /\ contexts' = IF Overflows(c) THEN (contexts \cup {c}) \ {Head(longer)}
                     ELSE contexts \cup {c}

\* A rescan forgets the context whether or not the sideband still has c.
Release(w, c) ==
  /\ sideband' = IF Contains(sideband, c)
                 THEN RemoveAt(sideband, CHOOSE i \in 1..Len(sideband) :
                                           sideband[i] = c)
                 ELSE sideband
  /\ contexts' = IF w = "rescan" \/ Contains(sideband, c) THEN contexts \ {c}
                 ELSE contexts

\* The worker is done with c.
Settle(w, c, outcome) ==
  /\ job' = [job EXCEPT ![w] = Idle]
  /\ Report(w, c, outcome)
  /\ CASE outcome = "placed" \/ (w = "rescan" /\ outcome # "pending") -> Release(w, c)
       [] w # "rescan" /\ outcome = "pending" -> Stash(c)
       [] OTHER -> UNCHANGED <<sideband, contexts>>
  /\ UNCHANGED <<ch, inflight, timers, todo, envVars>>

\* Gates 1 and 2.
Reject(w, c) ==
  /\ Verifying(w, c)
  /\ c \notin Genuine
  /\ Settle(w, c, "rejected")
  /\ UNCHANGED <<cached, placed, codec, merged>>

\* Gate 3.
Duplicate(w, c) ==
  /\ Verifying(w, c)
  /\ c \in Genuine
  /\ IsDuplicate(c)
  /\ Settle(w, c, "duplicate")
  /\ UNCHANGED <<cached, placed, codec, merged>>

\* Gate 4: the bytes are kept for other peers.
Defer(w, c) ==
  /\ Verifying(w, c)
  /\ c \in Genuine
  /\ ~IsDuplicate(c)
  /\ ~Placeable(c)
  /\ cached' = cached \cup {c}
  /\ Settle(w, c, "pending")
  /\ UNCHANGED <<placed, codec, merged>>

\* Gate 5 without a merge: a rescan never applies, and applyRemote returns at
\* once for the CID it applied last.
PlaceNow(w, c) ==
  /\ Verifying(w, c)
  /\ c \in Genuine
  /\ ~IsDuplicate(c)
  /\ Placeable(c)
  /\ w = "rescan" \/ codec.last = c
  /\ cached' = cached \cup {c}
  /\ placed' = placed \cup {c}
  /\ Settle(w, c, "placed")
  /\ UNCHANGED <<codec, merged>>

\* Gate 5: decryption is awaited, and placedCids is set only after it.
StartApply(w, c) ==
  /\ Verifying(w, c)
  /\ c \in Genuine
  /\ ~IsDuplicate(c)
  /\ Placeable(c)
  /\ w # "rescan" /\ codec.last # c
  /\ cached' = cached \cup {c}
  /\ job' = [job EXCEPT ![w].stage = "decrypt"]
  /\ UNCHANGED <<ch, queue, inflight, timers, todo, placed, sideband, contexts,
                 codec, merged, envVars>>

\* applyRemote threw.
FailApply(w, c) ==
  /\ job[w] = [stage |-> "decrypt", cid |-> c]
  /\ c \notin Readable
  /\ Settle(w, c, "rejected")
  /\ UNCHANGED <<cached, placed, codec, merged>>

\* Fault: every applied snapshot becomes the base, older ones too.
FinishApply_AnyBase(w, c) ==
  /\ job[w] = [stage |-> "decrypt", cid |-> c]
  /\ c \in Readable
  /\ merged' = [merged EXCEPT ![c] = @ + 1]
  /\ codec' = [prev |-> c, seq |-> SeqNo[c] + 1, last |-> c]
  /\ placed' = placed \cup {c}
  /\ Settle(w, c, "placed")
  /\ UNCHANGED cached

\* applyRemote merges the snapshot and moves the base of the next publication
\* forward.
FinishApply(w, c) ==
  /\ job[w] = [stage |-> "decrypt", cid |-> c]
  /\ c \in Readable
  /\ merged' = [merged EXCEPT ![c] = @ + 1]
  /\ codec' = IF SeqNo[c] >= codec.seq
              THEN [prev |-> c, seq |-> SeqNo[c] + 1, last |-> c]
              ELSE [codec EXCEPT !.last = c]
  /\ placed' = placed \cup {c}
  /\ Settle(w, c, "placed")
  /\ UNCHANGED cached

Ingest(w, c) ==
  \/ Reject(w, c)
  \/ Duplicate(w, c)
  \/ Defer(w, c)
  \/ PlaceNow(w, c)
  \/ StartApply(w, c)
  \/ FailApply(w, c)
  \/ FinishApply(w, c)

\* rescanPending copies the sideband, then attempts each entry that still has
\* its context.
RescanStart ==
  /\ "rescan" \in Feeds
  /\ job["rescan"] = Idle /\ todo = <<>>
  /\ sideband # <<>>
  /\ todo' = sideband
  /\ UNCHANGED <<chainVars, job, placed, sideband, contexts, codec, merged, envVars>>

RescanNext ==
  /\ job["rescan"] = Idle /\ todo # <<>>
  /\ todo' = Tail(todo)
  /\ job' = IF Head(todo) \in contexts
            THEN [job EXCEPT !["rescan"] = [stage |-> "verify", cid |-> Head(todo)]]
            ELSE job
  /\ UNCHANGED <<chainVars, placed, sideband, contexts, codec, merged, envVars>>
-----------------------------------------------------------------------------
(***************************************************************************)
(* The environment.                                                        *)
(***************************************************************************)
Deliver(source) ==
  /\ source \in Feeds
  /\ arrivals < MaxArrivals
  /\ arrivals' = arrivals + 1

Discovery(c, source, block, seq) ==
  /\ queue' = Append(queue, DiscoveredFact(c, source, block, seq))
  /\ cached' = IF block THEN cached \cup {c} ELSE cached
  /\ UNCHANGED <<ch, inflight, timers, ingestVars>>

\* An announcement; its block, when it carries one that hashes to the CID, is
\* stored before the fact is pushed.
Gossip(c, block) ==
  /\ Deliver("gossipsub")
  /\ Discovery(c, "gossipsub", block, SeqNo[c])
  /\ UNCHANGED opened

\* IPNS resolution, the first and every polled one.
Ipns(c) ==
  /\ Deliver("ipns")
  /\ Discovery(c, "ipns", FALSE, NoSeq)
  /\ UNCHANGED opened

\* The tip a pinner answers over HTTP when the document is opened.
HttpTip(c) ==
  /\ "http-tip" \notin opened
  /\ opened' = opened \cup {"http-tip"}
  /\ Deliver("http-tip")
  /\ Discovery(c, "http-tip", TRUE, SeqNo[c])

\* versionHistory(): a pinner lists c, which the chain does not know.
VersionIndex(c) ==
  /\ Deliver("pinner-index")
  /\ c \notin Known(ch)
  /\ Discovery(c, "pinner-index", FALSE, SeqNo[c])
  /\ UNCHANGED opened

\* loadVersion(c): the user opened an old version, which fetched its block.
LoadVersion(c) ==
  /\ Deliver("chain-walk")
  /\ ch.entries[c].status \in {"absent", "unknown"}
  /\ Discovery(c, "chain-walk", TRUE, NoSeq)
  /\ UNCHANGED opened

\* The versions kept by the local store.
Hydrate ==
  /\ "cache" \in Feeds \ opened
  /\ opened' = opened \cup {"cache"}
  /\ queue' = queue \o [i \in DOMAIN Stored |->
                 DiscoveredFact(Stored[i], "cache", FALSE, SeqNo[Stored[i]])]
  /\ UNCHANGED <<ch, inflight, timers, cached, ingestVars, arrivals>>

\* onSnapshotReceived: a peer sent the block over the catalog exchange.
CatalogBlock(c) ==
  /\ Deliver("catalog")
  /\ job["catalog"] = Idle
  /\ job' = [job EXCEPT !["catalog"] = [stage |-> "verify", cid |-> c]]
  /\ UNCHANGED <<chainVars, todo, placed, sideband, contexts, codec, merged, opened>>
-----------------------------------------------------------------------------
Init ==
  /\ ch = EmptyChain
  /\ queue = <<>>
  /\ inflight = <<>>
  /\ timers = {}
  /\ cached = {}
  /\ job = [w \in Worker |-> Idle]
  /\ todo = <<>>
  /\ placed = {}
  /\ sideband = <<>>
  /\ contexts = {}
  /\ codec = [prev |-> NoCid, seq |-> 1, last |-> NoCid]
  /\ merged = [c \in Cid |-> 0]
  /\ opened = {}
  /\ arrivals = 0

Fetching ==
  \E i \in 1..Len(inflight) : FetchOk(i) \/ FetchMiss(i)

Environment ==
  \/ \E c \in Cid : \/ \E block \in BOOLEAN : Gossip(c, block)
                   \/ Ipns(c)
                   \/ HttpTip(c)
                   \/ VersionIndex(c)
                   \/ LoadVersion(c)
                   \/ CatalogBlock(c)
  \/ Hydrate
  \/ RescanStart

Next ==
  \/ Environment
  \/ Take
  \/ Fetching
  \/ \E c \in Cid : RetryDue(c)
  \/ \E w \in Worker, c \in Cid : Ingest(w, c)
  \/ RescanNext

Spec == Init /\ [][Next]_vars

\* resolver.get always settles (its fetches have timeouts and it never throws),
\* timers fire, and the event loop runs every settled continuation.  Peers, the
\* user and the reconciliation that starts a rescan owe nothing.
Fairness ==
  /\ WF_vars(Take)
  /\ WF_vars(Fetching)
  /\ \A c \in Cid : WF_vars(RetryDue(c))
  /\ \A w \in Worker : WF_vars(\E c \in Cid : Ingest(w, c))
  /\ WF_vars(RescanNext)

FairSpec == Spec /\ Fairness
-----------------------------------------------------------------------------
(***************************************************************************)
(* Properties.                                                             *)
(***************************************************************************)
\* The types of the variables.
TypeOK ==
  /\ ch \in Chain
  /\ queue \in Seq(Fact)
  /\ inflight \in Seq([cid : Cid, attempt : Nat])
  /\ timers \subseteq Cid
  /\ cached \subseteq Cid
  /\ job \in [Worker -> Job]
  /\ todo \in Seq(Cid)
  /\ placed \subseteq Cid
  /\ sideband \in Seq(Cid)
  /\ contexts \subseteq Cid
  /\ codec \in [prev : Cid \cup {NoCid}, seq : Nat, last : Cid \cup {NoCid}]
  /\ merged \in [Cid -> Nat]
  /\ opened \subseteq Source
  /\ arrivals \in Nat

\* newestFetched is a cached maximum that only four of the six facts recompute;
\* it is never stale.
NewestIsExact == ch.newest = Newest(ch.entries)

\* Whatever order announcements, fetches, catalog transfers and rescans come in,
\* the tip shown to the user is a snapshot that passed ingestion: its bytes and
\* signature are good, and its parent is in the chain.
TipIsSound ==
  ch.tip # NoCid =>
    /\ ch.tip \in Genuine
    /\ ch.tip \in placed
    /\ Prev[ch.tip] # NoCid => Prev[ch.tip] \in Known(ch)

\* An entry shown as being fetched has a fetch that can still end it: a call of
\* the resolver or its result on the queue.
FetchingIsPursued ==
  \A c \in Cid : ch.entries[c].status = "fetching" =>
    \/ \E i \in 1..Len(inflight) : inflight[i].cid = c
    \/ \E i \in 1..Len(queue) :
         /\ queue[i].cid = c
         /\ queue[i].type \in {"block-fetched", "block-fetch-failed"}

\* A failed entry with retries left is retried without anybody announcing the
\* CID again.
FailedIsRetried ==
  \A c \in Cid :
    ch.entries[c].status = "failed" /\ ch.entries[c].attempt < MaxRetries =>
      c \in timers \/ Queued(RetryFact(c))

\* The sideband and the contexts that rescans read, updated by three callers,
\* agree, and the quarantine never outgrows its cap.
SidebandIsCoherent ==
  /\ contexts = Range(sideband)
  /\ Len(sideband) <= MaxPending
  /\ IsInjective(sideband)

\* The base of the next publication is a merged snapshot no older than any
\* merged one, although decryptions of two workers may end in either order.
BaseIsNewestMerged ==
  \A c \in Cid : merged[c] > 0 =>
    /\ codec.prev # NoCid /\ merged[codec.prev] > 0
    /\ SeqNo[c] <= SeqNo[codec.prev]

\* The reader implements the abstract follower of a chain: whatever queue, retries,
\* callers and evictions do, it only learns, places what is genuine once the parent
\* is known, and shows what it has placed.
Follower == INSTANCE ChainFollower WITH
  known  <- Known(ch),
  merged <- {c \in Cid : merged[c] > 0},
  tip    <- ch.tip

ImplementsFollower == Follower!Spec

\* A snapshot that is shown as the tip has been merged into the document.
TipIsMerged == ch.tip # NoCid => merged[ch.tip] > 0

\* Nothing is left to do but wait for the network.
Quiet ==
  /\ queue = <<>> /\ inflight = <<>> /\ timers = {} /\ todo = <<>>
  /\ \A w \in Worker : job[w] = Idle

\* Retries, refetches and reapplications end: the pipeline comes to rest however
\* many fetches miss.
ComesToRest == <>[]Quiet
=============================================================================
