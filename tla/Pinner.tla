------------------------------- MODULE Pinner -------------------------------
(***************************************************************************)
(* The pinner of packages/node/src/pinner.ts: it hears announcements,      *)
(* fetches and keeps the blocks they name, answers with acknowledgements   *)
(* that carry a guarantee, re-announces what it keeps, deactivates and     *)
(* deletes what nobody asks for, and restarts from LevelDB and from the    *)
(* history index file.                                                     *)
(*                                                                         *)
(* A handler that awaits is several actions, one for each stretch between  *)
(* two awaits; "jobs" holds the handlers under way and "doomed" the names  *)
(* a pruneIfNeeded() under way decided to delete.  A snapshot is named by  *)
(* the time its writer put in it.  A clock unit stands for half a day to a *)
(* few days, a handler takes at most 30 s (the timeout of blockstore.get), *)
(* so the clock moves only between handlers.  Refusals that depend on the  *)
(* rate limiters and on the query cooldown are handlers that do not run.   *)
(***************************************************************************)
EXTENDS Integers, FiniteSets, FiniteSetsExt

CONSTANTS
  Names,           \* IPNS names of documents
  Snapshots,       \* snapshots of a document: the times their writers made them
  MaxTime,         \* bound on the clock
  MaxNames,        \* hard cap on tracked names
  MaxTracked,      \* capacity backstop: maxActiveDocs() * PRUNE_HEADROOM
  Short, Long,     \* guaranteeDuration() under the highest load and under none
  Retention,       \* RETENTION_DURATION_MS
  PassiveRetention,\* DEACTIVATED_RETENTION_MS
  StaleAfter,      \* staleResolveMs
  Grace,           \* NEVER_RESOLVED_GRACE_MS
  Recent,          \* age from which reannounceInterval() is MAX_INTERVAL_MS
  FullResolution,  \* age from which thinSnapshots() may drop a record
  MaxJobs,         \* bound on the handlers under way
  MaxCrashes,      \* bound on the crashes
  MaxInputs        \* bound on the messages and requests from outside

ASSUME PinnerAssumption ==
  /\ Snapshots \subseteq 1..MaxTime
  /\ {MaxTime, MaxNames, MaxTracked, Short, Long, Retention, PassiveRetention,
      StaleAfter, Grace, Recent, FullResolution, MaxJobs, MaxCrashes, MaxInputs}
       \subseteq Nat
  /\ Short <= Long /\ Long <= PassiveRetention /\ PassiveRetention <= Retention
  /\ Grace <= StaleAfter /\ Retention < MaxTime

VARIABLES
  clock,     \* Date.now(); at the start a record without a time is long expired
  phase,     \* "down", "starting" or "running"
  known,     \* knownNames
  apps,      \* names with an entry in nameToAppId
  seen,      \* lastSeenAt, 0 when absent
  resolved,  \* lastResolvedAt, 0 when absent
  passive,   \* deactivatedNames
  guar,      \* guaranteedUntil, 0 when absent
  acked,     \* lastAckedCid, 0 when absent
  hist,      \* history: the records and the tip of each name
  queued,    \* names in the re-announce heap
  swept,     \* resolveAllCompleted
  doomed,    \* names left to delete in the pruneIfNeeded() under way
  victim,    \* the name being deleted: its blocks left to visit
  jobs,      \* the other handlers under way
  blocks,    \* the blockstore
  store,     \* LevelDB with the writes under way applied
  disk,      \* LevelDB as a crash leaves it
  index,     \* history-index.json
  crashes,   \* crashes so far
  inputs,    \* messages and requests so far
  promise,   \* the latest guaranteeUntil published for each name (history)
  excused,   \* names whose guarantee the code cannot keep (history)
  durable    \* names whose ingest() was answered with true (history)

clockVars   == <<clock, crashes>>
nameVars    == <<known, apps, seen, resolved, passive>>
ackVars     == <<guar, acked, promise, excused>>
pruneVars   == <<doomed, victim>>
storeVars   == <<store, disk, index>>
vars == <<clockVars, inputs, phase, nameVars, ackVars, hist, queued, swept, pruneVars,
          jobs, blocks, storeVars, durable>>

-----------------------------------------------------------------------------
NoTip   == [cid |-> 0, ts |-> 0]
NoEntry == [tip |-> NoTip, snaps |-> {}]
NoRow   == [kn |-> FALSE, tip |-> 0, app |-> FALSE, seen |-> 0, res |-> 0,
            deact |-> FALSE]
Idle    == [name |-> "none", left |-> {}, live |-> FALSE]

(* HistoryTracker.add: a CID that is listed keeps its record; the tip moves *)
(* to the CID when its time is not before that of the tip.                  *)
HistoryAdd(entry, c, ts) ==
  [tip   |-> IF entry.tip = NoTip \/ ts >= entry.tip.ts
               THEN [cid |-> c, ts |-> ts] ELSE entry.tip,
   snaps |-> IF \E r \in entry.snaps : r.cid = c
               THEN entry.snaps ELSE entry.snaps \cup {[cid |-> c, ts |-> ts]}]

(* thinSnapshots: never the tip, never a recent record; which of the older  *)
(* ones go depends on the hour and the day they fall in.                    *)
Thinnable_TipToo(entry) == {r \in entry.snaps : clock - r.ts >= FullResolution}
Thinnable(entry) ==
  {r \in entry.snaps : r.cid # entry.tip.cid /\ clock - r.ts >= FullResolution}

Cids(records) == {r.cid : r \in records}

(* reannounceInterval(name) < MAX_INTERVAL_MS *)
Active(seenAt) == clock - seenAt < Recent

-----------------------------------------------------------------------------
(* issueGuarantee: a name without activity counts from now, and a promise   *)
(* that stands is not shortened.  d is guaranteeDuration() under the load.  *)
Guarantee(n, seenAt, standing, d) ==
  Max({(IF seenAt = 0 THEN clock ELSE seenAt) + d, standing})

(* A promise leaves the pinner.  It is excused when the code cannot keep    *)
(* it: the name has no activity of its own, so the next prune finds it past *)
(* its retention, or a prune under way has already decided to delete it.    *)
Publish(n, until, seenAt) ==
  /\ promise' = [promise EXCEPT ![n] = Max({@, until})]
  /\ excused' = IF seenAt = 0 \/ n \in doomed
                  THEN excused \cup {n} ELSE excused

Init ==
  /\ clock = Retention + 1 /\ crashes = 0 /\ inputs = 0
  /\ phase = "down"
  /\ known = {} /\ apps = {} /\ passive = {}
  /\ seen = [n \in Names |-> 0]
  /\ resolved = [n \in Names |-> 0]
  /\ guar = [n \in Names |-> 0]
  /\ acked = [n \in Names |-> 0]
  /\ hist = [n \in Names |-> NoEntry]
  /\ queued = {} /\ swept = FALSE
  /\ doomed = {} /\ victim = Idle
  /\ jobs = {} /\ blocks = {}
  /\ store = [n \in Names |-> NoRow]
  /\ disk = store
  /\ index = hist
  /\ promise = [n \in Names |-> 0]
  /\ excused = {} /\ durable = {}

-----------------------------------------------------------------------------
(* Pruning.  pruneIfNeeded() decides on every name at once, deactivates,    *)
(* and then deletes name after name with an await per block.                *)

Expired_AtOnce(n, at, deact) ==
  at + (IF n \in deact THEN PassiveRetention ELSE Retention) <= clock
Expired(n, at, deact) ==
  at + (IF n \in deact THEN PassiveRetention ELSE Retention) < clock

Stale(n) ==
  /\ n \notin passive
  /\ IF resolved[n] = 0 THEN seen[n] + Grace < clock
     ELSE seen[n] + StaleAfter < clock /\ resolved[n] + StaleAfter < clock

(* The names the capacity backstop adds: the least recently seen ones. *)
Overflow(kept) ==
  {extra \in SUBSET kept :
     /\ Cardinality(extra) = Max({0, Cardinality(kept) - MaxTracked})
     /\ \A n \in extra, m \in kept \ extra : seen[n] <= seen[m]}

Prune ==
  /\ phase = "running" /\ doomed = {}
  /\ LET expired == {n \in known : Expired(n, seen[n], passive)}
         stale   == IF swept THEN {n \in known \ expired : Stale(n)} ELSE {}
     IN \E extra \in Overflow(known \ expired) :
          /\ doomed' = expired \cup extra
          /\ excused' = excused \cup extra
          /\ passive' = passive \cup stale
          /\ queued' = queued \ stale
          /\ guar' = [n \in Names |-> IF n \in stale THEN 0 ELSE guar[n]]
          /\ store' = [n \in Names |-> IF n \in stale
                         THEN [store[n] EXCEPT !.deact = TRUE] ELSE store[n]]
  /\ UNCHANGED <<clockVars, phase, known, apps, seen, resolved, acked, promise,
                 hist, swept, victim, jobs, blocks, disk, index, durable>>

(* The loop over toDelete reads the entry of the next name ... *)
PruneName(n) ==
  /\ phase # "down" /\ n \in doomed /\ victim = Idle
  /\ victim' = [name |-> n, left |-> Cids(hist[n].snaps), live |-> TRUE]
  /\ UNCHANGED <<clockVars, phase, nameVars, ackVars, hist, queued, swept, doomed,
                 jobs, blocks, storeVars, durable>>

(* ... and awaits the deletion of each of its blocks ... *)
PruneBlock ==
  /\ phase # "down"
  /\ \E c \in victim.left :
       /\ blocks' = blocks \ {<<victim.name, c>>}
       /\ victim' = [victim EXCEPT !.left = @ \ {c}]
  /\ UNCHANGED <<clockVars, phase, nameVars, ackVars, hist, queued, swept, doomed,
                 jobs, storeVars, durable>>

(* ... before it forgets the name. *)
PruneForget_Kept ==
  /\ phase # "down" /\ victim # Idle /\ victim.left = {}
  /\ LET n == victim.name IN
       /\ known' = known /\ apps' = apps \ {n} /\ passive' = passive \ {n}
       /\ seen' = [seen EXCEPT ![n] = 0]
       /\ resolved' = [resolved EXCEPT ![n] = 0]
       /\ acked' = [acked EXCEPT ![n] = 0]
       /\ guar' = [guar EXCEPT ![n] = 0]
       /\ queued' = queued \ {n}
       /\ hist' = [hist EXCEPT ![n] = NoEntry]
       /\ store' = [store EXCEPT ![n] = NoRow]
       /\ doomed' = doomed \ {n}
       /\ durable' = durable \ {n}
  /\ victim' = Idle
  /\ UNCHANGED <<clockVars, phase, promise, excused, swept, jobs, blocks, disk, index>>

PruneForget ==
  /\ phase # "down" /\ victim # Idle /\ victim.left = {}
  /\ LET n == victim.name IN
       /\ known' = known \ {n} /\ apps' = apps \ {n} /\ passive' = passive \ {n}
       /\ seen' = [seen EXCEPT ![n] = 0]
       /\ resolved' = [resolved EXCEPT ![n] = 0]
       /\ acked' = [acked EXCEPT ![n] = 0]
       /\ guar' = [guar EXCEPT ![n] = 0]
       /\ queued' = queued \ {n}
       /\ hist' = [hist EXCEPT ![n] = NoEntry]
       /\ store' = [store EXCEPT ![n] = NoRow]
       /\ doomed' = doomed \ {n}
       /\ durable' = durable \ {n}
  /\ victim' = Idle
  /\ UNCHANGED <<clockVars, phase, promise, excused, swept, jobs, blocks, disk, index>>

-----------------------------------------------------------------------------
(* Activity, admission and fetching. *)

Fetch(n, c, answer) ==
  [kind |-> "get", name |-> n, cid |-> c, answer |-> answer, left |-> {}]

Admitted(n) == n \in known \/ Cardinality(known) < MaxNames

Room == Cardinality(jobs) < MaxJobs

(* A writer's or a reader's announcement, or an HTTP access: the activity   *)
(* is recorded and a deactivated name becomes active again.                 *)
Touch(n, row) ==
  /\ seen' = [seen EXCEPT ![n] = clock]
  /\ passive' = passive \ {n}
  /\ store' = [store EXCEPT ![n] = [row EXCEPT !.seen = clock, !.deact = FALSE]]

(* processAnnouncement for a CID it has not acknowledged last: fetchByCid   *)
(* answers at once when the CID is the tip, and fetches it otherwise.       *)
Announced(n, c, fromPinner) ==
  /\ phase = "running" /\ Admitted(n) /\ c <= clock /\ acked[n] # c /\ Room
  /\ known' = known \cup {n}
  /\ apps' = apps \cup {n}
  /\ LET row == [store[n] EXCEPT !.kn = TRUE, !.app = TRUE] IN
       IF fromPinner
         THEN /\ store' = [store EXCEPT ![n] = row]
              /\ UNCHANGED <<seen, passive>>
         ELSE Touch(n, row)
  /\ queued' = IF Active(seen'[n]) THEN queued \cup {n} ELSE queued
  /\ IF hist[n].tip.cid = c
       THEN \E d \in {Short, Long} :
              /\ guar' = [guar EXCEPT ![n] = Guarantee(n, seen'[n], 0, d)]
              /\ Publish(n, guar'[n], seen'[n])
              /\ jobs' = jobs \cup {[Fetch(n, c, TRUE) EXCEPT !.kind = "ack"]}
       ELSE /\ guar' = [guar EXCEPT ![n] = 0]
            /\ jobs' = jobs \cup {Fetch(n, c, TRUE)}
            /\ excused' = IF ~fromPinner /\ n \in doomed
                            THEN excused \cup {n} ELSE excused
            /\ UNCHANGED promise
  /\ UNCHANGED <<clockVars, phase, resolved, acked, hist, swept, pruneVars, blocks,
                 disk, index, durable>>

(* processAnnouncement for the CID it acknowledged last: it only answers. *)
ReAcked(n, c, fromPinner) ==
  /\ phase = "running" /\ Admitted(n) /\ acked[n] = c
  /\ known' = known \cup {n}
  /\ apps' = apps \cup {n}
  /\ LET row == [store[n] EXCEPT !.kn = TRUE, !.app = TRUE] IN
       IF fromPinner
         THEN /\ store' = [store EXCEPT ![n] = row]
              /\ UNCHANGED <<seen, passive>>
         ELSE Touch(n, row)
  /\ \E d \in {Short, Long} :
       guar' = [guar EXCEPT ![n] =
                  Guarantee(n, seen'[n], IF fromPinner THEN guar[n] ELSE 0, d)]
  /\ Publish(n, guar'[n], seen'[n])
  /\ UNCHANGED <<clockVars, phase, resolved, acked, hist, queued, swept, pruneVars,
                 jobs, blocks, disk, index, durable>>

(* resolveAndFetch: IPNS may lag behind and name an older snapshot. *)
Resolve(n, c) ==
  /\ phase = "running" /\ n \in known \ passive /\ Active(seen[n])
  /\ c <= clock /\ Room
  /\ resolved' = [resolved EXCEPT ![n] = clock]
  /\ store' = [store EXCEPT ![n].res = clock]
  /\ jobs' = IF hist[n].tip.cid = c THEN jobs ELSE jobs \cup {Fetch(n, c, FALSE)}
  /\ UNCHANGED <<clockVars, phase, known, apps, seen, passive, ackVars, hist, queued,
                 swept, pruneVars, blocks, disk, index, durable>>

(* The startup resolveAll() is over: stale names may be deactivated. *)
Sweep ==
  /\ phase = "running" /\ ~swept
  /\ swept' = TRUE
  /\ UNCHANGED <<clockVars, phase, nameVars, ackVars, hist, queued, pruneVars, jobs,
                 blocks, storeVars, durable>>

(* fetchByCid: blockstore.get answers, or times out ... *)
FetchGot(j) ==
  /\ j \in jobs /\ j.kind = "get"
  /\ blocks' = blocks \cup {<<j.name, j.cid>>}
  /\ jobs' = (jobs \ {j}) \cup {[j EXCEPT !.kind = "check"]}
  /\ UNCHANGED <<clockVars, phase, nameVars, ackVars, hist, queued, swept, pruneVars,
                 storeVars, durable>>

FetchFailed(j) ==
  /\ j \in jobs /\ j.kind \in {"get", "check"}
  /\ jobs' = jobs \ {j}
  /\ UNCHANGED <<clockVars, phase, nameVars, ackVars, hist, queued, swept, pruneVars,
                 blocks, storeVars, durable>>

(* ... and a valid block is recorded; an announcement is then answered.     *)
(* A deletion under way sees a record added to the list it goes through.    *)
Tracked(n, c) ==
  /\ known' = known \cup {n}
  /\ hist' = [hist EXCEPT ![n] = HistoryAdd(@, c, c)]
  /\ victim' = IF victim.name = n /\ victim.live /\ c \notin Cids(hist[n].snaps)
                 THEN [victim EXCEPT !.left = @ \cup {c}] ELSE victim

FetchAdded(j) ==
  /\ j \in jobs /\ j.kind = "check"
  /\ LET n == j.name IN
       /\ Tracked(n, j.cid)
       /\ store' = [store EXCEPT ![n].kn = TRUE, ![n].tip = j.cid]
       /\ IF j.answer
            THEN \E d \in {Short, Long} :
                   /\ guar' = [guar EXCEPT ![n] = Guarantee(n, seen[n], guar[n], d)]
                   /\ promise' = [promise EXCEPT ![n] = Max({@, guar'[n]})]
                   /\ jobs' = (jobs \ {j}) \cup {[j EXCEPT !.kind = "ack"]}
            ELSE /\ jobs' = jobs \ {j}
                 /\ UNCHANGED <<guar, promise>>
       /\ excused' = IF \/ <<n, j.cid>> \notin blocks
                        \/ j.answer /\ (seen[n] = 0 \/ n \in doomed)
                        THEN excused \cup {n} ELSE excused
  /\ UNCHANGED <<clockVars, phase, apps, seen, resolved, passive, acked, queued, swept,
                 doomed, blocks, disk, index, durable>>

(* announceAck() has resolved: the CID is remembered and the history of the *)
(* name thinned; the blocks of the dropped records are deleted one by one.  *)
Thinned(n, drop) ==
  /\ drop \subseteq Thinnable(hist[n])
  /\ hist' = [hist EXCEPT ![n].snaps = @ \ drop]
  /\ victim' = IF victim.name = n THEN [victim EXCEPT !.live = FALSE] ELSE victim

AckDone(j) ==
  /\ j \in jobs /\ j.kind = "ack"
  /\ acked' = [acked EXCEPT ![j.name] = j.cid]
  /\ excused' = IF j.name \in known /\ hist[j.name].tip # NoTip
                  THEN excused ELSE excused \cup {j.name}
  /\ \E drop \in SUBSET Thinnable(hist[j.name]) :
       /\ Thinned(j.name, drop)
       /\ jobs' = (jobs \ {j}) \cup
                    {[j EXCEPT !.kind = "thin", !.left = Cids(drop)]}
  /\ UNCHANGED <<clockVars, phase, nameVars, guar, promise, queued, swept, doomed,
                 blocks, storeVars, durable>>

ThinBlock(j) ==
  /\ j \in jobs /\ j.kind \in {"thin", "finish"}
  /\ \E c \in j.left :
       /\ blocks' = blocks \ {<<j.name, c>>}
       /\ jobs' = (jobs \ {j}) \cup {[j EXCEPT !.left = @ \ {c}]}
       /\ excused' = IF c \in Cids(hist[j.name].snaps)
                       THEN excused \cup {j.name} ELSE excused
  /\ UNCHANGED <<clockVars, phase, nameVars, guar, acked, promise, hist, queued, swept, pruneVars,
                 storeVars, durable>>

ThinDone(j) ==
  /\ j \in jobs /\ j.kind = "thin" /\ j.left = {}
  /\ jobs' = jobs \ {j}
  /\ UNCHANGED <<clockVars, phase, nameVars, ackVars, hist, queued, swept, pruneVars,
                 blocks, storeVars, durable>>

(* thinSweep: every name is thinned on a timer as well. *)
ThinSweep(n) ==
  /\ phase = "running" /\ n \in known /\ Room
  /\ \E drop \in SUBSET Thinnable(hist[n]) :
       /\ drop # {}
       /\ Thinned(n, drop)
       /\ jobs' = jobs \cup {[Fetch(n, hist[n].tip.cid, FALSE)
                               EXCEPT !.kind = "thin", !.left = Cids(drop)]}
  /\ UNCHANGED <<clockVars, phase, nameVars, ackVars, queued, swept, doomed, blocks,
                 storeVars, durable>>

-----------------------------------------------------------------------------
(* POST /ingest: admission, validation and storage of the block, then the   *)
(* writes of the store, awaited; the answer follows the thinning and the    *)
(* history index.                                                           *)
IngestAdmitted(n, c) ==
  /\ phase = "running" /\ Admitted(n) /\ c <= clock /\ Room
  /\ jobs' = jobs \cup {[Fetch(n, c, FALSE) EXCEPT !.kind = "ingest"]}
  /\ UNCHANGED <<clockVars, phase, nameVars, ackVars, hist, queued, swept, pruneVars,
                 blocks, storeVars, durable>>

IngestStored(j) ==
  /\ j \in jobs /\ j.kind = "ingest"
  /\ LET n == j.name IN
       /\ blocks' = blocks \cup {<<n, j.cid>>}
       /\ Tracked(n, j.cid)
       /\ seen' = [seen EXCEPT ![n] = clock]
       /\ store' = [store EXCEPT ![n].kn = TRUE, ![n].tip = j.cid, ![n].seen = clock]
       /\ excused' = IF n \in doomed THEN excused \cup {n} ELSE excused
  /\ jobs' = (jobs \ {j}) \cup {[j EXCEPT !.kind = "write"]}
  /\ UNCHANGED <<clockVars, phase, apps, resolved, passive, guar, acked, promise,
                 queued, swept, doomed, disk, index, durable>>

IngestWritten_Unawaited(j) ==
  /\ j \in jobs /\ j.kind = "write"
  /\ \E drop \in SUBSET Thinnable(hist[j.name]) :
       /\ Thinned(j.name, drop)
       /\ jobs' = (jobs \ {j}) \cup
                    {[j EXCEPT !.kind = "finish", !.left = Cids(drop)]}
  /\ UNCHANGED <<clockVars, phase, nameVars, ackVars, queued, swept, doomed, blocks,
                 storeVars, durable>>

IngestWritten(j) ==
  /\ j \in jobs /\ j.kind = "write" /\ store = disk
  /\ \E drop \in SUBSET Thinnable(hist[j.name]) :
       /\ Thinned(j.name, drop)
       /\ jobs' = (jobs \ {j}) \cup
                    {[j EXCEPT !.kind = "finish", !.left = Cids(drop)]}
  /\ UNCHANGED <<clockVars, phase, nameVars, ackVars, queued, swept, doomed, blocks,
                 storeVars, durable>>

IngestDone(j) ==
  /\ j \in jobs /\ j.kind = "finish" /\ j.left = {}
  /\ jobs' = jobs \ {j}
  /\ index' = hist
  /\ durable' = IF j.name \in excused THEN durable ELSE durable \cup {j.name}
  /\ UNCHANGED <<clockVars, phase, nameVars, ackVars, hist, queued, swept, pruneVars,
                 blocks, store, disk>>

-----------------------------------------------------------------------------
(* Guarantee queries, the HTTP endpoints, the re-announce queue. *)

(* onGuaranteeQuery *)
Queried(n) ==
  /\ phase = "running" /\ n \in known /\ hist[n].tip # NoTip
  /\ \E d \in {Short, Long} :
       guar' = [guar EXCEPT ![n] = Guarantee(n, seen[n], @, d)]
  /\ Publish(n, guar'[n], seen[n])
  /\ queued' = queued \cup {n}
  /\ UNCHANGED <<clockVars, phase, known, apps, seen, resolved, passive, acked, hist,
                 swept, pruneVars, jobs, blocks, storeVars, durable>>

(* GET /tip (with the block) and GET /guarantee (without): the guarantee is *)
(* issued from the old activity, then the access counts as activity.        *)
Served(n, withBlock) ==
  /\ phase = "running" /\ n \in known /\ hist[n].tip # NoTip
  /\ withBlock => <<n, hist[n].tip.cid>> \in blocks
  /\ \E d \in {Short, Long} :
       guar' = [guar EXCEPT ![n] = Guarantee(n, seen[n], @, d)]
  /\ promise' = [promise EXCEPT ![n] = Max({@, guar'[n]})]
  /\ excused' = IF n \in doomed THEN excused \cup {n} ELSE excused
  /\ Touch(n, store[n])
  /\ queued' = queued \cup {n}
  /\ UNCHANGED <<clockVars, phase, known, apps, resolved, acked, hist, swept, pruneVars,
                 jobs, blocks, disk, index, durable>>

(* One turn of the loop of processScheduleQueue. *)
Reannounce(n) ==
  /\ phase = "running" /\ n \in queued
  /\ IF n \in known \ passive /\ n \in apps /\ hist[n].tip # NoTip
       THEN /\ \E d \in {Short, Long} :
                 guar' = [guar EXCEPT ![n] = Guarantee(n, seen[n], @, d)]
            /\ Publish(n, guar'[n], seen[n])
            /\ queued' = IF Active(seen[n]) THEN queued ELSE queued \ {n}
       ELSE /\ queued' = queued \ {n}
            /\ UNCHANGED <<guar, promise, excused>>
  /\ UNCHANGED <<clockVars, phase, nameVars, acked, hist, swept, pruneVars, jobs,
                 blocks, storeVars, durable>>

-----------------------------------------------------------------------------
(* Persistence and restart. *)

(* LevelDB has applied the writes issued so far. *)
Settle ==
  /\ store # disk
  /\ disk' = store
  /\ UNCHANGED <<clockVars, phase, nameVars, ackVars, hist, queued, swept, pruneVars,
                 jobs, blocks, store, index, durable>>

(* persistHistoryIndex on its timers. *)
SaveIndex ==
  /\ phase = "running" /\ index # hist
  /\ index' = hist
  /\ UNCHANGED <<clockVars, phase, nameVars, ackVars, hist, queued, swept, pruneVars,
                 jobs, blocks, store, disk, durable>>

(* The process ends: memory and the writes under way are lost.  stop()      *)
(* saves the index first; a crash does not.                                 *)
Down(saved) ==
  /\ phase # "down" /\ crashes < MaxCrashes
  /\ crashes' = crashes + 1
  /\ phase' = "down"
  /\ index' = IF saved THEN hist ELSE index
  /\ excused' = excused \cup
       {n \in Names : \/ store[n] # disk[n] \/ index'[n] # hist[n]
                       \/ store[n].tip # hist[n].tip.cid}
  /\ store' = disk
  /\ known' = {} /\ apps' = {} /\ passive' = {}
  /\ seen' = [n \in Names |-> 0]
  /\ resolved' = [n \in Names |-> 0]
  /\ guar' = [n \in Names |-> 0]
  /\ acked' = [n \in Names |-> 0]
  /\ hist' = [n \in Names |-> NoEntry]
  /\ queued' = {} /\ swept' = FALSE
  /\ doomed' = {} /\ victim' = Idle
  /\ jobs' = {}
  /\ UNCHANGED <<clock, blocks, disk, promise, durable>>

(* The history of a name after a restart. *)
Restored(n) ==
  IF disk[n].tip = 0 THEN index[n] ELSE HistoryAdd(index[n], disk[n].tip, disk[n].seen)

(* start(): restoreState() puts the tip of the store in the history with    *)
(* the time the document was last seen, queues what is recent, and the      *)
(* first pruneIfNeeded() begins; announcements are ignored until it ends.   *)
Start ==
  /\ phase = "down"
  /\ phase' = "starting"
  /\ known' = {n \in Names : disk[n].kn}
  /\ apps' = {n \in Names : disk[n].app}
  /\ seen' = [n \in Names |-> disk[n].seen]
  /\ resolved' = [n \in Names |-> disk[n].res]
  /\ passive' = {n \in known' : disk[n].deact}
  /\ hist' = [n \in Names |-> Restored(n)]
  /\ queued' = {n \in known' \ passive' : Active(seen'[n])}
  /\ LET expired == {n \in known' : Expired(n, seen'[n], passive')}
         kept    == known' \ expired
     IN \E extra \in SUBSET kept :
          /\ Cardinality(extra) = Max({0, Cardinality(kept) - MaxTracked})
          /\ \A n \in extra, m \in kept \ extra : seen'[n] <= seen'[m]
          /\ doomed' = expired \cup extra
          /\ excused' = excused \cup extra
  /\ UNCHANGED <<clockVars, guar, acked, promise, swept, victim, jobs, blocks,
                 storeVars, durable>>

Started ==
  /\ phase = "starting" /\ doomed = {}
  /\ phase' = "running"
  /\ swept' = (known = {})
  /\ UNCHANGED <<clockVars, nameVars, ackVars, hist, queued, pruneVars, jobs, blocks,
                 storeVars, durable>>

(* backfillHistory: from the tip along prev through the blocks that are in  *)
(* the store, for a name whose history is its tip alone.                    *)
Backfill(n) ==
  /\ phase = "running" /\ n \in known \ doomed
  /\ Cids(hist[n].snaps) = {hist[n].tip.cid}
  /\ LET tip   == hist[n].tip.cid
         found == {c \in Snapshots : c < tip /\
                     \A b \in Snapshots : b \in c..tip => <<n, b>> \in blocks}
     IN /\ found # {}
        /\ hist' = [hist EXCEPT ![n].snaps = @ \cup {[cid |-> c, ts |-> c] : c \in found}]
  /\ index' = hist'
  /\ UNCHANGED <<clockVars, phase, nameVars, ackVars, queued, swept, pruneVars, jobs,
                 blocks, store, disk, durable>>

Tick ==
  /\ clock < MaxTime
  /\ jobs = {} /\ doomed = {} /\ store = disk
  /\ phase = "running" => swept /\ index = hist
  /\ clock' = clock + 1
  /\ UNCHANGED <<crashes, phase, nameVars, ackVars, hist, queued, swept, pruneVars,
                 jobs, blocks, storeVars, durable>>

-----------------------------------------------------------------------------
Pruning ==
  /\ Prune \/ (\E n \in Names : PruneName(n)) \/ PruneBlock \/ PruneForget
  /\ UNCHANGED inputs

Handling ==
  /\ \E j \in jobs :
       \/ FetchGot(j) \/ FetchFailed(j) \/ FetchAdded(j) \/ AckDone(j)
       \/ ThinBlock(j) \/ ThinDone(j)
       \/ IngestStored(j) \/ IngestWritten(j) \/ IngestDone(j)
  /\ UNCHANGED inputs

Persisting == (Settle \/ SaveIndex) /\ UNCHANGED inputs

Running ==
  /\ Start \/ Started \/ Sweep \/ Tick
  /\ UNCHANGED inputs

Outside ==
  /\ inputs < MaxInputs
  /\ inputs' = inputs + 1
  /\ \/ \E n \in Names, c \in Snapshots :
          \/ \E fromPinner \in BOOLEAN :
               Announced(n, c, fromPinner) \/ ReAcked(n, c, fromPinner)
          \/ Resolve(n, c) \/ IngestAdmitted(n, c)
     \/ \E n \in Names : Queried(n) \/ (\E withBlock \in BOOLEAN : Served(n, withBlock))

Next ==
  \/ Pruning \/ Handling \/ Persisting \/ Running \/ Outside
  \/ /\ \/ \E n \in Names : Reannounce(n) \/ Backfill(n) \/ ThinSweep(n)
        \/ \E saved \in BOOLEAN : Down(saved)
     /\ UNCHANGED inputs

Spec == Init /\ [][Next]_vars

(* Fairness: the interval timers fire, handlers settle, the process is     *)
(* restarted.  Nothing is assumed of the outside world.                    *)
Fairness ==
  /\ WF_vars(Pruning) /\ WF_vars(Handling) /\ WF_vars(Persisting)
  /\ WF_vars(Running)

FairSpec == Spec /\ Fairness

-----------------------------------------------------------------------------
Time    == 0..MaxTime
Records == [cid : Snapshots, ts : Time]
Entry   == [tip : Records \cup {NoTip}, snaps : SUBSET Records]
Row     == [kn : BOOLEAN, tip : Snapshots \cup {0}, app : BOOLEAN, seen : Time,
            res : Time, deact : BOOLEAN]
Job     == [kind : {"get", "check", "ack", "thin", "ingest", "write", "finish"},
            name : Names, cid : Snapshots, answer : BOOLEAN, left : SUBSET Snapshots]

(* Type invariant of the pinner's memory, its disk and its handlers. *)
TypeOK ==
  /\ clock \in (Retention + 1)..MaxTime /\ crashes \in 0..MaxCrashes
  /\ phase \in {"down", "starting", "running"}
  /\ {known, apps, passive, queued, doomed, excused, durable} \subseteq SUBSET Names
  /\ {seen, resolved} \subseteq [Names -> Time]
  /\ {guar, promise} \subseteq [Names -> 0..(MaxTime + Long)]
  /\ acked \in [Names -> Snapshots \cup {0}]
  /\ {hist, index} \subseteq [Names -> Entry]
  /\ swept \in BOOLEAN
  /\ victim = Idle \/ victim \in [name : Names, left : SUBSET Snapshots, live : BOOLEAN]
  /\ jobs \subseteq Job
  /\ blocks \subseteq Names \X Snapshots
  /\ {store, disk} \subseteq [Names -> Row]

(* A guarantee that was published and has not run out is kept: the pinner   *)
(* knows the document and holds the block of its tip, whatever handlers     *)
(* interleave, and after a restart.  The names in "excused" are those for   *)
(* which the code cannot keep it; the README lists the cases.               *)
PromiseKept ==
  phase = "running" =>
    \A n \in Names \ excused : promise[n] >= clock =>
      /\ n \in known
      /\ hist[n].tip # NoTip /\ <<n, hist[n].tip.cid>> \in blocks

(* The tip that is re-announced and served is a block the pinner has, also  *)
(* while old versions are thinned and the same CIDs are fetched again.      *)
TipIsHeld ==
  \A n \in known \ (excused \cup doomed) :
    hist[n].tip # NoTip => <<n, hist[n].tip.cid>> \in blocks

(* An ingest() that was answered with true survives a crash that follows:   *)
(* until the name is forgotten LevelDB lists it, with a tip and an activity.*)
IngestIsDurable ==
  \A n \in durable \ excused :
    disk[n].kn /\ disk[n].tip # 0 /\ disk[n].seen # 0

(* Bound of the run: once no name has a guarantee left that the code can    *)
(* keep, one message from outside is enough.                                *)
SomePromise == excused # Names \/ inputs <= 1

(* A document nobody uses does not stay: past its retention it is forgotten *)
(* unless activity comes, also when other pinners keep announcing it.       *)
ExpiredIsForgotten ==
  \A n \in Names :
    (n \in known /\ Expired(n, seen[n], passive))
      ~> (n \notin known \/ ~Expired(n, seen[n], passive))
=============================================================================
