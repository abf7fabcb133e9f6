---------------------------- MODULE PinnerProofs ----------------------------
(***************************************************************************)
(* Proofs about Pinner, for every set of names, every set of snapshots,    *)
(* every retention and every bound: a promise is kept, the tip is held,    *)
(* and an upload that was answered is durable.                             *)
(***************************************************************************)
EXTENDS Pinner, TLAPS
-----------------------------------------------------------------------------
(***************************************************************************)
(* The inductive invariant.                                                *)
(***************************************************************************)
Kept(deact) == IF deact THEN PassiveRetention ELSE Retention

\* A history that has records has a tip, and the tip is one of them.
Listed(entry) ==
  IF entry.tip = NoTip THEN entry.snaps = {} ELSE entry.tip.cid \in Cids(entry.snaps)

Histories == \A n \in Names : Listed(hist[n]) /\ Listed(index[n])

\* What LevelDB says is not from the future, and only a tracked name is passive.
RowTimes ==
  \A n \in Names : /\ store[n].seen <= clock /\ disk[n].seen <= clock
                   /\ store[n].deact => store[n].kn
                   /\ disk[n].deact => disk[n].kn

\* LevelDB, once its writes are applied, has what the memory has.
Mirrors ==
  phase # "down" =>
    \A n \in Names : /\ store[n].kn <=> n \in known
                     /\ store[n].deact <=> n \in passive
                     /\ store[n].seen = seen[n]

\* A process that is down has neither memory nor handlers nor writes under way.
Stopped ==
  /\ phase = "down" => store = disk /\ known = {} /\ doomed = {} /\ victim = Idle
                         /\ \A n \in Names : guar[n] = 0 /\ acked[n] = 0
  /\ phase # "running" => jobs = {}

\* A deletion is of a name the pruning under way decided on.
Deleting == victim = Idle \/ victim.name \in doomed

\* A guarantee that stands was published.
Guaranteed == \A n \in Names : guar[n] <= promise[n]

Rows == RowTimes /\ Mirrors /\ Stopped /\ Deleting /\ Guaranteed

\* A name that is known, or was not forgotten before the process ended.
Alive(n) ==
  /\ n \in doomed => n \in known /\ Expired(n, seen[n], passive)
  /\ n \notin known => hist[n].tip = NoTip
  /\ n \in known \ doomed /\ hist[n].tip # NoTip => <<n, hist[n].tip.cid>> \in blocks
  /\ promise[n] >= clock => /\ n \in known /\ hist[n].tip # NoTip
                            /\ seen[n] # 0 /\ promise[n] <= seen[n] + Long
  /\ acked[n] # 0 => n \in known /\ hist[n].tip # NoTip

\* The same of what LevelDB and the index say while the process is down.  A name
\* whose deletion was interrupted is past its retention, and will be deleted.
Persisted(n) ==
  /\ disk[n].tip = index[n].tip.cid
  /\ ~disk[n].kn => index[n].tip = NoTip
  /\ disk[n].kn /\ index[n].tip # NoTip =>
       <<n, index[n].tip.cid>> \in blocks \/ disk[n].seen + Kept(disk[n].deact) < clock
  /\ promise[n] >= clock => /\ disk[n].kn /\ index[n].tip # NoTip
                            /\ disk[n].seen # 0 /\ promise[n] <= disk[n].seen + Long

Promises == \A n \in Names \ excused : IF phase = "down" THEN Persisted(n) ELSE Alive(n)

\* A row of LevelDB from which a restart takes the document up again.
Complete(row) == row.kn /\ row.tip # 0 /\ row.seen # 0

\* An upload that was answered is written.
Written == \A n \in durable \ excused : Complete(store[n]) /\ Complete(disk[n])

\* One under way is tracked and active, and is not pruned.
Safe(j) ==
  j.kind \in {"write", "finish"} /\ j.name \notin excused =>
    /\ j.name \in known \ doomed /\ seen[j.name] = clock
    /\ Complete(store[j.name])
    /\ j.kind = "finish" => Complete(disk[j.name])

Uploads == Written /\ \A j \in jobs : Safe(j)

IInv == TypeOK /\ Histories /\ Rows /\ Promises /\ Uploads

-----------------------------------------------------------------------------
(***************************************************************************)
(* Numbers, records and histories.                                         *)
(***************************************************************************)
\* The larger of two numbers.
LEMMA MaxOfTwo ==
  ASSUME NEW a \in Int, NEW b \in Int
  PROVE  Max({a, b}) = IF a >= b THEN a ELSE b
BY DEF Max

\* The bounds of an instance are numbers, and times of snapshots are times.
LEMMA Bounds ==
  /\ MaxTime \in Nat /\ Long \in Nat /\ Short \in Nat
  /\ Retention \in Nat /\ PassiveRetention \in Nat
  /\ Short <= Long /\ Long <= PassiveRetention /\ PassiveRetention <= Retention
  /\ Retention < MaxTime /\ MaxCrashes \in Nat
  /\ Snapshots \subseteq Time /\ 0 \notin Snapshots /\ 0 \in Time
BY PinnerAssumption DEF Time

\* The tip of a history: none, or a record of a snapshot.
LEMMA TipType ==
  ASSUME NEW e \in Entry
  PROVE  /\ e.tip = NoTip \/ (e.tip \in Records /\ e.tip.cid \in Snapshots)
         /\ e.tip = NoTip <=> e.tip.cid = 0
         /\ e.snaps \subseteq Records
BY Bounds DEF Entry, Records, NoTip

\* An addition gives the history a tip that is the new CID or the old one.
LEMMA Adds ==
  ASSUME NEW e \in Entry, Listed(e), NEW c \in Snapshots, NEW ts \in Time
  PROVE  LET a == HistoryAdd(e, c, ts) IN
         /\ a \in Entry /\ Listed(a) /\ a.tip # NoTip
         /\ a.tip.cid \in {c, e.tip.cid}
         /\ e.tip = NoTip => a.tip.cid = c
<1> DEFINE r == [cid |-> c, ts |-> ts]
           t == IF e.tip = NoTip \/ ts >= e.tip.ts THEN r ELSE e.tip
           s == IF \E q \in e.snaps : q.cid = c THEN e.snaps ELSE e.snaps \cup {r}
           a == HistoryAdd(e, c, ts)
<1>1. r \in Records /\ r.cid = c /\ r # NoTip
  BY Bounds DEF Records, NoTip
<1>2. t \in Records /\ t # NoTip /\ (t = r \/ (t = e.tip /\ e.tip # NoTip))
  BY <1>1, TipType
<1>3. s \in SUBSET Records /\ e.snaps \subseteq s /\ \E q \in s : q.cid = c
  BY <1>1, TipType
<1>4. a = [tip |-> t, snaps |-> s]
  BY DEF HistoryAdd
<1> HIDE DEF r, t, s
<1>5. a.tip = t /\ a.snaps = s /\ a \in Entry
  BY <1>2, <1>3, <1>4 DEF Entry
<1>6. t.cid \in Cids(s)
  BY <1>1, <1>2, <1>3 DEF Listed, Cids
<1>7. Listed(a)
  BY <1>2, <1>5, <1>6 DEF Listed
<1> QED BY <1>1, <1>2, <1>5, <1>7 DEF a

\* What a row of LevelDB becomes.
LEMMA RowFields ==
  ASSUME NEW r \in Row
  PROVE  /\ r.kn \in BOOLEAN /\ r.tip \in Snapshots \cup {0} /\ r.seen \in Time /\ r.deact \in BOOLEAN
         /\ LET q == [r EXCEPT !.deact = TRUE] IN
            q \in Row /\ q.kn = r.kn /\ q.tip = r.tip /\ q.seen = r.seen /\ q.deact
         /\ LET q == [r EXCEPT !.kn = TRUE, !.app = TRUE] IN
            q \in Row /\ q.kn /\ q.tip = r.tip /\ q.seen = r.seen /\ q.deact = r.deact
BY DEF Row

LEMMA RowTouched ==
  ASSUME NEW r \in Row, NEW t \in Time
  PROVE  /\ LET q == [r EXCEPT !.seen = t, !.deact = FALSE] IN
            q \in Row /\ q.kn = r.kn /\ q.tip = r.tip /\ q.seen = t /\ ~q.deact
         /\ LET q == [r EXCEPT !.res = t] IN
            q \in Row /\ q.kn = r.kn /\ q.tip = r.tip /\ q.seen = r.seen /\ q.deact = r.deact
BY DEF Row

LEMMA RowTracked ==
  ASSUME NEW r \in Row, NEW t \in Time, NEW c \in Snapshots
  PROVE  /\ LET q == [r EXCEPT !.kn = TRUE, !.tip = c] IN
            q \in Row /\ q.kn /\ q.tip = c /\ q.seen = r.seen /\ q.deact = r.deact
         /\ LET q == [r EXCEPT !.kn = TRUE, !.tip = c, !.seen = t] IN
            q \in Row /\ q.kn /\ q.tip = c /\ q.seen = t /\ q.deact = r.deact
BY DEF Row

LEMMA NoRowFields == NoRow \in Row /\ ~NoRow.kn /\ NoRow.tip = 0 /\ NoRow.seen = 0 /\ ~NoRow.deact
BY Bounds DEF NoRow, Row

LEMMA NoEntryFields == NoEntry \in Entry /\ Listed(NoEntry) /\ NoEntry.tip = NoTip /\ NoTip.cid = 0
BY DEF NoEntry, NoTip, Entry, Listed

\* What a handler becomes.
LEMMA JobFields ==
  ASSUME NEW j \in Job
  PROVE  /\ j.name \in Names /\ j.cid \in Snapshots /\ j.left \subseteq Snapshots
         /\ \A k \in {"get", "check", "ack", "thin", "ingest", "write", "finish"} :
              LET i == [j EXCEPT !.kind = k] IN
              i \in Job /\ i.kind = k /\ i.name = j.name /\ i.cid = j.cid /\ i.left = j.left
         /\ \A L \in SUBSET Snapshots :
              LET i == [j EXCEPT !.left = L] IN
              i \in Job /\ i.kind = j.kind /\ i.name = j.name /\ i.cid = j.cid /\ i.left = L
         /\ \A k \in {"get", "check", "ack", "thin", "ingest", "write", "finish"}, L \in SUBSET Snapshots :
              LET i == [j EXCEPT !.kind = k, !.left = L] IN
              i \in Job /\ i.kind = k /\ i.name = j.name /\ i.cid = j.cid /\ i.left = L
BY DEF Job

LEMMA FetchType ==
  ASSUME NEW n \in Names, NEW c \in Snapshots, NEW b \in BOOLEAN
  PROVE  Fetch(n, c, b) \in Job /\ Fetch(n, c, b).kind = "get" /\ Fetch(n, c, b).name = n
BY DEF Fetch, Job

\* Dropping records other than the tip's.
LEMMA Thins ==
  ASSUME NEW e \in Entry, Listed(e), NEW drop \in SUBSET e.snaps,
         \A r \in drop : r.cid # e.tip.cid
  PROVE  LET t == [e EXCEPT !.snaps = @ \ drop] IN
         t \in Entry /\ Listed(t) /\ t.tip = e.tip /\ t.snaps = e.snaps \ drop
<1> DEFINE t == [e EXCEPT !.snaps = @ \ drop]
<1>1. t \in Entry /\ t.tip = e.tip /\ t.snaps = e.snaps \ drop
  BY DEF Entry
<1> HIDE DEF t
<1>2. Listed(t)
  BY <1>1 DEF Listed, Cids
<1> QED BY <1>1, <1>2 DEF t

\* A guarantee is at most Long after the activity it starts from, or one that stands.
LEMMA GuaranteeType ==
  ASSUME TypeOK, NEW n \in Names, NEW s \in Time, NEW g \in 0..(MaxTime + Long), NEW d \in {Short, Long}
  PROVE  /\ Guarantee(n, s, g, d) \in 0..(MaxTime + Long)
         /\ Guarantee(n, s, g, d) = g \/ Guarantee(n, s, g, d) <= (IF s = 0 THEN clock ELSE s) + Long
<1> DEFINE a == (IF s = 0 THEN clock ELSE s) + d
<1>1. d \in Nat /\ d <= Long /\ clock \in Nat /\ clock <= MaxTime
  BY Bounds DEF TypeOK
<1>2. a \in 0..(MaxTime + Long) /\ a <= (IF s = 0 THEN clock ELSE s) + Long
  BY <1>1, Bounds DEF Time
<1>3. Guarantee(n, s, g, d) = Max({a, g})
  BY DEF Guarantee
<1> HIDE DEF a
<1> QED BY <1>2, <1>3, MaxOfTwo, Bounds

-----------------------------------------------------------------------------
(***************************************************************************)
(* Types.                                                                  *)
(***************************************************************************)
\* What the types say of one name.
LEMMA NameTypes ==
  ASSUME TypeOK, NEW n \in Names
  PROVE  /\ seen[n] \in Time /\ resolved[n] \in Time
         /\ guar[n] \in 0..(MaxTime + Long) /\ promise[n] \in 0..(MaxTime + Long)
         /\ acked[n] \in Snapshots \cup {0}
         /\ hist[n] \in Entry /\ index[n] \in Entry
         /\ store[n] \in Row /\ disk[n] \in Row
         /\ clock \in Time /\ clock # 0 /\ clock \in Int
BY Bounds DEF TypeOK, Time

\* A promise is a guarantee.
LEMMA PublishType ==
  ASSUME TypeOK, NEW n \in Names, NEW u \in 0..(MaxTime + Long), NEW s, Publish(n, u, s)
  PROVE  promise' \in [Names -> 0..(MaxTime + Long)] /\ excused' \in SUBSET Names
<1>1. promise[n] \in Int /\ u \in Int
  BY NameTypes, Bounds
<1>2. Max({promise[n], u}) \in {promise[n], u}
  BY <1>1, MaxOfTwo
<1> QED BY <1>2, NameTypes DEF Publish, TypeOK

\* Activity.
LEMMA TouchType ==
  ASSUME TypeOK, NEW n \in Names, NEW r \in Row, Touch(n, r)
  PROVE  seen' \in [Names -> Time] /\ passive' \in SUBSET Names /\ store' \in [Names -> Row]
<1>1. [r EXCEPT !.seen = clock, !.deact = FALSE] \in Row
  BY RowTouched, NameTypes
<1> QED BY <1>1, NameTypes DEF Touch, TypeOK

\* Recording a CID, and thinning, leave histories and the deletion under way well-formed.
LEMMA TrackedType ==
  ASSUME TypeOK, Histories, NEW n \in Names, NEW c \in Snapshots, Tracked(n, c)
  PROVE  /\ known' \in SUBSET Names /\ hist' \in [Names -> Entry] /\ Listed(hist'[n])
         /\ victim' = Idle \/ victim' \in [name : Names, left : SUBSET Snapshots, live : BOOLEAN]
         /\ victim'.name = victim.name /\ (victim = Idle => victim' = Idle)
         /\ hist'[n].tip.cid \in {c, hist[n].tip.cid} /\ hist'[n].tip # NoTip
         /\ \A m \in Names \ {n} : hist'[m] = hist[m]
<1>1. c \in Time /\ hist[n] \in Entry /\ Listed(hist[n])
  BY Bounds, NameTypes DEF Histories
<1>2. LET a == HistoryAdd(hist[n], c, c) IN
      a \in Entry /\ Listed(a) /\ a.tip # NoTip /\ a.tip.cid \in {c, hist[n].tip.cid}
  BY <1>1, Adds
<1>3. /\ hist' \in [Names -> Entry] /\ Listed(hist'[n])
      /\ hist'[n].tip.cid \in {c, hist[n].tip.cid} /\ hist'[n].tip # NoTip
      /\ \A m \in Names \ {n} : hist'[m] = hist[m]
  BY <1>2 DEF Tracked, TypeOK
<1>4. CASE victim' = victim
  BY <1>3, <1>4 DEF Tracked, TypeOK
<1>5. CASE victim.live /\ victim' = [victim EXCEPT !.left = @ \cup {c}]
  <2>1. victim # Idle /\ victim \in [name : Names, left : SUBSET Snapshots, live : BOOLEAN]
    BY <1>5 DEF TypeOK, Idle
  <2>2. victim' \in [name : Names, left : SUBSET Snapshots, live : BOOLEAN] /\ victim'.name = victim.name
    BY <1>5, <2>1
  <2> QED BY <1>3, <2>1, <2>2 DEF Tracked, TypeOK
<1> QED BY <1>4, <1>5 DEF Tracked

LEMMA ThinnedType ==
  ASSUME TypeOK, Histories, NEW n \in Names, NEW drop, Thinned(n, drop)
  PROVE  /\ hist' \in [Names -> Entry] /\ Listed(hist'[n]) /\ hist'[n].tip = hist[n].tip
         /\ \A m \in Names \ {n} : hist'[m] = hist[m]
         /\ victim' = Idle \/ victim' \in [name : Names, left : SUBSET Snapshots, live : BOOLEAN]
         /\ victim'.name = victim.name /\ (victim = Idle => victim' = Idle)
         /\ Cids(drop) \in SUBSET Snapshots
         /\ drop # {} => hist[n].tip.cid \in Snapshots
<1>1. hist[n] \in Entry /\ Listed(hist[n]) /\ drop \in SUBSET hist[n].snaps /\ \A r \in drop : r.cid # hist[n].tip.cid
  BY NameTypes DEF Histories, Thinned, Thinnable
<1>2. LET t == [hist[n] EXCEPT !.snaps = @ \ drop] IN
      t \in Entry /\ Listed(t) /\ t.tip = hist[n].tip
  BY <1>1, Thins
<1>3. hist' = [hist EXCEPT ![n] = [hist[n] EXCEPT !.snaps = @ \ drop]]
  BY DEF Thinned
<1>4. /\ hist' \in [Names -> Entry] /\ Listed(hist'[n]) /\ hist'[n].tip = hist[n].tip
      /\ \A m \in Names \ {n} : hist'[m] = hist[m]
  BY <1>2, <1>3 DEF TypeOK
<1>5. Cids(drop) \in SUBSET Snapshots
  BY <1>1, TipType DEF Cids, Records
<1>6. drop # {} => hist[n].tip.cid \in Snapshots
  BY <1>1, TipType DEF Listed
<1>7. CASE victim' = victim
  BY <1>4, <1>5, <1>6, <1>7 DEF TypeOK
<1>8. CASE victim # Idle /\ victim' = [victim EXCEPT !.live = FALSE]
  <2>1. victim \in [name : Names, left : SUBSET Snapshots, live : BOOLEAN]
    BY <1>8 DEF TypeOK
  <2>2. victim' \in [name : Names, left : SUBSET Snapshots, live : BOOLEAN] /\ victim'.name = victim.name
    BY <1>8, <2>1
  <2> QED BY <1>4, <1>5, <1>6, <1>8, <2>2
<1>9. CASE victim = Idle /\ victim' = [victim EXCEPT !.live = FALSE]
  <2>1. victim' = Idle
    BY <1>9 DEF Idle
  <2> QED BY <1>4, <1>5, <1>6, <1>9, <2>1
<1> QED BY <1>7, <1>8, <1>9 DEF Thinned

-----------------------------------------------------------------------------
(***************************************************************************)
(* The steps.                                                              *)
(***************************************************************************)
\* What a step is: an action of the pruning, of a handler, of the process, or of a
\* message.
LEMMA Steps ==
  ASSUME Next
  PROVE  \/ Prune \/ (\E n \in Names : PruneName(n)) \/ PruneBlock \/ PruneForget
         \/ \E j \in jobs :
              \/ FetchGot(j) \/ FetchFailed(j) \/ FetchAdded(j) \/ AckDone(j)
              \/ ThinBlock(j) \/ ThinDone(j)
              \/ IngestStored(j) \/ IngestWritten(j) \/ IngestDone(j)
         \/ Settle \/ SaveIndex \/ Start \/ Started \/ Sweep \/ Tick
         \/ \E n \in Names, c \in Snapshots, fromPinner \in BOOLEAN :
              Announced(n, c, fromPinner) \/ ReAcked(n, c, fromPinner)
         \/ \E n \in Names, c \in Snapshots : Resolve(n, c) \/ IngestAdmitted(n, c)
         \/ \E n \in Names : Queried(n)
         \/ \E n \in Names, withBlock \in BOOLEAN : Served(n, withBlock)
         \/ \E n \in Names : Reannounce(n) \/ Backfill(n) \/ ThinSweep(n)
         \/ \E saved \in BOOLEAN : Down(saved)
BY DEF Next, Pruning, Handling, Persisting, Running, Outside

-----------------------------------------------------------------------------
(***************************************************************************)
(* Initially.                                                              *)
(***************************************************************************)
LEMMA InitInv ==
  ASSUME Init
  PROVE  IInv
<1>1. hist = [n \in Names |-> NoEntry] /\ index = hist /\ store = [n \in Names |-> NoRow] /\ disk = store
  BY DEF Init
<1>2. hist \in [Names -> Entry] /\ index \in [Names -> Entry] /\ store \in [Names -> Row] /\ disk \in [Names -> Row]
  BY <1>1, NoRowFields, NoEntryFields
<1>3. TypeOK
  <2>1. /\ clock \in (Retention + 1)..MaxTime /\ crashes \in 0..MaxCrashes
        /\ {seen, resolved} \subseteq [Names -> Time]
        /\ {guar, promise} \subseteq [Names -> 0..(MaxTime + Long)]
        /\ acked \in [Names -> Snapshots \cup {0}]
    BY Bounds DEF Init, Time
  <2>2. /\ phase \in {"down", "starting", "running"} /\ swept \in BOOLEAN
        /\ {known, apps, passive, queued, doomed, excused, durable} \subseteq SUBSET Names
        /\ victim = Idle /\ jobs \subseteq Job /\ blocks \subseteq Names \X Snapshots
    BY DEF Init
  <2> QED BY <1>2, <2>1, <2>2 DEF TypeOK
<1>4. Histories
  BY <1>1, NoEntryFields DEF Histories
<1>5. Rows
  BY <1>1, NoRowFields, Bounds DEF Init, Rows, RowTimes, Mirrors, Stopped, Deleting, Guaranteed
<1>6. Promises
  BY <1>1, NoRowFields, NoEntryFields, Bounds DEF Init, Promises, Persisted
<1>7. Uploads
  BY DEF Init, Uploads, Written
<1> QED BY <1>3, <1>4, <1>5, <1>6, <1>7 DEF IInv

-----------------------------------------------------------------------------
(***************************************************************************)
(* Every step keeps the types.                                             *)
(***************************************************************************)
LEMMA TypePruning ==
  ASSUME IInv, Prune \/ (\E n \in Names : PruneName(n)) \/ PruneBlock \/ PruneForget
  PROVE  TypeOK'
<1> USE DEF clockVars, nameVars, ackVars, pruneVars, storeVars
<1>1. TypeOK /\ Histories
  BY DEF IInv
<1>2. ASSUME Prune PROVE TypeOK'
  <2>1. \A n \in Names : store[n] \in Row /\ [store[n] EXCEPT !.deact = TRUE] \in Row
    BY <1>1, NameTypes, RowFields
  <2>2. store' \in [Names -> Row]
    BY <1>2, <2>1 DEF Prune
  <2>3. guar' \in [Names -> 0..(MaxTime + Long)]
    BY <1>1, <1>2, NameTypes, Bounds DEF Prune
  <2>4. doomed' \subseteq Names /\ excused' \subseteq Names /\ passive' \subseteq Names /\ queued' \subseteq Names
    <3> HIDE DEF Stale
    <3> QED BY <1>1, <1>2 DEF Prune, Overflow, TypeOK
  <2> QED BY <1>1, <1>2, <2>2, <2>3, <2>4 DEF Prune, TypeOK
<1>3. ASSUME NEW n \in Names, PruneName(n) PROVE TypeOK'
  <2>1. Cids(hist[n].snaps) \in SUBSET Snapshots
    BY <1>1, NameTypes, TipType DEF Cids, Records
  <2> QED BY <1>1, <1>3, <2>1 DEF PruneName, TypeOK
<1>4. ASSUME PruneBlock PROVE TypeOK'
  <2>1. victim # Idle
    BY <1>4 DEF PruneBlock, Idle
  <2>2. victim' \in [name : Names, left : SUBSET Snapshots, live : BOOLEAN]
    BY <1>1, <1>4, <2>1 DEF PruneBlock, TypeOK
  <2>3. blocks' \subseteq Names \X Snapshots
    BY <1>1, <1>4 DEF PruneBlock, TypeOK
  <2> QED BY <1>1, <1>4, <2>2, <2>3 DEF PruneBlock, TypeOK
<1>5. ASSUME PruneForget PROVE TypeOK'
  <2>1. hist' \in [Names -> Entry] /\ store' \in [Names -> Row]
    BY <1>1, <1>5, NoRowFields, NoEntryFields DEF PruneForget, TypeOK
  <2>2. /\ seen' \in [Names -> Time] /\ resolved' \in [Names -> Time]
        /\ guar' \in [Names -> 0..(MaxTime + Long)]
        /\ acked' \in [Names -> Snapshots \cup {0}]
    BY <1>1, <1>5, Bounds DEF PruneForget, TypeOK
  <2> QED BY <1>1, <1>5, <2>1, <2>2 DEF PruneForget, TypeOK
<1> QED BY <1>2, <1>3, <1>4, <1>5

LEMMA TypeHandling ==
  ASSUME IInv, NEW j \in jobs,
         \/ FetchGot(j) \/ FetchFailed(j) \/ FetchAdded(j) \/ AckDone(j)
         \/ ThinBlock(j) \/ ThinDone(j)
         \/ IngestStored(j) \/ IngestWritten(j) \/ IngestDone(j)
  PROVE  TypeOK'
<1> USE DEF clockVars, nameVars, ackVars, pruneVars, storeVars
<1>1. TypeOK /\ Histories
  BY DEF IInv
<1>2. j \in Job /\ j.name \in Names /\ j.cid \in Snapshots /\ jobs \subseteq Job
  BY <1>1, JobFields DEF TypeOK
<1> DEFINE K == {"get", "check", "ack", "thin", "ingest", "write", "finish"}
<1>k. /\ \A k \in K : [j EXCEPT !.kind = k] \in Job
      /\ \A L \in SUBSET Snapshots : [j EXCEPT !.left = L] \in Job
      /\ \A k \in K, L \in SUBSET Snapshots : [j EXCEPT !.kind = k, !.left = L] \in Job
      /\ j.left \subseteq Snapshots
  BY <1>2 DEF Job
<1>m. /\ \A i \in Job : (jobs \ {j}) \cup {i} \subseteq Job
      /\ [j EXCEPT !.kind = "check"] \in Job /\ [j EXCEPT !.kind = "ack"] \in Job
      /\ [j EXCEPT !.kind = "write"] \in Job
  BY <1>2, <1>k
<1>3. ASSUME FetchGot(j) PROVE TypeOK'
  <2>1. jobs' \subseteq Job
    BY <1>2, <1>3, <1>m DEF FetchGot
  <2>2. blocks' \subseteq Names \X Snapshots
    BY <1>1, <1>2, <1>3 DEF FetchGot, TypeOK
  <2> QED BY <1>1, <1>3, <2>1, <2>2 DEF FetchGot, TypeOK
<1>4. ASSUME FetchFailed(j) PROVE TypeOK'
  BY <1>1, <1>4 DEF FetchFailed, TypeOK
<1>5. ASSUME FetchAdded(j) PROVE TypeOK'
  <2> DEFINE n == j.name
  <2>1. Tracked(n, j.cid)
    BY <1>5 DEF FetchAdded
  <2>2. /\ known' \in SUBSET Names /\ hist' \in [Names -> Entry]
        /\ victim' = Idle \/ victim' \in [name : Names, left : SUBSET Snapshots, live : BOOLEAN]
    BY <1>1, <1>2, <2>1, TrackedType
  <2>3. store[n] \in Row
    BY <1>1, <1>2, NameTypes
  <2>4. [store[n] EXCEPT !.kn = TRUE, !.tip = j.cid] \in Row
    BY <1>2, <2>3, Bounds, RowTracked
  <2>5. store' = [store EXCEPT ![n] = [store[n] EXCEPT !.kn = TRUE, !.tip = j.cid]]
    BY <1>5 DEF FetchAdded
  <2>6. store' \in [Names -> Row]
    BY <1>1, <2>4, <2>5 DEF TypeOK
  <2>7. excused' \in SUBSET Names
    BY <1>1, <1>2, <1>5 DEF FetchAdded, TypeOK
  <2>8. jobs' \subseteq Job
    BY <1>2, <1>5, <1>m DEF FetchAdded
  <2>9. guar' \in [Names -> 0..(MaxTime + Long)] /\ promise' \in [Names -> 0..(MaxTime + Long)]
    <3>1. \A d \in {Short, Long} : Guarantee(n, seen[n], guar[n], d) \in 0..(MaxTime + Long)
      BY <1>1, <1>2, NameTypes, GuaranteeType
    <3>2. \A u \in 0..(MaxTime + Long) : Max({promise[n], u}) \in 0..(MaxTime + Long)
      BY <1>1, <1>2, NameTypes, MaxOfTwo, Bounds
    <3> QED BY <1>1, <1>2, <1>5, <3>1, <3>2 DEF FetchAdded, TypeOK
  <2> QED BY <1>1, <1>5, <2>2, <2>6, <2>7, <2>8, <2>9 DEF FetchAdded, TypeOK
<1>6. ASSUME AckDone(j) PROVE TypeOK'
  <2> PICK drop \in SUBSET Thinnable(hist[j.name]) :
         /\ Thinned(j.name, drop)
         /\ jobs' = (jobs \ {j}) \cup {[j EXCEPT !.kind = "thin", !.left = Cids(drop)]}
    BY <1>6 DEF AckDone
  <2>1. /\ hist' \in [Names -> Entry] /\ Cids(drop) \in SUBSET Snapshots
        /\ victim' = Idle \/ victim' \in [name : Names, left : SUBSET Snapshots, live : BOOLEAN]
    BY <1>1, <1>2, ThinnedType
  <2>2. jobs' \subseteq Job
    BY <1>k, <1>m, <2>1
  <2>3. acked' \in [Names -> Snapshots \cup {0}] /\ excused' \in SUBSET Names
    BY <1>1, <1>2, <1>6 DEF AckDone, TypeOK
  <2>4. UNCHANGED <<clockVars, phase, nameVars, guar, promise, queued, swept, doomed,
                    blocks, storeVars, durable>>
    BY <1>6 DEF AckDone
  <2> QED BY <1>1, <2>1, <2>2, <2>3, <2>4 DEF TypeOK
<1>7. ASSUME ThinBlock(j) PROVE TypeOK'
  <2>1. jobs' \subseteq Job
    <3> PICK c \in j.left : jobs' = (jobs \ {j}) \cup {[j EXCEPT !.left = @ \ {c}]}
      BY <1>7 DEF ThinBlock
    <3> QED BY <1>k, <1>m
  <2>2. blocks' \subseteq Names \X Snapshots /\ excused' \in SUBSET Names
    BY <1>1, <1>2, <1>7 DEF ThinBlock, TypeOK
  <2> QED BY <1>1, <1>7, <2>1, <2>2 DEF ThinBlock, TypeOK
<1>8. ASSUME ThinDone(j) PROVE TypeOK'
  BY <1>1, <1>8 DEF ThinDone, TypeOK
<1>9. ASSUME IngestStored(j) PROVE TypeOK'
  <2> DEFINE n == j.name
  <2>1. Tracked(n, j.cid)
    BY <1>9 DEF IngestStored
  <2>2. /\ known' \in SUBSET Names /\ hist' \in [Names -> Entry]
        /\ victim' = Idle \/ victim' \in [name : Names, left : SUBSET Snapshots, live : BOOLEAN]
    BY <1>1, <1>2, <2>1, TrackedType
  <2>3. store[n] \in Row /\ clock \in Time
    BY <1>1, <1>2, NameTypes
  <2>4. [store[n] EXCEPT !.kn = TRUE, !.tip = j.cid, !.seen = clock] \in Row
    BY <1>2, <2>3, RowTracked
  <2>5. store' = [store EXCEPT ![n] = [store[n] EXCEPT !.kn = TRUE, !.tip = j.cid, !.seen = clock]]
    BY <1>9 DEF IngestStored
  <2>6. store' \in [Names -> Row]
    BY <1>1, <2>4, <2>5 DEF TypeOK
  <2>7. seen' \in [Names -> Time] /\ excused' \in SUBSET Names /\ blocks' \subseteq Names \X Snapshots
    BY <1>1, <1>2, <1>9, <2>3 DEF IngestStored, TypeOK
  <2>8. jobs' \subseteq Job
    BY <1>2, <1>9, <1>m DEF IngestStored
  <2> QED BY <1>1, <1>9, <2>2, <2>6, <2>7, <2>8 DEF IngestStored, TypeOK
<1>10. ASSUME IngestWritten(j) PROVE TypeOK'
  <2> PICK drop \in SUBSET Thinnable(hist[j.name]) :
         /\ Thinned(j.name, drop)
         /\ jobs' = (jobs \ {j}) \cup {[j EXCEPT !.kind = "finish", !.left = Cids(drop)]}
    BY <1>10 DEF IngestWritten
  <2>1. /\ hist' \in [Names -> Entry] /\ Cids(drop) \in SUBSET Snapshots
        /\ victim' = Idle \/ victim' \in [name : Names, left : SUBSET Snapshots, live : BOOLEAN]
    BY <1>1, <1>2, ThinnedType
  <2>2. jobs' \subseteq Job
    BY <1>k, <1>m, <2>1
  <2> QED BY <1>1, <1>10, <2>1, <2>2 DEF IngestWritten, TypeOK
<1>11. ASSUME IngestDone(j) PROVE TypeOK'
  BY <1>1, <1>2, <1>11 DEF IngestDone, TypeOK
<1> QED BY <1>3, <1>4, <1>5, <1>6, <1>7, <1>8, <1>9, <1>10, <1>11

\* What a restart makes of the history of a name: the tip is the one of LevelDB.
LEMMA RestoredType ==
  ASSUME TypeOK, Histories, NEW n \in Names
  PROVE  /\ Restored(n) \in Entry /\ Listed(Restored(n))
         /\ disk[n].tip = index[n].tip.cid => Restored(n).tip.cid = index[n].tip.cid
<1>1. /\ index[n] \in Entry /\ Listed(index[n]) /\ disk[n] \in Row
      /\ disk[n].tip \in Snapshots \cup {0} /\ disk[n].seen \in Time
  BY NameTypes, RowFields DEF Histories
<1>2. CASE disk[n].tip = 0
  BY <1>1, <1>2 DEF Restored
<1>3. CASE disk[n].tip # 0
  <2>1. disk[n].tip \in Snapshots /\ Restored(n) = HistoryAdd(index[n], disk[n].tip, disk[n].seen)
    BY <1>1, <1>3 DEF Restored
  <2>2. LET a == HistoryAdd(index[n], disk[n].tip, disk[n].seen) IN
        a \in Entry /\ Listed(a) /\ a.tip.cid \in {disk[n].tip, index[n].tip.cid}
    BY <1>1, <2>1, Adds
  <2> QED BY <2>1, <2>2
<1> QED BY <1>2, <1>3

LEMMA TypeRunning ==
  ASSUME IInv, Settle \/ SaveIndex \/ Start \/ Started \/ Sweep \/ Tick \/ (\E saved \in BOOLEAN : Down(saved))
  PROVE  TypeOK'
<1> USE DEF clockVars, nameVars, ackVars, pruneVars, storeVars
<1>1. TypeOK /\ Histories
  BY DEF IInv
<1>2. ASSUME Settle \/ SaveIndex \/ Started \/ Sweep PROVE TypeOK'
  BY <1>1, <1>2 DEF Settle, SaveIndex, Started, Sweep, TypeOK
<1>3. ASSUME Tick PROVE TypeOK'
  <2>1. clock' \in (Retention + 1)..MaxTime
    BY <1>1, <1>3, Bounds DEF Tick, TypeOK
  <2> QED BY <1>1, <1>3, <2>1 DEF Tick, TypeOK
<1>4. ASSUME Start PROVE TypeOK'
  <2>1. hist' \in [Names -> Entry]
    BY <1>1, <1>4, RestoredType DEF Start
  <2>2. \A n \in Names : disk[n].seen \in Time /\ disk[n].res \in Time
    BY <1>1, NameTypes DEF Row
  <2>3. seen' \in [Names -> Time] /\ resolved' \in [Names -> Time]
    BY <1>4, <2>2 DEF Start
  <2>4. known' \subseteq Names /\ apps' \subseteq Names /\ passive' \subseteq Names /\ queued' \subseteq Names
    BY <1>4 DEF Start
  <2>5. doomed' \subseteq Names /\ excused' \subseteq Names
    BY <1>1, <1>4, <2>4 DEF Start, TypeOK
  <2>6. /\ phase' = "starting"
        /\ UNCHANGED <<clockVars, guar, acked, promise, swept, victim, jobs, blocks, storeVars, durable>>
    BY <1>4 DEF Start
  <2> QED BY <1>1, <2>1, <2>3, <2>4, <2>5, <2>6 DEF TypeOK
<1>5. ASSUME NEW saved \in BOOLEAN, Down(saved) PROVE TypeOK'
  <2>1. crashes' \in 0..MaxCrashes
    BY <1>1, <1>5, Bounds DEF Down, TypeOK
  <2>2. hist' \in [Names -> Entry] /\ index' \in [Names -> Entry] /\ store' \in [Names -> Row]
    BY <1>1, <1>5, NoEntryFields DEF Down, TypeOK
  <2>3. /\ seen' \in [Names -> Time] /\ resolved' \in [Names -> Time]
        /\ guar' \in [Names -> 0..(MaxTime + Long)] /\ acked' \in [Names -> Snapshots \cup {0}]
    BY <1>5, Bounds DEF Down
  <2>4. excused' \subseteq Names
    BY <1>1, <1>5 DEF Down, TypeOK
  <2>5. /\ known' = {} /\ apps' = {} /\ passive' = {} /\ queued' = {} /\ swept' = FALSE
        /\ doomed' = {} /\ victim' = Idle /\ jobs' = {} /\ phase' = "down"
        /\ UNCHANGED <<clock, blocks, disk, promise, durable>>
    BY <1>5 DEF Down
  <2>6. /\ clock' \in (Retention + 1)..MaxTime /\ promise' \in [Names -> 0..(MaxTime + Long)]
        /\ blocks' \subseteq Names \X Snapshots /\ durable' \subseteq Names /\ disk' \in [Names -> Row]
    BY <1>1, <2>5 DEF TypeOK
  <2>7. /\ known' \subseteq Names /\ apps' \subseteq Names /\ passive' \subseteq Names /\ queued' \subseteq Names
        /\ doomed' \subseteq Names /\ swept' \in BOOLEAN /\ jobs' \subseteq Job
        /\ phase' \in {"down", "starting", "running"}
    BY <2>5
  <2> QED BY <2>1, <2>2, <2>3, <2>4, <2>5, <2>6, <2>7 DEF TypeOK
<1> QED BY <1>2, <1>3, <1>4, <1>5

\* What an announcement does to the row and the activity of its name.
LEMMA HeardType ==
  ASSUME TypeOK, NEW n \in Names, NEW fromPinner \in BOOLEAN,
         LET row == [store[n] EXCEPT !.kn = TRUE, !.app = TRUE] IN
           IF fromPinner
             THEN /\ store' = [store EXCEPT ![n] = row]
                  /\ UNCHANGED <<seen, passive>>
             ELSE Touch(n, row)
  PROVE  /\ seen' \in [Names -> Time] /\ passive' \in SUBSET Names /\ store' \in [Names -> Row]
         /\ \A m \in Names \ {n} : store'[m] = store[m] /\ seen'[m] = seen[m] /\ (m \in passive' <=> m \in passive)
         /\ store'[n].kn /\ store'[n].tip = store[n].tip
         /\ seen'[n] = IF fromPinner THEN seen[n] ELSE clock
         /\ (n \in passive' <=> fromPinner /\ n \in passive)
         /\ store'[n].seen = IF fromPinner THEN store[n].seen ELSE clock
         /\ (store'[n].deact <=> fromPinner /\ store[n].deact)
<1> DEFINE row == [store[n] EXCEPT !.kn = TRUE, !.app = TRUE]
<1>1. store[n] \in Row /\ clock \in Time
  BY NameTypes
<1>2. row \in Row /\ row.kn /\ row.tip = store[n].tip /\ row.seen = store[n].seen /\ row.deact = store[n].deact
  BY <1>1, RowFields
<1> HIDE DEF row
<1>3. CASE fromPinner
  <2>1. store' = [store EXCEPT ![n] = row] /\ UNCHANGED <<seen, passive>>
    BY <1>3 DEF row
  <2> QED BY <1>2, <1>3, <2>1 DEF TypeOK
<1>4. CASE ~fromPinner
  <2>1. Touch(n, row)
    BY <1>4 DEF row
  <2> DEFINE q == [row EXCEPT !.seen = clock, !.deact = FALSE]
  <2>2. q \in Row /\ q.kn = row.kn /\ q.tip = row.tip /\ q.seen = clock /\ ~q.deact
    BY <1>1, <1>2 DEF Row
  <2>3. store' = [store EXCEPT ![n] = q] /\ seen' = [seen EXCEPT ![n] = clock] /\ passive' = passive \ {n}
    BY <2>1 DEF Touch
  <2> HIDE DEF q
  <2> QED BY <1>1, <1>2, <1>4, <2>2, <2>3 DEF TypeOK
<1> QED BY <1>3, <1>4

\* Backfilling adds records, and leaves the tip.
LEMMA BackfillType ==
  ASSUME TypeOK, Histories, NEW n \in Names, Backfill(n)
  PROVE  /\ hist' \in [Names -> Entry] /\ Listed(hist'[n]) /\ hist'[n].tip = hist[n].tip
         /\ \A m \in Names \ {n} : hist'[m] = hist[m]
<1> PICK found \in SUBSET Snapshots :
       hist' = [hist EXCEPT ![n].snaps = @ \cup {[cid |-> c, ts |-> c] : c \in found}]
  BY DEF Backfill
<1> DEFINE more == {[cid |-> c, ts |-> c] : c \in found}
           e == [hist[n] EXCEPT !.snaps = @ \cup more]
<1>1. hist[n] \in Entry /\ Listed(hist[n]) /\ hist[n].tip # NoTip /\ more \subseteq Records
  <2>1. hist[n] \in Entry /\ Listed(hist[n])
    BY NameTypes DEF Histories
  <2>2. hist[n].snaps # {}
    BY DEF Backfill, Cids
  <2>3. more \subseteq Records
    BY Bounds DEF Records
  <2> QED BY <2>1, <2>2, <2>3 DEF Listed
<1> HIDE DEF more
<1>2. e \in Entry /\ e.tip = hist[n].tip /\ e.snaps = hist[n].snaps \cup more
  BY <1>1 DEF Entry
<1>3. hist' = [hist EXCEPT ![n] = e]
  BY DEF more
<1> HIDE DEF e
<1>4. Listed(e)
  BY <1>1, <1>2 DEF Listed, Cids
<1>5. hist \in [Names -> Entry]
  BY DEF TypeOK
<1> QED BY <1>2, <1>3, <1>4, <1>5

LEMMA TypeMessages ==
  ASSUME IInv, NEW n \in Names,
         \/ \E c \in Snapshots, fromPinner \in BOOLEAN :
              Announced(n, c, fromPinner) \/ ReAcked(n, c, fromPinner)
         \/ \E c \in Snapshots : Resolve(n, c) \/ IngestAdmitted(n, c)
         \/ Queried(n) \/ (\E withBlock \in BOOLEAN : Served(n, withBlock))
         \/ Reannounce(n) \/ Backfill(n) \/ ThinSweep(n)
  PROVE  TypeOK'
<1> USE DEF clockVars, nameVars, ackVars, pruneVars, storeVars
<1>1. TypeOK /\ Histories
  BY DEF IInv
<1>2. /\ store[n] \in Row /\ clock \in Time /\ seen[n] \in Time /\ hist[n] \in Entry
      /\ guar[n] \in 0..(MaxTime + Long) /\ 0 \in 0..(MaxTime + Long) /\ jobs \subseteq Job
  BY <1>1, NameTypes, Bounds DEF TypeOK
<1>3. \A d \in {Short, Long}, s \in Time, g \in 0..(MaxTime + Long) : Guarantee(n, s, g, d) \in 0..(MaxTime + Long)
  BY <1>1, GuaranteeType
<1>4. \A u \in 0..(MaxTime + Long) : [guar EXCEPT ![n] = u] \in [Names -> 0..(MaxTime + Long)]
  BY <1>1 DEF TypeOK
<1>5. ASSUME NEW c \in Snapshots, NEW fromPinner \in BOOLEAN, Announced(n, c, fromPinner) PROVE TypeOK'
  <2>1. seen' \in [Names -> Time] /\ passive' \in SUBSET Names /\ store' \in [Names -> Row] /\ seen'[n] \in Time
    BY <1>1, <1>5, HeardType DEF Announced
  <2>2. /\ [Fetch(n, c, TRUE) EXCEPT !.kind = "ack"] \in Job /\ Fetch(n, c, TRUE) \in Job
    <3>1. Fetch(n, c, TRUE) \in Job
      BY FetchType
    <3> QED BY <3>1 DEF Job
  <2>3. jobs' \subseteq Job
    BY <1>2, <1>5, <2>2 DEF Announced
  <2>4. guar' \in [Names -> 0..(MaxTime + Long)] /\ promise' \in [Names -> 0..(MaxTime + Long)] /\ excused' \in SUBSET Names
    <3>1. CASE hist[n].tip.cid = c
      <4> PICK d \in {Short, Long} :
             /\ guar' = [guar EXCEPT ![n] = Guarantee(n, seen'[n], 0, d)]
             /\ Publish(n, guar'[n], seen'[n])
        BY <1>5, <3>1 DEF Announced
      <4>1. guar' \in [Names -> 0..(MaxTime + Long)]
        BY <1>2, <1>3, <1>4, <2>1
      <4> QED BY <1>1, <4>1, PublishType
    <3>2. CASE hist[n].tip.cid # c
      BY <1>1, <1>2, <1>4, <1>5, <3>2 DEF Announced, TypeOK
    <3> QED BY <3>1, <3>2
  <2>5. /\ known' \subseteq Names /\ apps' \subseteq Names /\ queued' \subseteq Names
        /\ UNCHANGED <<clockVars, phase, resolved, acked, hist, swept, pruneVars, blocks, disk, index, durable>>
    BY <1>1, <1>5 DEF Announced, TypeOK
  <2> QED BY <1>1, <2>1, <2>3, <2>4, <2>5 DEF TypeOK
<1>6. ASSUME NEW c \in Snapshots, NEW fromPinner \in BOOLEAN, ReAcked(n, c, fromPinner) PROVE TypeOK'
  <2>1. seen' \in [Names -> Time] /\ passive' \in SUBSET Names /\ store' \in [Names -> Row] /\ seen'[n] \in Time
    BY <1>1, <1>6, HeardType DEF ReAcked
  <2>2. guar' \in [Names -> 0..(MaxTime + Long)] /\ promise' \in [Names -> 0..(MaxTime + Long)] /\ excused' \in SUBSET Names
    <3> PICK d \in {Short, Long} :
          guar' = [guar EXCEPT ![n] = Guarantee(n, seen'[n], IF fromPinner THEN guar[n] ELSE 0, d)]
      BY <1>6 DEF ReAcked
    <3>1. guar' \in [Names -> 0..(MaxTime + Long)]
      BY <1>2, <1>3, <1>4, <2>1
    <3>2. Publish(n, guar'[n], seen'[n])
      BY <1>6 DEF ReAcked
    <3> QED BY <1>1, <3>1, <3>2, PublishType
  <2>3. /\ known' \subseteq Names /\ apps' \subseteq Names
        /\ UNCHANGED <<clockVars, phase, resolved, acked, hist, queued, swept, pruneVars,
                       jobs, blocks, disk, index, durable>>
    BY <1>1, <1>6 DEF ReAcked, TypeOK
  <2> QED BY <1>1, <2>1, <2>2, <2>3 DEF TypeOK
<1>7. ASSUME NEW c \in Snapshots, Resolve(n, c) PROVE TypeOK'
  <2>1. [store[n] EXCEPT !.res = clock] \in Row
    BY <1>2, RowTouched
  <2>2. store' = [store EXCEPT ![n] = [store[n] EXCEPT !.res = clock]]
    BY <1>7 DEF Resolve
  <2>3. store' \in [Names -> Row]
    BY <1>1, <2>1, <2>2 DEF TypeOK
  <2>4. jobs' \subseteq Job /\ resolved' \in [Names -> Time]
    <3>1. Fetch(n, c, FALSE) \in Job
      BY FetchType
    <3> QED BY <1>1, <1>2, <1>7, <3>1 DEF Resolve, TypeOK
  <2> QED BY <1>1, <1>7, <2>3, <2>4 DEF Resolve, TypeOK
<1>8. ASSUME NEW c \in Snapshots, IngestAdmitted(n, c) PROVE TypeOK'
  <2>1. Fetch(n, c, FALSE) \in Job
    BY FetchType
  <2>2. [Fetch(n, c, FALSE) EXCEPT !.kind = "ingest"] \in Job
    BY <2>1 DEF Job
  <2> QED BY <1>1, <1>8, <2>2 DEF IngestAdmitted, TypeOK
<1>9. ASSUME Queried(n) PROVE TypeOK'
  <2>1. guar' \in [Names -> 0..(MaxTime + Long)] /\ promise' \in [Names -> 0..(MaxTime + Long)] /\ excused' \in SUBSET Names
    <3> PICK d \in {Short, Long} : guar' = [guar EXCEPT ![n] = Guarantee(n, seen[n], guar[n], d)]
      BY <1>9 DEF Queried
    <3>1. guar' \in [Names -> 0..(MaxTime + Long)]
      BY <1>2, <1>3, <1>4
    <3>2. Publish(n, guar'[n], seen[n])
      BY <1>9 DEF Queried
    <3> QED BY <1>1, <3>1, <3>2, PublishType
  <2>2. /\ queued' \subseteq Names
        /\ UNCHANGED <<clockVars, phase, known, apps, seen, resolved, passive, acked, hist,
                       swept, pruneVars, jobs, blocks, storeVars, durable>>
    BY <1>1, <1>9 DEF Queried, TypeOK
  <2> QED BY <1>1, <2>1, <2>2 DEF TypeOK
<1>10. ASSUME NEW withBlock \in BOOLEAN, Served(n, withBlock) PROVE TypeOK'
  <2>1. seen' \in [Names -> Time] /\ passive' \in SUBSET Names /\ store' \in [Names -> Row]
    BY <1>1, <1>2, <1>10, TouchType DEF Served
  <2>2. guar' \in [Names -> 0..(MaxTime + Long)] /\ promise' \in [Names -> 0..(MaxTime + Long)]
    <3> PICK d \in {Short, Long} : guar' = [guar EXCEPT ![n] = Guarantee(n, seen[n], guar[n], d)]
      BY <1>10 DEF Served
    <3>1. guar' \in [Names -> 0..(MaxTime + Long)]
      BY <1>2, <1>3, <1>4
    <3>2. promise' = [promise EXCEPT ![n] = Max({promise[n], guar'[n]})]
      BY <1>10 DEF Served
    <3>3. Max({promise[n], guar'[n]}) \in 0..(MaxTime + Long)
      BY <1>1, <3>1, NameTypes, MaxOfTwo, Bounds
    <3> QED BY <1>1, <3>1, <3>2, <3>3 DEF TypeOK
  <2>3. /\ excused' \subseteq Names /\ queued' \subseteq Names
        /\ UNCHANGED <<clockVars, phase, known, apps, resolved, acked, hist, swept, pruneVars,
                       jobs, blocks, disk, index, durable>>
    BY <1>1, <1>10 DEF Served, TypeOK
  <2> QED BY <1>1, <2>1, <2>2, <2>3 DEF TypeOK
<1>11. ASSUME Reannounce(n) PROVE TypeOK'
  <2>1. guar' \in [Names -> 0..(MaxTime + Long)] /\ promise' \in [Names -> 0..(MaxTime + Long)] /\ excused' \in SUBSET Names
    <3>1. CASE UNCHANGED <<guar, promise, excused>>
      BY <1>1, <3>1 DEF TypeOK
    <3>2. ASSUME NEW d \in {Short, Long}, guar' = [guar EXCEPT ![n] = Guarantee(n, seen[n], guar[n], d)],
                 Publish(n, guar'[n], seen[n])
          PROVE  guar' \in [Names -> 0..(MaxTime + Long)] /\ promise' \in [Names -> 0..(MaxTime + Long)] /\ excused' \in SUBSET Names
      <4>1. guar' \in [Names -> 0..(MaxTime + Long)]
        BY <1>2, <1>3, <1>4, <3>2
      <4> QED BY <1>1, <3>2, <4>1, PublishType
    <3> QED BY <1>11, <3>1, <3>2 DEF Reannounce
  <2>2. /\ queued' \subseteq Names
        /\ UNCHANGED <<clockVars, phase, nameVars, acked, hist, swept, pruneVars, jobs,
                       blocks, storeVars, durable>>
    BY <1>1, <1>11 DEF Reannounce, TypeOK
  <2> QED BY <1>1, <2>1, <2>2 DEF TypeOK
<1>12. ASSUME Backfill(n) PROVE TypeOK'
  <2>1. hist' \in [Names -> Entry] /\ index' = hist'
    BY <1>1, BackfillType, <1>12 DEF Backfill
  <2> QED BY <1>1, <1>12, <2>1 DEF Backfill, TypeOK
<1>13. ASSUME ThinSweep(n) PROVE TypeOK'
  <2> PICK drop \in SUBSET Thinnable(hist[n]) :
         /\ drop # {} /\ Thinned(n, drop)
         /\ jobs' = jobs \cup {[Fetch(n, hist[n].tip.cid, FALSE) EXCEPT !.kind = "thin", !.left = Cids(drop)]}
    BY <1>13 DEF ThinSweep
  <2>1. /\ hist' \in [Names -> Entry] /\ Cids(drop) \in SUBSET Snapshots /\ hist[n].tip.cid \in Snapshots
        /\ victim' = Idle \/ victim' \in [name : Names, left : SUBSET Snapshots, live : BOOLEAN]
    BY <1>1, ThinnedType
  <2>2. Fetch(n, hist[n].tip.cid, FALSE) \in Job
    BY <2>1, FetchType
  <2>3. [Fetch(n, hist[n].tip.cid, FALSE) EXCEPT !.kind = "thin", !.left = Cids(drop)] \in Job
    BY <2>1, <2>2 DEF Job
  <2>4. UNCHANGED <<clockVars, phase, nameVars, ackVars, queued, swept, doomed, blocks, storeVars, durable>>
    BY <1>13 DEF ThinSweep
  <2> QED BY <1>1, <1>2, <2>1, <2>3, <2>4 DEF TypeOK
<1> QED BY <1>5, <1>6, <1>7, <1>8, <1>9, <1>10, <1>11, <1>12, <1>13

LEMMA TypeStep ==
  ASSUME IInv, Next
  PROVE  TypeOK'
BY Steps, TypePruning, TypeHandling, TypeRunning, TypeMessages

-----------------------------------------------------------------------------
(***************************************************************************)
(* Every step keeps the histories well-formed.                             *)
(***************************************************************************)
LEMMA HistoriesStep ==
  ASSUME IInv, Next
  PROVE  Histories'
<1> USE DEF clockVars, nameVars, ackVars, pruneVars, storeVars
<1>1. TypeOK /\ Histories
  BY DEF IInv
<1>2. ASSUME UNCHANGED <<hist, index>> PROVE Histories'
  BY <1>1, <1>2 DEF Histories
<1>3. ASSUME NEW n \in Names, Listed(hist'[n]), \A m \in Names \ {n} : hist'[m] = hist[m],
             index' = index \/ index' = hist'
      PROVE  Histories'
  BY <1>1, <1>3 DEF Histories
<1>4. CASE Prune \/ (\E n \in Names : PruneName(n)) \/ PruneBlock
  BY <1>2, <1>4 DEF Prune, PruneName, PruneBlock
<1>5. CASE PruneForget
  BY <1>1, <1>5, NoEntryFields DEF PruneForget, Histories, TypeOK
<1>6. ASSUME NEW j \in jobs, FetchAdded(j) \/ IngestStored(j) PROVE Histories'
  <2>1. j.name \in Names /\ j.cid \in Snapshots
    BY <1>1, JobFields DEF TypeOK
  <2>2. Tracked(j.name, j.cid) /\ index' = index
    BY <1>6 DEF FetchAdded, IngestStored
  <2> QED BY <1>1, <1>3, <2>1, <2>2, TrackedType
<1>7. ASSUME NEW j \in jobs, AckDone(j) \/ IngestWritten(j) PROVE Histories'
  <2>1. j.name \in Names
    BY <1>1, JobFields DEF TypeOK
  <2>2. PICK drop : Thinned(j.name, drop) /\ index' = index
    BY <1>7 DEF AckDone, IngestWritten
  <2> QED BY <1>1, <1>3, <2>1, <2>2, ThinnedType
<1>8. ASSUME NEW j \in jobs, FetchGot(j) \/ FetchFailed(j) \/ ThinBlock(j) \/ ThinDone(j) PROVE Histories'
  BY <1>2, <1>8 DEF FetchGot, FetchFailed, ThinBlock, ThinDone
<1>9. ASSUME NEW j \in jobs, IngestDone(j) PROVE Histories'
  BY <1>1, <1>9 DEF IngestDone, Histories
<1>10. CASE SaveIndex
  BY <1>1, <1>10 DEF SaveIndex, Histories
<1>11. CASE Settle \/ Started \/ Sweep \/ Tick
  BY <1>2, <1>11 DEF Settle, Started, Sweep, Tick
<1>12. CASE Start
  BY <1>1, <1>12, RestoredType DEF Start, Histories
<1>13. ASSUME NEW saved \in BOOLEAN, Down(saved) PROVE Histories'
  BY <1>1, <1>13, NoEntryFields DEF Down, Histories
<1>14. ASSUME NEW n \in Names, NEW c \in Snapshots, NEW fromPinner \in BOOLEAN,
              Announced(n, c, fromPinner) \/ ReAcked(n, c, fromPinner) \/ Resolve(n, c) \/ IngestAdmitted(n, c)
       PROVE  Histories'
  BY <1>2, <1>14 DEF Announced, ReAcked, Resolve, IngestAdmitted
<1>15. ASSUME NEW n \in Names, NEW withBlock \in BOOLEAN, Queried(n) \/ Served(n, withBlock) \/ Reannounce(n)
       PROVE  Histories'
  BY <1>2, <1>15 DEF Queried, Served, Reannounce
<1>16. ASSUME NEW n \in Names, Backfill(n) PROVE Histories'
  BY <1>1, <1>3, <1>16, BackfillType DEF Backfill
<1>17. ASSUME NEW n \in Names, ThinSweep(n) PROVE Histories'
  <2>1. PICK drop : Thinned(n, drop) /\ index' = index
    BY <1>17 DEF ThinSweep
  <2> QED BY <1>1, <1>3, <2>1, ThinnedType
<1> QED BY Steps, <1>4, <1>5, <1>6, <1>7, <1>8, <1>9, <1>10, <1>11, <1>12, <1>13, <1>14, <1>15, <1>16, <1>17

-----------------------------------------------------------------------------
(***************************************************************************)
(* What the handlers do to the rows of LevelDB.                            *)
(***************************************************************************)
\* A valid block gives the row a tip.
LEMMA AddedRow ==
  ASSUME TypeOK, NEW j \in jobs, FetchAdded(j)
  PROVE  /\ j.name \in Names
         /\ store'[j.name].kn /\ store'[j.name].tip = j.cid
         /\ store'[j.name].seen = store[j.name].seen /\ store'[j.name].deact = store[j.name].deact
         /\ \A m \in Names \ {j.name} : store'[m] = store[m]
<1>1. j.name \in Names /\ j.cid \in Snapshots /\ store[j.name] \in Row
  BY JobFields, NameTypes DEF TypeOK
<1> DEFINE q == [store[j.name] EXCEPT !.kn = TRUE, !.tip = j.cid]
<1>2. q.kn /\ q.tip = j.cid /\ q.seen = store[j.name].seen /\ q.deact = store[j.name].deact
  BY <1>1 DEF Row
<1>3. store' = [store EXCEPT ![j.name] = q]
  BY DEF FetchAdded
<1> HIDE DEF q
<1> QED BY <1>1, <1>2, <1>3 DEF TypeOK

LEMMA StoredRow ==
  ASSUME TypeOK, NEW j \in jobs, IngestStored(j)
  PROVE  /\ j.name \in Names
         /\ store'[j.name].kn /\ store'[j.name].tip = j.cid /\ j.cid # 0
         /\ store'[j.name].seen = clock /\ store'[j.name].deact = store[j.name].deact
         /\ \A m \in Names \ {j.name} : store'[m] = store[m]
<1>1. j.name \in Names /\ j.cid \in Snapshots /\ store[j.name] \in Row /\ clock \in Time /\ j.cid # 0
  <2>1. j.name \in Names /\ j.cid \in Snapshots
    BY JobFields DEF TypeOK
  <2> QED BY <2>1, NameTypes, Bounds
<1> DEFINE q == [store[j.name] EXCEPT !.kn = TRUE, !.tip = j.cid, !.seen = clock]
<1>2. q.kn /\ q.tip = j.cid /\ q.seen = clock /\ q.deact = store[j.name].deact
  BY <1>1 DEF Row
<1>3. store' = [store EXCEPT ![j.name] = q]
  BY DEF IngestStored
<1> HIDE DEF q
<1> QED BY <1>1, <1>2, <1>3 DEF TypeOK

\* An access over HTTP is activity.
LEMMA ServedRow ==
  ASSUME TypeOK, NEW n \in Names, NEW withBlock, Served(n, withBlock)
  PROVE  /\ store'[n].kn = store[n].kn /\ store'[n].tip = store[n].tip
         /\ store'[n].seen = clock /\ ~store'[n].deact
         /\ \A m \in Names \ {n} : store'[m] = store[m] /\ seen'[m] = seen[m]
         /\ seen'[n] = clock /\ passive' = passive \ {n}
<1>1. store[n] \in Row /\ clock \in Time
  BY NameTypes
<1> DEFINE q == [store[n] EXCEPT !.seen = clock, !.deact = FALSE]
<1>2. q.kn = store[n].kn /\ q.tip = store[n].tip /\ q.seen = clock /\ ~q.deact
  BY <1>1 DEF Row
<1>3. store' = [store EXCEPT ![n] = q] /\ seen' = [seen EXCEPT ![n] = clock] /\ passive' = passive \ {n}
  BY DEF Served, Touch
<1> HIDE DEF q
<1> QED BY <1>1, <1>2, <1>3 DEF TypeOK

\* Resolving leaves what the invariant reads.
LEMMA ResolvedRow ==
  ASSUME TypeOK, NEW n \in Names, NEW c, Resolve(n, c)
  PROVE  \A m \in Names : /\ store'[m].kn = store[m].kn /\ store'[m].tip = store[m].tip
                          /\ store'[m].seen = store[m].seen /\ store'[m].deact = store[m].deact
<1>1. store[n] \in Row /\ clock \in Time
  BY NameTypes
<1> DEFINE q == [store[n] EXCEPT !.res = clock]
<1>2. q.kn = store[n].kn /\ q.tip = store[n].tip /\ q.seen = store[n].seen /\ q.deact = store[n].deact
  BY <1>1 DEF Row
<1>3. store' = [store EXCEPT ![n] = q]
  BY DEF Resolve
<1> HIDE DEF q
<1> QED BY <1>1, <1>2, <1>3 DEF TypeOK

\* A pruning decides: names become passive, and extra ones are given up.
LEMMA PrunedRow ==
  ASSUME TypeOK, Prune
  PROVE  \E stale \in SUBSET known :
           /\ passive' = passive \cup stale
           /\ \A m \in Names : /\ store'[m].kn = store[m].kn /\ store'[m].tip = store[m].tip
                               /\ store'[m].seen = store[m].seen
                               /\ store'[m].deact <=> store[m].deact \/ m \in stale
                               /\ guar'[m] \in {0, guar[m]}
<1> DEFINE expired == {n \in known : Expired(n, seen[n], passive)}
           stale   == IF swept THEN {n \in known \ expired : Stale(n)} ELSE {}
<1>1. /\ passive' = passive \cup stale
      /\ guar' = [n \in Names |-> IF n \in stale THEN 0 ELSE guar[n]]
      /\ store' = [n \in Names |-> IF n \in stale THEN [store[n] EXCEPT !.deact = TRUE] ELSE store[n]]
  BY DEF Prune
<1>2. stale \in SUBSET known
  OBVIOUS
<1> HIDE DEF stale
<1>3. ASSUME NEW m \in Names
      PROVE  /\ store'[m].kn = store[m].kn /\ store'[m].tip = store[m].tip
             /\ store'[m].seen = store[m].seen
             /\ store'[m].deact <=> store[m].deact \/ m \in stale
             /\ guar'[m] \in {0, guar[m]}
  <2>1. store[m] \in Row
    BY NameTypes
  <2> DEFINE q == [store[m] EXCEPT !.deact = TRUE]
  <2>2. q.kn = store[m].kn /\ q.tip = store[m].tip /\ q.seen = store[m].seen /\ q.deact = TRUE
    BY <2>1 DEF Row
  <2>3. store'[m] = IF m \in stale THEN q ELSE store[m]
    BY <1>1
  <2> HIDE DEF q
  <2>4. store[m].deact \in BOOLEAN
    BY <2>1 DEF Row
  <2> QED BY <1>1, <2>2, <2>3, <2>4
<1> QED BY <1>1, <1>2, <1>3

-----------------------------------------------------------------------------
(***************************************************************************)
(* Every step keeps LevelDB and the memory in step.                        *)
(***************************************************************************)
\* A promise is at least the guarantee it publishes, and never moves back.
LEMMA Published ==
  ASSUME TypeOK, TypeOK', Guaranteed, NEW n \in Names,
         \A m \in Names \ {n} : guar'[m] = guar[m],
         \/ promise' = [promise EXCEPT ![n] = Max({promise[n], guar'[n]})]
         \/ promise' = promise /\ guar'[n] \in {0, guar[n]}
  PROVE  Guaranteed' /\ \A m \in Names \ {n} : promise'[m] = promise[m]
<1>1. \A m \in Names : guar[m] \in Nat /\ promise[m] \in Nat /\ guar'[m] \in Nat /\ promise'[m] \in Nat
  BY NameTypes, Bounds DEF TypeOK
<1>2. CASE promise' = promise /\ guar'[n] \in {0, guar[n]}
  BY <1>1, <1>2 DEF Guaranteed
<1>3. CASE promise' = [promise EXCEPT ![n] = Max({promise[n], guar'[n]})]
  <2>1. promise'[n] = Max({promise[n], guar'[n]}) /\ \A m \in Names \ {n} : promise'[m] = promise[m]
    BY <1>3 DEF TypeOK
  <2>2. promise'[n] >= guar'[n]
    BY <1>1, <2>1, MaxOfTwo
  <2> QED BY <1>1, <2>1, <2>2 DEF Guaranteed
<1> QED BY <1>2, <1>3

LEMMA RowsHandling ==
  ASSUME IInv, TypeOK', NEW j \in jobs,
         \/ FetchGot(j) \/ FetchFailed(j) \/ FetchAdded(j) \/ AckDone(j)
         \/ ThinBlock(j) \/ ThinDone(j)
         \/ IngestStored(j) \/ IngestWritten(j) \/ IngestDone(j)
  PROVE  Rows'
<1> USE DEF clockVars, nameVars, ackVars, pruneVars, storeVars
<1>1. TypeOK /\ Histories /\ Rows
  BY DEF IInv
<1>2. phase = "running" /\ j \in Job /\ j.name \in Names /\ j.cid \in Snapshots
  BY <1>1, JobFields DEF Rows, Stopped, TypeOK
<1>3. ASSUME FetchGot(j) \/ FetchFailed(j) \/ ThinBlock(j) \/ ThinDone(j) \/ IngestDone(j) PROVE Rows'
  <2>1. UNCHANGED <<clock, phase, known, passive, seen, guar, promise, store, disk, doomed, victim>>
    BY <1>3 DEF FetchGot, FetchFailed, ThinBlock, ThinDone, IngestDone
  <2>2. Stopped'
    BY <1>2, <2>1 DEF Stopped
  <2> QED BY <1>1, <2>1, <2>2 DEF Rows, RowTimes, Mirrors, Deleting, Guaranteed
<1>4. ASSUME AckDone(j) \/ IngestWritten(j) PROVE Rows'
  <2>1. /\ UNCHANGED <<clock, phase, known, passive, seen, guar, promise, store, disk, doomed>>
        /\ \E drop : Thinned(j.name, drop)
    BY <1>4 DEF AckDone, IngestWritten
  <2>2. Stopped'
    BY <1>2, <2>1 DEF Stopped
  <2>3. Deleting'
    BY <1>1, <1>2, <2>1, ThinnedType DEF Rows, Deleting
  <2> QED BY <1>1, <2>1, <2>2, <2>3 DEF Rows, RowTimes, Mirrors, Guaranteed
<1>5. ASSUME FetchAdded(j) PROVE Rows'
  <2> DEFINE n == j.name
  <2>1. /\ UNCHANGED <<clock, phase, passive, seen, disk, doomed>>
        /\ known' = known \cup {n} /\ Tracked(n, j.cid)
    BY <1>5 DEF FetchAdded, Tracked
  <2>2. /\ store'[n].kn /\ store'[n].seen = store[n].seen /\ store'[n].deact = store[n].deact
        /\ \A m \in Names \ {n} : store'[m] = store[m]
    BY <1>1, <1>5, AddedRow
  <2>3. RowTimes'
    BY <1>1, <2>1, <2>2 DEF Rows, RowTimes
  <2>4. Mirrors'
    <3>1. \A m \in Names : (store[m].kn <=> m \in known) /\ (store[m].deact <=> m \in passive) /\ store[m].seen = seen[m]
      BY <1>1, <1>2 DEF Rows, Mirrors
    <3> QED BY <2>1, <2>2, <3>1 DEF Mirrors
  <2>5. Stopped'
    BY <1>2, <2>1 DEF Stopped
  <2>6. Deleting'
    BY <1>1, <1>2, <2>1, TrackedType DEF Rows, Deleting
  <2>7. Guaranteed'
    <3>1. /\ \A m \in Names \ {n} : guar'[m] = guar[m]
          /\ \/ promise' = [promise EXCEPT ![n] = Max({promise[n], guar'[n]})]
             \/ promise' = promise /\ guar'[n] \in {0, guar[n]}
      BY <1>1, <1>5 DEF FetchAdded, TypeOK
    <3> QED BY <1>1, <1>2, <3>1, Published DEF Rows
  <2> QED BY <2>3, <2>4, <2>5, <2>6, <2>7 DEF Rows
<1>6. ASSUME IngestStored(j) PROVE Rows'
  <2> DEFINE n == j.name
  <2>1. /\ UNCHANGED <<clock, phase, passive, disk, doomed, guar, promise>>
        /\ known' = known \cup {n} /\ Tracked(n, j.cid) /\ seen' = [seen EXCEPT ![n] = clock]
    BY <1>6 DEF IngestStored, Tracked
  <2>2. /\ store'[n].kn /\ store'[n].seen = clock /\ store'[n].deact = store[n].deact
        /\ \A m \in Names \ {n} : store'[m] = store[m]
    BY <1>1, <1>6, StoredRow
  <2>3. RowTimes'
    BY <1>1, <2>1, <2>2, NameTypes DEF Rows, RowTimes
  <2>4. Mirrors'
    <3>1. \A m \in Names : (store[m].kn <=> m \in known) /\ (store[m].deact <=> m \in passive) /\ store[m].seen = seen[m]
      BY <1>1, <1>2 DEF Rows, Mirrors
    <3>3. seen'[n] = clock /\ \A m \in Names \ {n} : seen'[m] = seen[m]
      BY <1>1, <1>2, <2>1 DEF TypeOK
    <3> QED BY <2>1, <2>2, <3>1, <3>3 DEF Mirrors
  <2>5. Stopped'
    BY <1>2, <2>1 DEF Stopped
  <2>6. Deleting'
    BY <1>1, <1>2, <2>1, TrackedType DEF Rows, Deleting
  <2> QED BY <1>1, <2>1, <2>3, <2>4, <2>5, <2>6 DEF Rows, Guaranteed
<1> QED BY <1>3, <1>4, <1>5, <1>6

LEMMA RowsPruning ==
  ASSUME IInv, TypeOK', Prune \/ (\E n \in Names : PruneName(n)) \/ PruneBlock \/ PruneForget
  PROVE  Rows'
<1> USE DEF clockVars, nameVars, ackVars, pruneVars, storeVars
<1>1. TypeOK /\ Histories /\ Rows
  BY DEF IInv
<1>2. ASSUME Prune PROVE Rows'
  <2>1. phase = "running" /\ UNCHANGED <<clock, phase, known, seen, promise, victim, jobs, disk>>
    BY <1>2 DEF Prune
  <2>2. PICK stale \in SUBSET known :
           /\ passive' = passive \cup stale
           /\ \A m \in Names : /\ store'[m].kn = store[m].kn /\ store'[m].tip = store[m].tip
                               /\ store'[m].seen = store[m].seen
                               /\ store'[m].deact <=> store[m].deact \/ m \in stale
                               /\ guar'[m] \in {0, guar[m]}
    BY <1>1, <1>2, PrunedRow
  <2>3. \A m \in Names : (store[m].kn <=> m \in known) /\ (store[m].deact <=> m \in passive) /\ store[m].seen = seen[m]
    BY <1>1, <2>1 DEF Rows, Mirrors
  <2>4. RowTimes' /\ Mirrors'
    BY <1>1, <2>1, <2>2, <2>3 DEF Rows, RowTimes, Mirrors
  <2>5. Stopped'
    BY <2>1 DEF Stopped
  <2>6. Deleting'
    BY <1>1, <1>2 DEF Rows, Deleting, Prune
  <2>7. Guaranteed'
    <3>1. \A m \in Names : promise[m] >= 0 /\ guar[m] <= promise[m]
      BY <1>1, NameTypes, Bounds DEF Rows, Guaranteed
    <3> QED BY <2>1, <2>2, <3>1 DEF Guaranteed
  <2> QED BY <2>4, <2>5, <2>6, <2>7 DEF Rows
<1>3. ASSUME NEW n \in Names, PruneName(n) PROVE Rows'
  BY <1>1, <1>3 DEF PruneName, Rows, RowTimes, Mirrors, Stopped, Deleting, Guaranteed
<1>4. ASSUME PruneBlock PROVE Rows'
  <2>1. victim # Idle
    BY <1>4 DEF PruneBlock, Idle
  <2>2. victim'.name = victim.name
    BY <1>1, <1>4, <2>1 DEF PruneBlock, TypeOK
  <2> QED BY <1>1, <1>4, <2>1, <2>2 DEF PruneBlock, Rows, RowTimes, Mirrors, Stopped, Deleting, Guaranteed
<1>5. ASSUME PruneForget PROVE Rows'
  <2> DEFINE n == victim.name
  <2>1. n \in Names /\ phase # "down" /\ UNCHANGED <<clock, phase, promise, jobs, disk>>
    BY <1>1, <1>5 DEF PruneForget, TypeOK
  <2>2. /\ store'[n] = NoRow /\ seen'[n] = 0 /\ guar'[n] = 0
        /\ \A m \in Names \ {n} : store'[m] = store[m] /\ seen'[m] = seen[m] /\ guar'[m] = guar[m]
        /\ known' = known \ {n} /\ passive' = passive \ {n}
    BY <1>1, <1>5, <2>1 DEF PruneForget, TypeOK
  <2>3. RowTimes'
    BY <1>1, <2>1, <2>2, NoRowFields, NameTypes, Bounds DEF Rows, RowTimes, Time
  <2>4. Mirrors'
    BY <1>1, <2>1, <2>2, NoRowFields DEF Rows, Mirrors
  <2>5. Stopped'
    BY <1>1, <2>1 DEF Rows, Stopped
  <2>6. Deleting'
    BY <1>5 DEF PruneForget, Deleting
  <2>7. Guaranteed'
    <3>1. \A m \in Names : promise[m] >= 0 /\ guar[m] <= promise[m]
      BY <1>1, NameTypes, Bounds DEF Rows, Guaranteed
    <3> QED BY <2>1, <2>2, <3>1 DEF Guaranteed
  <2> QED BY <2>3, <2>4, <2>5, <2>6, <2>7 DEF Rows
<1> QED BY <1>2, <1>3, <1>4, <1>5

LEMMA RowsRunning ==
  ASSUME IInv, TypeOK', Settle \/ SaveIndex \/ Start \/ Started \/ Sweep \/ Tick \/ (\E saved \in BOOLEAN : Down(saved))
  PROVE  Rows'
<1> USE DEF clockVars, nameVars, ackVars, pruneVars, storeVars
<1>1. TypeOK /\ Histories /\ Rows
  BY DEF IInv
<1>2. ASSUME SaveIndex \/ Started \/ Sweep PROVE Rows'
  BY <1>1, <1>2 DEF SaveIndex, Started, Sweep, Rows, RowTimes, Mirrors, Stopped, Deleting, Guaranteed
<1>3. ASSUME Settle PROVE Rows'
  BY <1>1, <1>3 DEF Settle, Rows, RowTimes, Mirrors, Stopped, Deleting, Guaranteed
<1>4. ASSUME Tick PROVE Rows'
  <2>1. \A m \in Names : store[m].seen \in Int /\ disk[m].seen \in Int /\ clock \in Int
    <3>1. \A m \in Names : store[m] \in Row /\ disk[m] \in Row /\ clock \in Int
      BY <1>1, NameTypes
    <3>2. \A q \in Row : q.seen \in Int
      BY DEF Row, Time
    <3> QED BY <3>1, <3>2
  <2> QED BY <1>1, <1>4, <2>1 DEF Tick, Rows, RowTimes, Mirrors, Stopped, Deleting, Guaranteed
<1>5. ASSUME Start PROVE Rows'
  <2>1. /\ phase = "down" /\ phase' = "starting" /\ known' = {n \in Names : disk[n].kn}
        /\ seen' = [n \in Names |-> disk[n].seen] /\ passive' = {n \in known' : disk[n].deact}
        /\ UNCHANGED <<clock, guar, promise, victim, jobs, store, disk>>
    BY <1>5 DEF Start
  <2>2. store = disk /\ victim = Idle /\ jobs = {}
    BY <1>1, <2>1 DEF Rows, Stopped
  <2> QED BY <1>1, <2>1, <2>2 DEF Rows, RowTimes, Mirrors, Stopped, Deleting, Guaranteed
<1>6. ASSUME NEW saved \in BOOLEAN, Down(saved) PROVE Rows'
  <2>1. /\ phase' = "down" /\ store' = disk /\ known' = {} /\ doomed' = {} /\ victim' = Idle /\ jobs' = {}
        /\ guar' = [n \in Names |-> 0] /\ acked' = [n \in Names |-> 0]
        /\ UNCHANGED <<clock, disk, promise>>
    BY <1>6 DEF Down
  <2>2. \A m \in Names : promise[m] >= 0
    BY <1>1, NameTypes, Bounds
  <2> QED BY <1>1, <2>1, <2>2 DEF Rows, RowTimes, Mirrors, Stopped, Deleting, Guaranteed
<1> QED BY <1>2, <1>3, <1>4, <1>5, <1>6

LEMMA RowsMessages ==
  ASSUME IInv, TypeOK', NEW n \in Names,
         \/ \E c \in Snapshots, fromPinner \in BOOLEAN :
              Announced(n, c, fromPinner) \/ ReAcked(n, c, fromPinner)
         \/ \E c \in Snapshots : Resolve(n, c) \/ IngestAdmitted(n, c)
         \/ Queried(n) \/ (\E withBlock \in BOOLEAN : Served(n, withBlock))
         \/ Reannounce(n) \/ Backfill(n) \/ ThinSweep(n)
  PROVE  Rows'
<1> USE DEF clockVars, nameVars, ackVars, pruneVars, storeVars
<1>1. TypeOK /\ Histories /\ Rows
  BY DEF IInv
<1>2. phase = "running" /\ phase' = "running" /\ UNCHANGED <<clock, disk, doomed>>
  BY DEF Announced, ReAcked, Resolve, IngestAdmitted, Queried, Served, Reannounce, Backfill, ThinSweep
<1>3. Stopped'
  BY <1>2 DEF Stopped
<1>4. \A m \in Names : (store[m].kn <=> m \in known) /\ (store[m].deact <=> m \in passive) /\ store[m].seen = seen[m]
  BY <1>1, <1>2 DEF Rows, Mirrors
<1>5. ASSUME NEW c \in Snapshots, NEW fromPinner \in BOOLEAN, Announced(n, c, fromPinner) \/ ReAcked(n, c, fromPinner)
      PROVE  Rows'
  <2>1. /\ \A m \in Names \ {n} : store'[m] = store[m] /\ seen'[m] = seen[m] /\ (m \in passive' <=> m \in passive)
        /\ store'[n].kn
        /\ seen'[n] = IF fromPinner THEN seen[n] ELSE clock
        /\ (n \in passive' <=> fromPinner /\ n \in passive)
        /\ store'[n].seen = IF fromPinner THEN store[n].seen ELSE clock
        /\ (store'[n].deact <=> fromPinner /\ store[n].deact)
        /\ known' = known \cup {n} /\ victim' = victim
    BY <1>1, <1>5, HeardType DEF Announced, ReAcked
  <2>2. clock <= clock
    BY <1>1, NameTypes
  <2>3. RowTimes'
    BY <1>1, <1>2, <2>1, <2>2 DEF Rows, RowTimes
  <2>4. Mirrors'
    BY <1>2, <1>4, <2>1 DEF Mirrors
  <2>5. Guaranteed'
    <3>1. /\ \A m \in Names \ {n} : guar'[m] = guar[m]
          /\ \/ promise' = [promise EXCEPT ![n] = Max({promise[n], guar'[n]})]
             \/ promise' = promise /\ guar'[n] \in {0, guar[n]}
      <4>1. guar \in [Names -> 0..(MaxTime + Long)]
        BY <1>1 DEF TypeOK
      <4>2. CASE ReAcked(n, c, fromPinner)
        BY <4>1, <4>2 DEF ReAcked, Publish
      <4>3. CASE Announced(n, c, fromPinner) /\ hist[n].tip.cid = c
        BY <4>1, <4>3 DEF Announced, Publish
      <4>4. CASE Announced(n, c, fromPinner) /\ hist[n].tip.cid # c
        BY <4>1, <4>4 DEF Announced
      <4> QED BY <1>5, <4>2, <4>3, <4>4
    <3> QED BY <1>1, <3>1, Published DEF Rows
  <2> QED BY <1>1, <1>2, <1>3, <2>1, <2>3, <2>4, <2>5 DEF Rows, Deleting
<1>6. ASSUME NEW c \in Snapshots, Resolve(n, c) PROVE Rows'
  <2>1. \A m \in Names : /\ store'[m].kn = store[m].kn /\ store'[m].tip = store[m].tip
                         /\ store'[m].seen = store[m].seen /\ store'[m].deact = store[m].deact
    BY <1>1, <1>6, ResolvedRow
  <2> QED BY <1>1, <1>2, <1>3, <1>6, <2>1 DEF Resolve, Rows, RowTimes, Mirrors, Deleting, Guaranteed
<1>7. ASSUME NEW c \in Snapshots, IngestAdmitted(n, c) PROVE Rows'
  BY <1>1, <1>2, <1>3, <1>7 DEF IngestAdmitted, Rows, RowTimes, Mirrors, Deleting, Guaranteed
<1>8. ASSUME Queried(n) \/ Reannounce(n) PROVE Rows'
  <2>1. UNCHANGED <<known, passive, seen, store, victim>>
    BY <1>8 DEF Queried, Reannounce
  <2>2. /\ \A m \in Names \ {n} : guar'[m] = guar[m]
        /\ \/ promise' = [promise EXCEPT ![n] = Max({promise[n], guar'[n]})]
           \/ promise' = promise /\ guar'[n] \in {0, guar[n]}
    BY <1>1, <1>8 DEF Queried, Reannounce, Publish, TypeOK
  <2>3. Guaranteed'
    BY <1>1, <2>2, Published DEF Rows
  <2> QED BY <1>1, <1>2, <1>3, <2>1, <2>3 DEF Rows, RowTimes, Mirrors, Deleting
<1>9. ASSUME NEW withBlock \in BOOLEAN, Served(n, withBlock) PROVE Rows'
  <2>1. /\ store'[n].kn = store[n].kn /\ store'[n].seen = clock /\ ~store'[n].deact
        /\ \A m \in Names \ {n} : store'[m] = store[m] /\ seen'[m] = seen[m]
        /\ seen'[n] = clock /\ passive' = passive \ {n} /\ known' = known /\ victim' = victim
    BY <1>1, <1>9, ServedRow DEF Served
  <2>2. clock <= clock
    BY <1>1, NameTypes
  <2>3. RowTimes'
    BY <1>1, <1>2, <2>1, <2>2 DEF Rows, RowTimes
  <2>4. Mirrors'
    BY <1>2, <1>4, <2>1 DEF Mirrors
  <2>5. Guaranteed'
    <3>1. /\ \A m \in Names \ {n} : guar'[m] = guar[m]
          /\ promise' = [promise EXCEPT ![n] = Max({promise[n], guar'[n]})]
      BY <1>1, <1>9 DEF Served, TypeOK
    <3> QED BY <1>1, <3>1, Published DEF Rows
  <2> QED BY <1>1, <1>2, <1>3, <2>1, <2>3, <2>4, <2>5 DEF Rows, Deleting
<1>10. ASSUME Backfill(n) PROVE Rows'
  BY <1>1, <1>2, <1>3, <1>10 DEF Backfill, Rows, RowTimes, Mirrors, Deleting, Guaranteed
<1>11. ASSUME ThinSweep(n) PROVE Rows'
  <2>1. UNCHANGED <<known, passive, seen, guar, promise, store>> /\ \E drop : Thinned(n, drop)
    BY <1>11 DEF ThinSweep
  <2>2. Deleting'
    BY <1>1, <1>2, <2>1, ThinnedType DEF Rows, Deleting
  <2> QED BY <1>1, <1>2, <1>3, <2>1, <2>2 DEF Rows, RowTimes, Mirrors, Guaranteed
<1> QED BY <1>5, <1>6, <1>7, <1>8, <1>9, <1>10, <1>11

LEMMA RowsStep ==
  ASSUME IInv, TypeOK', Next
  PROVE  Rows'
BY Steps, RowsPruning, RowsHandling, RowsRunning, RowsMessages

-----------------------------------------------------------------------------
(***************************************************************************)
(* Every step keeps the promises.                                          *)
(***************************************************************************)
\* A name the step does not touch.
LEMMA Untouched ==
  ASSUME NEW m \in Names, Alive(m), clock' = clock,
         m \in known' <=> m \in known, m \in doomed' <=> m \in doomed,
         m \in passive' <=> m \in passive, seen'[m] = seen[m], promise'[m] = promise[m],
         hist'[m].tip = hist[m].tip, acked'[m] \in {0, acked[m]},
         <<m, hist[m].tip.cid>> \in blocks => <<m, hist[m].tip.cid>> \in blocks'
  PROVE  Alive(m)'
BY DEF Alive, Expired

\* What the memory says of the activity of a name, in numbers.
LEMMA Numbers ==
  ASSUME TypeOK, Rows, phase # "down", NEW m \in Names
  PROVE  /\ seen[m] \in Nat /\ promise[m] \in Nat /\ guar[m] \in Nat /\ clock \in Nat /\ clock # 0
         /\ seen[m] <= clock /\ guar[m] <= promise[m] /\ Long \in Nat
         /\ PassiveRetention \in Nat /\ Retention \in Nat
         /\ Long <= PassiveRetention /\ PassiveRetention <= Retention
<1>1. /\ seen[m] \in Nat /\ promise[m] \in Nat /\ guar[m] \in Nat /\ clock \in Nat /\ clock # 0
  BY NameTypes, Bounds DEF Time
<1>2. seen[m] <= clock /\ guar[m] <= promise[m]
  BY DEF Rows, RowTimes, Mirrors, Guaranteed
<1> QED BY <1>1, <1>2, Bounds

\* A promise that is published counts from the activity, or stood before.
LEMMA Promised ==
  ASSUME TypeOK, Rows, phase # "down", NEW n \in Names, NEW s \in Time,
         NEW g \in {0, guar[n]}, NEW d \in {Short, Long},
         promise'[n] = Max({promise[n], Guarantee(n, s, g, d)})
  PROVE  promise'[n] = promise[n] \/ promise'[n] <= (IF s = 0 THEN clock ELSE s) + Long
<1> DEFINE u == Guarantee(n, s, g, d)
<1>1. g \in 0..(MaxTime + Long)
  BY NameTypes, Bounds
<1>2. u \in 0..(MaxTime + Long) /\ (u = g \/ u <= (IF s = 0 THEN clock ELSE s) + Long)
  BY <1>1, GuaranteeType
<1> HIDE DEF u
<1>3. promise'[n] = Max({promise[n], u})
  BY DEF u
<1>4. promise[n] \in Nat /\ u \in Nat /\ g <= promise[n]
  BY <1>2, Numbers, Bounds
<1> QED BY <1>2, <1>3, <1>4, MaxOfTwo

\* A name that is to be deleted has no promise left.
LEMMA DoomedIsOver ==
  ASSUME TypeOK, Rows, phase # "down", NEW n \in Names, Alive(n), n \in doomed
  PROVE  ~(promise[n] >= clock)
BY Numbers DEF Alive, Expired

LEMMA PromisesPruning ==
  ASSUME IInv, Prune \/ (\E n \in Names : PruneName(n)) \/ PruneBlock \/ PruneForget
  PROVE  Promises'
<1> USE DEF clockVars, nameVars, ackVars, pruneVars, storeVars
<1>1. TypeOK /\ Rows /\ Promises
  BY DEF IInv
<1>2. phase # "down" /\ phase' = phase /\ clock' = clock /\ excused \subseteq excused'
  BY DEF Prune, PruneName, PruneBlock, PruneForget
<1> SUFFICES ASSUME NEW m \in Names, m \notin excused'
             PROVE  Alive(m)'
  BY <1>2 DEF Promises
<1>3. Alive(m)
  BY <1>1, <1>2 DEF Promises
<1>4. ASSUME Prune PROVE Alive(m)'
  <2> DEFINE expired == {n \in known : Expired(n, seen[n], passive)}
             stale   == IF swept THEN {n \in known \ expired : Stale(n)} ELSE {}
  <2>1. PICK extra : doomed' = expired \cup extra /\ excused' = excused \cup extra /\ passive' = passive \cup stale
    BY <1>4 DEF Prune
  <2>2. UNCHANGED <<known, seen, promise, hist, acked, blocks>>
    BY <1>4 DEF Prune
  <2>3. m \in doomed' => m \in expired
    BY <2>1
  <2>4. m \in expired => (m \in passive' <=> m \in passive)
    BY <2>1
  <2>5. doomed = {}
    BY <1>4 DEF Prune
  <2>6. m \in doomed' => m \in known /\ Expired(m, seen[m], passive)'
    BY <1>2, <2>2, <2>3, <2>4 DEF Expired
  <2> HIDE DEF expired, stale
  <2> QED BY <1>2, <1>3, <2>2, <2>5, <2>6 DEF Alive
<1>5. ASSUME NEW n \in Names, PruneName(n) PROVE Alive(m)'
  BY <1>2, <1>3, <1>5, Untouched DEF PruneName
<1>6. ASSUME PruneBlock PROVE Alive(m)'
  <2>1. PICK c \in victim.left : blocks' = blocks \ {<<victim.name, c>>}
    BY <1>6 DEF PruneBlock
  <2>2. UNCHANGED <<known, seen, promise, hist, acked, passive, doomed>>
    BY <1>6 DEF PruneBlock
  <2>3. CASE m = victim.name
    <3>1. m \in doomed
      BY <1>1, <2>1, <2>3 DEF Rows, Deleting, Idle
    <3> QED BY <1>2, <1>3, <2>2, <3>1 DEF Alive, Expired
  <2>4. CASE m # victim.name
    BY <1>2, <1>3, <2>1, <2>2, <2>4, Untouched
  <2> QED BY <2>3, <2>4
<1>7. ASSUME PruneForget PROVE Alive(m)'
  <2> DEFINE n == victim.name
  <2>1. n \in Names /\ n \in doomed
    BY <1>1, <1>7 DEF PruneForget, TypeOK, Rows, Deleting
  <2>2. /\ known' = known \ {n} /\ doomed' = doomed \ {n} /\ passive' = passive \ {n}
        /\ hist'[n] = NoEntry /\ acked'[n] = 0
        /\ \A k \in Names \ {n} : seen'[k] = seen[k] /\ hist'[k] = hist[k] /\ acked'[k] = acked[k]
        /\ UNCHANGED <<promise, blocks>>
    BY <1>1, <1>7, <2>1 DEF PruneForget, TypeOK
  <2>3. CASE m = n
    <3>1. ~(promise[m] >= clock)
      BY <1>1, <1>2, <1>3, <2>1, <2>3, DoomedIsOver
    <3> QED BY <1>2, <2>2, <2>3, <3>1, NoEntryFields DEF Alive
  <2>4. CASE m # n
    BY <1>2, <1>3, <2>2, <2>4, Untouched
  <2> QED BY <2>3, <2>4
<1> QED BY <1>4, <1>5, <1>6, <1>7

LEMMA PromisesHandling ==
  ASSUME IInv, TypeOK', NEW j \in jobs,
         \/ FetchGot(j) \/ FetchFailed(j) \/ FetchAdded(j) \/ AckDone(j)
         \/ ThinBlock(j) \/ ThinDone(j)
         \/ IngestStored(j) \/ IngestWritten(j) \/ IngestDone(j)
  PROVE  Promises'
<1> USE DEF clockVars, nameVars, ackVars, pruneVars, storeVars
<1> DEFINE n == j.name
<1>1. TypeOK /\ Histories /\ Rows /\ Promises
  BY DEF IInv
<1>2. phase # "down" /\ n \in Names /\ j.cid \in Snapshots /\ j.cid # 0
  <2>1. n \in Names /\ j.cid \in Snapshots
    BY <1>1, JobFields DEF TypeOK
  <2> QED BY <1>1, <2>1, Bounds DEF Rows, Stopped
<1>3. phase' = phase /\ clock' = clock /\ doomed' = doomed /\ passive' = passive /\ excused \subseteq excused'
  BY DEF FetchGot, FetchFailed, FetchAdded, AckDone, ThinBlock, ThinDone, IngestStored, IngestWritten, IngestDone
<1> SUFFICES ASSUME NEW m \in Names, m \notin excused'
             PROVE  Alive(m)'
  BY <1>2, <1>3 DEF Promises
<1>4. Alive(m)
  BY <1>1, <1>2, <1>3 DEF Promises
<1>5. ASSUME FetchGot(j) \/ FetchFailed(j) \/ ThinDone(j) \/ IngestDone(j) PROVE Alive(m)'
  <2>1. UNCHANGED <<known, seen, promise, hist, acked>> /\ blocks \subseteq blocks'
    BY <1>5 DEF FetchGot, FetchFailed, ThinDone, IngestDone
  <2> QED BY <1>3, <1>4, <2>1, Untouched
<1>6. ASSUME FetchAdded(j) PROVE Alive(m)'
  <2>1. /\ Tracked(n, j.cid) /\ UNCHANGED <<seen, acked, blocks>> /\ known' = known \cup {n}
    BY <1>6 DEF FetchAdded, Tracked
  <2>2. /\ hist'[n].tip.cid \in {j.cid, hist[n].tip.cid} /\ hist'[n].tip # NoTip
        /\ \A k \in Names \ {n} : hist'[k] = hist[k]
    BY <1>1, <1>2, <2>1, TrackedType
  <2>3. \A k \in Names \ {n} : promise'[k] = promise[k]
    BY <1>1, <1>6 DEF FetchAdded, TypeOK
  <2>4. CASE m # n
    BY <1>3, <1>4, <2>1, <2>2, <2>3, <2>4, Untouched
  <2>5. CASE m = n
    <3>1. <<n, j.cid>> \in blocks /\ (j.answer => seen[n] # 0 /\ n \notin doomed)
      BY <1>6, <2>5 DEF FetchAdded
    <3>2. hist'[n].tip.cid # 0
      <4>1. hist'[n] \in Entry
        BY <1>2 DEF TypeOK
      <4> QED BY <2>2, <4>1, TipType
    <3>3. n \notin doomed => <<n, hist'[n].tip.cid>> \in blocks
      <4>1. CASE hist'[n].tip.cid = j.cid
        BY <3>1, <4>1
      <4>2. CASE hist'[n].tip.cid = hist[n].tip.cid
        <5>1. hist[n].tip # NoTip
          BY <3>2, <4>2, NoEntryFields
        <5> QED BY <1>4, <2>5, <4>2, <5>1 DEF Alive
      <4> QED BY <2>2, <4>1, <4>2
    <3>4. promise'[n] >= clock => seen[n] # 0 /\ promise'[n] <= seen[n] + Long
      <4>1. CASE j.answer
        <5>1. PICK d \in {Short, Long} :
                 /\ guar' = [guar EXCEPT ![n] = Guarantee(n, seen[n], guar[n], d)]
                 /\ promise' = [promise EXCEPT ![n] = Max({@, guar'[n]})]
          BY <1>6, <4>1 DEF FetchAdded
        <5>2. promise'[n] = Max({promise[n], Guarantee(n, seen[n], guar[n], d)})
          BY <1>1, <1>2, <5>1 DEF TypeOK
        <5>3. seen[n] \in Time
          BY <1>1, <1>2, NameTypes
        <5>4. promise'[n] = promise[n] \/ promise'[n] <= (IF seen[n] = 0 THEN clock ELSE seen[n]) + Long
          BY <1>1, <1>2, <5>2, <5>3, Promised
        <5> QED BY <1>4, <2>5, <3>1, <4>1, <5>4 DEF Alive
      <4>2. CASE ~j.answer
        <5>1. promise' = promise
          BY <1>6, <4>2 DEF FetchAdded
        <5> QED BY <1>4, <2>5, <5>1 DEF Alive
      <4> QED BY <4>1, <4>2
    <3>5. n \in doomed' => n \in known' /\ Expired(n, seen[n], passive)'
      BY <1>3, <1>4, <2>1, <2>5 DEF Alive, Expired
    <3> QED BY <1>3, <2>1, <2>2, <2>5, <3>3, <3>4, <3>5 DEF Alive
  <2> QED BY <2>4, <2>5
<1>7. ASSUME AckDone(j) PROVE Alive(m)'
  <2>1. PICK drop : Thinned(n, drop)
    BY <1>7 DEF AckDone
  <2>2. hist'[n].tip = hist[n].tip /\ \A k \in Names \ {n} : hist'[k] = hist[k]
    BY <1>1, <1>2, <2>1, ThinnedType
  <2>3. /\ UNCHANGED <<known, seen, promise, blocks>> /\ acked' = [acked EXCEPT ![n] = j.cid]
    BY <1>7 DEF AckDone
  <2>4. CASE m # n
    <3>1. acked'[m] = acked[m]
      BY <1>1, <2>3, <2>4 DEF TypeOK
    <3> QED BY <1>3, <1>4, <2>2, <2>3, <2>4, <3>1, Untouched
  <2>5. CASE m = n
    <3>1. n \in known /\ hist[n].tip # NoTip
      BY <1>7, <2>5 DEF AckDone
    <3> QED BY <1>3, <1>4, <2>2, <2>3, <2>5, <3>1 DEF Alive, Expired
  <2> QED BY <2>4, <2>5
<1>8. ASSUME IngestWritten(j) PROVE Alive(m)'
  <2>1. PICK drop : Thinned(n, drop)
    BY <1>8 DEF IngestWritten
  <2>2. hist'[n].tip = hist[n].tip /\ \A k \in Names \ {n} : hist'[k] = hist[k]
    BY <1>1, <1>2, <2>1, ThinnedType
  <2>3. UNCHANGED <<known, seen, promise, blocks, acked>>
    BY <1>8 DEF IngestWritten
  <2> QED BY <1>3, <1>4, <2>2, <2>3, Untouched
<1>9. ASSUME ThinBlock(j) PROVE Alive(m)'
  <2>1. PICK c \in j.left :
          /\ blocks' = blocks \ {<<n, c>>}
          /\ excused' = IF c \in Cids(hist[n].snaps) THEN excused \cup {n} ELSE excused
    BY <1>9 DEF ThinBlock
  <2>2. UNCHANGED <<known, seen, promise, hist, acked>>
    BY <1>9 DEF ThinBlock
  <2>3. CASE m # n
    BY <1>3, <1>4, <2>1, <2>2, <2>3, Untouched
  <2>4. CASE m = n
    <3>1. c \notin Cids(hist[n].snaps)
      BY <2>1, <2>4
    <3>2. hist[n].tip # NoTip => hist[n].tip.cid # c
      BY <1>1, <1>2, <3>1 DEF Histories, Listed
    <3> QED BY <1>3, <1>4, <2>1, <2>2, <2>4, <3>2 DEF Alive, Expired
  <2> QED BY <2>3, <2>4
<1>10. ASSUME IngestStored(j) PROVE Alive(m)'
  <2>1. /\ Tracked(n, j.cid) /\ UNCHANGED <<promise, acked>> /\ known' = known \cup {n}
        /\ blocks' = blocks \cup {<<n, j.cid>>} /\ seen' = [seen EXCEPT ![n] = clock]
    BY <1>10 DEF IngestStored, Tracked
  <2>2. /\ hist'[n].tip.cid \in {j.cid, hist[n].tip.cid} /\ hist'[n].tip # NoTip
        /\ \A k \in Names \ {n} : hist'[k] = hist[k]
    BY <1>1, <1>2, <2>1, TrackedType
  <2>3. seen'[n] = clock /\ \A k \in Names \ {n} : seen'[k] = seen[k]
    BY <1>1, <1>2, <2>1 DEF TypeOK
  <2>4. CASE m # n
    BY <1>3, <1>4, <2>1, <2>2, <2>3, <2>4, Untouched
  <2>5. CASE m = n
    <3>1. n \notin doomed
      BY <1>10, <2>5 DEF IngestStored
    <3>2. hist'[n].tip.cid # 0
      <4>1. hist'[n] \in Entry
        BY <1>2 DEF TypeOK
      <4> QED BY <2>2, <4>1, TipType
    <3>3. <<n, hist'[n].tip.cid>> \in blocks'
      <4>1. CASE hist'[n].tip.cid = j.cid
        BY <2>1, <4>1
      <4>2. CASE hist'[n].tip.cid = hist[n].tip.cid
        <5>1. hist[n].tip # NoTip
          BY <3>2, <4>2, NoEntryFields
        <5> QED BY <1>4, <2>1, <2>5, <3>1, <4>2, <5>1 DEF Alive
      <4> QED BY <2>2, <4>1, <4>2
    <3>4. promise'[n] >= clock => promise'[n] <= clock + Long
      BY <1>1, <1>2, <1>4, <2>1, <2>5, Numbers DEF Alive
    <3>5. clock # 0
      BY <1>1, <1>2, Numbers
    <3> QED BY <1>3, <2>1, <2>2, <2>3, <2>5, <3>1, <3>3, <3>4, <3>5 DEF Alive
  <2> QED BY <2>4, <2>5
<1> QED BY <1>5, <1>6, <1>7, <1>8, <1>9, <1>10

LEMMA PromisesRunning ==
  ASSUME IInv, TypeOK', Settle \/ SaveIndex \/ Start \/ Started \/ Sweep \/ Tick \/ (\E saved \in BOOLEAN : Down(saved))
  PROVE  Promises'
<1> USE DEF clockVars, nameVars, ackVars, pruneVars, storeVars
<1>1. TypeOK /\ Histories /\ Rows /\ Promises
  BY DEF IInv
<1>2. ASSUME Settle \/ SaveIndex \/ Started \/ Sweep PROVE Promises'
  <2>1. /\ phase # "down" /\ phase' # "down"
        /\ UNCHANGED <<clock, known, seen, passive, promise, hist, acked, blocks, doomed, excused>>
    BY <1>1, <1>2 DEF Settle, SaveIndex, Started, Sweep, Rows, Stopped
  <2> QED BY <1>1, <2>1 DEF Promises, Alive, Expired
<1>3. ASSUME Tick PROVE Promises'
  <2>1. /\ clock' = clock + 1 /\ doomed = {} /\ clock \in Int
        /\ UNCHANGED <<phase, known, seen, passive, promise, hist, acked, blocks, doomed, excused, disk, index>>
    BY <1>1, <1>3, Bounds DEF Tick, TypeOK
  <2>2. ASSUME NEW m \in Names PROVE promise[m] \in Int /\ disk[m].seen + Kept(disk[m].deact) \in Int
    <3>1. promise[m] \in Int /\ disk[m] \in Row
      BY <1>1, NameTypes, Bounds
    <3>2. disk[m].seen \in Int /\ Kept(disk[m].deact) \in Int
      BY <3>1, Bounds DEF Row, Time, Kept
    <3> QED BY <3>1, <3>2
  <2>3. CASE phase = "down"
    BY <1>1, <2>1, <2>2, <2>3 DEF Promises, Persisted
  <2>4. CASE phase # "down"
    BY <1>1, <2>1, <2>2, <2>4 DEF Promises, Alive
  <2> QED BY <2>3, <2>4
<1>4. ASSUME Start PROVE Promises'
  <2>1. /\ phase = "down" /\ phase' = "starting" /\ known' = {n \in Names : disk[n].kn}
        /\ seen' = [n \in Names |-> disk[n].seen] /\ passive' = {n \in known' : disk[n].deact}
        /\ hist' = [n \in Names |-> Restored(n)]
        /\ UNCHANGED <<clock, promise, acked, blocks>>
    BY <1>4 DEF Start
  <2> DEFINE expired == {n \in known' : Expired(n, seen'[n], passive')}
  <2>2. PICK extra : doomed' = expired \cup extra /\ excused' = excused \cup extra
    BY <1>4 DEF Start
  <2> SUFFICES ASSUME NEW m \in Names, m \notin excused'
               PROVE  Alive(m)'
    BY <2>1 DEF Promises
  <2>3. Persisted(m) /\ acked[m] = 0
    BY <1>1, <2>1, <2>2 DEF Promises, Rows, Stopped
  <2>4. m \in doomed' <=> m \in known' /\ Expired(m, seen'[m], passive')
    BY <2>2
  <2>5. index[m] \in Entry /\ hist'[m] \in Entry /\ hist'[m].tip.cid = index[m].tip.cid
    BY <1>1, <2>1, <2>3, RestoredType, NameTypes DEF Persisted
  <2>6. hist'[m].tip = NoTip <=> index[m].tip = NoTip
    BY <2>5, TipType
  <2>7. (m \in known' <=> disk[m].kn) /\ seen'[m] = disk[m].seen
    BY <2>1
  <2>8. m \in known' => (m \in passive' <=> disk[m].deact)
    BY <2>1
  <2>9. m \in known' => (Expired(m, seen'[m], passive') <=> disk[m].seen + Kept(disk[m].deact) < clock)
    BY <2>7, <2>8 DEF Expired, Kept
  <2>10. Expired(m, seen[m], passive)' <=> Expired(m, seen'[m], passive')
    BY <2>1 DEF Expired
  <2> HIDE DEF expired
  <2>11. m \in known' \ doomed' /\ hist'[m].tip # NoTip => <<m, hist'[m].tip.cid>> \in blocks'
    BY <2>1, <2>3, <2>4, <2>5, <2>6, <2>7, <2>9 DEF Persisted
  <2>12. promise'[m] >= clock' => /\ m \in known' /\ hist'[m].tip # NoTip
                                  /\ seen'[m] # 0 /\ promise'[m] <= seen'[m] + Long
    BY <2>1, <2>3, <2>6, <2>7 DEF Persisted
  <2>13. m \notin known' => hist'[m].tip = NoTip
    BY <2>3, <2>6, <2>7 DEF Persisted
  <2> QED BY <2>1, <2>3, <2>4, <2>10, <2>11, <2>12, <2>13 DEF Alive
<1>5. ASSUME NEW saved \in BOOLEAN, Down(saved) PROVE Promises'
  <2>1. /\ phase # "down" /\ phase' = "down" /\ excused \subseteq excused'
        /\ UNCHANGED <<clock, disk, promise, blocks>>
        /\ \A m \in Names \ excused' : /\ store[m] = disk[m] /\ index'[m] = hist[m]
                                       /\ store[m].tip = hist[m].tip.cid
    BY <1>5 DEF Down
  <2> SUFFICES ASSUME NEW m \in Names, m \notin excused'
               PROVE  Persisted(m)'
    BY <2>1 DEF Promises
  <2>2. Alive(m)
    BY <1>1, <2>1 DEF Promises
  <2>3. /\ disk'[m].tip = hist[m].tip.cid /\ index'[m] = hist[m]
        /\ (disk'[m].kn <=> m \in known) /\ (disk'[m].deact <=> m \in passive) /\ disk'[m].seen = seen[m]
    BY <1>1, <2>1 DEF Rows, Mirrors
  <2>4. m \in doomed => disk'[m].seen + Kept(disk'[m].deact) < clock
    BY <2>2, <2>3 DEF Alive, Expired, Kept
  <2> QED BY <2>1, <2>2, <2>3, <2>4 DEF Alive, Persisted
<1> QED BY <1>2, <1>3, <1>4, <1>5

LEMMA PromisesMessages ==
  ASSUME IInv, TypeOK', NEW n \in Names,
         \/ \E c \in Snapshots, fromPinner \in BOOLEAN :
              Announced(n, c, fromPinner) \/ ReAcked(n, c, fromPinner)
         \/ \E c \in Snapshots : Resolve(n, c) \/ IngestAdmitted(n, c)
         \/ Queried(n) \/ (\E withBlock \in BOOLEAN : Served(n, withBlock))
         \/ Reannounce(n) \/ Backfill(n) \/ ThinSweep(n)
  PROVE  Promises'
<1> USE DEF clockVars, nameVars, ackVars, pruneVars, storeVars
<1>1. TypeOK /\ Histories /\ Rows /\ Promises
  BY DEF IInv
<1>2. phase = "running" /\ phase' = phase /\ UNCHANGED <<clock, doomed, acked, blocks>> /\ excused \subseteq excused'
  BY DEF Announced, ReAcked, Resolve, IngestAdmitted, Queried, Served, Reannounce, Backfill, ThinSweep, Publish
<1> SUFFICES ASSUME NEW m \in Names, m \notin excused'
             PROVE  Alive(m)'
  BY <1>2 DEF Promises
<1>3. Alive(m)
  BY <1>1, <1>2 DEF Promises
<1>4. /\ seen[n] \in Time /\ clock \in Time /\ 0 \in {0, guar[n]} /\ guar[n] \in {0, guar[n]}
      /\ hist[n] \in Entry /\ guar[n] \in 0..(MaxTime + Long)
  BY <1>1, NameTypes
<1>5. /\ seen[m] \in Nat /\ promise[m] \in Nat /\ clock \in Nat /\ clock # 0
      /\ seen[m] <= clock /\ Long \in Nat
  BY <1>1, <1>2, Numbers
<1>6. ASSUME NEW c \in Snapshots, NEW fromPinner \in BOOLEAN, Announced(n, c, fromPinner) \/ ReAcked(n, c, fromPinner)
      PROVE  Alive(m)'
  <2>1. /\ \A k \in Names \ {n} : seen'[k] = seen[k] /\ (k \in passive' <=> k \in passive)
        /\ seen'[n] = IF fromPinner THEN seen[n] ELSE clock
        /\ (n \in passive' <=> fromPinner /\ n \in passive)
        /\ known' = known \cup {n} /\ hist' = hist
    BY <1>1, <1>6, HeardType DEF Announced, ReAcked
  <2>2. CASE /\ Publish(n, guar'[n], seen'[n]) /\ (hist[n].tip.cid = c \/ acked[n] = c)
             /\ \E g \in {0, guar[n]}, d \in {Short, Long} : guar'[n] = Guarantee(n, seen'[n], g, d)
    <3>1. \A k \in Names \ {n} : promise'[k] = promise[k]
      BY <1>1, <2>2 DEF Publish, TypeOK
    <3>2. CASE m # n
      BY <1>2, <1>3, <2>1, <3>1, <3>2, Untouched
    <3>3. CASE m = n
      <4>1. seen'[n] # 0 /\ n \notin doomed
        BY <2>2, <3>3 DEF Publish
      <4>2. n \in known /\ hist[n].tip # NoTip
        BY <1>3, <2>2, <3>3, Bounds, NoEntryFields DEF Alive
      <4>3. PICK g \in {0, guar[n]}, d \in {Short, Long} : guar'[n] = Guarantee(n, seen'[n], g, d)
        BY <2>2
      <4>4. promise'[n] = Max({promise[n], Guarantee(n, seen'[n], g, d)})
        BY <1>1, <2>2, <4>3 DEF Publish, TypeOK
      <4>5. seen'[n] \in Time
        BY <1>4, <2>1
      <4>6. promise'[n] = promise[n] \/ promise'[n] <= seen'[n] + Long
        BY <1>1, <1>2, <4>1, <4>4, <4>5, Promised
      <4>7. promise'[n] >= clock => promise'[n] <= seen'[n] + Long
        BY <1>3, <1>5, <2>1, <3>3, <4>6 DEF Alive
      <4> QED BY <1>2, <1>3, <2>1, <3>3, <4>1, <4>2, <4>7 DEF Alive
    <3> QED BY <3>2, <3>3
  <2>3. CASE promise' = promise /\ excused' = IF ~fromPinner /\ n \in doomed THEN excused \cup {n} ELSE excused
    <3>1. CASE m # n
      BY <1>2, <1>3, <2>1, <2>3, <3>1, Untouched
    <3>2. CASE m = n
      <4>1. n \in doomed => fromPinner
        BY <2>3, <3>2
      <4>2. n \in doomed' => n \in known' /\ Expired(n, seen[n], passive)'
        BY <1>2, <1>3, <2>1, <3>2, <4>1 DEF Alive, Expired
      <4>3. promise[n] >= clock => /\ hist[n].tip # NoTip /\ seen'[n] # 0 /\ promise[n] <= seen'[n] + Long
        BY <1>3, <1>5, <2>1, <3>2 DEF Alive
      <4> QED BY <1>2, <1>3, <2>1, <2>3, <3>2, <4>2, <4>3 DEF Alive
    <3> QED BY <3>1, <3>2
  <2>4. CASE ReAcked(n, c, fromPinner)
    <3>1. PICK d \in {Short, Long} :
            guar' = [guar EXCEPT ![n] = Guarantee(n, seen'[n], IF fromPinner THEN guar[n] ELSE 0, d)]
      BY <2>4 DEF ReAcked
    <3>2. guar'[n] = Guarantee(n, seen'[n], IF fromPinner THEN guar[n] ELSE 0, d)
      BY <1>1, <3>1 DEF TypeOK
    <3>3. Publish(n, guar'[n], seen'[n]) /\ acked[n] = c
      BY <2>4 DEF ReAcked
    <3> QED BY <1>4, <2>2, <3>2, <3>3
  <2>5. CASE Announced(n, c, fromPinner) /\ hist[n].tip.cid = c
    <3>1. PICK d \in {Short, Long} :
            /\ guar' = [guar EXCEPT ![n] = Guarantee(n, seen'[n], 0, d)]
            /\ Publish(n, guar'[n], seen'[n])
      BY <2>5 DEF Announced
    <3>2. guar'[n] = Guarantee(n, seen'[n], 0, d)
      BY <1>1, <3>1 DEF TypeOK
    <3> QED BY <1>4, <2>2, <2>5, <3>1, <3>2
  <2>6. CASE Announced(n, c, fromPinner) /\ hist[n].tip.cid # c
    BY <2>3, <2>6 DEF Announced
  <2> QED BY <1>6, <2>4, <2>5, <2>6
<1>7. ASSUME NEW c \in Snapshots, Resolve(n, c) \/ IngestAdmitted(n, c) PROVE Alive(m)'
  <2>1. UNCHANGED <<known, seen, passive, promise, hist>>
    BY <1>7 DEF Resolve, IngestAdmitted
  <2> QED BY <1>2, <1>3, <2>1, Untouched
<1>8. ASSUME NEW d \in {Short, Long}, guar' = [guar EXCEPT ![n] = Guarantee(n, seen[n], guar[n], d)],
             Publish(n, guar'[n], seen[n]), UNCHANGED <<known, seen, passive, hist>>,
             n \in known, hist[n].tip # NoTip
      PROVE  Alive(m)'
  <2>1. /\ promise'[n] = Max({promise[n], Guarantee(n, seen[n], guar[n], d)})
        /\ \A k \in Names \ {n} : promise'[k] = promise[k]
    BY <1>1, <1>8 DEF Publish, TypeOK
  <2>2. CASE m # n
    BY <1>2, <1>3, <1>8, <2>1, <2>2, Untouched
  <2>3. CASE m = n
    <3>1. seen[n] # 0
      BY <1>8, <2>3 DEF Publish
    <3>2. promise'[n] = promise[n] \/ promise'[n] <= seen[n] + Long
      BY <1>1, <1>2, <1>4, <2>1, <3>1, Promised
    <3>3. promise'[n] >= clock => promise'[n] <= seen[n] + Long
      BY <1>3, <2>3, <3>2 DEF Alive
    <3> QED BY <1>2, <1>3, <1>8, <2>3, <3>1, <3>3 DEF Alive, Expired
  <2> QED BY <2>2, <2>3
<1>9. ASSUME Queried(n) PROVE Alive(m)'
  <2>1. PICK d \in {Short, Long} : guar' = [guar EXCEPT ![n] = Guarantee(n, seen[n], guar[n], d)]
    BY <1>9 DEF Queried
  <2> QED BY <1>8, <1>9, <2>1 DEF Queried
<1>10. ASSUME Reannounce(n) PROVE Alive(m)'
  <2>1. CASE n \in known \ passive /\ n \in apps /\ hist[n].tip # NoTip
    <3>1. PICK d \in {Short, Long} : guar' = [guar EXCEPT ![n] = Guarantee(n, seen[n], guar[n], d)]
      BY <1>10, <2>1 DEF Reannounce
    <3> QED BY <1>8, <1>10, <2>1, <3>1 DEF Reannounce
  <2>2. CASE ~(n \in known \ passive /\ n \in apps /\ hist[n].tip # NoTip)
    <3>1. UNCHANGED <<known, seen, passive, promise, hist>>
      BY <1>10, <2>2 DEF Reannounce
    <3> QED BY <1>2, <1>3, <3>1, Untouched
  <2> QED BY <2>1, <2>2
<1>11. ASSUME NEW withBlock \in BOOLEAN, Served(n, withBlock) PROVE Alive(m)'
  <2>1. PICK d \in {Short, Long} : guar' = [guar EXCEPT ![n] = Guarantee(n, seen[n], guar[n], d)]
    BY <1>11 DEF Served
  <2>2. /\ promise' = [promise EXCEPT ![n] = Max({@, guar'[n]})]
        /\ excused' = IF n \in doomed THEN excused \cup {n} ELSE excused
        /\ n \in known /\ hist[n].tip # NoTip /\ UNCHANGED <<known, hist>>
    BY <1>11 DEF Served
  <2>3. /\ \A k \in Names \ {n} : seen'[k] = seen[k]
        /\ seen'[n] = clock /\ passive' = passive \ {n}
    BY <1>1, <1>11, ServedRow
  <2>4. /\ promise'[n] = Max({promise[n], Guarantee(n, seen[n], guar[n], d)})
        /\ \A k \in Names \ {n} : promise'[k] = promise[k]
    BY <1>1, <2>1, <2>2 DEF TypeOK
  <2>5. CASE m # n
    BY <1>2, <1>3, <2>2, <2>3, <2>4, <2>5, Untouched
  <2>6. CASE m = n
    <3>1. n \notin doomed
      BY <2>2, <2>6
    <3>2. promise'[n] = promise[n] \/ promise'[n] <= (IF seen[n] = 0 THEN clock ELSE seen[n]) + Long
      BY <1>1, <1>2, <1>4, <2>4, Promised
    <3>3. promise'[n] >= clock => promise'[n] <= clock + Long
      <4>1. promise[n] >= clock => promise[n] <= clock + Long
        BY <1>3, <1>5, <2>6 DEF Alive
      <4>2. (IF seen[n] = 0 THEN clock ELSE seen[n]) + Long <= clock + Long
        BY <1>5, <2>6
      <4>3. promise'[n] \in Nat /\ (IF seen[n] = 0 THEN clock ELSE seen[n]) + Long \in Nat /\ clock + Long \in Nat
        BY <1>5, <2>6, Bounds DEF TypeOK
      <4> QED BY <3>2, <4>1, <4>2, <4>3, <1>5
    <3> QED BY <1>2, <1>3, <1>5, <2>2, <2>3, <2>6, <3>1, <3>3 DEF Alive
  <2> QED BY <2>5, <2>6
<1>12. ASSUME Backfill(n) PROVE Alive(m)'
  <2>1. UNCHANGED <<known, seen, passive, promise>>
    BY <1>12 DEF Backfill
  <2> QED BY <1>1, <1>2, <1>3, <1>12, <2>1, BackfillType, Untouched
<1>13. ASSUME ThinSweep(n) PROVE Alive(m)'
  <2>1. UNCHANGED <<known, seen, passive, promise>> /\ \E drop : Thinned(n, drop)
    BY <1>13 DEF ThinSweep
  <2>2. hist'[n].tip = hist[n].tip /\ \A k \in Names \ {n} : hist'[k] = hist[k]
    BY <1>1, <2>1, ThinnedType
  <2> QED BY <1>2, <1>3, <2>1, <2>2, Untouched
<1> QED BY <1>6, <1>7, <1>9, <1>10, <1>11, <1>12, <1>13

LEMMA PromisesStep ==
  ASSUME IInv, TypeOK', Next
  PROVE  Promises'
BY Steps, PromisesPruning, PromisesHandling, PromisesRunning, PromisesMessages

-----------------------------------------------------------------------------
(***************************************************************************)
(* Every step keeps the uploads.                                           *)
(***************************************************************************)
\* Rows that stay complete, and names that stay tracked and active.
RowsStay ==
  \A n \in Names \ excused' : /\ Complete(store[n]) => Complete(store'[n])
                              /\ Complete(store[n]) /\ Complete(disk[n]) => Complete(disk'[n])

NamesStay ==
  \A n \in Names \ excused' : /\ n \in known \ doomed => n \in known' \ doomed'
                              /\ seen[n] = clock => seen'[n] = clock

LEMMA WrittenStays ==
  ASSUME TypeOK, Uploads, excused \subseteq excused', durable' \subseteq durable, RowsStay
  PROVE  Written'
BY DEF Uploads, Written, TypeOK, RowsStay

LEMMA JobStays ==
  ASSUME TypeOK, Uploads, clock' = clock, excused \subseteq excused', RowsStay, NamesStay, NEW j \in jobs
  PROVE  Safe(j)'
<1>1. j.name \in Names
  BY JobFields DEF TypeOK
<1>2. Safe(j)
  BY DEF Uploads
<1> QED BY <1>1, <1>2 DEF Safe, RowsStay, NamesStay

\* Most steps keep rows and names, and start at most a handler that is no upload.
LEMMA UploadsStay ==
  ASSUME TypeOK, Uploads, clock' = clock, excused \subseteq excused', durable' \subseteq durable,
         RowsStay, NamesStay,
         \A i \in jobs' \ jobs : i.kind \notin {"write", "finish"}
  PROVE  Uploads'
BY WrittenStays, JobStays DEF Uploads, Safe

\* Nothing of LevelDB and of the names changes.
LEMMA AllStay ==
  ASSUME TypeOK, UNCHANGED <<clock, store, disk, known, doomed, seen>>
  PROVE  RowsStay /\ NamesStay
BY DEF RowsStay, NamesStay

LEMMA UploadsPruning ==
  ASSUME IInv, Prune \/ (\E n \in Names : PruneName(n)) \/ PruneBlock \/ PruneForget
  PROVE  Uploads'
<1> USE DEF clockVars, nameVars, ackVars, pruneVars, storeVars
<1>1. TypeOK /\ Rows /\ Promises /\ Uploads
  BY DEF IInv
<1>2. /\ phase # "down" /\ clock' = clock /\ jobs' = jobs /\ excused \subseteq excused'
      /\ durable' \subseteq durable /\ disk' = disk
  BY DEF Prune, PruneName, PruneBlock, PruneForget
<1>3. ASSUME Prune PROVE Uploads'
  <2> DEFINE expired == {n \in known : Expired(n, seen[n], passive)}
  <2>1. PICK extra : doomed' = expired \cup extra /\ excused' = excused \cup extra /\ UNCHANGED <<known, seen>>
    BY <1>3 DEF Prune
  <2>2. \A m \in Names : /\ store'[m].kn = store[m].kn /\ store'[m].tip = store[m].tip
                         /\ store'[m].seen = store[m].seen
    BY <1>1, <1>3, PrunedRow
  <2>3. RowsStay
    BY <1>2, <2>2 DEF RowsStay, Complete
  <2>4. \A n \in Names : seen[n] = clock => n \notin expired
    BY <1>1, <1>2, Numbers DEF Expired
  <2>5. ASSUME NEW j \in jobs PROVE Safe(j)'
    <3>1. j.name \in Names /\ Safe(j)
      BY <1>1, JobFields DEF TypeOK, Uploads
    <3> HIDE DEF expired
    <3> QED BY <1>2, <2>1, <2>3, <2>4, <3>1 DEF Safe, RowsStay
  <2> QED BY <1>1, <1>2, <2>3, <2>5, WrittenStays DEF Uploads
<1>4. ASSUME (\E n \in Names : PruneName(n)) \/ PruneBlock PROVE Uploads'
  <2>1. UNCHANGED <<store, known, doomed, seen>>
    BY <1>4 DEF PruneName, PruneBlock
  <2> QED BY <1>1, <1>2, <2>1, AllStay, UploadsStay
<1>5. ASSUME PruneForget PROVE Uploads'
  <2> DEFINE n == victim.name
  <2>1. n \in Names /\ n \in doomed
    BY <1>1, <1>5 DEF PruneForget, TypeOK, Rows, Deleting
  <2>2. /\ known' = known \ {n} /\ doomed' = doomed \ {n} /\ durable' = durable \ {n}
        /\ \A k \in Names \ {n} : seen'[k] = seen[k] /\ store'[k] = store[k]
        /\ excused' = excused
    BY <1>1, <1>5, <2>1 DEF PruneForget, TypeOK
  <2>3. Written'
    BY <1>1, <1>2, <2>2 DEF Uploads, Written, TypeOK
  <2>4. ASSUME NEW j \in jobs PROVE Safe(j)'
    <3>1. j.name \in Names /\ Safe(j)
      BY <1>1, JobFields DEF TypeOK, Uploads
    <3> QED BY <1>2, <2>1, <2>2, <3>1 DEF Safe
  <2> QED BY <1>2, <2>3, <2>4 DEF Uploads
<1> QED BY <1>3, <1>4, <1>5

LEMMA UploadsHandling ==
  ASSUME IInv, NEW j \in jobs,
         \/ FetchGot(j) \/ FetchFailed(j) \/ FetchAdded(j) \/ AckDone(j)
         \/ ThinBlock(j) \/ ThinDone(j)
         \/ IngestStored(j) \/ IngestWritten(j) \/ IngestDone(j)
  PROVE  Uploads'
<1> USE DEF clockVars, nameVars, ackVars, pruneVars, storeVars
<1> DEFINE n == j.name
<1>1. TypeOK /\ Histories /\ Rows /\ Uploads
  BY DEF IInv
<1>2. j \in Job /\ n \in Names /\ j.cid \in Snapshots /\ Safe(j)
  BY <1>1, JobFields DEF TypeOK, Uploads
<1>3. clock' = clock /\ doomed' = doomed /\ excused \subseteq excused' /\ disk' = disk
  BY DEF FetchGot, FetchFailed, FetchAdded, AckDone, ThinBlock, ThinDone, IngestStored, IngestWritten, IngestDone
<1>4. ASSUME FetchGot(j) \/ FetchFailed(j) \/ ThinDone(j) PROVE Uploads'
  <2>1. UNCHANGED <<store, known, seen, durable>>
    BY <1>4 DEF FetchGot, FetchFailed, ThinDone
  <2>2. [j EXCEPT !.kind = "check"].kind = "check"
    BY <1>2 DEF Job
  <2>3. \A i \in jobs' \ jobs : i.kind \notin {"write", "finish"}
    BY <1>4, <2>2 DEF FetchGot, FetchFailed, ThinDone
  <2> QED BY <1>1, <1>3, <2>1, <2>3, AllStay, UploadsStay
<1>5. ASSUME FetchAdded(j) PROVE Uploads'
  <2>1. /\ store'[n].kn /\ store'[n].tip = j.cid /\ store'[n].seen = store[n].seen
        /\ \A m \in Names \ {n} : store'[m] = store[m]
    BY <1>1, <1>5, AddedRow
  <2>2. RowsStay
    BY <1>2, <1>3, <2>1, Bounds DEF RowsStay, Complete
  <2>3. known' = known \cup {n} /\ seen' = seen /\ durable' = durable
    BY <1>5 DEF FetchAdded, Tracked
  <2>4. NamesStay
    BY <1>3, <2>3 DEF NamesStay
  <2>5. [j EXCEPT !.kind = "ack"].kind = "ack"
    BY <1>2 DEF Job
  <2>6. \A i \in jobs' \ jobs : i.kind \notin {"write", "finish"}
    BY <1>5, <2>5 DEF FetchAdded
  <2> QED BY <1>1, <1>3, <2>2, <2>3, <2>4, <2>6, UploadsStay
<1>6. ASSUME AckDone(j) PROVE Uploads'
  <2>1. UNCHANGED <<store, known, seen, durable>>
    BY <1>6 DEF AckDone
  <2>2. PICK drop : jobs' = (jobs \ {j}) \cup {[j EXCEPT !.kind = "thin", !.left = Cids(drop)]}
    BY <1>6 DEF AckDone
  <2>3. [j EXCEPT !.kind = "thin", !.left = Cids(drop)].kind = "thin"
    BY <1>2 DEF Job
  <2>4. \A i \in jobs' \ jobs : i.kind \notin {"write", "finish"}
    BY <2>2, <2>3
  <2> QED BY <1>1, <1>3, <2>1, <2>4, AllStay, UploadsStay
<1>7. ASSUME ThinBlock(j) PROVE Uploads'
  <2>1. UNCHANGED <<store, known, seen, durable>>
    BY <1>7 DEF ThinBlock
  <2>2. RowsStay /\ NamesStay
    BY <1>1, <1>3, <2>1, AllStay
  <2>3. PICK c : jobs' = (jobs \ {j}) \cup {[j EXCEPT !.left = @ \ {c}]}
    BY <1>7 DEF ThinBlock
  <2> DEFINE i == [j EXCEPT !.left = @ \ {c}]
  <2>4. i.kind = j.kind /\ i.name = j.name
    BY <1>2 DEF Job
  <2>5. Safe(j)'
    BY <1>1, <1>3, <2>2, JobStays
  <2> HIDE DEF i
  <2>6. Safe(i)'
    BY <2>4, <2>5 DEF Safe
  <2>7. \A k \in jobs : Safe(k)'
    BY <1>1, <1>3, <2>2, JobStays
  <2>8. \A k \in jobs' : Safe(k)'
    BY <2>3, <2>6, <2>7 DEF i
  <2> QED BY <1>1, <1>3, <2>1, <2>2, <2>8, WrittenStays DEF Uploads
<1>8. ASSUME IngestStored(j) PROVE Uploads'
  <2>1. /\ store'[n].kn /\ store'[n].tip = j.cid /\ j.cid # 0 /\ store'[n].seen = clock
        /\ \A m \in Names \ {n} : store'[m] = store[m]
    BY <1>1, <1>8, StoredRow
  <2>2. clock # 0
    BY <1>1, <1>2, NameTypes
  <2>3. Complete(store'[n])
    BY <2>1, <2>2 DEF Complete
  <2>4. RowsStay
    BY <1>3, <2>1, <2>3 DEF RowsStay
  <2>5. known' = known \cup {n} /\ seen' = [seen EXCEPT ![n] = clock] /\ durable' = durable
    BY <1>8 DEF IngestStored, Tracked
  <2>6. seen'[n] = clock /\ \A m \in Names \ {n} : seen'[m] = seen[m]
    BY <1>1, <1>2, <2>5 DEF TypeOK
  <2>7. NamesStay
    BY <1>3, <2>5, <2>6 DEF NamesStay
  <2> DEFINE i == [j EXCEPT !.kind = "write"]
  <2>8. i.kind = "write" /\ i.name = n
    BY <1>2 DEF Job
  <2>9. jobs' = (jobs \ {j}) \cup {i} /\ (n \in doomed => n \in excused')
    BY <1>8 DEF IngestStored
  <2> HIDE DEF i
  <2>10. Safe(i)'
    BY <1>3, <2>3, <2>5, <2>6, <2>8, <2>9 DEF Safe
  <2>11. \A k \in jobs : Safe(k)'
    BY <1>1, <1>3, <2>4, <2>7, JobStays
  <2> QED BY <1>1, <1>3, <2>4, <2>5, <2>9, <2>10, <2>11, WrittenStays DEF Uploads
<1>9. ASSUME IngestWritten(j) PROVE Uploads'
  <2>1. UNCHANGED <<store, known, seen, durable, excused>> /\ store = disk /\ j.kind = "write"
    BY <1>9 DEF IngestWritten
  <2>2. RowsStay /\ NamesStay
    BY <1>1, <1>3, <2>1, AllStay
  <2>3. PICK drop : jobs' = (jobs \ {j}) \cup {[j EXCEPT !.kind = "finish", !.left = Cids(drop)]}
    BY <1>9 DEF IngestWritten
  <2> DEFINE i == [j EXCEPT !.kind = "finish", !.left = Cids(drop)]
  <2>4. i.kind = "finish" /\ i.name = n
    BY <1>2 DEF Job
  <2>5. jobs' = (jobs \ {j}) \cup {i}
    BY <2>3
  <2> HIDE DEF i
  <2>6. Safe(i)'
    BY <1>2, <1>3, <2>1, <2>4 DEF Safe
  <2>7. \A k \in jobs : Safe(k)'
    BY <1>1, <1>3, <2>2, JobStays
  <2> QED BY <1>1, <1>3, <2>1, <2>2, <2>5, <2>6, <2>7, WrittenStays DEF Uploads
<1>10. ASSUME IngestDone(j) PROVE Uploads'
  <2>1. /\ UNCHANGED <<store, known, seen, excused>> /\ j.kind = "finish" /\ jobs' = jobs \ {j}
        /\ durable' = IF n \in excused THEN durable ELSE durable \cup {n}
    BY <1>10 DEF IngestDone
  <2>2. n \notin excused => Complete(store[n]) /\ Complete(disk[n])
    BY <1>2, <2>1 DEF Safe
  <2>3. Written'
    BY <1>1, <1>3, <2>1, <2>2 DEF Uploads, Written
  <2>4. \A k \in jobs : Safe(k)'
    BY <1>1, <1>3, <2>1, AllStay, JobStays
  <2> QED BY <2>1, <2>3, <2>4 DEF Uploads
<1> QED BY <1>4, <1>5, <1>6, <1>7, <1>8, <1>9, <1>10

LEMMA UploadsRunning ==
  ASSUME IInv, Settle \/ SaveIndex \/ Start \/ Started \/ Sweep \/ Tick \/ (\E saved \in BOOLEAN : Down(saved))
  PROVE  Uploads'
<1> USE DEF clockVars, nameVars, ackVars, pruneVars, storeVars
<1>1. TypeOK /\ Rows /\ Uploads
  BY DEF IInv
<1>2. ASSUME SaveIndex \/ Started \/ Sweep PROVE Uploads'
  <2>1. UNCHANGED <<clock, store, disk, known, doomed, seen, excused, durable, jobs>>
    BY <1>2 DEF SaveIndex, Started, Sweep
  <2> QED BY <1>1, <2>1, AllStay, UploadsStay
<1>3. ASSUME Settle PROVE Uploads'
  <2>1. UNCHANGED <<clock, store, known, doomed, seen, excused, durable, jobs>> /\ disk' = store
    BY <1>3 DEF Settle
  <2>2. RowsStay /\ NamesStay
    BY <2>1 DEF RowsStay, NamesStay
  <2> QED BY <1>1, <2>1, <2>2, UploadsStay
<1>4. ASSUME Tick PROVE Uploads'
  <2>1. UNCHANGED <<store, disk, excused, durable, jobs>> /\ jobs = {}
    BY <1>4 DEF Tick
  <2> QED BY <1>1, <2>1 DEF Uploads, Written
<1>5. ASSUME Start PROVE Uploads'
  <2>1. phase = "down" /\ UNCHANGED <<store, disk, durable, jobs>> /\ excused \subseteq excused'
    BY <1>5 DEF Start
  <2>2. jobs = {}
    BY <1>1, <2>1 DEF Rows, Stopped
  <2> QED BY <1>1, <2>1, <2>2 DEF Uploads, Written
<1>6. ASSUME NEW saved \in BOOLEAN, Down(saved) PROVE Uploads'
  <2>1. store' = disk /\ jobs' = {} /\ UNCHANGED <<disk, durable>> /\ excused \subseteq excused'
    BY <1>6 DEF Down
  <2> QED BY <1>1, <2>1 DEF Uploads, Written
<1> QED BY <1>2, <1>3, <1>4, <1>5, <1>6

LEMMA UploadsMessages ==
  ASSUME IInv, NEW n \in Names,
         \/ \E c \in Snapshots, fromPinner \in BOOLEAN :
              Announced(n, c, fromPinner) \/ ReAcked(n, c, fromPinner)
         \/ \E c \in Snapshots : Resolve(n, c) \/ IngestAdmitted(n, c)
         \/ Queried(n) \/ (\E withBlock \in BOOLEAN : Served(n, withBlock))
         \/ Reannounce(n) \/ Backfill(n) \/ ThinSweep(n)
  PROVE  Uploads'
<1> USE DEF clockVars, nameVars, ackVars, pruneVars, storeVars
<1>1. TypeOK /\ Histories /\ Rows /\ Uploads
  BY DEF IInv
<1>2. clock' = clock /\ doomed' = doomed /\ disk' = disk /\ durable' = durable /\ excused \subseteq excused'
  BY DEF Announced, ReAcked, Resolve, IngestAdmitted, Queried, Served, Reannounce, Backfill, ThinSweep, Publish
<1>3. clock # 0
  BY <1>1, NameTypes
<1>4. ASSUME NEW c \in Snapshots, NEW fromPinner \in BOOLEAN, Announced(n, c, fromPinner) \/ ReAcked(n, c, fromPinner)
      PROVE  Uploads'
  <2>1. /\ \A k \in Names \ {n} : store'[k] = store[k] /\ seen'[k] = seen[k]
        /\ store'[n].kn /\ store'[n].tip = store[n].tip
        /\ seen'[n] = IF fromPinner THEN seen[n] ELSE clock
        /\ store'[n].seen = IF fromPinner THEN store[n].seen ELSE clock
        /\ known' = known \cup {n}
    BY <1>1, <1>4, HeardType DEF Announced, ReAcked
  <2>2. RowsStay
    BY <1>2, <1>3, <2>1 DEF RowsStay, Complete
  <2>3. NamesStay
    BY <1>2, <2>1 DEF NamesStay
  <2>4. /\ Fetch(n, c, TRUE).kind = "get" /\ [Fetch(n, c, TRUE) EXCEPT !.kind = "ack"].kind = "ack"
    BY DEF Fetch
  <2>5. \A i \in jobs' \ jobs : i.kind \notin {"write", "finish"}
    BY <1>4, <2>4 DEF Announced, ReAcked
  <2> QED BY <1>1, <1>2, <2>2, <2>3, <2>5, UploadsStay
<1>5. ASSUME NEW c \in Snapshots, Resolve(n, c) PROVE Uploads'
  <2>1. \A m \in Names : /\ store'[m].kn = store[m].kn /\ store'[m].tip = store[m].tip
                         /\ store'[m].seen = store[m].seen
    BY <1>1, <1>5, ResolvedRow
  <2>2. UNCHANGED <<known, seen>>
    BY <1>5 DEF Resolve
  <2>3. RowsStay /\ NamesStay
    BY <1>2, <2>1, <2>2 DEF RowsStay, NamesStay, Complete
  <2>4. \A i \in jobs' \ jobs : i.kind \notin {"write", "finish"}
    BY <1>5 DEF Resolve, Fetch
  <2> QED BY <1>1, <1>2, <2>3, <2>4, UploadsStay
<1>6. ASSUME NEW c \in Snapshots, IngestAdmitted(n, c) PROVE Uploads'
  <2>1. UNCHANGED <<store, known, seen>>
    BY <1>6 DEF IngestAdmitted
  <2>2. [Fetch(n, c, FALSE) EXCEPT !.kind = "ingest"].kind = "ingest"
    BY DEF Fetch
  <2>3. \A i \in jobs' \ jobs : i.kind \notin {"write", "finish"}
    BY <1>6, <2>2 DEF IngestAdmitted
  <2> QED BY <1>1, <1>2, <2>1, <2>3, AllStay, UploadsStay
<1>7. ASSUME Queried(n) \/ Reannounce(n) \/ Backfill(n) PROVE Uploads'
  <2>1. UNCHANGED <<store, known, seen, jobs>>
    BY <1>7 DEF Queried, Reannounce, Backfill
  <2> QED BY <1>1, <1>2, <2>1, AllStay, UploadsStay
<1>8. ASSUME NEW withBlock \in BOOLEAN, Served(n, withBlock) PROVE Uploads'
  <2>1. /\ store'[n].kn = store[n].kn /\ store'[n].tip = store[n].tip /\ store'[n].seen = clock
        /\ \A m \in Names \ {n} : store'[m] = store[m] /\ seen'[m] = seen[m]
        /\ seen'[n] = clock /\ known' = known /\ jobs' = jobs
    BY <1>1, <1>8, ServedRow DEF Served
  <2>2. RowsStay
    BY <1>2, <1>3, <2>1 DEF RowsStay, Complete
  <2>3. NamesStay
    BY <1>2, <2>1 DEF NamesStay
  <2> QED BY <1>1, <1>2, <2>1, <2>2, <2>3, UploadsStay
<1>9. ASSUME ThinSweep(n) PROVE Uploads'
  <2>1. UNCHANGED <<store, known, seen>>
    BY <1>9 DEF ThinSweep
  <2>2. PICK drop : jobs' = jobs \cup {[Fetch(n, hist[n].tip.cid, FALSE) EXCEPT !.kind = "thin", !.left = Cids(drop)]}
    BY <1>9 DEF ThinSweep
  <2>3. [Fetch(n, hist[n].tip.cid, FALSE) EXCEPT !.kind = "thin", !.left = Cids(drop)].kind = "thin"
    BY DEF Fetch
  <2>4. \A i \in jobs' \ jobs : i.kind \notin {"write", "finish"}
    BY <2>2, <2>3
  <2> QED BY <1>1, <1>2, <2>1, <2>4, AllStay, UploadsStay
<1> QED BY <1>4, <1>5, <1>6, <1>7, <1>8, <1>9

LEMMA UploadsStep ==
  ASSUME IInv, Next
  PROVE  Uploads'
BY Steps, UploadsPruning, UploadsHandling, UploadsRunning, UploadsMessages

-----------------------------------------------------------------------------
(***************************************************************************)
(* The theorems.                                                           *)
(***************************************************************************)
LEMMA StepInv ==
  ASSUME IInv, [Next]_vars
  PROVE  IInv'
<1>1. CASE Next
  <2>1. TypeOK'
    BY <1>1, TypeStep
  <2> QED BY <1>1, <2>1, HistoriesStep, RowsStep, PromisesStep, UploadsStep DEF IInv
<1>2. CASE UNCHANGED vars
  <2>1. TypeOK'
    BY <1>2 DEF IInv, TypeOK, vars, clockVars, nameVars, ackVars, pruneVars, storeVars
  <2>2. Histories' /\ Rows'
    BY <1>2 DEF IInv, Histories, Rows, RowTimes, Mirrors, Stopped, Deleting, Guaranteed,
                vars, clockVars, nameVars, ackVars, pruneVars, storeVars
  <2>3. Promises'
    BY <1>2 DEF IInv, Promises, Alive, Persisted, Expired,
                vars, clockVars, nameVars, ackVars, pruneVars, storeVars
  <2>4. Uploads'
    BY <1>2 DEF IInv, Uploads, Written, Safe,
                vars, clockVars, nameVars, ackVars, pruneVars, storeVars
  <2> QED BY <2>1, <2>2, <2>3, <2>4 DEF IInv
<1> QED BY <1>1, <1>2

\* The inductive invariant holds in every run of the pinner.
THEOREM Invariance == Spec => []IInv
<1>1. Init => IInv
  BY InitInv
<1>2. IInv /\ [Next]_vars => IInv'
  BY StepInv
<1> QED BY <1>1, <1>2, PTL DEF Spec

\* What the pinner keeps in memory, in LevelDB and in its handlers has its type,
\* whatever is announced, uploaded, pruned or lost in a crash (pinner.ts).
THEOREM TypeCorrect == Spec => []TypeOK
<1>1. IInv => TypeOK
  BY DEF IInv
<1> QED BY <1>1, Invariance, PTL

\* A guarantee the pinner published and that has not run out is kept: the document
\* is tracked and the block of its tip is there, through every interleaving of
\* fetches, acknowledgements, thinning, pruning and restarts, for any number of
\* documents (issueGuarantee and pruneIfNeeded of pinner.ts).
THEOREM PromisesAreKept == Spec => []PromiseKept
<1>1. IInv => PromiseKept
  <2> SUFFICES ASSUME IInv, phase = "running", NEW n \in Names \ excused, promise[n] >= clock
               PROVE  n \in known /\ hist[n].tip # NoTip /\ <<n, hist[n].tip.cid>> \in blocks
    BY DEF PromiseKept
  <2>1. TypeOK /\ Rows /\ Alive(n)
    BY DEF IInv, Promises
  <2>2. n \notin doomed
    BY <2>1, DoomedIsOver
  <2> QED BY <2>1, <2>2 DEF Alive
<1> QED BY <1>1, Invariance, PTL

\* The tip a pinner re-announces and serves is a block it has (thinSnapshots and
\* pruneIfNeeded of pinner.ts).
THEOREM TipsAreHeld == Spec => []TipIsHeld
<1>1. IInv => TipIsHeld
  <2> SUFFICES ASSUME IInv, NEW n \in known \ (excused \cup doomed), hist[n].tip # NoTip
               PROVE  <<n, hist[n].tip.cid>> \in blocks
    BY DEF TipIsHeld
  <2>1. TypeOK /\ Rows /\ Promises
    BY DEF IInv
  <2>2. n \in Names /\ phase # "down"
    BY <2>1 DEF TypeOK, Rows, Stopped
  <2> QED BY <2>1, <2>2 DEF Promises, Alive
<1> QED BY <1>1, Invariance, PTL

\* An upload that was answered with true is in LevelDB with its tip, also after a
\* crash (ingest() of pinner.ts).
THEOREM UploadsAreDurable == Spec => []IngestIsDurable
<1>1. IInv => IngestIsDurable
  BY DEF IInv, IngestIsDurable, Uploads, Written, Complete
<1> QED BY <1>1, Invariance, PTL
=============================================================================
