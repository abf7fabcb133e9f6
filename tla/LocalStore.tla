----------------------------- MODULE LocalStore -----------------------------
(***************************************************************************)
(* The local store of one device, packages/store/src: one IndexedDB        *)
(* database that the tabs of an application share, the migrations each tab *)
(* runs when it opens it (migrate.ts), the device identity                 *)
(* (packages/core/src/identity.ts) and the replay of a document's edits    *)
(* (packages/core/src/index.ts:186-190, create-doc.ts:411-446).            *)
(*                                                                         *)
(* A step is one transaction or the code between two awaits.  A tab may    *)
(* close, crash or be reloaded between any two steps: what its             *)
(* transactions have committed stays, everything else is gone.  There is   *)
(* one document; a guid stands for one of its channels, each with a        *)
(* database of y-indexeddb from an earlier release: updates under keys     *)
(* numbered from 1, which y-indexeddb at times replaces by a single one.   *)
(***************************************************************************)
EXTENDS Naturals, FiniteSets

CONSTANTS
    Tab,
    Guid,          \* the old databases of the document's channels
    MetaGuid,      \* the one of the channel _meta, whether it is there or not
    NoSeed,
    OldSeed,       \* the seed in an old identity database
    OldVersions,   \* the versions in the old doc-cache database
    TrimSize,      \* the updates from which on y-indexeddb replaces them by one
    MaxUpdates,    \* bound on the keys of an old database
    MaxOpens,      \* bound on the tabs opened, one after another or together
    MaxFaults      \* bound on the errors and aborts in them

ASSUME StoreAssumption ==
    /\ OldSeed # NoSeed
    /\ OldVersions \subseteq Nat /\ IsFiniteSet(OldVersions)
    /\ MaxUpdates \in Nat \ {0} /\ MaxOpens \in Nat /\ TrimSize \in Nat
    /\ MaxFaults \in Nat

VARIABLES
    version,    \* of the store's database: 0 if there is none
    seed,       \* the device's record in identities
    flags,      \* the migrations marked as done in meta
    copies,     \* the updates of each old database that are in edits, by their legacyId
    versions,   \* what is in snapshots
    epoch0,     \* the version that closes epoch 0 of each channel, 0 if it is open
    old,        \* the keys of the updates in each old database
    trimmed,    \* history: the old databases that y-indexeddb has rewritten
    before,     \* the seed in the old identity database, or NoSeed
    unread,     \* history: whether a tab went on without a seed it could not read
    oldTab,     \* whether a tab still runs the release before
    tab,        \* what each tab is doing
    opens,      \* tabs opened so far
    faults      \* errors and aborts so far

database == <<version, seed, flags, copies, versions, epoch0>>

oldVars == <<old, trimmed, before, unread, oldTab>>

store == <<database, oldVars, tab, opens>>

vars == <<store, faults>>

Update == 1 .. MaxUpdates

Seed == {OldSeed} \cup {<<t, n>> : t \in Tab, n \in 1 .. MaxOpens}

Migration == {"identity", "doc-cache"}

\* A tab: the step its start stands at; the step of the background migration,
\* the guids left for it and the one it is busy with, the updates it read of
\* each, the version it found, the guids it failed for; the tab's identity, and
\* one it is saving; the channels whose replay ended, those where it failed, and
\* what they show.
Closed ==
    [at |-> "closed", step |-> "idle", todo |-> {}, guid |-> MetaGuid,
     read |-> [g \in Guid |-> {}], version |-> 0, failed |-> {},
     key |-> NoSeed, saving |-> NoSeed, replayed |-> {}, unplayed |-> {}, shown |-> {}]

Start == {"closed", "rejected", "opening", "flag identity", "copy identity", "mark identity",
          "flag doc-cache", "copy doc-cache", "mark doc-cache", "created", "keyless"}

Step == {"idle", "next", "count", "write", "version", "close", "hung", "done"}

TabState ==
    [at : Start, step : Step, todo : SUBSET Guid, guid : Guid \cup {MetaGuid},
     read : [Guid -> SUBSET Update], version : Nat, failed : SUBSET Guid,
     key : Seed \cup {NoSeed}, saving : Seed \cup {NoSeed},
     replayed : SUBSET Guid, unplayed : SUBSET Guid, shown : SUBSET (Guid \X Update)]

TypeOK ==
    /\ version \in {0, 2, 3} /\ seed \in Seed \cup {NoSeed}
    /\ before \in {OldSeed, NoSeed}
    /\ flags \subseteq Migration
    /\ copies \in [Guid -> SUBSET Update]
    /\ versions \subseteq Nat /\ epoch0 \in [Guid -> Nat]
    /\ old \in [Guid -> SUBSET Update] /\ trimmed \subseteq Guid
    /\ unread \in BOOLEAN /\ oldTab \in BOOLEAN
    /\ opens \in 0 .. MaxOpens /\ faults \in 0 .. MaxFaults
    /\ tab \in [Tab -> TabState]

\* An earlier release without the store, one of whose tabs may still write to
\* the old databases; or the one that copied their updates without legacyIds.
Init ==
    /\ before \in {OldSeed, NoSeed}
    /\ \/ /\ version = 0 /\ seed = NoSeed /\ flags = {} /\ versions = {}
       \/ /\ version = 2 /\ seed = before /\ flags = Migration
          /\ versions = OldVersions
    /\ copies = [g \in Guid |-> {}]
    /\ epoch0 = [g \in Guid |-> 0]
    /\ old = [g \in Guid |-> {1}] /\ trimmed = {}
    /\ unread = FALSE /\ oldTab \in BOOLEAN
    /\ tab = [t \in Tab |-> Closed]
    /\ opens = 0 /\ faults = 0
-----------------------------------------------------------------------------
(* The environment: tabs come and go, the old release writes.              *)

NextKey(g, k) == k - 1 \in old[g] /\ \A i \in old[g] : i < k

OldTabWrites(g) ==
    /\ oldTab /\ version # 2
    /\ \E k \in Update : NextKey(g, k) /\ old' = [old EXCEPT ![g] = @ \cup {k}]
    /\ UNCHANGED <<database, trimmed, before, unread, oldTab, tab, opens>>

\* The whole state is written under the next key and the older keys are deleted.
OldTabTrims(g) ==
    /\ oldTab /\ version # 2
    /\ Cardinality(old[g]) >= TrimSize
    /\ \E k \in Update : NextKey(g, k) /\ old' = [old EXCEPT ![g] = {k}]
    /\ trimmed' = trimmed \cup {g}
    /\ UNCHANGED <<database, before, unread, oldTab, tab, opens>>

OldTabCloses ==
    /\ oldTab
    /\ oldTab' = FALSE
    /\ UNCHANGED <<database, old, trimmed, before, unread, tab, opens>>

OpenTab(t) ==
    /\ tab[t].at = "closed"
    /\ opens < MaxOpens
    /\ opens' = opens + 1
    /\ tab' = [tab EXCEPT ![t].at = "opening"]
    /\ UNCHANGED <<database, oldVars>>

CloseTab(t) ==
    /\ tab[t].at # "closed"
    /\ tab' = [tab EXCEPT ![t] = Closed]
    /\ UNCHANGED <<database, oldVars, opens>>
-----------------------------------------------------------------------------
(* Store.create: the database, then the two small migrations in turn.      *)

\* The upgrade waits for the connections of older versions.  What the release
\* before had copied without legacyIds, which it deletes, is not in copies.
OpenDb(t) ==
    /\ tab[t].at = "opening"
    /\ version = 2 => ~oldTab
    /\ version' = 3
    /\ tab' = [tab EXCEPT ![t].at = "flag identity"]
    /\ UNCHANGED <<seed, flags, copies, versions, epoch0, oldVars, opens>>

\* Fault: the migration is marked as done before it is.
CheckFlag_Marks(t, m, here, copy, next) ==
    /\ tab[t].at = here
    /\ tab' = [tab EXCEPT ![t].at = IF m \in flags THEN next ELSE copy]
    /\ flags' = flags \cup {m}
    /\ UNCHANGED <<version, seed, copies, versions, epoch0, oldVars, opens>>

CheckFlag(t, m, here, copy, next) ==
    /\ tab[t].at = here
    /\ tab' = [tab EXCEPT ![t].at = IF m \in flags THEN next ELSE copy]
    /\ UNCHANGED <<database, oldVars, opens>>

Mark(t, m, here, next) ==
    /\ tab[t].at = here
    /\ flags' = flags \cup {m}
    /\ tab' = [tab EXCEPT ![t].at = next]
    /\ UNCHANGED <<version, seed, copies, versions, epoch0, oldVars, opens>>

\* One transaction reads the record and writes the old seed if there is none.
CopyIdentity(t) ==
    /\ tab[t].at = "copy identity"
    /\ seed' = IF seed = NoSeed THEN before ELSE seed
    /\ tab' = [tab EXCEPT ![t].at = "mark identity"]
    /\ UNCHANGED <<version, flags, copies, versions, epoch0, oldVars, opens>>

\* An old database that cannot be opened counts as one that is not there
\* (idbOpen answers null): the migration is marked as done without a copy.
SkipIdentity(t) ==
    /\ tab[t].at = "copy identity" /\ before # NoSeed
    /\ unread' = TRUE
    /\ tab' = [tab EXCEPT ![t].at = "mark identity"]
    /\ UNCHANGED <<database, old, trimmed, before, oldTab, opens>>

CopyDocCache(t) ==
    /\ tab[t].at = "copy doc-cache"
    /\ versions' = versions \cup OldVersions
    /\ tab' = [tab EXCEPT ![t].at = "mark doc-cache"]
    /\ UNCHANGED <<version, seed, flags, copies, epoch0, oldVars, opens>>

SkipDocCache(t) ==
    /\ tab[t].at = "copy doc-cache" /\ OldVersions # {}
    /\ tab' = [tab EXCEPT ![t].at = "mark doc-cache"]
    /\ UNCHANGED <<database, oldVars, opens>>

\* The store is there, the migration of the edits goes on in the background.
Created(t) ==
    \/ CheckFlag(t, "doc-cache", "flag doc-cache", "copy doc-cache", "created")
    \/ Mark(t, "doc-cache", "mark doc-cache", "created")

\* An error rejects the promise of the store, an abort at a commit leaves it
\* open, for a transaction is awaited by its complete and error events only.
\* The page keeps the promise either way (packages/core/src/index.ts:162-168):
\* it opens no document until a reload.
StartFails(t) ==
    /\ tab[t].at \notin {"closed", "rejected", "created", "keyless"}
    /\ tab' = [tab EXCEPT ![t].at = "rejected"]
    /\ UNCHANGED <<database, oldVars, opens>>

MigrateSmall(t) ==
    \/ CheckFlag(t, "identity", "flag identity", "copy identity", "flag doc-cache")
    \/ CopyIdentity(t)
    \/ Mark(t, "identity", "mark identity", "flag doc-cache")
    \/ CopyDocCache(t)
    \/ Created(t)
-----------------------------------------------------------------------------
(* The background migration, one old database after another.               *)

Busy(t, step) == tab[t].at \in {"created", "keyless"} /\ tab[t].step = step

\* Nothing is found where the browser cannot list its databases and no document
\* has a snapshot to take a name from, or after an error.
Discover(t) ==
    /\ Busy(t, "idle")
    /\ \E names \in {Guid, {}} :
        tab' = [tab EXCEPT ![t].step = "next", ![t].todo = names]
    /\ UNCHANGED <<database, oldVars, opens>>

\* The next database is opened and its updates are read.
ReadOld(t) ==
    /\ Busy(t, "next")
    /\ \E g \in tab[t].todo :
        tab' = [tab EXCEPT ![t].todo = @ \ {g}, ![t].guid = g, ![t].read[g] = old[g],
                           ![t].step = "count"]
    /\ UNCHANGED <<database, oldVars, opens>>

\* One that cannot be opened is passed over until the next start.
SkipOld(t) ==
    /\ Busy(t, "next")
    /\ \E g \in tab[t].todo : tab' = [tab EXCEPT ![t].todo = @ \ {g}]
    /\ UNCHANGED <<database, oldVars, opens>>

\* Fault: a database that was begun counts as migrated.
UpToDate_Begun(t) == copies[tab[t].guid] # {}

\* As many edits with a legacyId of this database as it has updates.
UpToDate(t) == Cardinality(copies[tab[t].guid]) = Cardinality(tab[t].read[tab[t].guid])

CountExisting(t) ==
    /\ Busy(t, "count")
    /\ tab' = [tab EXCEPT ![t].step = IF UpToDate(t) THEN "next" ELSE "write"]
    /\ UNCHANGED <<database, oldVars, opens>>

\* An update whose legacyId is there is not added again.
WriteEdits(t) ==
    /\ Busy(t, "write")
    /\ copies' = [copies EXCEPT ![tab[t].guid] = @ \cup tab[t].read[tab[t].guid]]
    /\ tab' = [tab EXCEPT ![t].step = IF tab[t].guid = MetaGuid THEN "next" ELSE "version"]
    /\ UNCHANGED <<version, seed, flags, versions, epoch0, oldVars, opens>>

LatestVersion(t) ==
    /\ Busy(t, "version")
    /\ IF versions = {}
       THEN tab' = [tab EXCEPT ![t].step = "next"]
       ELSE \E v \in versions :
                /\ \A w \in versions : w <= v
                /\ tab' = [tab EXCEPT ![t].step = "close", ![t].version = v]
    /\ UNCHANGED <<database, oldVars, opens>>

CloseEpoch(t) ==
    /\ Busy(t, "close")
    /\ epoch0' = [epoch0 EXCEPT ![tab[t].guid] = tab[t].version]
    /\ tab' = [tab EXCEPT ![t].step = "next"]
    /\ UNCHANGED <<version, seed, flags, copies, versions, oldVars, opens>>

\* An error is logged and the next database follows.
Fail(t) ==
    /\ \E step \in {"count", "write", "version", "close"} : Busy(t, step)
    /\ tab' = [tab EXCEPT ![t].step = "next", ![t].failed = @ \cup {tab[t].guid}]
    /\ UNCHANGED <<database, oldVars, opens>>

\* Not so an abort at the commit: nothing settles, nothing follows.
Hang(t) ==
    /\ Busy(t, "write") \/ Busy(t, "close")
    /\ tab' = [tab EXCEPT ![t].step = "hung"]
    /\ UNCHANGED <<database, oldVars, opens>>

\* Fault: the migration ends only if it failed for no database.
Migrated_IfAll(t) ==
    /\ Busy(t, "next") /\ tab[t].todo = {} /\ tab[t].failed = {}
    /\ tab' = [tab EXCEPT ![t].step = "done"]
    /\ UNCHANGED <<database, oldVars, opens>>

Migrated(t) ==
    /\ Busy(t, "next") /\ tab[t].todo = {}
    /\ tab' = [tab EXCEPT ![t].step = "done"]
    /\ UNCHANGED <<database, oldVars, opens>>

Background(t) ==
    \/ Discover(t) \/ ReadOld(t) \/ CountExisting(t) \/ WriteEdits(t)
    \/ LatestVersion(t) \/ CloseEpoch(t) \/ Migrated(t)
-----------------------------------------------------------------------------
(* The application: its identity, then its document.                       *)

LoadIdentity(t) ==
    /\ tab[t].at = "created" /\ tab[t].key = NoSeed /\ tab[t].saving = NoSeed
    /\ tab' = IF seed # NoSeed THEN [tab EXCEPT ![t].key = seed]
                               ELSE [tab EXCEPT ![t].saving = <<t, opens>>]
    /\ UNCHANGED <<database, oldVars, opens>>

SaveIdentity(t) ==
    /\ tab[t].saving # NoSeed
    /\ seed' = tab[t].saving
    /\ tab' = [tab EXCEPT ![t].key = tab[t].saving, ![t].saving = NoSeed]
    /\ UNCHANGED <<version, flags, copies, versions, epoch0, oldVars, opens>>

\* The page keeps the promise of its identity, a rejected one too, and one that
\* does not settle: it opens no document, while the migration goes on.
IdentityFails(t) ==
    /\ tab[t].at = "created" /\ tab[t].key = NoSeed
    /\ tab' = [tab EXCEPT ![t].at = "keyless", ![t].saving = NoSeed]
    /\ UNCHANGED <<database, oldVars, opens>>

\* A document is set up once there is an identity and the migration ended.
Replay(t, g) ==
    /\ Busy(t, "done") /\ tab[t].key # NoSeed
    /\ g \notin tab[t].replayed
    /\ tab' = [tab EXCEPT ![t].replayed = @ \cup {g},
                          ![t].shown = @ \cup ({g} \X copies[g])]
    /\ UNCHANGED <<database, oldVars, opens>>

\* A failure to load the edits, or to apply one, is logged; the channel counts as
\* replayed with those before.
ReplayFails(t, g) ==
    /\ Busy(t, "done") /\ tab[t].key # NoSeed
    /\ g \notin tab[t].replayed
    /\ \E n \in 0 .. MaxUpdates :
        tab' = [tab EXCEPT ![t].replayed = @ \cup {g}, ![t].unplayed = @ \cup {g},
                           ![t].shown = @ \cup ({g} \X {i \in copies[g] : i <= n})]
    /\ UNCHANGED <<database, oldVars, opens>>

Ready(t) == tab[t].replayed = Guid

\* A tab that has a document stores the versions it hears of.
PersistSnapshot(t) ==
    /\ Ready(t)
    /\ Cardinality(OldVersions) + 1 \notin versions
    /\ versions' = versions \cup {Cardinality(OldVersions) + 1}
    /\ UNCHANGED <<version, seed, flags, copies, epoch0, oldVars, tab, opens>>

Application(t) ==
    \/ LoadIdentity(t) \/ SaveIdentity(t) \/ \E g \in Guid : Replay(t, g)

\* What can go wrong in a tab: an error of the database, an abort.
Fault(t) ==
    /\ faults < MaxFaults
    /\ faults' = faults + 1
    /\ \/ StartFails(t) \/ SkipIdentity(t) \/ SkipDocCache(t)
       \/ SkipOld(t) \/ Fail(t) \/ Hang(t)
       \/ IdentityFails(t) \/ \E g \in Guid : ReplayFails(t, g)

Works ==
    \/ OldTabCloses
    \/ \E g \in Guid : OldTabWrites(g) \/ OldTabTrims(g)
    \/ \E t \in Tab :
        \/ OpenTab(t) \/ CloseTab(t)
        \/ OpenDb(t) \/ MigrateSmall(t) \/ Background(t)
        \/ Application(t) \/ PersistSnapshot(t)

Next == (Works /\ UNCHANGED faults) \/ \E t \in Tab : Fault(t)

\* Transactions end and the event loop runs what is ready.
Fairness ==
    \A t \in Tab :
        /\ WF_store(OpenDb(t) \/ MigrateSmall(t) \/ Background(t))
        /\ WF_store(Application(t))

Spec == Init /\ [][Next]_vars /\ Fairness
-----------------------------------------------------------------------------
(* Properties.                                                             *)

\* A document whose replay did not fail shows every update its tab read in the
\* old databases, unless the migration of that channel failed in this tab or
\* y-indexeddb has rewritten the old database: whatever tabs crashed half-way
\* before, however many migrate at once, and although the old release wrote more
\* after an earlier migration (migrate.ts:434-439, create-doc.ts:411-450).
ReplayIsComplete ==
    \A t \in Tab : Ready(t) =>
        \A g \in Guid \ (tab[t].failed \cup tab[t].unplayed \cup trimmed) :
            {g} \X tab[t].read[g] \subseteq tab[t].shown

\* A device that had an identity that could be read goes on with it: no tab makes
\* a new one while another is still migrating, or because one crashed or failed
\* during the migration (migrate.ts:114-160, identity.ts:24-36).
OldIdentityIsKept ==
    before # NoSeed /\ ~unread => \A t \in Tab : tab[t].key \in {before, NoSeed}

\* In the end, when no more tabs come and go, every open tab shows its document,
\* unless its store or its identity could not be had, an abort at a commit left
\* the migration waiting or an old tab holds the database: an error in the
\* migration of one old database, or in a replay, does not keep a document from
\* opening (migrate.ts:559-568, create-doc.ts:442-450).
OpensInTheEnd ==
    <>[](oldTab \/ \A t \in Tab :
            \/ tab[t].at \in {"closed", "rejected", "keyless"}
            \/ tab[t].step = "hung"
            \/ Ready(t))
=============================================================================
