----------------------------- MODULE Publishing -----------------------------
(***************************************************************************)
(* How a writer's document is published, and what the user is told about   *)
(* it (core/src/create-doc.ts, snapshot-codec.ts, auto-save.ts,            *)
(* doc-runtime.ts, reducers.ts).                                           *)
(*                                                                         *)
(* A publication captures the document and the base to link to, awaits the *)
(* encoding, and then becomes the new base; edits, remote snapshots and    *)
(* other publications go on during the await.  The save state the user     *)
(* sees has two writers: create-doc.ts, from its local flags, and the      *)
(* interpreter, which folds the facts of the same events later.            *)
(*                                                                         *)
(* A document is held twice: the surface is what the editor shows, and the *)
(* tree of its channels is what a publication folds.  An edit without an   *)
(* origin enters both at once; one with an origin, as an editor's plugin   *)
(* makes, enters the tree when it has been signed; one replayed from the   *)
(* store never does.                                                       *)
(*                                                                         *)
(* Content is a set of edits, as merging documents is their union.         *)
(* Actions: EditMade, PluginEdit, Signed, Replayed, Publish, SaveDue,      *)
(*   SaveHidden, Pushed, PushFailed, StartRuntime, Take, Merge; Peer is    *)
(*   the other writers.                                                    *)
(***************************************************************************)
EXTENDS Integers, Sequences, SequencesExt

CONSTANTS
  MaxEdits,       \* bound: edits made by anybody, in this session or before
  MaxSnapshots,   \* bound: publications, those in progress included
  MaxFailures     \* bound: publications that fail

ASSUME PublishingAssumption ==
  /\ MaxEdits \in Nat /\ MaxEdits > 0
  /\ MaxSnapshots \in Nat
  /\ MaxFailures \in Nat

VARIABLES
  edits,      \* edits made so far, by anybody: the edits are 1..edits
  surface,    \* those this replica's editor shows
  content,    \* those in the tree of its channels
  signing,    \* those of plugins that await their signature
  replayed,   \* those replayed from the store
  snaps,      \* the snapshots that exist, of this writer and of peers
  pushes,     \* publications that await their encoding
  missed,     \* history: edits that were signing or replayed, and not in the tree,
              \* when the last publication began
  codec,      \* the snapshot codec: prev, seq
  placed,     \* placedCids: snapshots that passed ingestion
  local,      \* the flags of create-doc.ts and whether localChain has a tip
  queue,      \* the fact queue
  interp,     \* what the interpreter has folded of the same: interpreterState
  running,    \* the runtime is started
  feed,       \* saveStateFeed
  timer,      \* the debounce timer of the auto-saver is armed
  failures    \* publications that failed

docVars    == <<edits, surface, content, signing, replayed>>
chainVars  == <<snaps, pushes, missed, codec, placed, failures>>
statusVars == <<local, queue, interp, running, feed, timer>>
publishingVars == <<docVars, chainVars, statusVars>>

EditId == 1..MaxEdits
NoSnap == 0     \* prev is null
SnapId == 1..MaxSnapshots
Push == [prev : SnapId \cup {NoSnap}, seq : Nat \ {0}, content : SUBSET EditId]
Flags == [dirty : BOOLEAN, saving : BOOLEAN, error : BOOLEAN, tip : BOOLEAN]
SaveState == {"saved", "unpublished", "saving", "dirty", "save-error"}
Fact == {"content-dirty", "publish-started", "publish-succeeded",
         "publish-failed", "tip-advanced"}

Contents(s) == UNION {s[i].content : i \in DOMAIN s}
-----------------------------------------------------------------------------
DeriveSaveState(f) ==
  CASE f.saving -> "saving"
    [] ~f.saving /\ f.error -> "save-error"
    [] ~f.saving /\ ~f.error /\ f.dirty -> "dirty"
    [] ~f.saving /\ ~f.error /\ ~f.dirty /\ f.tip -> "saved"
    [] OTHER -> "unpublished"

\* reduceContent, and the tip of reduceChain.
Reduce(s, fact) ==
  CASE fact = "content-dirty"     -> [s EXCEPT !.dirty = TRUE, !.error = FALSE]
    [] fact = "publish-started"   -> [s EXCEPT !.saving = TRUE]
    [] fact = "publish-succeeded" -> [s EXCEPT !.saving = FALSE, !.dirty = FALSE,
                                               !.error = FALSE]
    [] fact = "publish-failed"    -> [s EXCEPT !.saving = FALSE, !.error = TRUE]
    [] fact = "tip-advanced"      -> [s EXCEPT !.tip = TRUE]

\* syncSaveState: the local chain decides on "saved" once there is one.
Shown(flags) == DeriveSaveState([flags EXCEPT !.tip = @ \/ interp.tip])

SetLocal(flags) == local' = flags /\ feed' = Shown(flags)

\* markContentDirty; the auto-saver restarts its timer on every publish-needed.
MarkContentDirty ==
  /\ SetLocal([local EXCEPT !.dirty = TRUE, !.error = FALSE])
  /\ queue' = Append(queue, "content-dirty")
  /\ timer' = TRUE
-----------------------------------------------------------------------------
NewEdit ==
  /\ edits < MaxEdits
  /\ edits' = edits + 1
  /\ surface' = surface \cup {edits + 1}
  /\ MarkContentDirty
  /\ UNCHANGED <<chainVars, interp, running>>

\* A local edit without an origin, which the bridge appends to the tree, or one a
\* peer sent over live synchronisation, which is appended before it is shown.
EditMade ==
  /\ NewEdit
  /\ content' = content \cup {edits + 1}
  /\ UNCHANGED <<signing, replayed>>

\* A local edit with an origin: the bridge only marks the document dirty, the
\* surface's own handler begins to sign it.
PluginEdit ==
  /\ NewEdit
  /\ signing' = signing \cup {edits + 1}
  /\ UNCHANGED <<content, replayed>>

\* signBytes settled: signed or not, the edit is appended, and nothing is marked.
Signed(e) ==
  /\ signing' = signing \ {e}
  /\ content' = content \cup {e}
  /\ UNCHANGED <<edits, surface, replayed, chainVars, statusVars>>

\* An edit of an earlier session is loaded from the store and shown.
Replayed ==
  /\ NewEdit
  /\ replayed' = replayed \cup {edits + 1}
  /\ UNCHANGED <<content, signing>>

\* publish() up to the encoding.  The flag cleared after syncSaveState is shown
\* by a later call.
StartPush ==
  /\ Len(snaps) + Len(pushes) < MaxSnapshots
  /\ pushes' = Append(pushes, [prev |-> codec.prev, seq |-> codec.seq, content |-> content])
  /\ missed' = (signing \cup replayed) \ content
  /\ local' = [local EXCEPT !.saving = TRUE, !.dirty = FALSE]
  /\ feed' = Shown([local EXCEPT !.saving = TRUE])
  /\ queue' = Append(queue, "publish-started")

\* The application calls publish().
Publish ==
  /\ StartPush
  /\ UNCHANGED <<docVars, snaps, codec, placed, failures, interp, running, timer>>

\* doSave when the debounce timer fires: only a document shown as dirty is
\* published.
SaveDue ==
  /\ timer
  /\ timer' = FALSE
  /\ \/ feed = "dirty" /\ StartPush
     \/ feed # "dirty" /\ UNCHANGED <<pushes, missed, local, feed, queue>>
  /\ UNCHANGED <<docVars, snaps, codec, placed, failures, interp, running>>

\* doSave when the page is hidden.
SaveHidden ==
  /\ feed = "dirty"
  /\ timer' = FALSE
  /\ StartPush
  /\ UNCHANGED <<docVars, snaps, codec, placed, failures, interp, running>>

\* Fault: the link is read after the encoding.
Pushed_LinksLate(i) ==
  LET p == pushes[i]
      flags == [local EXCEPT !.saving = FALSE, !.error = FALSE, !.tip = TRUE]
      id == Len(snaps) + 1
  IN  /\ pushes' = RemoveAt(pushes, i)
      /\ snaps' = Append(snaps, [p EXCEPT !.prev = codec.prev])
      /\ codec' = [prev |-> id, seq |-> codec.seq + 1]
      /\ SetLocal(flags)
      /\ queue' = IF running THEN queue \o <<"tip-advanced", "publish-succeeded">>
                  ELSE queue
      /\ UNCHANGED <<docVars, missed, placed, failures, interp, running, timer>>

\* Fault: the dirty flag is cleared when the publication ends.
Pushed_ClearsDirty(i) ==
  LET p == pushes[i]
      flags == [dirty |-> FALSE, saving |-> FALSE, error |-> FALSE, tip |-> TRUE]
      id == Len(snaps) + 1
  IN  /\ pushes' = RemoveAt(pushes, i)
      /\ snaps' = Append(snaps, p)
      /\ codec' = [prev |-> id, seq |-> codec.seq + 1]
      /\ SetLocal(flags)
      /\ queue' = IF running THEN queue \o <<"tip-advanced", "publish-succeeded">>
                  ELSE queue
      /\ UNCHANGED <<docVars, missed, placed, failures, interp, running, timer>>

\* The encoding is done: the snapshot becomes the base of the next one.  Without
\* a runtime its facts are dropped.
Pushed(i) ==
  LET p == pushes[i]
      flags == [local EXCEPT !.saving = FALSE, !.error = FALSE, !.tip = TRUE]
      id == Len(snaps) + 1
  IN  /\ pushes' = RemoveAt(pushes, i)
      /\ snaps' = Append(snaps, p)
      /\ codec' = [prev |-> id, seq |-> codec.seq + 1]
      /\ SetLocal(flags)
      /\ queue' = IF running THEN queue \o <<"tip-advanced", "publish-succeeded">>
                  ELSE queue
      /\ UNCHANGED <<docVars, missed, placed, failures, interp, running, timer>>

\* Fault: the interpreter is not told of the failure.
PushFailed_Untold(i) ==
  /\ failures < MaxFailures
  /\ failures' = failures + 1
  /\ pushes' = RemoveAt(pushes, i)
  /\ SetLocal([local EXCEPT !.saving = FALSE, !.error = TRUE])
  /\ UNCHANGED <<docVars, snaps, missed, codec, placed, queue, interp, running, timer>>

\* The encoding threw.
PushFailed(i) ==
  /\ failures < MaxFailures
  /\ failures' = failures + 1
  /\ pushes' = RemoveAt(pushes, i)
  /\ SetLocal([local EXCEPT !.saving = FALSE, !.error = TRUE])
  /\ queue' = Append(queue, "publish-failed")
  /\ UNCHANGED <<docVars, snaps, missed, codec, placed, interp, running, timer>>

\* The P2P layer is ready: the runtime starts from the initial state.
StartRuntime ==
  /\ ~running
  /\ running' = TRUE
  /\ feed' = DeriveSaveState(interp)
  /\ UNCHANGED <<docVars, chainVars, local, queue, interp, timer>>

\* The interpreter folds a fact and publishes its state (captureState).
Take ==
  /\ running
  /\ queue # <<>>
  /\ queue' = Tail(queue)
  /\ interp' = Reduce(interp, Head(queue))
  /\ feed' = DeriveSaveState(Reduce(interp, Head(queue)))
  /\ UNCHANGED <<docVars, chainVars, local, running, timer>>

\* A snapshot, this writer's own included, passes ingestion: applyRemote merges it
\* into the tree and the surface, and the interpreter makes it the tip.  lastAppliedCid spares the merge of the
\* base, which has no effect.
Merge(i) ==
  /\ running
  /\ i \notin placed
  /\ placed' = placed \cup {i}
  /\ content' = content \cup snaps[i].content
  /\ surface' = surface \cup snaps[i].content
  /\ codec' = IF snaps[i].seq >= codec.seq
              THEN [prev |-> i, seq |-> snaps[i].seq + 1] ELSE codec
  /\ queue' = Append(queue, "tip-advanced")
  /\ UNCHANGED <<edits, signing, replayed, snaps, pushes, missed, failures, local, interp,
                 running, feed, timer>>

\* Another writer publishes an edit on top of snapshot i, or of nothing.
Peer(i) ==
  /\ edits < MaxEdits
  /\ Len(snaps) + Len(pushes) < MaxSnapshots
  /\ edits' = edits + 1
  /\ snaps' = Append(snaps,
       IF i = NoSnap THEN [prev |-> NoSnap, seq |-> 1, content |-> {edits + 1}]
       ELSE [prev |-> i, seq |-> snaps[i].seq + 1,
             content |-> snaps[i].content \cup {edits + 1}])
  /\ UNCHANGED <<surface, content, signing, replayed, pushes, missed, codec, placed,
                 failures, statusVars>>
-----------------------------------------------------------------------------
\* Opening marks the document dirty, and an auto-saver attaches; the P2P layer is
\* given or still to come.
PublishingInit ==
  /\ edits = 1
  /\ surface = {1}
  /\ content = {1}
  /\ signing = {}
  /\ replayed = {}
  /\ snaps = <<>>
  /\ pushes = <<>>
  /\ missed = {}
  /\ codec = [prev |-> NoSnap, seq |-> 1]
  /\ placed = {}
  /\ local = [dirty |-> TRUE, saving |-> FALSE, error |-> FALSE, tip |-> FALSE]
  /\ queue = <<"content-dirty">>
  /\ interp = [dirty |-> FALSE, saving |-> FALSE, error |-> FALSE, tip |-> FALSE]
  /\ running \in BOOLEAN
  /\ feed = "dirty"
  /\ timer = TRUE
  /\ failures = 0

Encoding == \E i \in DOMAIN pushes : Pushed(i) \/ PushFailed(i)

PublishingNext ==
  \/ EditMade \/ PluginEdit \/ Replayed
  \/ \E e \in signing : Signed(e)
  \/ Publish \/ SaveDue \/ SaveHidden
  \/ Encoding
  \/ StartRuntime \/ Take
  \/ \E i \in DOMAIN snaps : Merge(i)
  \/ \E i \in DOMAIN snaps \cup {NoSnap} : Peer(i)

PublishingSpec == PublishingInit /\ [][PublishingNext]_publishingVars

\* Encodings end, the timer fires and the event loop runs the interpreter.  Users,
\* applications and peers owe nothing, and the P2P layer may never come up.
FairSpec == PublishingSpec /\ WF_publishingVars(Encoding) /\ WF_publishingVars(SaveDue) /\ WF_publishingVars(Take)
-----------------------------------------------------------------------------
(***************************************************************************)
(* Properties.                                                             *)
(***************************************************************************)
\* The types of the variables.
PublishingTypeOK ==
  /\ edits \in EditId
  /\ surface \subseteq EditId
  /\ content \subseteq EditId
  /\ signing \subseteq EditId
  /\ replayed \subseteq EditId
  /\ snaps \in Seq(Push)
  /\ pushes \in Seq(Push)
  /\ missed \subseteq EditId
  /\ codec \in [prev : SnapId \cup {NoSnap}, seq : Nat \ {0}]
  /\ placed \subseteq SnapId
  /\ local \in Flags
  /\ queue \in Seq(Fact)
  /\ interp \in Flags
  /\ running \in BOOLEAN
  /\ feed \in SaveState
  /\ timer \in BOOLEAN
  /\ failures \in Nat

\* Every snapshot contains the snapshot it links to and has a greater sequence
\* number, whatever was merged or published while it was being encoded: who loads
\* the tip alone misses nothing of its history.
SnapshotExtendsParent ==
  \A i \in DOMAIN snaps : snaps[i].prev # NoSnap =>
    /\ snaps[i].prev \in DOMAIN snaps
    /\ snaps[snaps[i].prev].content \subseteq snaps[i].content
    /\ snaps[snaps[i].prev].seq < snaps[i].seq

\* As long as no publication failed, an edit the user sees is in a snapshot, on
\* its way in a publication, or keeps the document dirty: none is forgotten because
\* it was made while another publication was running.  Excused are the edits that
\* the last publication could not fold because they still awaited their signature
\* or were only replayed.
EditsAreAccountedFor ==
  failures = 0 /\ ~local.dirty =>
    surface \ missed \subseteq Contents(snaps) \cup Contents(pushes)

\* The user is not left with a document that is being saved for ever: overlapping
\* publications, failures and late facts all end in another state, provided no
\* publication starts before the runtime: the facts of its success are not queued.
SavingEnds ==
  [](~running => ~Contains(queue, "publish-started")) => <>[](feed # "saving")

=============================================================================
