----------------------------- MODULE SharedHelia -----------------------------
(***************************************************************************)
(* The one Helia instance of a page and the documents that share it:       *)
(* core/src/helia.ts, the set-up of core/src/p2p-layer.ts and the teardown *)
(* of core/src/create-doc.ts.                                              *)
(*                                                                         *)
(*   Open, StoreOpened, StoreFails   a document starts its P2P layer, with *)
(*                  a blockstore of its own unless an instance is there,   *)
(*                  and acquires                                           *)
(*   Created, CreationFails, Aborted   a creation under way ends           *)
(*   SetupDone, SetupFails             the rest of setupP2PLayer()         *)
(*   Destroy        the user closes a document, at any stage               *)
(*   DestroyLocal   the same for a document without a P2P layer            *)
(*   Stopped        the shutdown of an instance ends                       *)
(*                                                                         *)
(* A step is the code from one await to the next; what resumes on one      *)
(* promise resumes in one step.  An instance is named by the document that *)
(* creates it.                                                             *)
(***************************************************************************)
EXTENDS Integers, FiniteSets

CONSTANTS
  Docs,         \* documents with a P2P layer
  None,         \* no instance
  MaxFailures,  \* bound on the steps that fail
  MaxLocal      \* bound on the documents destroyed that have no P2P layer

ASSUME HeliaAssumption ==
  /\ IsFiniteSet(Docs) /\ None \notin Docs
  /\ MaxFailures \in Nat /\ MaxLocal \in Nat

VARIABLES
  stage,      \* where setupP2PLayer() of each document stands, or its end
  inst,       \* the instance a document waits for, creates, joins or holds
  destroyed,  \* documents the user has closed
  phase,      \* state.phase
  cur,        \* the instance of state: state.instance, or that of its promise
  refs,       \* state.refCount
  deferred,   \* state.deferredDestroy
  run,        \* what each instance is doing
  failures, locals,  \* counters of the bounds
  unbalanced  \* acquisitions and releases no longer match (history)

docVars   == <<stage, inst, destroyed>>
stateVars == <<phase, cur, refs, deferred>>
vars == <<docVars, stateVars, run, failures, locals, unbalanced>>

Stages == {"none", "opening", "waiting", "creating", "joining", "setup", "up",
           "failed", "gone", "leaked"}
Phases == {"idle", "bootstrapping", "ready", "destroying"}
Runs   == {"none", "starting", "running", "stopping", "aborting", "over", "lost"}

TypeOK ==
  /\ stage \in [Docs -> Stages]
  /\ inst \in [Docs -> Docs \cup {None}]
  /\ destroyed \in SUBSET Docs
  /\ phase \in Phases /\ cur \in Docs \cup {None} /\ refs \in Nat
  /\ deferred \in BOOLEAN /\ unbalanced \in BOOLEAN
  /\ run \in [Docs -> Runs]
  /\ failures \in 0..MaxFailures /\ locals \in 0..MaxLocal

At(s)      == {d \in Docs : stage[d] = s}
Joiners(i) == {d \in At("joining") : inst[d] = i}
Waiters(i) == {d \in At("waiting") : inst[d] = i}
(* Documents a reference was taken for and not given back. *)
Holders    == At("setup") \cup At("up")
Referring  == Holders \cup At("leaked")
(* Instances that the code has in hand. *)
Live       == {i \in Docs : run[i] \notin {"none", "over", "lost"}}

Init ==
  /\ stage = [d \in Docs |-> "none"]
  /\ inst = [d \in Docs |-> None]
  /\ destroyed = {}
  /\ phase = "idle" /\ cur = None /\ refs = 0 /\ deferred = FALSE
  /\ run = [i \in Docs |-> "none"]
  /\ failures = 0 /\ locals = 0 /\ unbalanced = FALSE

Fail == failures < MaxFailures /\ failures' = failures + 1

-----------------------------------------------------------------------------
(* createHeliaInstance(), up to its await *)
Create(d) ==
  /\ stage' = [stage EXCEPT ![d] = "creating"]
  /\ inst' = [inst EXCEPT ![d] = d]
  /\ run' = [run EXCEPT ![d] = "starting"]
  /\ phase' = "bootstrapping" /\ cur' = d /\ deferred' = FALSE /\ refs' = 0

(* acquireHelia() of a document, up to its await *)
Take(d) ==
  /\ refs' = refs + 1
  /\ stage' = [stage EXCEPT ![d] = "setup"]
  /\ inst' = [inst EXCEPT ![d] = cur]
  /\ UNCHANGED <<phase, cur, deferred, run>>

Wait(d, s) ==
  /\ stage' = [stage EXCEPT ![d] = s]
  /\ inst' = [inst EXCEPT ![d] = cur]
  /\ UNCHANGED <<stateVars, run>>

(* It does not look whether another document is creating one. *)
Acquire_Alone(d) ==
  \/ phase = "ready" /\ Take(d)
  \/ phase = "destroying" /\ Wait(d, "waiting")
  \/ phase \in {"idle", "bootstrapping"} /\ Create(d)

(* It does not wait for the shutdown that is under way. *)
Acquire_Rush(d) ==
  \/ phase = "ready" /\ Take(d)
  \/ phase = "bootstrapping" /\ Wait(d, "joining")
  \/ phase \in {"idle", "destroying"} /\ Create(d)

Acquire(d) ==
  \/ phase = "ready" /\ Take(d)
  \/ phase = "bootstrapping" /\ Wait(d, "joining")
  \/ phase = "destroying" /\ Wait(d, "waiting")
  \/ phase = "idle" /\ Create(d)

(* releaseHelia(), up to its await *)
Release_Any ==
  \/ /\ phase = "bootstrapping"
     /\ deferred' = TRUE
     /\ UNCHANGED <<phase, cur, refs, run>>
  \/ /\ phase = "ready"
     /\ refs' = 0 /\ phase' = "destroying"
     /\ run' = [run EXCEPT ![cur] = "stopping"]
     /\ UNCHANGED <<cur, deferred>>
  \/ phase \in {"idle", "destroying"} /\ UNCHANGED <<stateVars, run>>

Release ==
  \/ /\ phase = "bootstrapping"
     /\ deferred' = TRUE
     /\ UNCHANGED <<phase, cur, refs, run>>
  \/ /\ phase = "ready" /\ refs > 1
     /\ refs' = refs - 1
     /\ UNCHANGED <<phase, cur, deferred, run>>
  \/ /\ phase = "ready" /\ refs <= 1
     /\ refs' = 0 /\ phase' = "destroying"
     /\ run' = [run EXCEPT ![cur] = "stopping"]
     /\ UNCHANGED <<cur, deferred>>
  \/ phase \in {"idle", "destroying"} /\ UNCHANGED <<stateVars, run>>

-----------------------------------------------------------------------------
(* setupP2PLayer(): isHeliaLive() decides on a blockstore *)
Open(d) ==
  /\ stage[d] = "none"
  /\ \/ phase = "ready" /\ Take(d)
     \/ /\ phase # "ready"
        /\ stage' = [stage EXCEPT ![d] = "opening"]
        /\ UNCHANGED <<inst, stateVars, run>>
  /\ UNCHANGED <<destroyed, failures, locals, unbalanced>>

StoreOpened(d) ==
  /\ stage[d] = "opening"
  /\ Acquire(d)
  /\ UNCHANGED <<destroyed, failures, locals, unbalanced>>

StoreFails(d) ==
  /\ stage[d] = "opening" /\ Fail
  /\ stage' = [stage EXCEPT ![d] = "failed"]
  /\ UNCHANGED <<inst, destroyed, stateVars, run, locals, unbalanced>>

(* The documents whose acquisition of instance i ends. *)
Settle(i, s) ==
  stage' = [d \in Docs |-> IF d = i \/ d \in Joiners(i) THEN s ELSE stage[d]]

(* The one that joins does not count. *)
Created_OneReference(i) ==
  /\ run[i] = "starting"
  /\ \/ /\ phase = "bootstrapping" /\ deferred
        /\ phase' = "idle" /\ cur' = None /\ deferred' = FALSE
        /\ run' = [run EXCEPT ![i] = "aborting"]
        /\ UNCHANGED <<stage, refs>>
     \/ /\ ~(phase = "bootstrapping" /\ deferred)
        /\ phase' = "ready" /\ cur' = i /\ deferred' = FALSE
        /\ refs' = 1
        /\ run' = [run EXCEPT ![i] = "running"]
        /\ Settle(i, "setup")
  /\ UNCHANGED <<inst, destroyed, failures, locals, unbalanced>>

(* A release while it was being created is honoured now. *)
Created(i) ==
  /\ run[i] = "starting"
  /\ \/ /\ phase = "bootstrapping" /\ deferred
        /\ phase' = "idle" /\ cur' = None /\ deferred' = FALSE
        /\ run' = [run EXCEPT ![i] = "aborting"]
        /\ UNCHANGED <<stage, refs>>
     \/ /\ ~(phase = "bootstrapping" /\ deferred)
        /\ phase' = "ready" /\ cur' = i /\ deferred' = FALSE
        /\ refs' = 1 + Cardinality(Joiners(i))
        /\ run' = [run EXCEPT ![i] = "running"]
        /\ Settle(i, "setup")
  /\ UNCHANGED <<inst, destroyed, failures, locals, unbalanced>>

(* The creator's catch resets a state that is bootstrapping. *)
Reset ==
  IF phase = "bootstrapping"
    THEN phase' = "idle" /\ cur' = None /\ deferred' = FALSE
    ELSE UNCHANGED <<phase, cur, deferred>>

(* The state stays "bootstrapping". *)
CreationFails_NoReset(i) ==
  /\ run[i] = "starting" /\ Fail
  /\ \E end \in {"over", "lost"} : run' = [run EXCEPT ![i] = end]
  /\ Settle(i, "failed")
  /\ UNCHANGED <<inst, destroyed, stateVars, locals, unbalanced>>

(* createHelia() throws, or takes too long: then it goes on and nobody stops *)
(* what it creates.                                                          *)
CreationFails(i) ==
  /\ run[i] = "starting" /\ Fail
  /\ \E end \in {"over", "lost"} : run' = [run EXCEPT ![i] = end]
  /\ Reset /\ Settle(i, "failed")
  /\ UNCHANGED <<inst, destroyed, refs, locals, unbalanced>>

Aborted(i) ==
  /\ run[i] = "aborting"
  /\ run' = [run EXCEPT ![i] = "over"]
  /\ Reset /\ Settle(i, "failed")
  /\ UNCHANGED <<inst, destroyed, refs, failures, locals, unbalanced>>

(* p2pReady resolves: a document destroyed in the meantime keeps its         *)
(* reference.                                                                *)
SetupDone(d) ==
  /\ stage[d] = "setup"
  /\ \/ /\ d \in destroyed
        /\ stage' = [stage EXCEPT ![d] = "leaked"]
     \/ /\ d \notin destroyed
        /\ stage' = [stage EXCEPT ![d] = "up"]
  /\ UNCHANGED <<inst, destroyed, stateVars, run, failures, locals, unbalanced>>

SetupFails(d) ==
  /\ stage[d] = "setup" /\ Fail
  /\ stage' = [stage EXCEPT ![d] = "failed"]
  /\ Release
  /\ UNCHANGED <<inst, destroyed, locals, unbalanced>>

(* It releases also what is not acquired yet. *)
Destroy_Early(d) ==
  /\ stage[d] # "none" /\ d \notin destroyed
  /\ destroyed' = destroyed \cup {d}
  /\ \/ /\ stage[d] = "up"
        /\ stage' = [stage EXCEPT ![d] = "gone"]
     \/ /\ stage[d] # "up"
        /\ UNCHANGED stage
  /\ Release
  /\ UNCHANGED <<inst, failures, locals, unbalanced>>

(* teardown() *)
Destroy(d) ==
  /\ stage[d] # "none" /\ d \notin destroyed
  /\ destroyed' = destroyed \cup {d}
  /\ \/ /\ stage[d] = "up"
        /\ stage' = [stage EXCEPT ![d] = "gone"]
        /\ Release
     \/ /\ stage[d] # "up"
        /\ UNCHANGED <<stage, stateVars, run>>
  /\ UNCHANGED <<inst, failures, locals, unbalanced>>

(* A document without p2pReady releases although it acquired nothing. *)
DestroyLocal ==
  /\ locals < MaxLocal /\ locals' = locals + 1
  /\ Release
  /\ unbalanced' = (unbalanced \/ phase \in {"bootstrapping", "ready"})
  /\ UNCHANGED <<docVars, failures>>

(* Those that waited are not resumed. *)
Stopped_Alone(i) ==
  /\ run[i] = "stopping"
  /\ run' = [run EXCEPT ![i] = "over"]
  /\ \/ phase = "destroying" /\ phase' = "idle" /\ cur' = None
     \/ phase # "destroying" /\ UNCHANGED <<phase, cur>>
  /\ UNCHANGED <<docVars, refs, deferred, failures, locals, unbalanced>>

(* releaseHelia() resumes first, then those that waited for the shutdown,    *)
(* one after the other: each creates an instance, the last one is kept.      *)
Stopped(i) ==
  /\ run[i] = "stopping"
  /\ \/ /\ Waiters(i) = {}
        /\ run' = [run EXCEPT ![i] = "over"]
        /\ \/ phase = "destroying" /\ phase' = "idle" /\ cur' = None
           \/ phase # "destroying" /\ UNCHANGED <<phase, cur>>
        /\ UNCHANGED <<stage, inst, refs, deferred, unbalanced>>
     \/ \E last \in Waiters(i) :
        /\ run' = [j \in Docs |-> IF j = i THEN "over"
                                  ELSE IF j \in Waiters(i) THEN "starting" ELSE run[j]]
        /\ stage' = [d \in Docs |-> IF d \in Waiters(i) THEN "creating" ELSE stage[d]]
        /\ inst' = [d \in Docs |-> IF d \in Waiters(i) THEN d ELSE inst[d]]
        /\ phase' = "bootstrapping" /\ cur' = last /\ deferred' = FALSE /\ refs' = 0
        /\ unbalanced' = (unbalanced \/ Waiters(i) # {last})
  /\ UNCHANGED <<destroyed, failures, locals>>

Next ==
  \/ \E d \in Docs :
       \/ Open(d) \/ StoreOpened(d) \/ StoreFails(d)
       \/ Created(d) \/ CreationFails(d) \/ Aborted(d)
       \/ SetupDone(d) \/ SetupFails(d) \/ Destroy(d) \/ Stopped(d)
  \/ DestroyLocal

Spec == Init /\ [][Next]_vars

(* What is awaited settles: createHelia() within its timeout, the opening of *)
(* a blockstore, stop(), and setupP2PLayer(), which waits for a relay at     *)
(* most for a time.                                                          *)
Fairness ==
  \A d \in Docs :
    /\ WF_vars(StoreOpened(d) \/ StoreFails(d))
    /\ WF_vars(Created(d) \/ CreationFails(d)) /\ WF_vars(Aborted(d))
    /\ WF_vars(SetupDone(d) \/ SetupFails(d)) /\ WF_vars(Stopped(d))

FairSpec == Spec /\ Fairness

-----------------------------------------------------------------------------
(* A document that is set up, or being set up, has the instance everybody   *)
(* has, and that one is running: whoever closes, fails or joins in          *)
(* whichever order, nobody's instance is stopped or replaced under it.      *)
(* The code loses count when two documents wait for one shutdown and when a *)
(* document without a P2P layer is closed; of that this says nothing.       *)
HoldersAreServed ==
  unbalanced \/ \A d \in Holders :
    phase = "ready" /\ inst[d] = cur /\ run[cur] = "running"

(* There is at most one instance at a time, counting those that start, stop *)
(* or are taken down again, so two never open the same database or identity.*)
(* One whose creation took too long is not counted.                         *)
OneInstance ==
  unbalanced \/ \A i, j \in Live : i = j

(* The reference count is the number of documents that hold the instance    *)
(* and of those that were closed while they were set up and never give it   *)
(* back; it is not 0 while the state is ready.                              *)
CountIsExact ==
  unbalanced \/ phase # "ready" \/ (refs = Cardinality(Referring) /\ refs > 0)

(* A document is left without a network only when a step failed, not        *)
(* because of what others did meanwhile.                                    *)
FailsForAReason ==
  unbalanced \/ failures > 0 \/ At("failed") = {}

(* Every document that starts its P2P layer comes to an end of it: up, or   *)
(* told that there is none.                                                 *)
SetupEnds == \A d \in Docs : stage[d] = "opening" ~> stage[d] \in {"up", "failed", "gone", "leaked"}

(* When all that were opened are closed or failed, the instance is stopped  *)
(* and the state is as at the start, so that the next document finds a      *)
(* fresh one; a document closed during its set-up keeps it for ever.        *)
AllOver == \A d \in Docs : stage[d] \in {"none", "failed", "gone"}
UnusedIsStopped == (AllOver /\ ~unbalanced) ~> ((phase = "idle" /\ Live = {}) \/ ~AllOver)
=============================================================================
