---------------------------- MODULE NetworkProofs ----------------------------
(***************************************************************************)
(* Proofs about the network of a page.                                     *)
(*                                                                         *)
(* SharedHelia, for every finite set of documents and every bound: while   *)
(* acquisitions and releases match, the phase of the state says what every *)
(* document and every instance is doing; that is the inductive invariant.  *)
(*                                                                         *)
(* RelayConnections, for every set of relays and every bound.              *)
(***************************************************************************)
EXTENDS SharedHelia, RelayConnections, FiniteSetTheorems, TLAPS
-----------------------------------------------------------------------------
Quiet == {"none", "opening", "failed", "gone"}
Ended == {"none", "over", "lost"}

\* Document d is at one of the stages of S with the current instance.
Busy(d, S) == stage[d] \in S /\ inst[d] = cur

\* Every document is quiet or busy so, and no other instance than cur is live.
Only(S) == \A d \in Docs : /\ stage[d] \in Quiet \/ Busy(d, S)
                           /\ d # cur => run[d] \in Ended

Idle == \A d \in Docs : stage[d] \in Quiet /\ run[d] \in Ended

Bootstrapping ==
  /\ cur \in Docs /\ ~deferred /\ run[cur] = "starting"
  /\ Busy(cur, {"creating"})
  /\ \A d \in Docs \ {cur} : stage[d] \in Quiet \/ Busy(d, {"joining"})
  /\ \A d \in Docs \ {cur} : run[d] \in Ended

Ready ==
  /\ cur \in Docs /\ run[cur] = "running"
  /\ Only({"setup", "up", "leaked"})
  /\ refs = Cardinality(Referring) /\ refs > 0

Destroying ==
  /\ cur \in Docs /\ run[cur] = "stopping"
  /\ Only({"waiting"})

Reason == failures > 0 \/ \A d \in Docs : stage[d] # "failed"

\* A document that has not acquired anything yet has no instance of its own.
Fresh == \A d \in Docs : stage[d] \in {"none", "opening", "waiting"} => run[d] = "none"

Phased ==
  /\ phase = "idle" => Idle
  /\ phase = "bootstrapping" => Bootstrapping
  /\ phase = "ready" => Ready
  /\ phase = "destroying" => Destroying
  /\ Reason

IInv == TypeOK /\ (unbalanced \/ (Phased /\ Fresh))

-----------------------------------------------------------------------------
\* Finitely many documents refer to the instance, so they can be counted.
LEMMA ReferringFinite ==
  ASSUME HeliaAssumption
  PROVE  IsFiniteSet(Referring) /\ Cardinality(Referring) \in Nat
<1>1. Referring \subseteq Docs
  BY DEF Referring, Holders, At
<1> QED BY <1>1, FS_Subset, FS_CardinalityType DEF HeliaAssumption

\* The documents of one stage that wait for an instance are finitely many.
LEMMA JoinersFinite ==
  ASSUME HeliaAssumption, NEW i
  PROVE  IsFiniteSet(Joiners(i)) /\ Cardinality(Joiners(i)) \in Nat
<1>1. Joiners(i) \subseteq Docs
  BY DEF Joiners, At
<1> QED BY <1>1, FS_Subset, FS_CardinalityType DEF HeliaAssumption

\* A release changes the state of the instance only.
LEMMA ReleaseType ==
  ASSUME TypeOK, Release
  PROVE  /\ phase' \in Phases /\ cur' \in Docs \cup {None} /\ refs' \in Nat
         /\ deferred' \in BOOLEAN /\ run' \in [Docs -> Runs]
<1>1. CASE phase = "ready" /\ refs > 1 /\ refs' = refs - 1
             /\ UNCHANGED <<phase, cur, deferred, run>>
  BY <1>1 DEF TypeOK
<1>2. CASE UNCHANGED refs
  BY <1>2 DEF Release, TypeOK, Phases, Runs, stateVars
<1>3. CASE refs' = 0
  BY <1>3 DEF Release, TypeOK, Phases, Runs, stateVars
<1> QED BY <1>1, <1>2, <1>3 DEF Release, stateVars

\* An acquisition changes the document and the state of the instance.
LEMMA AcquireType ==
  ASSUME TypeOK, NEW d \in Docs, Acquire(d)
  PROVE  /\ phase' \in Phases /\ cur' \in Docs \cup {None} /\ refs' \in Nat
         /\ deferred' \in BOOLEAN /\ run' \in [Docs -> Runs]
         /\ stage' \in [Docs -> Stages] /\ inst' \in [Docs -> Docs \cup {None}]
<1>1. CASE phase = "ready" /\ Take(d)
  BY <1>1 DEF Take, TypeOK, Stages
<1>2. CASE Wait(d, "joining")
  BY <1>2 DEF Wait, TypeOK, Stages, stateVars
<1>3. CASE Wait(d, "waiting")
  BY <1>3 DEF Wait, TypeOK, Stages, stateVars
<1>4. CASE Create(d)
  BY <1>4 DEF Create, TypeOK, Stages, Phases, Runs
<1> QED BY <1>1, <1>2, <1>3, <1>4 DEF Acquire

\* The end of a creation gives those that wait for it a stage.
LEMMA SettleType ==
  ASSUME TypeOK, NEW i, NEW s \in Stages, Settle(i, s)
  PROVE  stage' \in [Docs -> Stages]
BY DEF Settle, TypeOK

\* A failure is counted.
LEMMA FailType ==
  ASSUME HeliaAssumption, TypeOK, Fail
  PROVE  failures' \in 0..MaxFailures /\ failures' > 0
BY DEF HeliaAssumption, TypeOK, Fail

-----------------------------------------------------------------------------
\* The types are kept by every step.
LEMMA TypeStep == ASSUME HeliaAssumption, TypeOK, [Next]_vars PROVE TypeOK'
<1> USE DEF docVars, stateVars
<1>1. CASE UNCHANGED vars
  BY <1>1 DEF TypeOK, vars
<1>2. ASSUME NEW d \in Docs, Open(d) PROVE TypeOK'
  BY <1>2 DEF Open, Take, TypeOK, Stages
<1>3. ASSUME NEW d \in Docs, StoreOpened(d) PROVE TypeOK'
  BY <1>3, AcquireType DEF StoreOpened, TypeOK
<1>4. ASSUME NEW d \in Docs, StoreFails(d) PROVE TypeOK'
  BY <1>4, FailType DEF StoreFails, TypeOK, Stages
<1>5. ASSUME NEW d \in Docs, Created(d) PROVE TypeOK'
  <2>1. "setup" \in Stages /\ 1 + Cardinality(Joiners(d)) \in Nat
    BY JoinersFinite DEF Stages
  <2> QED BY <1>5, <2>1, SettleType DEF Created, TypeOK, Phases, Runs
<1>6. ASSUME NEW d \in Docs, CreationFails(d) PROVE TypeOK'
  <2>1. "failed" \in Stages
    BY DEF Stages
  <2>2. run' \in [Docs -> Runs]
    BY <1>6 DEF CreationFails, TypeOK, Runs
  <2> QED BY <1>6, <2>1, <2>2, SettleType, FailType DEF CreationFails, Reset, TypeOK, Phases
<1>7. ASSUME NEW d \in Docs, Aborted(d) PROVE TypeOK'
  <2>1. "failed" \in Stages
    BY DEF Stages
  <2> QED BY <1>7, <2>1, SettleType DEF Aborted, Reset, TypeOK, Phases, Runs
<1>8. ASSUME NEW d \in Docs, SetupDone(d) PROVE TypeOK'
  BY <1>8 DEF SetupDone, TypeOK, Stages
<1>9. ASSUME NEW d \in Docs, SetupFails(d) PROVE TypeOK'
  BY <1>9, ReleaseType, FailType DEF SetupFails, TypeOK, Stages
<1>10. ASSUME NEW d \in Docs, Destroy(d) PROVE TypeOK'
  BY <1>10, ReleaseType DEF Destroy, TypeOK, Stages
<1>11. ASSUME NEW d \in Docs, Stopped(d) PROVE TypeOK'
  <2>1. CASE Waiters(d) = {}
    BY <1>11, <2>1 DEF Stopped, TypeOK, Phases, Runs
  <2>2. ASSUME NEW last \in Waiters(d),
               run' = [j \in Docs |-> IF j = d THEN "over"
                          ELSE IF j \in Waiters(d) THEN "starting" ELSE run[j]],
               stage' = [e \in Docs |-> IF e \in Waiters(d) THEN "creating" ELSE stage[e]],
               inst' = [e \in Docs |-> IF e \in Waiters(d) THEN e ELSE inst[e]],
               phase' = "bootstrapping", cur' = last, deferred' = FALSE, refs' = 0,
               unbalanced' = (unbalanced \/ Waiters(d) # {last})
        PROVE  TypeOK'
    <3>1. last \in Docs
      BY DEF Waiters, At
    <3> QED BY <1>11, <2>2, <3>1 DEF Stopped, TypeOK, Stages, Phases, Runs
  <2> QED BY <1>11, <2>1, <2>2 DEF Stopped
<1>12. CASE DestroyLocal
  <2>1. locals' \in 0..MaxLocal
    BY <1>12, HeliaAssumption DEF DestroyLocal, TypeOK, HeliaAssumption
  <2> QED BY <1>12, <2>1, ReleaseType DEF DestroyLocal, TypeOK
<1> QED
  BY <1>1, <1>2, <1>3, <1>4, <1>5, <1>6, <1>7, <1>8, <1>9, <1>10, <1>11, <1>12 DEF Next

-----------------------------------------------------------------------------
\* A reference more for d, which had none: Open, or an acquisition of a live instance.
LEMMA TakeStep ==
  ASSUME HeliaAssumption, TypeOK, Phased, phase = "ready", NEW d \in Docs,
         stage[d] \in Quiet, Take(d), UNCHANGED failures
  PROVE  Phased'
<1>1. Ready
  BY DEF Phased
<1>2. Referring' = Referring \cup {d} /\ d \notin Referring
  BY DEF Take, TypeOK, Referring, Holders, At, Quiet
<1>3. Cardinality(Referring') = refs + 1
  BY <1>1, <1>2, ReferringFinite, FS_AddElement DEF Ready
<1>4. Only({"setup", "up", "leaked"})'
  BY <1>1 DEF Ready, Only, Busy, Take, TypeOK
<1>5. Ready'
  BY <1>1, <1>3, <1>4 DEF Ready, Take, TypeOK
<1>6. Reason'
  BY DEF Phased, Reason, Take, TypeOK
<1> QED BY <1>5, <1>6 DEF Phased, Take

\* A document d that holds the instance gives it back, and ends.
LEMMA ReleaseStep ==
  ASSUME HeliaAssumption, TypeOK, Phased, NEW d \in Docs, stage[d] \in {"setup", "up"},
         NEW s \in {"failed", "gone"}, stage' = [stage EXCEPT ![d] = s],
         Release, UNCHANGED inst, Reason'
  PROVE  Phased'
<1>1. phase = "ready" /\ Ready
  BY DEF Phased, Idle, Bootstrapping, Destroying, Only, Busy, Quiet, TypeOK, Phases
<1>2. Referring' = Referring \ {d} /\ d \in Referring
  BY DEF TypeOK, Referring, Holders, At
<1>3. Cardinality(Referring') = refs - 1
  BY <1>1, <1>2, ReferringFinite, FS_RemoveElement DEF Ready
<1>4. CASE refs > 1
  <2>1. refs' = refs - 1 /\ UNCHANGED <<phase, cur, deferred, run>>
    BY <1>1, <1>4 DEF Release, TypeOK
  <2>2. Only({"setup", "up", "leaked"})'
    BY <1>1, <2>1 DEF Ready, Only, Busy, TypeOK, Quiet
  <2>3. Ready'
    BY <1>1, <1>3, <1>4, <2>1, <2>2 DEF Ready, TypeOK
  <2> QED BY <1>1, <2>1, <2>3 DEF Phased
<1>5. CASE refs <= 1
  <2>1. phase' = "destroying" /\ run' = [run EXCEPT ![cur] = "stopping"] /\ cur' = cur
    BY <1>1, <1>5 DEF Release, TypeOK
  <2>2. Referring' = {}
    <3>1. IsFiniteSet(Referring') /\ Cardinality(Referring') = 0
      BY <1>1, <1>2, <1>3, <1>5, ReferringFinite, FS_RemoveElement DEF Ready, TypeOK
    <3> QED BY <3>1, FS_EmptySet
  <2>3. \A e \in Docs : stage'[e] \in Quiet
    <3> SUFFICES ASSUME NEW e \in Docs PROVE stage'[e] \in Quiet
      OBVIOUS
    <3>1. stage'[e] \notin {"setup", "up", "leaked"}
      BY <2>2 DEF Referring, Holders, At
    <3> QED BY <1>1, <3>1 DEF Ready, Only, Busy, TypeOK, Quiet
  <2>4. Destroying'
    BY <1>1, <2>1, <2>3 DEF Ready, Destroying, Only, TypeOK, Ended
  <2> QED BY <2>1, <2>4 DEF Phased
<1> QED BY <1>1, <1>4, <1>5 DEF Ready, TypeOK

\* A document that holds nothing ends or begins; nothing else changes.
LEMMA QuietStep ==
  ASSUME TypeOK, Phased, NEW d \in Docs, stage[d] \in Quiet, NEW s \in Quiet,
         stage' = [stage EXCEPT ![d] = s], UNCHANGED <<inst, stateVars, run>>, Reason'
  PROVE  Phased'
<1>1. Referring' = Referring
  BY DEF Referring, Holders, At, Quiet, TypeOK
<1>2. Idle => Idle'
  BY DEF Idle, TypeOK
<1>3. Bootstrapping => Bootstrapping'
  BY DEF Bootstrapping, Busy, TypeOK, Quiet, stateVars
<1>4. Ready => Ready'
  BY <1>1 DEF Ready, Only, Busy, TypeOK, stateVars
<1>5. Destroying => Destroying'
  BY DEF Destroying, Only, Busy, TypeOK, stateVars
<1> QED BY <1>2, <1>3, <1>4, <1>5 DEF Phased, stateVars

\* The acquisition of a document that has a blockstore of its own.
LEMMA AcquireStep ==
  ASSUME HeliaAssumption, TypeOK, Phased, NEW d \in Docs, stage[d] = "opening",
         Acquire(d), UNCHANGED failures
  PROVE  Phased'
<1>0. stage[d] \in Quiet
  BY DEF Quiet
<1>1. CASE phase = "ready" /\ Take(d)
  BY <1>0, <1>1, TakeStep
<1>2. CASE phase = "bootstrapping" /\ Wait(d, "joining")
  <2>1. Bootstrapping'
    BY <1>2 DEF Phased, Bootstrapping, Busy, Wait, TypeOK, stateVars
  <2>2. Reason'
    BY <1>2 DEF Phased, Reason, Wait, TypeOK
  <2> QED BY <1>2, <2>1, <2>2 DEF Phased, Wait, stateVars
<1>3. CASE phase = "destroying" /\ Wait(d, "waiting")
  <2>1. Destroying'
    BY <1>3 DEF Phased, Destroying, Only, Busy, Wait, TypeOK, stateVars
  <2>2. Reason'
    BY <1>3 DEF Phased, Reason, Wait, TypeOK
  <2> QED BY <1>3, <2>1, <2>2 DEF Phased, Wait, stateVars
<1>4. CASE phase = "idle" /\ Create(d)
  <2>1. Bootstrapping'
    BY <1>4 DEF Phased, Idle, Bootstrapping, Busy, Create, TypeOK
  <2>2. Reason'
    BY <1>4 DEF Phased, Reason, Create, TypeOK
  <2> QED BY <1>4, <2>1, <2>2 DEF Phased, Create
<1> QED BY <1>1, <1>2, <1>3, <1>4 DEF Acquire

\* The instance that starts is the current one, and all who wait for it join it.
LEMMA Starting ==
  ASSUME TypeOK, Phased, NEW i \in Docs, run[i] \in {"starting", "aborting"}
  PROVE  /\ phase = "bootstrapping" /\ Bootstrapping /\ i = cur
         /\ run[i] = "starting"
         /\ \A d \in Docs : d = i \/ d \in Joiners(i) \/ stage[d] \in Quiet
         /\ i \notin Joiners(i)
<1>1. phase = "bootstrapping" /\ Bootstrapping /\ i = cur
  BY DEF Phased, Idle, Bootstrapping, Ready, Destroying, Only, Ended, TypeOK, Phases
<1> QED BY <1>1 DEF Bootstrapping, Busy, Joiners, At

\* A creation ends well: the creator and all who joined hold the instance.
LEMMA CreatedStep ==
  ASSUME HeliaAssumption, TypeOK, Phased, NEW i \in Docs, Created(i)
  PROVE  Phased'
<1>1. /\ phase = "bootstrapping" /\ Bootstrapping /\ i = cur
      /\ \A d \in Docs : d = i \/ d \in Joiners(i) \/ stage[d] \in Quiet
      /\ i \notin Joiners(i)
  BY Starting DEF Created
<1>2. /\ phase' = "ready" /\ cur' = i /\ refs' = 1 + Cardinality(Joiners(i))
      /\ run' = [run EXCEPT ![i] = "running"] /\ Settle(i, "setup")
      /\ UNCHANGED <<inst, failures>>
  BY <1>1 DEF Created, Bootstrapping
<1>3. \A d \in Docs : stage'[d] = IF d = i \/ d \in Joiners(i) THEN "setup" ELSE stage[d]
  BY <1>2 DEF Settle
<1>4. Referring' = Joiners(i) \cup {i}
  BY <1>1, <1>3 DEF Referring, Holders, At, Quiet, Joiners
<1>5. refs' = Cardinality(Referring') /\ refs' > 0
  <2>1. IsFiniteSet(Joiners(i)) /\ Cardinality(Joiners(i)) \in Nat
    BY JoinersFinite
  <2>2. Cardinality(Joiners(i) \cup {i}) = Cardinality(Joiners(i)) + 1
    BY <1>1, <2>1, FS_AddElement
  <2> QED BY <1>2, <1>4, <2>1, <2>2
<1>6. Only({"setup", "up", "leaked"})'
  BY <1>1, <1>2, <1>3 DEF Only, Bootstrapping, Busy, Joiners, At, TypeOK
<1>7. Ready'
  BY <1>1, <1>2, <1>5, <1>6 DEF Ready, TypeOK
<1>8. Reason'
  BY <1>2, <1>3 DEF Phased, Reason
<1> QED BY <1>2, <1>7, <1>8 DEF Phased

\* A creation fails: nobody is left waiting for it.
LEMMA CreationFailsStep ==
  ASSUME HeliaAssumption, TypeOK, Phased, NEW i \in Docs, CreationFails(i)
  PROVE  Phased'
<1>1. /\ phase = "bootstrapping" /\ Bootstrapping /\ i = cur
      /\ \A d \in Docs : d = i \/ d \in Joiners(i) \/ stage[d] \in Quiet
  BY Starting DEF CreationFails
<1>2. phase' = "idle" /\ Settle(i, "failed")
  BY <1>1 DEF CreationFails, Reset
<1>3. PICK end \in {"over", "lost"} : run' = [run EXCEPT ![i] = end]
  BY DEF CreationFails
<1>4. \A d \in Docs : stage'[d] \in Quiet
  BY <1>1, <1>2 DEF Settle, Quiet
<1>5. \A d \in Docs : run'[d] \in Ended
  BY <1>1, <1>3 DEF Bootstrapping, TypeOK, Ended
<1>6. Idle'
  BY <1>4, <1>5 DEF Idle
<1>7. Reason'
  BY FailType DEF CreationFails, Reason
<1> QED BY <1>2, <1>6, <1>7 DEF Phased

\* The end of a shutdown; if two documents waited for it, the balance is lost.
LEMMA StoppedStep ==
  ASSUME TypeOK, Phased, Fresh, ~unbalanced, NEW i \in Docs, Stopped(i), ~unbalanced'
  PROVE  Phased'
<1>1. phase = "destroying" /\ Destroying /\ i = cur
  BY DEF Stopped, Phased, Idle, Bootstrapping, Ready, Destroying, Only, Ended, TypeOK, Phases
<1>2. \A d \in Docs : d \in Waiters(i) \/ stage[d] \in Quiet
  BY <1>1 DEF Destroying, Only, Busy, Waiters, At
<1>3. CASE Waiters(i) = {}
  <2>1. phase' = "idle" /\ run' = [run EXCEPT ![i] = "over"] /\ UNCHANGED <<stage, failures>>
    BY <1>1, <1>3 DEF Stopped
  <2>2. Idle'
    BY <1>1, <1>2, <1>3, <2>1 DEF Idle, Destroying, Only, TypeOK, Ended
  <2>3. Reason'
    BY <2>1 DEF Phased, Reason
  <2> QED BY <2>1, <2>2, <2>3 DEF Phased
<1>4. CASE Waiters(i) # {}
  <2>1. PICK last \in Waiters(i) :
          /\ run' = [j \in Docs |-> IF j = i THEN "over"
                        ELSE IF j \in Waiters(i) THEN "starting" ELSE run[j]]
          /\ stage' = [d \in Docs |-> IF d \in Waiters(i) THEN "creating" ELSE stage[d]]
          /\ inst' = [d \in Docs |-> IF d \in Waiters(i) THEN d ELSE inst[d]]
          /\ phase' = "bootstrapping" /\ cur' = last /\ deferred' = FALSE /\ refs' = 0
          /\ unbalanced' = (unbalanced \/ Waiters(i) # {last})
          /\ UNCHANGED failures
    BY <1>4 DEF Stopped
  <2>2. Waiters(i) = {last} /\ last \in Docs
    BY <2>1 DEF Waiters, At
  <2>3. i # last
    BY <1>1, <2>2 DEF Destroying, Waiters, At, Fresh
  <2>4. Bootstrapping'
    <3>1. stage'[last] = "creating" /\ inst'[last] = last /\ run'[last] = "starting"
      BY <2>1, <2>2, <2>3
    <3>2. ASSUME NEW d \in Docs \ {last} PROVE stage'[d] \in Quiet /\ run'[d] \in Ended
      BY <1>1, <1>2, <2>1, <2>2 DEF Destroying, Only, Ended
    <3> QED BY <2>1, <2>2, <3>1, <3>2 DEF Bootstrapping, Busy
  <2>5. Reason'
    BY <2>1 DEF Phased, Reason
  <2> QED BY <2>1, <2>4, <2>5 DEF Phased
<1> QED BY <1>3, <1>4

-----------------------------------------------------------------------------
\* The phase describes everybody after a step, unless that step lost the balance.
LEMMA PhasedStep ==
  ASSUME HeliaAssumption, TypeOK, Phased, Fresh, ~unbalanced, [Next]_vars, ~unbalanced'
  PROVE  Phased'
<1> USE DEF docVars, stateVars
<1>1. CASE UNCHANGED vars
  BY <1>1 DEF vars, Phased, Idle, Bootstrapping, Ready, Destroying, Reason, Only, Busy,
              Referring, Holders, At
<1>2. ASSUME NEW d \in Docs, Open(d) PROVE Phased'
  <2>0. stage[d] \in Quiet /\ "opening" \in Quiet
    BY <1>2 DEF Open, Quiet
  <2>1. CASE phase = "ready" /\ Take(d)
    BY <1>2, <2>0, <2>1, TakeStep DEF Open
  <2>2. CASE stage' = [stage EXCEPT ![d] = "opening"] /\ UNCHANGED <<inst, stateVars, run>>
    <3>1. Reason'
      BY <1>2, <2>2 DEF Open, Phased, Reason, TypeOK
    <3> QED BY <2>0, <2>2, <3>1, QuietStep
  <2> QED BY <1>2, <2>1, <2>2 DEF Open
<1>3. ASSUME NEW d \in Docs, StoreOpened(d) PROVE Phased'
  BY <1>3, AcquireStep DEF StoreOpened
<1>4. ASSUME NEW d \in Docs, StoreFails(d) PROVE Phased'
  <2>1. Reason'
    BY <1>4, FailType DEF StoreFails, Reason
  <2> QED BY <1>4, <2>1, QuietStep DEF StoreFails, Quiet
<1>5. ASSUME NEW d \in Docs, Created(d) PROVE Phased'
  BY <1>5, CreatedStep
<1>6. ASSUME NEW d \in Docs, CreationFails(d) PROVE Phased'
  BY <1>6, CreationFailsStep
<1>7. ASSUME NEW d \in Docs, Aborted(d) PROVE Phased'
  BY <1>7, Starting DEF Aborted
<1>8. ASSUME NEW d \in Docs, SetupDone(d) PROVE Phased'
  <2>1. PICK s \in {"leaked", "up"} : stage' = [stage EXCEPT ![d] = s]
    BY <1>8 DEF SetupDone
  <2>2. UNCHANGED <<inst, stateVars, run, failures>> /\ stage[d] = "setup"
    BY <1>8 DEF SetupDone
  <2>3. phase = "ready" /\ Ready
    BY <2>2 DEF Phased, Idle, Bootstrapping, Destroying, Only, Busy, Quiet, TypeOK, Phases
  <2>4. Referring' = Referring
    BY <2>1, <2>2 DEF Referring, Holders, At, TypeOK
  <2>5. Only({"setup", "up", "leaked"})'
    BY <2>1, <2>2, <2>3 DEF Ready, Only, Busy, TypeOK, Quiet
  <2>6. Ready'
    BY <2>2, <2>3, <2>4, <2>5 DEF Ready
  <2>7. Reason'
    BY <2>1, <2>2 DEF Phased, Reason, TypeOK
  <2> QED BY <2>2, <2>3, <2>6, <2>7 DEF Phased
<1>9. ASSUME NEW d \in Docs, SetupFails(d) PROVE Phased'
  <2>1. Reason'
    BY <1>9, FailType DEF SetupFails, Reason
  <2> QED BY <1>9, <2>1, ReleaseStep DEF SetupFails
<1>10. ASSUME NEW d \in Docs, Destroy(d) PROVE Phased'
  <2>1. CASE stage[d] = "up"
    <3>1. stage' = [stage EXCEPT ![d] = "gone"] /\ Release /\ UNCHANGED <<inst, failures>>
      BY <1>10, <2>1 DEF Destroy
    <3>2. Reason'
      BY <3>1 DEF Phased, Reason, TypeOK
    <3> QED BY <2>1, <3>1, <3>2, ReleaseStep
  <2>2. CASE stage[d] # "up"
    <3>1. UNCHANGED <<stage, inst, stateVars, run, failures>>
      BY <1>10, <2>2 DEF Destroy
    <3> QED BY <3>1 DEF Phased, Idle, Bootstrapping, Ready, Destroying, Reason, Only, Busy,
                        Referring, Holders, At
  <2> QED BY <2>1, <2>2
<1>11. ASSUME NEW d \in Docs, Stopped(d) PROVE Phased'
  BY <1>11, StoppedStep
<1>12. CASE DestroyLocal
  <2>1. phase \in {"idle", "destroying"} /\ UNCHANGED <<docVars, stateVars, run, failures>>
    BY <1>12 DEF DestroyLocal, Release, TypeOK, Phases
  <2> QED BY <2>1 DEF Phased, Idle, Destroying, Reason, Only, Busy
<1> QED
  BY <1>1, <1>2, <1>3, <1>4, <1>5, <1>6, <1>7, <1>8, <1>9, <1>10, <1>11, <1>12 DEF Next

\* Whoever has no instance before a step and is still waiting has none after it.
LEMMA FreshStep ==
  ASSUME TypeOK, Phased, Fresh, ~unbalanced, [Next]_vars, ~unbalanced'
  PROVE  Fresh'
<1> USE DEF docVars, stateVars
<1>1. CASE UNCHANGED vars
  BY <1>1 DEF vars, Fresh
<1>2. Release => \A d \in Docs : run[d] = "none" => run'[d] = "none"
  BY DEF Release, Phased, Ready, TypeOK
<1>3. ASSUME NEW d \in Docs, Open(d) PROVE Fresh'
  BY <1>3 DEF Open, Take, Fresh, TypeOK
<1>4. ASSUME NEW d \in Docs, StoreOpened(d) PROVE Fresh'
  BY <1>4 DEF StoreOpened, Acquire, Take, Wait, Create, Fresh, TypeOK
<1>5. ASSUME NEW d \in Docs, StoreFails(d) PROVE Fresh'
  BY <1>5 DEF StoreFails, Fresh, TypeOK
<1>6. ASSUME NEW d \in Docs, Created(d) PROVE Fresh'
  BY <1>6 DEF Created, Settle, Fresh, TypeOK
<1>7. ASSUME NEW d \in Docs, CreationFails(d) \/ Aborted(d) PROVE Fresh'
  BY <1>7 DEF CreationFails, Aborted, Settle, Fresh, TypeOK
<1>8. ASSUME NEW d \in Docs, SetupDone(d) PROVE Fresh'
  BY <1>8 DEF SetupDone, Fresh, TypeOK
<1>9. ASSUME NEW d \in Docs, SetupFails(d) PROVE Fresh'
  BY <1>2, <1>9 DEF SetupFails, Fresh, TypeOK
<1>10. ASSUME NEW d \in Docs, Destroy(d) PROVE Fresh'
  BY <1>2, <1>10 DEF Destroy, Fresh, TypeOK
<1>11. ASSUME NEW d \in Docs, Stopped(d) PROVE Fresh'
  BY <1>11 DEF Stopped, Fresh, TypeOK
<1>12. CASE DestroyLocal
  BY <1>2, <1>12 DEF DestroyLocal, Fresh
<1> QED
  BY <1>1, <1>3, <1>4, <1>5, <1>6, <1>7, <1>8, <1>9, <1>10, <1>11, <1>12 DEF Next

\* The balance is never found again.
LEMMA BalanceStep == ASSUME [Next]_vars, unbalanced PROVE unbalanced'
BY DEF Next, vars, Open, StoreOpened, StoreFails, Created, CreationFails, Aborted,
       SetupDone, SetupFails, Destroy, DestroyLocal, Stopped

\* The invariant of the shared instance.
LEMMA Invariant == Spec => []IInv
<1>1. Init => IInv
  <2> SUFFICES ASSUME Init PROVE IInv
    OBVIOUS
  <2>1. TypeOK
    <3>1. failures \in 0..MaxFailures /\ locals \in 0..MaxLocal
      BY HeliaAssumption DEF Init, HeliaAssumption
    <3> QED BY <3>1 DEF Init, TypeOK, Stages, Phases, Runs
  <2>2. Phased /\ Fresh
    BY DEF Init, Phased, Fresh, Idle, Reason, Quiet, Ended
  <2> QED BY <2>1, <2>2 DEF IInv
<1>2. IInv /\ [Next]_vars => IInv'
  <2> SUFFICES ASSUME IInv, [Next]_vars PROVE IInv'
    OBVIOUS
  <2>1. TypeOK'
    BY HeliaAssumption, TypeStep DEF IInv
  <2>2. unbalanced' \/ (Phased' /\ Fresh')
    BY HeliaAssumption, PhasedStep, FreshStep, BalanceStep DEF IInv
  <2> QED BY <2>1, <2>2 DEF IInv
<1> QED BY <1>1, <1>2, PTL DEF Spec

-----------------------------------------------------------------------------
\* Every variable keeps its type; in particular the reference count of helia.ts
\* is never negative, not even when releases and acquisitions do not match.
THEOREM TypeCorrect == Spec => []TypeOK
<1>1. IInv => TypeOK
  BY DEF IInv
<1> QED BY <1>1, Invariant, PTL

\* Whoever closes, fails or joins in whichever order, a document that is set up
\* has the instance of helia.ts's state, and that one is running.
THEOREM HoldersCorrect == Spec => []HoldersAreServed
<1>1. IInv => HoldersAreServed
  <2> SUFFICES ASSUME IInv, ~unbalanced, NEW d \in Holders
               PROVE  phase = "ready" /\ inst[d] = cur /\ run[cur] = "running"
    BY DEF HoldersAreServed
  <2>1. d \in Docs /\ stage[d] \in {"setup", "up"}
    BY DEF Holders, At
  <2>2. TypeOK /\ Phased /\ phase \in Phases
    BY DEF IInv, TypeOK
  <2>3. phase # "idle"
    BY <2>1, <2>2 DEF Phased, Idle, Quiet
  <2>4. phase # "bootstrapping"
    BY <2>1, <2>2 DEF Phased, Bootstrapping, Busy, Quiet
  <2>5. phase # "destroying"
    BY <2>1, <2>2 DEF Phased, Destroying, Only, Busy, Quiet
  <2>6. phase = "ready" /\ Ready
    BY <2>2, <2>3, <2>4, <2>5 DEF Phased, Phases
  <2> QED BY <2>1, <2>6 DEF Ready, Only, Busy, Quiet
<1> QED BY <1>1, Invariant, PTL

\* helia.ts never has two instances that start, run or stop at the same time.
THEOREM InstanceCorrect == Spec => []OneInstance
<1>1. IInv => OneInstance
  <2> SUFFICES ASSUME IInv, ~unbalanced, NEW i \in Live, NEW j \in Live
               PROVE  i = j
    BY DEF OneInstance
  <2> QED BY DEF Live, IInv, Phased, Idle, Bootstrapping, Ready, Destroying, Only, Ended,
                 TypeOK, Phases
<1> QED BY <1>1, Invariant, PTL

\* The reference count is the number of documents that refer to the instance.
THEOREM CountCorrect == Spec => []CountIsExact
<1>1. IInv => CountIsExact
  BY DEF IInv, CountIsExact, Phased, Ready
<1> QED BY <1>1, Invariant, PTL

\* Nobody loses the network because of what others did meanwhile.
THEOREM FailureCorrect == Spec => []FailsForAReason
<1>1. IInv => FailsForAReason
  BY DEF IInv, FailsForAReason, Phased, Reason, At
<1> QED BY <1>1, Invariant, PTL

-----------------------------------------------------------------------------
(***************************************************************************)
(* The relays.                                                             *)
(***************************************************************************)
\* The inductive invariant: the types, and what is proved of redialling.
RelayIInv == RelayTypeOK /\ RedialIsPending

\* What a connection attempt does to the gate of the attempts.
LEMMA GateType ==
  ASSUME RelayTypeOK, NEW r \in Relays, NEW up
  PROVE  ConnectRelay(r, up) =>
           flight' \in Relays \cup {NoRelay} /\ pend' \in Relays \cup {NoRelay}
BY DEF ConnectRelay, RelayTypeOK

\* A room that is removed may start an attempt at another relay.
LEMMA RemoveType ==
  ASSUME RelayTypeOK, NEW r \in Relays, Remove(r)
  PROVE  /\ flight' \in Relays \cup {NoRelay} /\ pend' \in Relays \cup {NoRelay}
         /\ room' \in [Relays -> {"none", "alone", "joined", "orphan"}]
<1>1. room' \in [Relays -> {"none", "alone", "joined", "orphan"}]
  BY DEF Remove, RelayTypeOK
<1>2. CASE RequestReconnect
  <2>1. CASE \E q \in tracked \cap conn : ConnectRelay(q, conn)
    <3>1. PICK q \in tracked \cap conn : ConnectRelay(q, conn)
      BY <2>1
    <3>2. q \in Relays
      BY DEF RelayTypeOK
    <3> QED BY <3>1, <3>2, GateType, <1>1
  <2>2. CASE UNCHANGED <<flight, pend>>
    BY <2>2, <1>1 DEF RelayTypeOK
  <2> QED BY <1>2, <2>1, <2>2 DEF RequestReconnect
<1>3. CASE UNCHANGED <<flight, pend>>
  BY <1>3, <1>1 DEF RelayTypeOK
<1> QED BY <1>2, <1>3 DEF Remove

\* A relay that is tracked may start the first attempt.
LEMMA TrackType ==
  ASSUME RelayTypeOK, NEW r \in Relays, Track(r)
  PROVE  /\ tracked' = tracked \cup {r} /\ cached' = cached \cup {r}
         /\ layer' \in {"waiting", "first", "ready"}
         /\ flight' \in Relays \cup {NoRelay} /\ pend' \in Relays \cup {NoRelay}
BY DEF Track, RelayTypeOK, layerVars

\* The types are kept by every step.
LEMMA RelayTypeStep == ASSUME RelayAssumption, RelayTypeOK, [RelayNext]_relayVars PROVE RelayTypeOK'
<1> USE DEF discoveryVars, layerVars, bounds
<1>1. CASE UNCHANGED relayVars
  BY <1>1 DEF RelayTypeOK, relayVars
<1>2. CASE Resume
  BY <1>2 DEF Resume, RelayTypeOK
<1>3. CASE WaitTimeout
  BY <1>3 DEF WaitTimeout, RelayTypeOK
<1>4. CASE SignalOk
  BY <1>4 DEF SignalOk, Over, Finished, RelayTypeOK
<1>5. CASE SignalFails
  <2>1. /\ layer' = "ready" /\ pend' = NoRelay /\ flight' \in Relays \cup {NoRelay}
        /\ stranded' \in BOOLEAN /\ UNCHANGED <<conn, lost, discoveryVars, room, broken>>
    BY <1>5 DEF SignalFails, Over, Finished, RelayTypeOK
  <2>2. /\ drops' \in 0..MaxDrops /\ misses' \in 0..MaxMisses
        /\ breaks' \in 0..MaxBreaks
    BY <1>5, RelayAssumption DEF SignalFails, Miss, RelayTypeOK, RelayAssumption
  <2> QED BY <2>1, <2>2 DEF RelayTypeOK
<1>6. ASSUME NEW r \in Relays, Dialled(r) PROVE RelayTypeOK'
  BY <1>6, TrackType DEF Dialled, RelayTypeOK
<1>7. ASSUME NEW r \in Relays, Found(r) PROVE RelayTypeOK'
  BY <1>7, TrackType DEF Found, RelayTypeOK
<1>8. ASSUME NEW r \in Relays, Disconnected(r) PROVE RelayTypeOK'
  BY <1>8 DEF Disconnected, RelayTypeOK
<1>9. ASSUME NEW r \in Relays, TimerFires(r) PROVE RelayTypeOK'
  BY <1>9 DEF TimerFires, RelayTypeOK
<1>10. ASSUME NEW r \in Relays, RedialOk(r) PROVE RelayTypeOK'
  <2>1. CASE layer # "ready" /\ Track(r)
    BY <1>10, <2>1, TrackType DEF RedialOk, RelayTypeOK
  <2>2. CASE /\ tracked' = tracked \cup {r} /\ cached' = cached \cup {r}
             /\ ConnectRelay(r, conn \cup {r}) /\ UNCHANGED layer
    BY <1>10, <2>2, GateType DEF RedialOk, RelayTypeOK
  <2> QED BY <1>10, <2>1, <2>2 DEF RedialOk
<1>11. ASSUME NEW r \in Relays, RedialFails(r) PROVE RelayTypeOK'
  BY <1>11, RelayAssumption DEF RedialFails, Miss, RelayTypeOK, RelayAssumption
<1>12. ASSUME NEW r \in Relays, StreamEnds(r) PROVE RelayTypeOK'
  <2>1. CASE Remove(r)
    BY <1>12, <2>1, RemoveType DEF StreamEnds, RelayTypeOK
  <2>2. CASE room' = [room EXCEPT ![r] = "orphan"] /\ UNCHANGED <<flight, pend>>
    BY <1>12, <2>2 DEF StreamEnds, RelayTypeOK
  <2> QED BY <1>12, <2>1, <2>2 DEF StreamEnds
<1>13. ASSUME NEW r \in Relays, PeerUp(r) PROVE RelayTypeOK'
  BY <1>13 DEF PeerUp, RelayTypeOK
<1>14. ASSUME NEW r \in Relays, PeerDown(r) PROVE RelayTypeOK'
  <2>1. CASE Remove(r)
    BY <1>14, <2>1, RemoveType DEF PeerDown, RelayTypeOK
  <2>2. CASE room' = [room EXCEPT ![r] = "alone"] /\ UNCHANGED <<flight, pend>>
    BY <1>14, <2>2 DEF PeerDown, RelayTypeOK
  <2> QED BY <1>14, <2>1, <2>2 DEF PeerDown
<1>15. ASSUME NEW r \in Relays, Autodial(r) PROVE RelayTypeOK'
  BY <1>15 DEF Autodial, RelayTypeOK
<1>16. ASSUME NEW r \in Relays, Drop(r) PROVE RelayTypeOK'
  BY <1>16, RelayAssumption DEF Drop, RelayTypeOK, RelayAssumption
<1>17. ASSUME NEW r \in Relays, Break(r) PROVE RelayTypeOK'
  BY <1>17, RelayAssumption DEF Break, RelayTypeOK, RelayAssumption
<1>18. ASSUME NEW r \in Relays, Expire(r) PROVE RelayTypeOK'
  BY <1>18, RelayAssumption DEF Expire, RelayTypeOK, RelayAssumption
<1> QED
  BY <1>1, <1>2, <1>3, <1>4, <1>5, <1>6, <1>7, <1>8, <1>9, <1>10, <1>11, <1>12, <1>13,
     <1>14, <1>15, <1>16, <1>17, <1>18 DEF RelayNext

\* A redial is pending again after every step: a connection that goes leaves its
\* event, the event its timer, the timer its dial and a dial that fails a timer.
LEMMA PendingStep == ASSUME RelayTypeOK, RedialIsPending, [RelayNext]_relayVars PROVE RedialIsPending'
<1> USE DEF discoveryVars, layerVars, bounds
<1> SUFFICES ASSUME NEW q \in tracked' \ conn'
             PROVE  timer'[q] = "armed" \/ q \in redialing' \cup lost'
  BY DEF RedialIsPending
<1>1. CASE UNCHANGED relayVars
  BY <1>1 DEF RedialIsPending, relayVars
<1>2. CASE Resume
  BY <1>2 DEF Resume, RelayTypeOK
<1>3. CASE WaitTimeout \/ SignalOk \/ SignalFails
  BY <1>3 DEF WaitTimeout, SignalOk, SignalFails, RedialIsPending
<1>4. ASSUME NEW r \in Relays, Dialled(r) \/ Found(r) PROVE q \in tracked \ conn
                                      /\ UNCHANGED <<timer, redialing, lost>>
  BY <1>4 DEF Dialled, Found, Track
<1>5. ASSUME NEW r \in Relays, Disconnected(r)
      PROVE  timer'[q] = "armed" \/ q \in redialing' \cup lost'
  BY <1>5 DEF Disconnected, RedialIsPending, RelayTypeOK
<1>6. ASSUME NEW r \in Relays, TimerFires(r)
      PROVE  timer'[q] = "armed" \/ q \in redialing' \cup lost'
  BY <1>6 DEF TimerFires, RedialIsPending, RelayTypeOK
<1>7. ASSUME NEW r \in Relays, RedialOk(r)
      PROVE  timer'[q] = "armed" \/ q \in redialing' \cup lost'
  <2>1. tracked' = tracked \cup {r} /\ conn' = conn \cup {r}
    BY <1>7 DEF RedialOk, Track
  <2> QED BY <1>7, <2>1 DEF RedialOk, RedialIsPending
<1>8. ASSUME NEW r \in Relays, RedialFails(r)
      PROVE  timer'[q] = "armed" \/ q \in redialing' \cup lost'
  BY <1>8 DEF RedialFails, RedialIsPending, RelayTypeOK
<1>9. ASSUME NEW r \in Relays, StreamEnds(r) \/ PeerUp(r) \/ PeerDown(r)
      PROVE  timer'[q] = "armed" \/ q \in redialing' \cup lost'
  BY <1>9 DEF StreamEnds, PeerUp, PeerDown, RedialIsPending
<1>10. ASSUME NEW r \in Relays, Autodial(r) \/ Drop(r) \/ Break(r) \/ Expire(r)
       PROVE  timer'[q] = "armed" \/ q \in redialing' \cup lost'
  BY <1>10 DEF Autodial, Drop, Break, Expire, RedialIsPending
<1>11. ASSUME NEW r \in Relays, Dialled(r) \/ Found(r)
       PROVE  timer'[q] = "armed" \/ q \in redialing' \cup lost'
  BY <1>4, <1>11 DEF RedialIsPending
<1> QED
  BY <1>1, <1>2, <1>3, <1>5, <1>6, <1>7, <1>8, <1>9, <1>10, <1>11 DEF RelayNext

\* The invariant of the relay connections.
LEMMA RelayInvariant == RelaySpec => []RelayIInv
<1>1. RelayInit => RelayIInv
  <2> SUFFICES ASSUME RelayInit PROVE RelayIInv
    OBVIOUS
  <2>1. drops \in 0..MaxDrops /\ misses \in 0..MaxMisses /\ breaks \in 0..MaxBreaks
    BY RelayAssumption DEF RelayInit, RelayAssumption
  <2>2. RelayTypeOK
    BY <2>1 DEF RelayInit, RelayTypeOK
  <2>3. RedialIsPending
    BY DEF RelayInit, RedialIsPending
  <2> QED BY <2>2, <2>3 DEF RelayIInv
<1>2. RelayIInv /\ [RelayNext]_relayVars => RelayIInv'
  BY RelayAssumption, RelayTypeStep, PendingStep DEF RelayIInv
<1> QED BY <1>1, <1>2, PTL DEF RelaySpec

\* Every variable keeps its type.
THEOREM RelayTypeCorrect == RelaySpec => []RelayTypeOK
<1>1. RelayIInv => RelayTypeOK
  BY DEF RelayIInv
<1> QED BY <1>1, RelayInvariant, PTL

\* A relay that is known and not connected has its redial ahead: whatever the
\* order of lost connections, of the events that report them, of timers, failed
\* dials and returns of the tab, the chain of redials of peer-discovery.ts is
\* never cut while the relay is remembered.
THEOREM RedialCorrect == RelaySpec => []RedialIsPending
<1>1. RelayIInv => RedialIsPending
  BY DEF RelayIInv
<1> QED BY <1>1, RelayInvariant, PTL
=============================================================================
