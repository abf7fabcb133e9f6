--------------------------- MODULE BlockTransfer ---------------------------
(***************************************************************************)
(* What the snapshot exchange promises each peer about each snapshot, with *)
(* neither messages, chunks nor budgets: on one connection a block is      *)
(* asked for and settles, once.  A refusal lets it be asked for again; a   *)
(* complete block is checked once; one that passes is had until the        *)
(* connection ends, one that fails is never handed over.                   *)
(*                                                                         *)
(*     idle -> asked -> checking -> had                                    *)
(*       ^_______|__________|                                              *)
(*                                                                         *)
(* SnapshotExchange implements it.                                         *)
(***************************************************************************)
CONSTANTS
  Peers,     \* the peers of the exchange
  Cids,      \* snapshots
  Invalid    \* those that do not pass the check

VARIABLE stage   \* stage[p][c], on the connection there is now

Init == stage = [p \in Peers |-> [c \in Cids |-> "idle"]]

Move(p, c, from, to) ==
  /\ stage[p][c] = from
  /\ stage' = [stage EXCEPT ![p][c] = to]

\* One catalog is answered by asking for several blocks, each for the first time.
Ask(p, S) ==
  /\ \A c \in S : stage[p][c] = "idle"
  /\ stage' = [stage EXCEPT ![p] = [c \in Cids |-> IF c \in S THEN "asked" ELSE @[c]]]

Refused(p, c)  == Move(p, c, "asked", "idle")
Complete(p, c) == Move(p, c, "asked", "checking")
Passed(p, c)   == c \notin Invalid /\ Move(p, c, "checking", "had")
Failed(p, c)   == c \in Invalid /\ Move(p, c, "checking", "idle")

\* The channel goes and comes back.
Renew == stage' = [p \in Peers |-> [c \in Cids |-> "idle"]]

Next ==
  \/ Renew
  \/ \E p \in Peers :
       \/ \E S \in SUBSET Cids : Ask(p, S)
       \/ \E c \in Cids : Refused(p, c) \/ Complete(p, c) \/ Passed(p, c) \/ Failed(p, c)

Spec == Init /\ [][Next]_stage
=============================================================================
