--------------------------- MODULE ChainFollower ---------------------------
(***************************************************************************)
(* What the reader of a document promises about the chain of snapshots,    *)
(* with neither queue, fetches nor callers: it learns CIDs and forgets     *)
(* none; it places snapshots that are genuine and whose parent it knows by *)
(* then; it shows as the tip a snapshot it has placed, and once there is a *)
(* tip there always is one.  Its content only grows.                       *)
(*                                                                         *)
(* DocPipeline implements it: the interpreter's reducer learns and shows,  *)
(* the three callers of the ingestion place and merge.                     *)
(***************************************************************************)
CONSTANTS
  Cid,       \* snapshots
  NoCid,     \* no snapshot
  Prev,      \* the parent of each
  Genuine    \* those whose bytes and signature are good

VARIABLES
  known,     \* CIDs the chain has an entry for
  placed,    \* snapshots that passed ingestion
  merged,    \* snapshots whose content is in the document
  tip        \* the snapshot shown as the latest

vars == <<known, placed, merged, tip>>

Init == known = {} /\ placed = {} /\ merged = {} /\ tip = NoCid

Learn ==
  /\ known' \in SUBSET Cid /\ known \subseteq known'
  /\ UNCHANGED <<placed, merged, tip>>

\* A rescan places without merging; two callers may place one snapshot.
Place(c) ==
  /\ c \in Genuine
  /\ Prev[c] # NoCid => Prev[c] \in known
  /\ placed' = placed \cup {c}
  /\ merged' \in {merged, merged \cup {c}}
  /\ UNCHANGED <<known, tip>>

Show(c) ==
  /\ c \in placed
  /\ tip' = c
  /\ UNCHANGED <<known, placed, merged>>

Next == Learn \/ \E c \in Cid : Place(c) \/ Show(c)

Spec == Init /\ [][Next]_vars
=============================================================================
