--------------------------- MODULE MCDocPipeline ---------------------------
(***************************************************************************)
(* Instances of DocPipeline for TLC: a chain s1 <- s2 <- s3, in the        *)
(* network run with a second child of s1 that shares its number with s2.   *)
(* There s1 is a forgery: its bytes hash to its CID but its signature is   *)
(* bad.  In the opening run nobody can decrypt s2.                         *)
(***************************************************************************)
EXTENDS DocPipeline, TLC

CONSTANTS s1, s2, s3, fork

MCCid == {s1, s2, s3}
MCSeqNo == s1 :> 1 @@ s2 :> 2 @@ s3 :> 3
MCPrev == s1 :> NoCid @@ s2 :> s1 @@ s3 :> s2

ForkedCid == MCCid \cup {fork}
ForkedSeqNo == MCSeqNo @@ fork :> 2
ForkedPrev == MCPrev @@ fork :> s1

NoForgery == MCCid
ForgedRoot == {s2, s3, fork}
ReadableEnds == {s1, s3}
StoredPair == <<s1, s2>>
NothingStored == <<>>
NetworkFeeds == {"gossipsub", "catalog", "rescan"}
LocalFeeds == {"ipns", "http-tip", "pinner-index", "chain-walk", "cache"}
=============================================================================
