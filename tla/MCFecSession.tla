---------------------------- MODULE MCFecSession ----------------------------
(* FecSession with packets of equal length, the case in which the shards of  *)
(* two packets are not told apart by their length.  Three bytes in shards of *)
(* at least two fill one shard, pad the second and leave the third empty.    *)
EXTENDS FecSession

EqualSizes == [n \in Numbers |-> 3]
=============================================================================
