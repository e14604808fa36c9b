------------------------------ MODULE FecCodec ------------------------------
(***************************************************************************)
(* The erasure code of pkg/fec: a packet is cut into D data shards, padded *)
(* with zeros, and followed by P parity shards, each the XOR of all data   *)
(* shards.  XOR works on each bit alone, so a byte is modelled by one bit. *)
(* Shards are indexed from 1; shard D+1 is the first parity shard.         *)
(***************************************************************************)
EXTENDS Naturals, Sequences, FiniteSets

CONSTANTS
    D,          \* dataShards
    P,          \* parityShards
    MinShard    \* FEC.shardSize, the least size of a shard

ASSUME CodecAssumption ==
    /\ D \in Nat \ {0} /\ P \in Nat \ {0}
    /\ MinShard \in Nat \ {0}

Bit == {0, 1}
DataIdx == 1..D
ParityIdx == D + 1 .. D + P
ShardIdx == 1 .. D + P

\* Decode if it only counted the shards.
DecodableByCount(present) == Cardinality(present) >= D

\* Decode returns data exactly for these sets of present shards: at least D
\* of them, and at most one data shard missing.
Decodable(present) ==
    /\ Cardinality(present) >= D
    /\ Cardinality(DataIdx \ present) <= 1

\* A missing data shard is rebuilt from the other data shards and the first
\* parity shard that is present; otherwise only data shards are read.
UsedShards(present) ==
    IF DataIdx \subseteq present
    THEN DataIdx
    ELSE (DataIdx \cap present)
         \cup {i \in ParityIdx \cap present :
                 \A j \in ParityIdx \cap present : i <= j}

-----------------------------------------------------------------------------

\* ceil(len / D), at least MinShard.
ShardSize(data) ==
    LET size == (Len(data) + D - 1) \div D
    IN  IF size < MinShard THEN MinShard ELSE size

\* Column j of the given shards, XORed: the parity of its ones.
XorColumn(shards, idx, j) == Cardinality({i \in idx : shards[i][j] = 1}) % 2

\* The data shards: consecutive pieces, padded with zeros.
Cut(data, size) ==
    [i \in DataIdx |-> [j \in 1..size |->
        LET at == (i - 1) * size + j
        IN  IF at <= Len(data) THEN data[at] ELSE 0]]

\* Encode: the data shards and P copies of their XOR.
Encode(data) ==
    LET size == ShardSize(data)
        cut == Cut(data, size)
    IN  [i \in ShardIdx |->
            IF i \in DataIdx THEN cut[i]
            ELSE [j \in 1..size |-> XorColumn(cut, DataIdx, j)]]

\* Decode for a decodable set, then the trim of processFECShard.
Decode(shards, present, originalSize) ==
    LET size == Len(shards[CHOOSE i \in present : TRUE])
        used == UsedShards(present)
        whole == [i \in DataIdx |->
                    IF i \in present THEN shards[i]
                    ELSE [j \in 1..size |-> XorColumn(shards, used, j)]]
        bytes == [k \in 1 .. D * size |->
                    whole[1 + ((k - 1) \div size)][1 + ((k - 1) % size)]]
    IN  SubSeq(bytes, 1, originalSize)
=============================================================================
