-------------------------- MODULE FecSessionProofs --------------------------
(***************************************************************************)
(* Proofs about FecSession, for every number of data and parity shards,    *)
(* packets, session IDs and cleanups.  Decode inverts Encode for packets   *)
(* of every length.  A packet of three data shards or more is handed up at *)
(* most once, whatever number of writers share the counter: every shard is *)
(* in one place, a decode takes all data shards but one out of circulation *)
(* and a second decode would need two.  With one writer the session ID is  *)
(* the number of the packet, so that no session mixes packets, and every   *)
(* shard of a packet that was not handed up is lost, under way or in the   *)
(* session of its packet, which is then not yet decodable.  Together the   *)
(* sessions implement LossyChannel.                                        *)
(***************************************************************************)
EXTENDS FecSession, FiniteSetTheorems, SequenceTheorems, TLAPS

-----------------------------------------------------------------------------
(* Finite sets. *)

(* A finite set of numbers that is not empty has a first element. *)
LEMMA FirstOfFinite ==
  ASSUME NEW T \in SUBSET Int, IsFiniteSet(T), T # {}
  PROVE  \E x \in T : \A y \in T : x <= y
<1> DEFINE UpTo(x) == {y \in T : y <= x}
           F == {UpTo(x) : x \in T}
<1>1. F \subseteq FiniteSubsetsOf(T) /\ F # {}
  <2>1. \A x \in T : UpTo(x) \in SUBSET T OBVIOUS
  <2>2. \A x \in T : IsFiniteSet(UpTo(x)) BY <2>1, FS_Subset
  <2>3. \A x \in T : UpTo(x) \in FiniteSubsetsOf(T) BY <2>1, <2>2 DEF FiniteSubsetsOf
  <2>. QED BY <2>3
<1>2. PICK U \in F : \A V \in F : ~(<<V, U>> \in StrictSubsetOrdering(T))
  BY <1>1, FS_StrictSubsetOrderingWellFounded, WFMin
<1>3. PICK x \in T : U = UpTo(x) BY <1>2
<1>4. ASSUME NEW y \in T, y < x PROVE FALSE
  <2>1. x \in Int /\ y \in Int OBVIOUS
  <2>2. UpTo(y) \subseteq UpTo(x)
    <3> SUFFICES ASSUME NEW z \in T, z <= y PROVE z <= x
      OBVIOUS
    <3>1. z \in Int OBVIOUS
    <3>. QED BY <1>4, <2>1, <3>1
  <2>3. x \in UpTo(x) /\ x \notin UpTo(y) BY <1>4, <2>1
  <2>4. <<UpTo(y), U>> \in StrictSubsetOrdering(T)
    BY <1>3, <2>2, <2>3 DEF StrictSubsetOrdering
  <2>5. UpTo(y) \in F OBVIOUS
  <2>. QED BY <1>2, <2>4, <2>5
<1>. QED BY <1>4

(* Two elements of a set of at most one element are the same. *)
LEMMA AtMostOne ==
  ASSUME NEW S, IsFiniteSet(S), Cardinality(S) <= 1, NEW x \in S, NEW y \in S
  PROVE  x = y
<1> SUFFICES ASSUME x # y PROVE FALSE
  OBVIOUS
<1>1. IsFiniteSet({x}) /\ Cardinality({x}) = 1 BY FS_Singleton
<1>2. IsFiniteSet({x} \cup {y}) /\ Cardinality({x} \cup {y}) = 2
  <2>1. y \notin {x} OBVIOUS
  <2>. QED BY <1>1, <2>1, FS_AddElement
<1>3. {x} \cup {y} \in SUBSET S OBVIOUS
<1>. QED BY <1>2, <1>3, FS_Subset, FS_CardinalityType

-----------------------------------------------------------------------------
(* Which sets of shards decode. *)

(* The indices of data and parity shards. *)
LEMMA IndexSets ==
  /\ IsFiniteSet(DataIdx) /\ Cardinality(DataIdx) = D
  /\ IsFiniteSet(ShardIdx) /\ IsFiniteSet(ParityIdx)
  /\ ShardIdx = DataIdx \cup ParityIdx /\ DataIdx \cap ParityIdx = {}
  /\ DataIdx \subseteq Int /\ ParityIdx \subseteq Int
<1> USE CodecAssumption
<1>1. IsFiniteSet(DataIdx) /\ Cardinality(DataIdx) = D
  BY FS_Interval DEF DataIdx
<1>2. IsFiniteSet(ShardIdx) /\ IsFiniteSet(ParityIdx)
  BY FS_Interval DEF ShardIdx, ParityIdx
<1>3. ShardIdx = DataIdx \cup ParityIdx /\ DataIdx \cap ParityIdx = {}
  BY DEF DataIdx, ParityIdx, ShardIdx
<1>. QED BY <1>1, <1>2, <1>3 DEF DataIdx, ParityIdx

(* Decodable sets lack at most one data shard. *)
LEMMA MissingIsUnique ==
  ASSUME NEW present \in SUBSET ShardIdx, Decodable(present),
         NEW i \in DataIdx \ present, NEW j \in DataIdx \ present
  PROVE  i = j
<1>1. IsFiniteSet(DataIdx \ present) BY IndexSets, FS_Difference
<1>. QED BY <1>1, AtMostOne DEF Decodable

(* More shards never keep Decode from working. *)
LEMMA DecodableMonotone ==
  ASSUME NEW S \in SUBSET ShardIdx, NEW T \in SUBSET ShardIdx, S \subseteq T, Decodable(S)
  PROVE  Decodable(T)
<1>1. IsFiniteSet(T) /\ IsFiniteSet(S) BY IndexSets, FS_Subset
<1>2. Cardinality(S) <= Cardinality(T) /\ Cardinality(S) \in Nat /\ Cardinality(T) \in Nat
  BY <1>1, FS_Subset, FS_CardinalityType
<1>3. IsFiniteSet(DataIdx \ S) /\ DataIdx \ T \in SUBSET (DataIdx \ S)
  BY IndexSets, FS_Difference
<1>4. /\ Cardinality(DataIdx \ T) <= Cardinality(DataIdx \ S)
      /\ Cardinality(DataIdx \ T) \in Nat /\ Cardinality(DataIdx \ S) \in Nat
  BY <1>3, FS_Subset, FS_CardinalityType
<1>. QED BY <1>2, <1>4, CodecAssumption DEF Decodable

(* Decode reads all data shards, or all but one and exactly one parity shard. *)
LEMMA WhatIsUsed ==
  ASSUME NEW present \in SUBSET ShardIdx, Decodable(present)
  PROVE  \/ DataIdx \subseteq present /\ UsedShards(present) = DataIdx
         \/ \E m \in DataIdx \ present, q \in ParityIdx \cap present :
               UsedShards(present) = (DataIdx \ {m}) \cup {q}
<1>1. CASE DataIdx \subseteq present BY <1>1 DEF UsedShards
<1>2. CASE ~(DataIdx \subseteq present)
  <2>1. PICK m \in DataIdx : m \notin present BY <1>2
  <2>2. \A i \in DataIdx : i # m => i \in present BY <2>1, MissingIsUnique
  <2>3. DataIdx \cap present = DataIdx \ {m} BY <2>1, <2>2
  <2>4. ParityIdx \cap present # {}
    <3> SUFFICES ASSUME ParityIdx \cap present = {} PROVE FALSE
      OBVIOUS
    <3>1. present = DataIdx \ {m} BY <2>3, IndexSets
    <3>2. Cardinality(present) = D - 1 BY <3>1, IndexSets, FS_RemoveElement
    <3>. QED BY <3>2, CodecAssumption DEF Decodable
  <2> DEFINE T == ParityIdx \cap present
  <2>5. IsFiniteSet(T) /\ T \in SUBSET Int BY IndexSets, FS_Subset
  <2>6. PICK q \in T : \A y \in T : q <= y BY <2>4, <2>5, FirstOfFinite
  <2>7. {i \in T : \A j \in T : i <= j} = {q} BY <2>5, <2>6
  <2>. QED BY <1>2, <2>1, <2>3, <2>6, <2>7 DEF UsedShards
<1>. QED BY <1>1, <1>2

(* Decode reads only shards that are present, and reads some. *)
LEMMA UsedArePresent ==
  ASSUME NEW present \in SUBSET ShardIdx, Decodable(present)
  PROVE  UsedShards(present) \subseteq present /\ UsedShards(present) # {}
<1>1. UsedShards(present) \subseteq present BY DEF UsedShards
<1>2. DataIdx # {} BY CodecAssumption DEF DataIdx
<1>. QED BY <1>1, <1>2, WhatIsUsed

-----------------------------------------------------------------------------
(* Decode inverts Encode. *)

(* Division with remainder. *)
LEMMA DivMod ==
  ASSUME NEW a \in Int, NEW b \in Nat \ {0}
  PROVE  /\ a \div b \in Int /\ a % b \in 0 .. b - 1
         /\ a = b * (a \div b) + (a % b)
  OBVIOUS

(* The shards are long enough for the data. *)
LEMMA ShardsHoldData ==
  ASSUME NEW len \in Nat, NEW data \in [1..len -> Bit]
  PROVE  Len(data) = len /\ ShardSize(data) \in Nat \ {0} /\ len <= D * ShardSize(data)
<1> USE CodecAssumption
<1> DEFINE even == (len + D - 1) \div D
<1>1. Len(data) = len OBVIOUS
<1>2. len + D - 1 \in Int OBVIOUS
<1>3. len + D - 1 = D * even + ((len + D - 1) % D) /\ (len + D - 1) % D \in 0 .. D - 1
      /\ even \in Int
  BY <1>2, DivMod
<1>4. D * even >= len BY <1>3
<1>5. even \in Nat BY <1>3, <1>4
<1>6. CASE even < MinShard
  <2>1. ShardSize(data) = MinShard BY <1>1, <1>6 DEF ShardSize
  <2>2. D * even <= D * MinShard BY <1>5, <1>6
  <2>. QED BY <1>1, <1>4, <1>5, <2>1, <2>2
<1>7. CASE ~(even < MinShard)
  <2>1. ShardSize(data) = even BY <1>1, <1>7 DEF ShardSize
  <2>. QED BY <1>1, <1>4, <1>5, <1>7, <2>1
<1>. QED BY <1>6, <1>7

(* Byte k of the data is in its place in the shards. *)
LEMMA PlaceOfByte ==
  ASSUME NEW size \in Nat \ {0}, NEW k \in 1 .. D * size
  PROVE  /\ 1 + ((k - 1) \div size) \in DataIdx
         /\ 1 + ((k - 1) % size) \in 1..size
         /\ ((k - 1) \div size) * size + (1 + ((k - 1) % size)) = k
<1> USE CodecAssumption
<1> DEFINE q == (k - 1) \div size
<1>1. k \in Int /\ k - 1 \in Int /\ D * size \in Int OBVIOUS
<1>2. k - 1 = size * q + ((k - 1) % size) /\ (k - 1) % size \in 0 .. size - 1 /\ q \in Int
  BY <1>1, DivMod
<1>3. size * q < size * D BY <1>1, <1>2
<1>4. q < D BY <1>2, <1>3
<1>5. q >= 0 BY <1>1, <1>2
<1>6. 1 + q \in DataIdx BY <1>2, <1>4, <1>5 DEF DataIdx
<1>. QED BY <1>1, <1>2, <1>6

(* The XOR of all data shards but one and the parity is the one that is missing. *)
LEMMA XorRestores ==
  ASSUME NEW S, IsFiniteSet(S), NEW m, NEW q, q \notin S,
         NEW parity, parity = Cardinality(S) % 2
  PROVE  Cardinality((S \ {m}) \cup (IF parity = 1 THEN {q} ELSE {})) % 2
           = IF m \in S THEN 1 ELSE 0
<1> DEFINE c == Cardinality(S)
<1>1. c \in Nat BY FS_CardinalityType
<1>2. IsFiniteSet(S \ {m}) /\ Cardinality(S \ {m}) = IF m \in S THEN c - 1 ELSE c
  BY FS_RemoveElement
<1>3. CASE parity = 1
  <2>1. Cardinality((S \ {m}) \cup {q}) = (IF m \in S THEN c - 1 ELSE c) + 1
    BY <1>2, FS_AddElement
  <2>2. c % 2 = 1 BY <1>3
  <2>. QED BY <1>1, <1>3, <2>1, <2>2
<1>4. CASE parity # 1
  <2>1. c % 2 = 0 BY <1>1, <1>4
  <2>2. (S \ {m}) \cup {} = S \ {m} OBVIOUS
  <2>3. m \in S => c # 0 BY FS_EmptySet
  <2>. QED BY <1>1, <1>2, <1>4, <2>1, <2>2, <2>3
<1>. QED BY <1>3, <1>4

(* The shards of a packet: the pieces, and their XOR for every parity shard. *)
LEMMA EncodedShards ==
  ASSUME NEW len \in Nat, NEW data \in [1..len -> Bit]
  PROVE  LET size == ShardSize(data)
             cut == Cut(data, size)
         IN  /\ \A i \in DataIdx : cut[i] \in [1..size -> Bit] /\ Encode(data)[i] = cut[i]
             /\ \A q \in ParityIdx : \A j \in 1..size :
                  Encode(data)[q][j] = XorColumn(cut, DataIdx, j)
             /\ \A i \in ShardIdx : Len(Encode(data)[i]) = size
<1> USE CodecAssumption
<1> DEFINE size == ShardSize(data)
           cut == Cut(data, size)
<1>1. Len(data) = len /\ size \in Nat \ {0}
  BY ShardsHoldData
<1>2. ASSUME NEW i \in DataIdx PROVE cut[i] \in [1..size -> Bit]
  <2>1. ASSUME NEW j \in 1..size, (i - 1) * size + j <= len
        PROVE  (i - 1) * size + j \in 1..len
    <3>1. i - 1 \in Nat BY DEF DataIdx
    <3>2. (i - 1) * size \in Nat BY <1>1, <3>1
    <3>. QED BY <1>1, <2>1, <3>2
  <2>. QED BY <1>1, <2>1 DEF Cut, Bit
<1>3. ASSUME NEW i \in DataIdx PROVE Encode(data)[i] = cut[i]
  BY IndexSets DEF Encode
<1>4. ASSUME NEW q \in ParityIdx
      PROVE  Encode(data)[q] = [j \in 1..size |-> XorColumn(cut, DataIdx, j)]
  BY IndexSets DEF Encode
<1>5. ASSUME NEW j \in 1..size PROVE XorColumn(cut, DataIdx, j) \in Bit
  <2>1. Cardinality({i \in DataIdx : cut[i][j] = 1}) \in Nat
    BY IndexSets, FS_Subset, FS_CardinalityType
  <2>. QED BY <2>1 DEF XorColumn, Bit
<1>6. ASSUME NEW i \in ShardIdx PROVE Len(Encode(data)[i]) = size
  <2>1. Encode(data)[i] \in [1..size -> Bit]
    BY <1>2, <1>3, <1>4, <1>5, IndexSets, ZenonT(40)
  <2>. QED BY <1>1, <2>1
<1>. QED BY <1>2, <1>3, <1>4, <1>6

(* The shard that is missing is the XOR of the shards Decode reads. *)
LEMMA MissingIsRestored ==
  ASSUME NEW len \in Nat, NEW data \in [1..len -> Bit],
         NEW present \in SUBSET ShardIdx, Decodable(present),
         NEW i \in DataIdx, i \notin present, NEW j \in 1..ShardSize(data)
  PROVE  XorColumn(Encode(data), UsedShards(present), j) = Cut(data, ShardSize(data))[i][j]
<1> DEFINE cut == Cut(data, ShardSize(data))
           shards == Encode(data)
           ones == {d \in DataIdx : cut[d][j] = 1}
<1>1. PICK m \in DataIdx \ present, q \in ParityIdx \cap present :
         UsedShards(present) = (DataIdx \ {m}) \cup {q}
  BY WhatIsUsed
<1>2. m = i BY <1>1, MissingIsUnique
<1>3. \A d \in DataIdx : shards[d] = cut[d] /\ cut[d] \in [1..ShardSize(data) -> Bit]
  BY EncodedShards
<1>4. shards[q][j] = Cardinality(ones) % 2
  BY <1>1, EncodedShards DEF XorColumn
<1>5. IsFiniteSet(ones) /\ q \notin ones
  BY <1>1, IndexSets, FS_Subset
<1> DEFINE restored == (ones \ {i}) \cup (IF shards[q][j] = 1 THEN {q} ELSE {})
<1>6. {d \in UsedShards(present) : shards[d][j] = 1} = restored
  BY <1>1, <1>2, <1>3, IndexSets
<1>7. Cardinality(restored) % 2 = IF i \in ones THEN 1 ELSE 0
  BY <1>4, <1>5, XorRestores, ZenonT(40)
<1>8. XorColumn(shards, UsedShards(present), j) = IF i \in ones THEN 1 ELSE 0
  BY <1>6, <1>7 DEF XorColumn
<1>9. cut[i][j] \in {0, 1} BY <1>3 DEF Bit
<1>. QED BY <1>8, <1>9

(* Decode returns what Encode was given, for packets of every length and every *)
(* set of shards it works with.                                                *)
LEMMA DecodeInvertsEncode ==
  ASSUME NEW len \in Nat, NEW data \in [1..len -> Bit],
         NEW present \in SUBSET ShardIdx, Decodable(present)
  PROVE  Decode(Encode(data), present, Len(data)) = data
<1> USE CodecAssumption
<1> DEFINE shards == Encode(data)
           size == Len(shards[CHOOSE i \in present : TRUE])
           used == UsedShards(present)
           whole == [i \in DataIdx |->
                       IF i \in present THEN shards[i]
                       ELSE [j \in 1..size |-> XorColumn(shards, used, j)]]
           bytes == [k \in 1 .. D * size |->
                       whole[1 + ((k - 1) \div size)][1 + ((k - 1) % size)]]
           cut == Cut(data, size)
<1>1. Len(data) = len /\ ShardSize(data) \in Nat \ {0} /\ len <= D * ShardSize(data)
  BY ShardsHoldData
<1>2. size = ShardSize(data)
  <2>1. present # {}
    <3> SUFFICES ASSUME present = {} PROVE FALSE
      OBVIOUS
    <3>1. Cardinality(present) = 0 BY FS_EmptySet
    <3>. QED BY <3>1 DEF Decodable
  <2>. QED BY <2>1, EncodedShards
<1>3. Decode(shards, present, Len(data)) = SubSeq(bytes, 1, Len(data))
  BY DEF Decode
<1> HIDE DEF size, bytes, shards
<1>4. ASSUME NEW i \in DataIdx PROVE whole[i] = cut[i]
  <2>1. CASE i \in present BY <1>2, <2>1, EncodedShards DEF shards
  <2>2. CASE i \notin present
    <3>1. \A j \in 1..size : XorColumn(shards, used, j) = cut[i][j]
      BY <1>2, <2>2, MissingIsRestored DEF shards
    <3>2. cut[i] \in [1..size -> Bit] BY <1>2, EncodedShards
    <3>3. whole[i] = [j \in 1..size |-> XorColumn(shards, used, j)] BY <2>2
    <3>. QED BY <3>1, <3>2, <3>3
  <2>. QED BY <2>1, <2>2
<1> HIDE DEF whole
<1>5. ASSUME NEW k \in 1..len PROVE bytes[k] = data[k]
  <2>1. k \in 1 .. D * size BY <1>1, <1>2
  <2> DEFINE i == 1 + ((k - 1) \div size)
             j == 1 + ((k - 1) % size)
  <2>2. i \in DataIdx /\ j \in 1..size /\ ((k - 1) \div size) * size + j = k
    BY <1>1, <1>2, <2>1, PlaceOfByte
  <2>3. (i - 1) * size + j = k
    <3>1. (k - 1) \div size \in Int BY <1>1, <1>2
    <3>2. i - 1 = (k - 1) \div size BY <3>1
    <3>. QED BY <2>2, <3>2
  <2>4. bytes[k] = whole[i][j] BY <2>1 DEF bytes
  <2> HIDE DEF i, j
  <2>5. cut[i][j] = data[k] BY <1>1, <2>2, <2>3 DEF Cut
  <2>. QED BY <1>4, <2>2, <2>4, <2>5
<1>6. /\ SubSeq(bytes, 1, len) \in Seq(Bit) /\ Len(SubSeq(bytes, 1, len)) = len
      /\ \A k \in 1..len : SubSeq(bytes, 1, len)[k] = data[k]
  <2>1. \A k \in 1..len : bytes[k] \in Bit BY <1>5
  <2>2. /\ SubSeq(bytes, 1, len) \in Seq(Bit)
        /\ Len(SubSeq(bytes, 1, len)) = IF 1 <= len THEN len - 1 + 1 ELSE 0
        /\ \A k \in 1 .. len - 1 + 1 : SubSeq(bytes, 1, len)[k] = bytes[1 + k - 1]
    BY <2>1, SubSeqProperties
  <2>. QED BY <1>5, <2>2
<1>7. data \in Seq(Bit) OBVIOUS
<1>8. SubSeq(bytes, 1, len) = data BY <1>1, <1>6, <1>7, SeqEqual
<1>. QED BY <1>1, <1>3, <1>8 DEF shards

-----------------------------------------------------------------------------
(* Types. *)

(* What a session contains. *)
LEMMA ContentsAre ==
  ASSUME NEW got
  PROVE  got \in Contents <=> DOMAIN got \subseteq ShardIdx /\ got \in [DOMAIN got -> Numbers]
  BY DEF Contents

(* A shard is added to a session. *)
LEMMA WithShardType ==
  ASSUME NEW session \in Sessions, NEW s \in Shards
  PROVE  /\ DOMAIN WithShard(session, s) = DOMAIN session.got \cup {s.i}
         /\ WithShard(session, s) \in Contents
         /\ DOMAIN session.got \subseteq ShardIdx
         /\ \A i \in DOMAIN session.got : WithShard(session, s)[i] = session.got[i]
         /\ s.i \notin DOMAIN session.got => WithShard(session, s)[s.i] = s.n
<1> DEFINE got == WithShard(session, s)
<1>1. DOMAIN session.got \subseteq ShardIdx /\ session.got \in [DOMAIN session.got -> Numbers]
  BY ContentsAre DEF Sessions
<1>2. s.i \in ShardIdx /\ s.n \in Numbers BY DEF Shards
<1>3. DOMAIN got = DOMAIN session.got \cup {s.i} BY DEF WithShard
<1>4. got \in [DOMAIN got -> Numbers] BY <1>1, <1>2, <1>3 DEF WithShard
<1>5. got \in Contents BY <1>1, <1>2, <1>3, <1>4, ContentsAre
<1>. QED BY <1>1, <1>3, <1>5 DEF WithShard

\* A writer that has read the counter has a packet to send, and a reader that
\* has a shard in hand has a session for it.
HandInv ==
    \A p \in Peers :
        /\ read[p] # None => sent[p] < MaxPackets
        /\ inHand[p] # None => /\ inHand[p].to = p
                               /\ orphan[p] = None <=> sessions[p][inHand[p].id] # None
        /\ orphan[p] # None => inHand[p] # None

(* The session a reader holds. *)
LEMMA HeldType ==
  ASSUME TypeOK, HandInv, NEW p \in Peers, inHand[p] # None
  PROVE  Held(p) \in Sessions /\ inHand[p] \in Shards /\ inHand[p].id \in Ids
<1>1. inHand[p] \in Shards BY DEF TypeOK
<1>2. inHand[p].id \in Ids BY <1>1 DEF Shards
<1>. QED BY <1>1, <1>2 DEF TypeOK, HandInv, Held

(* The session after a shard was added. *)
LEMMA AfterAddType ==
  ASSUME NEW session \in Sessions, NEW got \in Contents
  PROVE  /\ AfterAdd(session, got) \in Sessions \cup {None}
         /\ AfterAdd(session, got) = None <=> Decodable(DOMAIN got)
         /\ ~ Decodable(DOMAIN got) => AfterAdd(session, got).got = got
                                      /\ AfterAdd(session, got).size = session.size
<1>1. [session EXCEPT !.got = got] \in Sessions
  BY DEF Sessions
<1>2. [session EXCEPT !.got = got] # None BY <1>1, SessionAssumption
<1>3. [session EXCEPT !.got = got].got = got /\ [session EXCEPT !.got = got].size = session.size
  BY DEF Sessions
<1>. QED BY <1>1, <1>2, <1>3 DEF AfterAdd

(* Before the first packet. *)
LEMMA FecInit == Init => TypeOK /\ HandInv
<1> SUFFICES ASSUME Init PROVE TypeOK /\ HandInv
  OBVIOUS
<1> USE SessionAssumption
<1>1. /\ counter \in Ids /\ read \in [Peers -> Ids \cup {None}]
      /\ sent \in [Peers -> 0..MaxPackets] /\ cleanups \in 0..MaxCleanups
  BY DEF Init, Ids
<1>2. net \subseteq Shards /\ lost \subseteq Shards BY DEF Init
<1>3. /\ sessions \in [Peers -> [Ids -> Sessions \cup {None}]]
      /\ inHand \in [Peers -> Shards \cup {None}] /\ orphan \in [Peers -> Sessions \cup {None}]
  BY DEF Init
<1>4. delivered \in [Peers -> [Numbers -> Nat]] /\ garbage \in BOOLEAN
  BY DEF Init
<1>. QED BY <1>1, <1>2, <1>3, <1>4 DEF TypeOK, HandInv, Init

(* Every step keeps the types, and that a shard in hand has a session. *)
LEMMA FecTypes == TypeOK /\ HandInv /\ [Next]_vars => TypeOK' /\ HandInv'
<1> SUFFICES ASSUME TypeOK, HandInv, [Next]_vars PROVE TypeOK' /\ HandInv'
  OBVIOUS
<1> USE SessionAssumption
<1>1. ASSUME NEW p \in Peers, ReadCounter(p) PROVE TypeOK' /\ HandInv'
  BY <1>1 DEF ReadCounter, TypeOK, HandInv, recvVars
<1>2. ASSUME NEW p \in Peers, SendShards(p) PROVE TypeOK' /\ HandInv'
  <2>1. read[p] \in Ids /\ read[p] \in Nat BY <1>2 DEF SendShards, TypeOK, Ids
  <2>2. counter' \in Ids BY <1>2, <2>1 DEF SendShards, Ids
  <2>3. sent' \in [Peers -> 0..MaxPackets] /\ sent'[p] \in Numbers
    BY <1>2 DEF SendShards, TypeOK, HandInv, Numbers
  <2>4. net' \subseteq Shards
    BY <1>2, <2>1, <2>3 DEF SendShards, TypeOK, Shards
  <2>. QED BY <1>2, <2>2, <2>3, <2>4 DEF SendShards, TypeOK, HandInv, recvVars
<1>3. ASSUME NEW p \in Peers, AddShard(p) PROVE TypeOK' /\ HandInv'
  <2> DEFINE s == inHand[p]
             got == WithShard(Held(p), s)
             src == Sources(got)
  <2>1. inHand[p] # None /\ inHand' = [inHand EXCEPT ![p] = None]
        /\ orphan' = [orphan EXCEPT ![p] = None]
    BY <1>3 DEF AddShard
  <2>2. Held(p) \in Sessions /\ s \in Shards /\ s.id \in Ids /\ got \in Contents
    BY <2>1, HeldType, WithShardType
  <2>3. AfterAdd(Held(p), got) \in Sessions \cup {None} BY <2>2, AfterAddType
  <2>4. sessions' \in [Peers -> [Ids -> Sessions \cup {None}]]
    <3> HIDE DEF got
    <3>1. sessions' = sessions \/ sessions' = [sessions EXCEPT ![p][s.id] = AfterAdd(Held(p), got)]
      BY <1>3 DEF AddShard, got
    <3>2. CASE sessions' = sessions BY <3>2 DEF TypeOK
    <3>3. CASE sessions' = [sessions EXCEPT ![p][s.id] = AfterAdd(Held(p), got)]
      <4> DEFINE new == AfterAdd(Held(p), got)
      <4> HIDE DEF new
      <4>1. new \in Sessions \cup {None} BY <2>3 DEF new
      <4>2. sessions' = [sessions EXCEPT ![p][s.id] = new] BY <3>3 DEF new
      <4>. QED BY <2>2, <4>1, <4>2 DEF TypeOK
    <3>. QED BY <3>1, <3>2, <3>3
  <2>5. delivered' \in [Peers -> [Numbers -> Nat]] /\ garbage' \in BOOLEAN
    <3> HIDE DEF got, src
    <3>1. \/ delivered' = delivered
          \/ delivered' = [delivered EXCEPT ![p] =
                              [n \in Numbers |-> IF n \in src THEN @[n] + 1 ELSE @[n]]]
      BY <1>3 DEF AddShard, got, src
    <3>2. garbage' = garbage \/ garbage' = TRUE BY <1>3 DEF AddShard
    <3>3. [n \in Numbers |-> IF n \in src THEN delivered[p][n] + 1 ELSE delivered[p][n]]
            \in [Numbers -> Nat]
      BY DEF TypeOK
    <3>5. delivered' \in [Peers -> [Numbers -> Nat]] BY <3>1, <3>3 DEF TypeOK
    <3>4. garbage' \in BOOLEAN BY <3>2 DEF TypeOK
    <3>. QED BY <3>4, <3>5
  <2>6. TypeOK' BY <1>3, <2>1, <2>4, <2>5 DEF AddShard, TypeOK
  <2>7. ASSUME NEW r \in Peers, r # p
        PROVE  inHand'[r] = inHand[r] /\ orphan'[r] = orphan[r] /\ sessions'[r] = sessions[r]
    BY <1>3, <2>1, <2>7 DEF AddShard, TypeOK
  <2>8. inHand'[p] = None /\ orphan'[p] = None BY <2>1 DEF TypeOK
  <2>9. read' = read /\ sent' = sent BY <1>3 DEF AddShard
  <2>. QED BY <2>6, <2>7, <2>8, <2>9 DEF HandInv
<1>4. ASSUME NEW s \in net, Lose(s) PROVE TypeOK' /\ HandInv'
  BY <1>4 DEF Lose, TypeOK, HandInv, recvVars
<1>5. ASSUME NEW s \in net, LookUp(s) PROVE TypeOK' /\ HandInv'
  <2>1. s \in Shards /\ s.to \in Peers /\ s.id \in Ids /\ s.n \in Numbers
    BY DEF TypeOK, Shards
  <2>2. [size |-> Size[s.n], got |-> Empty] \in Sessions
    <3>1. Size[s.n] \in Nat BY <2>1 DEF Numbers
    <3>2. Empty \in Contents
      <4>1. Empty \in [{} -> Numbers] BY DEF Empty
      <4>. QED BY <4>1 DEF Contents
    <3>. QED BY <3>1, <3>2 DEF Sessions
  <2>3. CASE sessions[s.to][s.id] # None
    <3>1. /\ inHand' = [inHand EXCEPT ![s.to] = s] \/ inHand' = [inHand EXCEPT ![s.to] = None]
          /\ UNCHANGED sessions
      BY <1>5, <2>3 DEF LookUp
    <3>2. inHand[s.to] = None /\ orphan[s.to] = None BY <1>5, <2>1 DEF LookUp, HandInv
    <3>3. TypeOK' BY <1>5, <2>1, <3>1 DEF LookUp, TypeOK
    <3>4. HandInv' BY <1>5, <2>1, <2>3, <3>1, <3>2 DEF LookUp, TypeOK, HandInv
    <3>. QED BY <3>3, <3>4
  <2>4. CASE sessions[s.to][s.id] = None
    <3>1. /\ inHand' = [inHand EXCEPT ![s.to] = s]
          /\ sessions' = [sessions EXCEPT ![s.to][s.id] = [size |-> Size[s.n], got |-> Empty]]
      BY <1>5, <2>4 DEF LookUp
    <3>2. inHand[s.to] = None /\ orphan[s.to] = None BY <1>5, <2>1 DEF LookUp, HandInv
    <3>3. sessions' \in [Peers -> [Ids -> Sessions \cup {None}]]
      BY <2>1, <2>2, <3>1 DEF TypeOK
    <3>4. TypeOK' BY <1>5, <2>1, <3>1, <3>3 DEF LookUp, TypeOK
    <3>5. sessions'[s.to][s.id] # None BY <2>1, <2>2, <3>1 DEF TypeOK
    <3>. QED BY <1>5, <2>1, <3>1, <3>2, <3>4, <3>5 DEF LookUp, TypeOK, HandInv
  <2>. QED BY <2>3, <2>4
<1>6. ASSUME NEW p \in Peers, NEW k \in Ids, Cleanup(p, k) PROVE TypeOK' /\ HandInv'
  <2>1. /\ sessions[p][k] \in Sessions
        /\ sessions' = [sessions EXCEPT ![p][k] = None]
    BY <1>6 DEF Cleanup, TypeOK
  <2>2. orphan' \in {orphan, [orphan EXCEPT ![p] = sessions[p][k]]}
    BY <1>6 DEF Cleanup
  <2>3. TypeOK' BY <1>6, <2>1, <2>2 DEF Cleanup, TypeOK
  <2>4. HandInv'
    <3> SUFFICES ASSUME NEW r \in Peers
                 PROVE  /\ inHand[r] # None =>
                              /\ inHand[r].to = r
                              /\ orphan'[r] = None <=> sessions'[r][inHand[r].id] # None
                        /\ orphan'[r] # None => inHand[r] # None
      BY <1>6 DEF Cleanup, HandInv
    <3>1. CASE r # p BY <2>1, <2>2, <3>1 DEF HandInv, TypeOK
    <3>2. CASE r = p /\ inHand[p] # None /\ inHand[p].id = k
      BY <1>6, <2>1, <3>2 DEF Cleanup, HandInv, TypeOK
    <3>3. CASE r = p /\ ~(inHand[p] # None /\ inHand[p].id = k)
      <4>1. orphan' = orphan BY <1>6, <3>3 DEF Cleanup
      <4>. QED BY <2>1, <3>3, <4>1 DEF HandInv, TypeOK, Shards
    <3>. QED BY <3>1, <3>2, <3>3
  <2>. QED BY <2>3, <2>4
<1>7. CASE UNCHANGED vars BY <1>7 DEF vars, TypeOK, HandInv
<1>. QED BY <1>1, <1>2, <1>3, <1>4, <1>5, <1>6, <1>7 DEF Next

-----------------------------------------------------------------------------
(* A packet is handed up at most once. *)

\* Where a shard of packet n with index i still is: under way to p, in the hand
\* of p's reader, or in a session of p.
InNet(p, n, i) == \E s \in net : s.to = p /\ s.n = n /\ s.i = i
InHand(p, n, i) == inHand[p] # None /\ inHand[p].n = n /\ inHand[p].i = i
Has(session, n, i) == session # None /\ i \in DOMAIN session.got /\ session.got[i] = n
Stored(p, n, i) == Has(orphan[p], n, i) \/ \E k \in Ids : Has(sessions[p][k], n, i)
Left(p, n, i) == InNet(p, n, i) \/ InHand(p, n, i) \/ Stored(p, n, i)

\* A shard is in one place, and belongs to a packet that was sent.
OnePlace ==
    /\ \A s, t \in net : s.to = t.to /\ s.n = t.n /\ s.i = t.i => s = t
    /\ \A p \in Peers, n \in Numbers, i \in ShardIdx :
         /\ Left(p, n, i) => n <= sent[p]
         /\ InNet(p, n, i) => ~ InHand(p, n, i) /\ ~ Stored(p, n, i)
         /\ InHand(p, n, i) => ~ Stored(p, n, i)
         /\ \A k \in Ids : Has(sessions[p][k], n, i) =>
              /\ ~ Has(orphan[p], n, i)
              /\ \A j \in Ids : Has(sessions[p][j], n, i) => j = k

\* Of a packet that was handed up at most one data shard is left.
LittleLeft ==
    \A p \in Peers, n \in Numbers : delivered[p][n] >= 1 =>
        /\ n <= sent[p]
        /\ \A i, j \in DataIdx : Left(p, n, i) /\ Left(p, n, j) => i = j

(* Data shards that are present are read. *)
LEMMA DataIsUsed ==
  ASSUME NEW present, NEW i \in DataIdx \cap present
  PROVE  i \in UsedShards(present)
  BY DEF UsedShards

(* With three data shards or more, two of them are in every decodable set. *)
LEMMA TwoArePresent ==
  ASSUME D >= 3, NEW present \in SUBSET ShardIdx, Decodable(present)
  PROVE  \E i, j \in DataIdx \cap present : i # j
<1>1. 1 \in DataIdx /\ 2 \in DataIdx /\ 3 \in DataIdx BY CodecAssumption DEF DataIdx
<1>2. ~(1 \notin present /\ 2 \notin present) BY <1>1, MissingIsUnique
<1>3. ~(1 \notin present /\ 3 \notin present) BY <1>1, MissingIsUnique
<1>4. ~(2 \notin present /\ 3 \notin present) BY <1>1, MissingIsUnique
<1>. QED BY <1>1, <1>2, <1>3, <1>4

(* What AddShard does to the places of shards: the one in hand goes into the   *)
(* session, which goes altogether if it decodes.                               *)
LEMMA AddShardMoves ==
  ASSUME TypeOK, HandInv, NEW p \in Peers, AddShard(p)
  PROVE  /\ net' = net /\ sent' = sent
         /\ \A r \in Peers : r # p => /\ inHand'[r] = inHand[r] /\ orphan'[r] = orphan[r]
                                     /\ sessions'[r] = sessions[r]
         /\ inHand'[p] = None /\ orphan'[p] = None
         /\ \A k \in Ids : k # inHand[p].id \/ orphan[p] # None =>
              sessions'[p][k] = sessions[p][k]
         /\ orphan[p] = None => sessions'[p][inHand[p].id] =
              AfterAdd(Held(p), WithShard(Held(p), inHand[p]))
<1>1. inHand[p] # None BY DEF AddShard
<1>2. inHand[p].id \in Ids BY <1>1, HeldType
<1>3. CASE orphan[p] # None BY <1>2, <1>3 DEF AddShard, TypeOK
<1>4. CASE orphan[p] = None
  <2> DEFINE new == AfterAdd(Held(p), WithShard(Held(p), inHand[p]))
  <2>1. sessions' = [sessions EXCEPT ![p][inHand[p].id] = new] BY <1>4 DEF AddShard
  <2> HIDE DEF new
  <2>2. /\ \A r \in Peers : r # p => sessions'[r] = sessions[r]
        /\ \A k \in Ids : k # inHand[p].id => sessions'[p][k] = sessions[p][k]
        /\ sessions'[p][inHand[p].id] = new
    BY <1>2, <2>1 DEF TypeOK
  <2>3. /\ net' = net /\ sent' = sent
        /\ inHand' = [inHand EXCEPT ![p] = None] /\ orphan' = [orphan EXCEPT ![p] = None]
    BY DEF AddShard
  <2>. QED BY <1>4, <2>2, <2>3 DEF TypeOK, new
<1>. QED BY <1>3, <1>4

(* The shards of the session that AddShard completes were left before. *)
LEMMA GotWasLeft ==
  ASSUME TypeOK, HandInv, NEW p \in Peers, inHand[p] # None,
         NEW i \in DOMAIN WithShard(Held(p), inHand[p])
  PROVE  LET n == WithShard(Held(p), inHand[p])[i]
         IN  Has(Held(p), n, i) \/ InHand(p, n, i)
<1>1. Held(p) \in Sessions /\ inHand[p] \in Shards BY HeldType
<1>2. Held(p) # None BY <1>1, SessionAssumption
<1>3. CASE i \in DOMAIN Held(p).got BY <1>1, <1>2, <1>3, WithShardType DEF Has
<1>4. CASE i \notin DOMAIN Held(p).got
  <2>1. DOMAIN WithShard(Held(p), inHand[p]) = DOMAIN Held(p).got \cup {inHand[p].i}
    BY <1>1, WithShardType
  <2>2. i = inHand[p].i BY <1>4, <2>1
  <2>3. WithShard(Held(p), inHand[p])[i] = inHand[p].n BY <1>1, <1>4, <2>2, WithShardType
  <2>. QED BY <2>2, <2>3 DEF InHand
<1>. QED BY <1>3, <1>4

(* What is in a session after AddShard was there or in hand. *)
LEMMA AddShardStores ==
  ASSUME TypeOK, HandInv, NEW p \in Peers, AddShard(p),
         NEW k \in Ids, NEW n \in Numbers, NEW i \in ShardIdx, Has(sessions'[p][k], n, i)
  PROVE  Has(sessions[p][k], n, i) \/ (k = inHand[p].id /\ InHand(p, n, i))
<1> DEFINE got == WithShard(Held(p), inHand[p])
<1>1. inHand[p] # None BY DEF AddShard
<1>2. Held(p) \in Sessions /\ inHand[p] \in Shards /\ got \in Contents
  BY <1>1, HeldType, WithShardType
<1>3. CASE k # inHand[p].id \/ orphan[p] # None BY <1>3, AddShardMoves
<1>4. CASE k = inHand[p].id /\ orphan[p] = None
  <2>1. sessions'[p][k] = AfterAdd(Held(p), got) BY <1>4, AddShardMoves
  <2>2. sessions'[p][k].got = got BY <1>2, <2>1, AfterAddType DEF Has
  <2>3. i \in DOMAIN got /\ got[i] = n BY <2>2 DEF Has
  <2>4. Held(p) = sessions[p][k] BY <1>4 DEF Held
  <2>. QED BY <1>1, <1>4, <2>3, <2>4, GotWasLeft
<1>. QED BY <1>3, <1>4

(* Adding a shard to its session leaves every shard in one place. *)
LEMMA AddShardOnePlace ==
  ASSUME TypeOK, HandInv, OnePlace, NEW p \in Peers, AddShard(p)
  PROVE  /\ OnePlace'
         /\ \A r \in Peers, n \in Numbers, i \in ShardIdx : Left(r, n, i)' => Left(r, n, i)
<1>1. ASSUME NEW r \in Peers, NEW n \in Numbers, NEW i \in ShardIdx
      PROVE  /\ InNet(r, n, i)' <=> InNet(r, n, i)
             /\ InHand(r, n, i)' => InHand(r, n, i) /\ r # p
             /\ Has(orphan'[r], n, i) => Has(orphan[r], n, i) /\ r # p
             /\ \A k \in Ids : Has(sessions'[r][k], n, i) =>
                  Has(sessions[r][k], n, i) \/ (r = p /\ k = inHand[p].id /\ InHand(p, n, i))
  <2>1. InNet(r, n, i)' <=> InNet(r, n, i) BY AddShardMoves DEF InNet
  <2>2. InHand(r, n, i)' => InHand(r, n, i) /\ r # p BY AddShardMoves DEF InHand
  <2>3. Has(orphan'[r], n, i) => Has(orphan[r], n, i) /\ r # p BY AddShardMoves DEF Has
  <2>4. ASSUME NEW k \in Ids, Has(sessions'[r][k], n, i)
        PROVE  Has(sessions[r][k], n, i) \/ (r = p /\ k = inHand[p].id /\ InHand(p, n, i))
    <3>1. CASE r = p BY <2>4, <3>1, AddShardStores
    <3>2. CASE r # p BY <2>4, <3>2, AddShardMoves
    <3>. QED BY <3>1, <3>2
  <2>. QED BY <2>1, <2>2, <2>3, <2>4
<1>2. net' = net /\ sent' = sent BY AddShardMoves
<1>3. \A r \in Peers, n \in Numbers, i \in ShardIdx :
        (Stored(r, n, i)' => Stored(r, n, i) \/ (r = p /\ InHand(p, n, i)))
  BY <1>1 DEF Stored
<1>4. \A r \in Peers, n \in Numbers, i \in ShardIdx : Left(r, n, i)' => Left(r, n, i)
  BY <1>1, <1>3 DEF Left
<1>5. \A s, t \in net' : s.to = t.to /\ s.n = t.n /\ s.i = t.i => s = t
  BY <1>2 DEF OnePlace
<1>6. ASSUME NEW r \in Peers, NEW n \in Numbers, NEW i \in ShardIdx
      PROVE  /\ Left(r, n, i)' => n <= sent'[r]
             /\ InNet(r, n, i)' => ~ InHand(r, n, i)' /\ ~ Stored(r, n, i)'
             /\ InHand(r, n, i)' => ~ Stored(r, n, i)'
  BY <1>1, <1>2, <1>3, <1>4 DEF OnePlace
<1>7. ASSUME NEW r \in Peers, NEW n \in Numbers, NEW i \in ShardIdx, NEW k \in Ids,
             Has(sessions'[r][k], n, i)
      PROVE  /\ ~ Has(orphan'[r], n, i)
             /\ \A j \in Ids : Has(sessions'[r][j], n, i) => j = k
  <2>1. CASE r # p BY <1>1, <1>7, <2>1 DEF OnePlace
  <2>2. CASE r = p BY <1>1, <1>7, <2>2 DEF OnePlace, Stored
  <2>. QED BY <2>1, <2>2
<1>. QED BY <1>4, <1>5, <1>6, <1>7 DEF OnePlace

(* So does taking a shard from the network. *)
LEMMA LookUpOnePlace ==
  ASSUME TypeOK, HandInv, OnePlace, NEW s \in net, LookUp(s)
  PROVE  /\ OnePlace'
         /\ \A r \in Peers, n \in Numbers, i \in ShardIdx : Left(r, n, i)' => Left(r, n, i)
<1>1. s.to \in Peers /\ s.id \in Ids /\ net' = net \ {s} /\ sent' = sent /\ orphan' = orphan
  BY DEF LookUp, TypeOK, Shards
<1>2. inHand' \in {[inHand EXCEPT ![s.to] = s], [inHand EXCEPT ![s.to] = None]}
  BY DEF LookUp
<1>3. ASSUME NEW r \in Peers, NEW n \in Numbers, NEW i \in ShardIdx
      PROVE  /\ InNet(r, n, i)' => InNet(r, n, i) /\ ~(r = s.to /\ n = s.n /\ i = s.i)
             /\ InHand(r, n, i)' => \/ InHand(r, n, i) /\ r # s.to
                                    \/ r = s.to /\ n = s.n /\ i = s.i
             /\ \A k \in Ids : Has(sessions'[r][k], n, i) => Has(sessions[r][k], n, i)
  <2>1. InNet(r, n, i)' => InNet(r, n, i) /\ ~(r = s.to /\ n = s.n /\ i = s.i)
    BY <1>1 DEF InNet, OnePlace
  <2>2. InHand(r, n, i)' => \/ InHand(r, n, i) /\ r # s.to
                            \/ r = s.to /\ n = s.n /\ i = s.i
    BY <1>1, <1>2 DEF InHand, TypeOK
  <2>3. ASSUME NEW k \in Ids, Has(sessions'[r][k], n, i) PROVE Has(sessions[r][k], n, i)
    <3>1. CASE sessions[s.to][s.id] # None BY <2>3, <3>1 DEF LookUp
    <3>2. CASE sessions[s.to][s.id] = None
      <4> DEFINE new == [size |-> Size[s.n], got |-> Empty]
      <4>1. sessions' = [sessions EXCEPT ![s.to][s.id] = new] BY <3>2 DEF LookUp
      <4>2. ~ Has(new, n, i) BY DEF Has, Empty
      <4> HIDE DEF new
      <4>. QED BY <1>1, <2>3, <4>1, <4>2 DEF TypeOK
    <3>. QED BY <3>1, <3>2
  <2>. QED BY <2>1, <2>2, <2>3
<1>4. InNet(s.to, s.n, s.i) BY DEF InNet
<1>5. \A r \in Peers, n \in Numbers, i \in ShardIdx : Stored(r, n, i)' => Stored(r, n, i)
  BY <1>1, <1>3 DEF Stored
<1>6. \A r \in Peers, n \in Numbers, i \in ShardIdx : Left(r, n, i)' => Left(r, n, i)
  BY <1>3, <1>4, <1>5 DEF Left
<1>7. \A t, u \in net' : t.to = u.to /\ t.n = u.n /\ t.i = u.i => t = u
  BY <1>1 DEF OnePlace
<1>8. ASSUME NEW r \in Peers, NEW n \in Numbers, NEW i \in ShardIdx
      PROVE  /\ Left(r, n, i)' => n <= sent'[r]
             /\ InNet(r, n, i)' => ~ InHand(r, n, i)' /\ ~ Stored(r, n, i)'
             /\ InHand(r, n, i)' => ~ Stored(r, n, i)'
  BY <1>1, <1>3, <1>4, <1>5, <1>6 DEF OnePlace
<1>9. ASSUME NEW r \in Peers, NEW n \in Numbers, NEW i \in ShardIdx, NEW k \in Ids,
             Has(sessions'[r][k], n, i)
      PROVE  /\ ~ Has(orphan'[r], n, i)
             /\ \A j \in Ids : Has(sessions'[r][j], n, i) => j = k
  BY <1>1, <1>3, <1>9 DEF OnePlace
<1>. QED BY <1>6, <1>7, <1>8, <1>9 DEF OnePlace

(* So does the cleanup, which takes a session from the map. *)
LEMMA CleanupOnePlace ==
  ASSUME TypeOK, HandInv, OnePlace, NEW p \in Peers, NEW k \in Ids, Cleanup(p, k)
  PROVE  /\ OnePlace'
         /\ \A r \in Peers, n \in Numbers, i \in ShardIdx : Left(r, n, i)' => Left(r, n, i)
<1>1. net' = net /\ sent' = sent /\ inHand' = inHand BY DEF Cleanup
<1>2. /\ sessions' = [sessions EXCEPT ![p][k] = None]
      /\ orphan' = orphan \/ orphan' = [orphan EXCEPT ![p] = sessions[p][k]]
  BY DEF Cleanup
<1>3. ASSUME NEW r \in Peers, NEW n \in Numbers, NEW i \in ShardIdx
      PROVE  /\ \A j \in Ids : Has(sessions'[r][j], n, i) =>
                  Has(sessions[r][j], n, i) /\ ~(r = p /\ j = k)
             /\ Has(orphan'[r], n, i) =>
                  Has(orphan[r], n, i) \/ (r = p /\ Has(sessions[p][k], n, i))
  <2>1. ASSUME NEW j \in Ids, Has(sessions'[r][j], n, i)
        PROVE  Has(sessions[r][j], n, i) /\ ~(r = p /\ j = k)
    BY <1>2, <2>1 DEF Has, TypeOK
  <2>2. Has(orphan'[r], n, i) => Has(orphan[r], n, i) \/ (r = p /\ Has(sessions[p][k], n, i))
    BY <1>2 DEF TypeOK
  <2>. QED BY <2>1, <2>2
<1>4. \A r \in Peers, n \in Numbers, i \in ShardIdx :
        /\ InNet(r, n, i)' <=> InNet(r, n, i)
        /\ InHand(r, n, i)' <=> InHand(r, n, i)
        /\ Stored(r, n, i)' => Stored(r, n, i)
  <2>1. \A r \in Peers, n \in Numbers, i \in ShardIdx :
          (InNet(r, n, i)' <=> InNet(r, n, i)) /\ (InHand(r, n, i)' <=> InHand(r, n, i))
    BY <1>1 DEF InNet, InHand
  <2>. QED BY <1>3, <2>1 DEF Stored
<1>5. \A r \in Peers, n \in Numbers, i \in ShardIdx : Left(r, n, i)' => Left(r, n, i)
  BY <1>4 DEF Left
<1>6. ASSUME NEW r \in Peers, NEW n \in Numbers, NEW i \in ShardIdx
      PROVE  /\ Left(r, n, i)' => n <= sent'[r]
             /\ InNet(r, n, i)' => ~ InHand(r, n, i)' /\ ~ Stored(r, n, i)'
             /\ InHand(r, n, i)' => ~ Stored(r, n, i)'
  BY <1>1, <1>4, <1>5 DEF OnePlace
<1>7. ASSUME NEW r \in Peers, NEW n \in Numbers, NEW i \in ShardIdx, NEW l \in Ids,
             Has(sessions'[r][l], n, i)
      PROVE  /\ ~ Has(orphan'[r], n, i)
             /\ \A j \in Ids : Has(sessions'[r][j], n, i) => j = l
  BY <1>3, <1>7 DEF OnePlace
<1>8. \A s, t \in net' : s.to = t.to /\ s.n = t.n /\ s.i = t.i => s = t
  BY <1>1 DEF OnePlace
<1>. QED BY <1>5, <1>6, <1>7, <1>8 DEF OnePlace

(* A new packet has shards that are nowhere yet. *)
LEMMA SendOnePlace ==
  ASSUME TypeOK, HandInv, OnePlace, NEW p \in Peers, SendShards(p)
  PROVE  /\ OnePlace'
         /\ \A r \in Peers, n \in Numbers, i \in ShardIdx :
              Left(r, n, i)' => Left(r, n, i) \/ n > sent[r]
<1>1. inHand' = inHand /\ orphan' = orphan /\ sessions' = sessions
  BY DEF SendShards, recvVars
<1>2. /\ sent' = [sent EXCEPT ![p] = @ + 1] /\ sent[p] \in Nat
      /\ \A r \in Peers : sent[r] \in Nat /\ sent[r] <= sent'[r]
  BY DEF SendShards, TypeOK
<1>3. net' = net \cup {[to |-> p, n |-> sent[p] + 1, id |-> read[p], i |-> i] : i \in ShardIdx}
  BY <1>2 DEF SendShards, TypeOK
<1>4. ASSUME NEW r \in Peers, NEW n \in Numbers, NEW i \in ShardIdx
      PROVE  /\ InNet(r, n, i)' => InNet(r, n, i) \/ (r = p /\ n = sent[p] + 1)
             /\ InHand(r, n, i)' <=> InHand(r, n, i)
             /\ Stored(r, n, i)' <=> Stored(r, n, i)
  <2>1. InNet(r, n, i)' => InNet(r, n, i) \/ (r = p /\ n = sent[p] + 1)
    BY <1>3 DEF InNet
  <2>. QED BY <1>1, <2>1 DEF InHand, Stored
<1>5. ASSUME NEW s \in net, s.to = p PROVE s.n <= sent[p]
  <2>1. s.n \in Numbers /\ s.i \in ShardIdx BY DEF TypeOK, Shards
  <2>2. InNet(p, s.n, s.i) BY <1>5 DEF InNet
  <2>. QED BY <2>1, <2>2 DEF OnePlace, Left
<1>6. \A s, t \in net' : s.to = t.to /\ s.n = t.n /\ s.i = t.i => s = t
  <2> SUFFICES ASSUME NEW s \in net', NEW t \in net', s.to = t.to, s.n = t.n, s.i = t.i
               PROVE  s = t
    OBVIOUS
  <2>1. CASE s \in net /\ t \in net BY <2>1 DEF OnePlace
  <2>2. CASE s \notin net /\ t \notin net BY <1>3, <2>2
  <2>3. ~(s \in net /\ t \notin net) BY <1>2, <1>3, <1>5
  <2>4. ~(s \notin net /\ t \in net) BY <1>2, <1>3, <1>5
  <2>. QED BY <2>1, <2>2, <2>3, <2>4
<1>7. ASSUME NEW r \in Peers, NEW n \in Numbers, NEW i \in ShardIdx, Left(r, n, i)'
      PROVE  Left(r, n, i) \/ (r = p /\ n = sent[p] + 1)
  BY <1>4, <1>7 DEF Left
<1>8. ASSUME NEW r \in Peers, NEW n \in Numbers, NEW i \in ShardIdx
      PROVE  /\ Left(r, n, i)' => n <= sent'[r]
             /\ InNet(r, n, i)' => ~ InHand(r, n, i)' /\ ~ Stored(r, n, i)'
             /\ InHand(r, n, i)' => ~ Stored(r, n, i)'
  <2>1. n \in Nat BY SessionAssumption DEF Numbers
  <2>2. Left(r, n, i) => n <= sent[r] BY DEF OnePlace
  <2>3. Left(r, n, i)' => n <= sent'[r] BY <1>2, <1>7, <2>1, <2>2 DEF TypeOK
  <2>4. InNet(r, n, i)' => ~ InHand(r, n, i) /\ ~ Stored(r, n, i)
    BY <1>2, <1>4, <2>1, <2>2 DEF OnePlace, Left
  <2>. QED BY <1>4, <2>3, <2>4 DEF OnePlace
<1>9. ASSUME NEW r \in Peers, NEW n \in Numbers, NEW i \in ShardIdx, NEW k \in Ids,
             Has(sessions'[r][k], n, i)
      PROVE  /\ ~ Has(orphan'[r], n, i)
             /\ \A j \in Ids : Has(sessions'[r][j], n, i) => j = k
  BY <1>1, <1>9 DEF OnePlace
<1>10. \A r \in Peers, n \in Numbers, i \in ShardIdx :
         Left(r, n, i)' => Left(r, n, i) \/ n > sent[r]
  BY <1>2, <1>7
<1>. QED BY <1>6, <1>8, <1>9, <1>10 DEF OnePlace

(* Every step leaves a shard in one place, and no shard comes back. *)
LEMMA StepOnePlace ==
  ASSUME TypeOK, HandInv, OnePlace, [Next]_vars
  PROVE  /\ OnePlace'
         /\ \A r \in Peers, n \in Numbers, i \in ShardIdx :
              Left(r, n, i)' => Left(r, n, i) \/ n > sent[r]
<1>1. ASSUME UNCHANGED <<net, sent, inHand, orphan, sessions>>
      PROVE  /\ OnePlace'
             /\ \A r \in Peers, n \in Numbers, i \in ShardIdx : Left(r, n, i)' => Left(r, n, i)
  BY <1>1 DEF OnePlace, Left, InNet, InHand, Stored
<1>2. ASSUME NEW p \in Peers, ReadCounter(p) PROVE UNCHANGED <<net, sent, inHand, orphan, sessions>>
  BY <1>2 DEF ReadCounter, recvVars
<1>3. ASSUME NEW s \in net, Lose(s)
      PROVE  /\ OnePlace'
             /\ \A r \in Peers, n \in Numbers, i \in ShardIdx : Left(r, n, i)' => Left(r, n, i)
  <2>1. net' \subseteq net /\ UNCHANGED <<sent, inHand, orphan, sessions>>
    BY <1>3 DEF Lose, recvVars
  <2>2. \A r \in Peers, n \in Numbers, i \in ShardIdx :
          /\ InNet(r, n, i)' => InNet(r, n, i)
          /\ InHand(r, n, i)' <=> InHand(r, n, i)
          /\ Stored(r, n, i)' <=> Stored(r, n, i)
    BY <2>1 DEF InNet, InHand, Stored
  <2>3. \A r \in Peers, n \in Numbers, i \in ShardIdx : Left(r, n, i)' => Left(r, n, i)
    BY <2>2 DEF Left
  <2>4. \A s1, t1 \in net' : s1.to = t1.to /\ s1.n = t1.n /\ s1.i = t1.i => s1 = t1
    BY <2>1 DEF OnePlace
  <2>. QED BY <2>1, <2>2, <2>3, <2>4 DEF OnePlace
<1>4. CASE UNCHANGED vars BY <1>1, <1>4 DEF vars
<1>. QED
  BY <1>1, <1>2, <1>3, <1>4, AddShardOnePlace, LookUpOnePlace, CleanupOnePlace, SendOnePlace
  DEF Next

(* The data shards a packet is decoded from are gone afterwards. *)
LEMMA DecodeTakes ==
  ASSUME TypeOK, HandInv, OnePlace, NEW p \in Peers, AddShard(p),
         NEW got, got = WithShard(Held(p), inHand[p]), Decodable(DOMAIN got),
         NEW i \in ShardIdx, i \in DOMAIN got, NEW n \in Numbers, got[i] = n
  PROVE  Left(p, n, i) /\ ~ Left(p, n, i)'
<1>1. inHand[p] # None BY DEF AddShard
<1>2. Held(p) \in Sessions /\ inHand[p].id \in Ids /\ got \in Contents
  BY <1>1, HeldType, WithShardType
<1>3. Has(Held(p), n, i) \/ InHand(p, n, i) BY <1>1, GotWasLeft
<1>4. Has(Held(p), n, i) => Stored(p, n, i) BY <1>2 DEF Held, Stored
<1>5. ~ InNet(p, n, i)'
  <2>1. net' = net BY AddShardMoves
  <2>. QED BY <1>3, <1>4, <2>1 DEF OnePlace, InNet
<1>6. ~ InHand(p, n, i)' /\ ~ Has(orphan'[p], n, i)
  BY AddShardMoves DEF InHand, Has
<1>7. ASSUME NEW k \in Ids, Has(sessions'[p][k], n, i) PROVE FALSE
  <2>1. CASE orphan[p] # None
    <3>1. Has(sessions[p][k], n, i) BY <1>7, <2>1, AddShardMoves
    <3>2. Held(p) = orphan[p] BY <2>1 DEF Held
    <3>. QED BY <1>3, <3>1, <3>2 DEF OnePlace, Stored
  <2>2. CASE orphan[p] = None
    <3>1. sessions'[p][inHand[p].id] = None BY <1>2, <2>2, AddShardMoves, AfterAddType
    <3>2. k # inHand[p].id BY <1>7, <3>1 DEF Has
    <3>3. Has(sessions[p][k], n, i) BY <1>7, <3>2, AddShardMoves
    <3>4. Held(p) = sessions[p][inHand[p].id] BY <2>2 DEF Held
    <3>. QED BY <1>2, <1>3, <3>2, <3>3, <3>4 DEF OnePlace, Stored
  <2>. QED BY <2>1, <2>2
<1>. QED BY <1>3, <1>4, <1>5, <1>6, <1>7 DEF Left, Stored

(* The packet that AddShard hands up, if any. *)
LEMMA AddShardDelivers ==
  ASSUME TypeOK, HandInv, NEW p \in Peers, AddShard(p),
         NEW got, got = WithShard(Held(p), inHand[p])
  PROVE  \/ delivered' = delivered
         \/ \E n \in Numbers :
              /\ Decodable(DOMAIN got)
              /\ Sources(got) = {n}
              /\ delivered'[p][n] = delivered[p][n] + 1
              /\ \A r \in Peers, m \in Numbers :
                   ~(r = p /\ m = n) => delivered'[r][m] = delivered[r][m]
<1> SUFFICES ASSUME delivered' # delivered
             PROVE  \E n \in Numbers :
                      /\ Decodable(DOMAIN got)
                      /\ Sources(got) = {n}
                      /\ delivered'[p][n] = delivered[p][n] + 1
                      /\ \A r \in Peers, m \in Numbers :
                           ~(r = p /\ m = n) => delivered'[r][m] = delivered[r][m]
  OBVIOUS
<1> DEFINE src == Sources(got)
<1>1. inHand[p] # None BY DEF AddShard
<1>2. Held(p) \in Sessions /\ inHand[p] \in Shards /\ got \in Contents
  BY <1>1, HeldType, WithShardType
<1>3. /\ Decodable(DOMAIN got) /\ Cardinality(src) = 1
      /\ delivered' = [delivered EXCEPT ![p] =
                        [n \in Numbers |-> IF n \in src THEN @[n] + 1 ELSE @[n]]]
  BY DEF AddShard
<1>4. DOMAIN got \in SUBSET ShardIdx /\ got \in [DOMAIN got -> Numbers]
  BY <1>2, ContentsAre
<1>5. UsedShards(DOMAIN got) \subseteq DOMAIN got BY <1>3, <1>4, UsedArePresent
<1>6. src \subseteq Numbers /\ IsFiniteSet(src)
  <2>1. src \subseteq Numbers BY <1>4, <1>5 DEF Sources
  <2>2. IsFiniteSet(Numbers) BY SessionAssumption, FS_Interval DEF Numbers
  <2>. QED BY <2>1, <2>2, FS_Subset
<1>7. src # {} BY <1>3, FS_EmptySet
<1>8. PICK n \in Numbers : n \in src BY <1>6, <1>7
<1>9. src = {n} BY <1>3, <1>6, <1>8, AtMostOne
<1> HIDE DEF src
<1>10. /\ delivered'[p][n] = delivered[p][n] + 1
       /\ \A r \in Peers, m \in Numbers :
            ~(r = p /\ m = n) => delivered'[r][m] = delivered[r][m]
  BY <1>3, <1>9 DEF TypeOK
<1>. QED BY <1>3, <1>9, <1>10 DEF src

(* With three data shards or more, what is left of a packet that was handed up *)
(* never decodes again.                                                        *)
LEMMA AddShardOnce ==
  ASSUME D >= 3, TypeOK, HandInv, OnePlace, LittleLeft, DeliveredOnce,
         NEW p \in Peers, AddShard(p)
  PROVE  LittleLeft' /\ DeliveredOnce'
<1> DEFINE got == WithShard(Held(p), inHand[p])
<1>1. sent' = sent BY AddShardMoves
<1>2. \A r \in Peers, n \in Numbers, i \in DataIdx : Left(r, n, i)' => Left(r, n, i)
  BY AddShardOnePlace, IndexSets
<1>3. CASE delivered' = delivered
  BY <1>1, <1>2, <1>3 DEF LittleLeft, DeliveredOnce
<1>4. ASSUME NEW n \in Numbers, Decodable(DOMAIN got), Sources(got) = {n},
             delivered'[p][n] = delivered[p][n] + 1,
             \A r \in Peers, m \in Numbers :
                ~(r = p /\ m = n) => delivered'[r][m] = delivered[r][m]
      PROVE  LittleLeft' /\ DeliveredOnce'
  <2>1. inHand[p] # None BY DEF AddShard
  <2>2. DOMAIN got \in SUBSET ShardIdx
    BY <2>1, HeldType, WithShardType, ContentsAre
  <2>3. \A i \in DataIdx : i \in DOMAIN got => got[i] = n
    BY <1>4, DataIsUsed DEF Sources
  <2>4. \A i \in DataIdx : i \in DOMAIN got => Left(p, n, i) /\ ~ Left(p, n, i)'
    BY <1>4, <2>3, DecodeTakes, IndexSets
  <2>5. PICK i1, j1 \in DataIdx \cap DOMAIN got : i1 # j1 BY <1>4, <2>2, TwoArePresent
  <2>6. ~(delivered[p][n] >= 1) BY <2>4, <2>5 DEF LittleLeft
  <2>7. delivered[p][n] \in Nat BY DEF TypeOK
  <2>8. DeliveredOnce' BY <1>4, <2>6, <2>7 DEF DeliveredOnce
  <2>9. \A i, j \in DataIdx : Left(p, n, i)' /\ Left(p, n, j)' => i = j
    BY <1>4, <2>2, <2>4, MissingIsUnique
  <2>10. n <= sent[p] BY <2>4, <2>5, IndexSets DEF OnePlace
  <2>11. LittleLeft'
    <3> SUFFICES ASSUME NEW r \in Peers, NEW m \in Numbers, delivered'[r][m] >= 1
                 PROVE  /\ m <= sent'[r]
                        /\ \A i, j \in DataIdx : Left(r, m, i)' /\ Left(r, m, j)' => i = j
      BY DEF LittleLeft
    <3>1. CASE r = p /\ m = n BY <1>1, <2>9, <2>10, <3>1
    <3>2. CASE ~(r = p /\ m = n) BY <1>1, <1>2, <1>4, <3>2 DEF LittleLeft
    <3>. QED BY <3>1, <3>2
  <2>. QED BY <2>8, <2>11
<1>. QED BY <1>3, <1>4, AddShardDelivers


(* Types, for any number of writers. *)
THEOREM FecTypeOK == Spec => []TypeOK
<1>. QED BY FecInit, FecTypes, PTL DEF Spec

(* Decode returns what Encode was given, whenever processFECShard calls it. *)
THEOREM FecDecodeIsExact == Spec => []DecodeIsExact
<1>1. TypeOK /\ HandInv => DecodeIsExact
  <2> SUFFICES ASSUME TypeOK, HandInv, NEW p \in Peers, inHand[p] # None,
                      NEW present, present = DOMAIN WithShard(Held(p), inHand[p]),
                      Decodable(present), NEW data \in [1..Held(p).size -> Bit]
               PROVE  Decode(Encode(data), present, Held(p).size) = data
    BY DEF DecodeIsExact
  <2>1. present \in SUBSET ShardIdx BY HeldType, WithShardType, ContentsAre
  <2>2. Held(p).size \in Nat BY HeldType DEF Sessions
  <2>3. Len(data) = Held(p).size BY <2>2
  <2>. QED BY <2>1, <2>2, <2>3, DecodeInvertsEncode
<1>. QED BY <1>1, FecInit, FecTypes, PTL DEF Spec

(* The invariant of the single delivery holds before the first packet. *)
LEMMA OnceInit == Init => OnePlace /\ LittleLeft /\ DeliveredOnce
<1> SUFFICES ASSUME Init PROVE OnePlace /\ LittleLeft /\ DeliveredOnce
  OBVIOUS
<1>1. \A p \in Peers, n \in Numbers, i \in ShardIdx :
        /\ ~ InNet(p, n, i) /\ ~ InHand(p, n, i) /\ ~ Stored(p, n, i)
        /\ \A k \in Ids : ~ Has(sessions[p][k], n, i)
  BY DEF Init, InNet, InHand, Stored, Has
<1>2. OnePlace BY <1>1 DEF OnePlace, Left, Init
<1>3. \A p \in Peers, n \in Numbers : delivered[p][n] = 0 BY DEF Init
<1>. QED BY <1>2, <1>3 DEF LittleLeft, DeliveredOnce

(* Every step keeps it. *)
LEMMA OnceStep ==
  ASSUME D >= 3, TypeOK, HandInv, OnePlace, LittleLeft, DeliveredOnce, [Next]_vars
  PROVE  LittleLeft' /\ DeliveredOnce'
<1>1. ASSUME delivered' = delivered, \A r \in Peers : sent[r] <= sent'[r] /\ sent'[r] \in Nat
      PROVE  LittleLeft' /\ DeliveredOnce'
  <2>1. DeliveredOnce' BY <1>1 DEF DeliveredOnce
  <2>2. ASSUME NEW p \in Peers, NEW n \in Numbers, delivered[p][n] >= 1
        PROVE  /\ n <= sent'[p]
               /\ \A i, j \in DataIdx : Left(p, n, i)' /\ Left(p, n, j)' => i = j
    <3>1. n \in Nat /\ sent[p] \in Nat BY SessionAssumption DEF TypeOK, Numbers
    <3>2. n <= sent[p] /\ \A i, j \in DataIdx : Left(p, n, i) /\ Left(p, n, j) => i = j
      BY <2>2 DEF LittleLeft
    <3>3. \A i \in DataIdx : Left(p, n, i)' => Left(p, n, i)
      BY <3>1, <3>2, StepOnePlace, IndexSets
    <3>. QED BY <1>1, <3>1, <3>2, <3>3
  <2>. QED BY <1>1, <2>1, <2>2 DEF LittleLeft
<1>2. \A r \in Peers : sent[r] \in Nat BY DEF TypeOK
<1>3. ASSUME NEW p \in Peers, ReadCounter(p) PROVE delivered' = delivered /\ sent' = sent
  BY <1>3 DEF ReadCounter, recvVars
<1>4. ASSUME NEW p \in Peers, SendShards(p)
      PROVE  delivered' = delivered /\ \A r \in Peers : sent[r] <= sent'[r] /\ sent'[r] \in Nat
  BY <1>4 DEF SendShards, recvVars, TypeOK
<1>5. ASSUME NEW s \in net, Lose(s) \/ LookUp(s) PROVE delivered' = delivered /\ sent' = sent
  BY <1>5 DEF Lose, LookUp, recvVars
<1>6. ASSUME NEW p \in Peers, NEW k \in Ids, Cleanup(p, k)
      PROVE  delivered' = delivered /\ sent' = sent
  BY <1>6 DEF Cleanup
<1>7. CASE UNCHANGED vars BY <1>1, <1>2, <1>7 DEF vars
<1>8. ASSUME sent' = sent PROVE \A r \in Peers : sent[r] <= sent'[r] /\ sent'[r] \in Nat
  BY <1>2, <1>8
<1>. QED BY <1>1, <1>3, <1>4, <1>5, <1>6, <1>7, <1>8, AddShardOnce DEF Next

(* No packet is handed up twice, whatever number of writers share the counter, *)
(* if it is cut into at least three data shards.                               *)
THEOREM FecDeliveredOnce == ASSUME D >= 3 PROVE Spec => []DeliveredOnce
<1> DEFINE Inv == TypeOK /\ HandInv /\ OnePlace /\ LittleLeft /\ DeliveredOnce
<1>1. Init => Inv BY FecInit, OnceInit
<1>2. Inv /\ [Next]_vars => Inv' BY FecTypes, StepOnePlace, OnceStep
<1>. QED BY <1>1, <1>2, PTL DEF Spec


-----------------------------------------------------------------------------
(* One writer: the shards of two packets never meet in a session.            *)

\* The tunnel has one connection, as every client, and sends no more packets
\* than there are IDs, so that none is used again.
OneWriter == (\A p, q \in Peers : p = q) /\ MaxPackets <= IdSpace

\* With one writer the ID of a packet is its number less one: in the counter,
\* on every shard, and in every session.
WriterIds ==
    /\ \A p \in Peers :
         /\ sent[p] < IdSpace => counter = sent[p]
         /\ read[p] # None => read[p] = sent[p]
    /\ \A s \in net : s.id = s.n - 1

ReaderIds ==
    \A p \in Peers :
        /\ inHand[p] # None => inHand[p].id = inHand[p].n - 1
        /\ \A k \in Ids : sessions[p][k] # None =>
             /\ k + 1 \in Numbers /\ sessions[p][k].size = Size[k + 1]
             /\ \A i \in DOMAIN sessions[p][k].got : sessions[p][k].got[i] = k + 1
        /\ orphan[p] # None =>
             \A i \in DOMAIN orphan[p].got : orphan[p].got[i] = inHand[p].id + 1

(* The sender's side. *)
LEMMA WriterStep ==
  ASSUME OneWriter, TypeOK, HandInv, WriterIds, [Next]_vars
  PROVE  WriterIds'
<1> USE SessionAssumption
<1>1. ASSUME NEW p \in Peers, ReadCounter(p) PROVE WriterIds'
  <2>1. sent[p] < IdSpace BY <1>1 DEF ReadCounter, OneWriter, TypeOK
  <2>2. \A r \in Peers : r = p BY DEF OneWriter
  <2>. QED BY <1>1, <2>1, <2>2 DEF ReadCounter, WriterIds, TypeOK
<1>2. ASSUME NEW p \in Peers, SendShards(p) PROVE WriterIds'
  <2>1. \A r \in Peers : r = p BY DEF OneWriter
  <2>2. read[p] = sent[p] /\ sent[p] \in Nat /\ sent[p] < MaxPackets
    BY <1>2 DEF SendShards, WriterIds, HandInv, TypeOK
  <2>3. sent'[p] = sent[p] + 1 /\ read'[p] = None
    BY <1>2 DEF SendShards, TypeOK
  <2>4. sent'[p] < IdSpace => counter' = sent'[p]
    <3>1. counter' = (sent[p] + 1) % IdSpace BY <1>2, <2>2 DEF SendShards
    <3>2. \A a, b \in Nat : a < b => a % b = a OBVIOUS
    <3>. QED BY <2>2, <2>3, <3>1, <3>2
  <2>5. \A s \in net' : s.id = s.n - 1 BY <1>2, <2>2, <2>3 DEF SendShards, WriterIds
  <2>. QED BY <2>1, <2>3, <2>4, <2>5 DEF WriterIds
<1>3. ASSUME net' \subseteq net, UNCHANGED <<counter, sent, read>> PROVE WriterIds'
  BY <1>3 DEF WriterIds
<1>4. ASSUME NEW p \in Peers, AddShard(p) PROVE net' \subseteq net /\ UNCHANGED <<counter, sent, read>>
  BY <1>4 DEF AddShard
<1>5. ASSUME NEW s \in net, Lose(s) \/ LookUp(s)
      PROVE  net' \subseteq net /\ UNCHANGED <<counter, sent, read>>
  BY <1>5 DEF Lose, LookUp
<1>6. ASSUME NEW p \in Peers, NEW k \in Ids, Cleanup(p, k)
      PROVE  net' \subseteq net /\ UNCHANGED <<counter, sent, read>>
  BY <1>6 DEF Cleanup
<1>7. CASE UNCHANGED vars BY <1>3, <1>7 DEF vars
<1>. QED BY <1>1, <1>2, <1>3, <1>4, <1>5, <1>6, <1>7 DEF Next

(* All shards of the session a reader adds to are of the packet in its hand. *)
LEMMA HeldIds ==
  ASSUME TypeOK, HandInv, ReaderIds, NEW p \in Peers, inHand[p] # None
  PROVE  /\ inHand[p].n = inHand[p].id + 1
         /\ \A i \in DOMAIN WithShard(Held(p), inHand[p]) :
              WithShard(Held(p), inHand[p])[i] = inHand[p].n
<1>1. Held(p) \in Sessions /\ inHand[p] \in Shards /\ inHand[p].id \in Ids BY HeldType
<1>2. inHand[p].n \in Int BY <1>1, SessionAssumption DEF Shards, Numbers
<1>3. inHand[p].n = inHand[p].id + 1 BY <1>2 DEF ReaderIds
<1>4. \A i \in DOMAIN Held(p).got : Held(p).got[i] = inHand[p].n
  BY <1>1, <1>3 DEF ReaderIds, HandInv, Held
<1>5. ASSUME NEW i \in DOMAIN WithShard(Held(p), inHand[p])
      PROVE  WithShard(Held(p), inHand[p])[i] = inHand[p].n
  <2>1. i \in DOMAIN Held(p).got \/ (i = inHand[p].i /\ i \notin DOMAIN Held(p).got)
    BY <1>1, WithShardType, ZenonT(40)
  <2>2. CASE i \in DOMAIN Held(p).got
    <3>1. WithShard(Held(p), inHand[p])[i] = Held(p).got[i] BY <1>1, <2>2, WithShardType
    <3>. QED BY <1>4, <2>2, <3>1
  <2>3. CASE i = inHand[p].i /\ i \notin DOMAIN Held(p).got
    BY <1>1, <2>3, WithShardType
  <2>. QED BY <2>1, <2>2, <2>3
<1>. QED BY <1>3, <1>5

(* So Decode works on one packet. *)
LEMMA OneSource ==
  ASSUME TypeOK, HandInv, ReaderIds, NEW p \in Peers, inHand[p] # None,
         NEW got, got = WithShard(Held(p), inHand[p]), Decodable(DOMAIN got)
  PROVE  Sources(got) = {inHand[p].n} /\ Cardinality(Sources(got)) = 1
<1>1. DOMAIN got \in SUBSET ShardIdx BY HeldType, WithShardType, ContentsAre
<1>2. UsedShards(DOMAIN got) \subseteq DOMAIN got /\ UsedShards(DOMAIN got) # {}
  BY <1>1, UsedArePresent
<1>3. Sources(got) = {inHand[p].n} BY <1>2, HeldIds DEF Sources
<1>. QED BY <1>3, FS_Singleton

(* The receiver's side. *)
LEMMA ReaderStep ==
  ASSUME TypeOK, HandInv, WriterIds, ReaderIds, [Next]_vars
  PROVE  ReaderIds'
<1> USE SessionAssumption
<1>1. ASSUME UNCHANGED <<inHand, sessions, orphan>> PROVE ReaderIds'
  BY <1>1 DEF ReaderIds
<1>2. ASSUME NEW p \in Peers, ReadCounter(p) \/ SendShards(p) PROVE ReaderIds'
  BY <1>1, <1>2 DEF ReadCounter, SendShards, recvVars
<1>3. ASSUME NEW s \in net, Lose(s) PROVE ReaderIds'
  BY <1>1, <1>3 DEF Lose, recvVars
<1>4. ASSUME NEW p \in Peers, AddShard(p) PROVE ReaderIds'
  <2> DEFINE got == WithShard(Held(p), inHand[p])
             id == inHand[p].id
  <2>1. inHand[p] # None BY <1>4 DEF AddShard
  <2>2. Held(p) \in Sessions /\ inHand[p] \in Shards /\ id \in Ids /\ got \in Contents
    BY <2>1, HeldType, WithShardType
  <2>3. \A i \in DOMAIN got : got[i] = id + 1 BY <2>1, HeldIds
  <2>4. orphan[p] = None /\ sessions'[p][id] # None =>
          /\ id + 1 \in Numbers /\ sessions'[p][id].size = Size[id + 1]
          /\ \A i \in DOMAIN sessions'[p][id].got : sessions'[p][id].got[i] = id + 1
    <3> SUFFICES ASSUME orphan[p] = None, sessions'[p][id] # None
                 PROVE  /\ id + 1 \in Numbers /\ sessions'[p][id].size = Size[id + 1]
                        /\ \A i \in DOMAIN sessions'[p][id].got : sessions'[p][id].got[i] = id + 1
      OBVIOUS
    <3>1. sessions'[p][id] = AfterAdd(Held(p), got) BY <1>4, AddShardMoves
    <3>2. sessions'[p][id].got = got /\ sessions'[p][id].size = Held(p).size
      BY <2>2, <3>1, AfterAddType
    <3>3. Held(p) = sessions[p][id] /\ Held(p) # None BY <2>2 DEF Held
    <3>4. id + 1 \in Numbers /\ Held(p).size = Size[id + 1] BY <2>2, <3>3 DEF ReaderIds
    <3>. QED BY <2>3, <3>2, <3>4
  <2>5. ASSUME NEW k \in Ids, sessions'[p][k] # None
        PROVE  /\ k + 1 \in Numbers /\ sessions'[p][k].size = Size[k + 1]
               /\ \A i \in DOMAIN sessions'[p][k].got : sessions'[p][k].got[i] = k + 1
    <3>1. CASE k = id /\ orphan[p] = None BY <2>4, <2>5, <3>1
    <3>2. CASE k # id \/ orphan[p] # None
      <4>1. sessions'[p][k] = sessions[p][k] BY <1>4, <3>2, AddShardMoves
      <4>. QED BY <2>5, <4>1 DEF ReaderIds
    <3>. QED BY <3>1, <3>2
  <2>6. inHand'[p] = None /\ orphan'[p] = None BY <1>4, AddShardMoves
  <2>7. \A r \in Peers : r # p => /\ inHand'[r] = inHand[r] /\ orphan'[r] = orphan[r]
                                 /\ sessions'[r] = sessions[r]
    BY <1>4, AddShardMoves
  <2>. QED BY <2>5, <2>6, <2>7 DEF ReaderIds
<1>5. ASSUME NEW s \in net, LookUp(s) PROVE ReaderIds'
  <2>1. s \in Shards /\ s.to \in Peers /\ s.id \in Ids /\ s.n \in Numbers /\ s.n \in Int
    BY DEF TypeOK, Shards, Numbers
  <2>2. s.id = s.n - 1 /\ s.id + 1 = s.n BY <2>1 DEF WriterIds
  <2>3. orphan' = orphan /\ inHand[s.to] = None /\ orphan[s.to] = None
    BY <1>5, <2>1 DEF LookUp, HandInv
  <2>4. inHand' \in {[inHand EXCEPT ![s.to] = s], [inHand EXCEPT ![s.to] = None]}
    BY <1>5 DEF LookUp
  <2>5. ASSUME NEW p \in Peers, NEW k \in Ids, sessions'[p][k] # None
        PROVE  /\ k + 1 \in Numbers /\ sessions'[p][k].size = Size[k + 1]
               /\ \A i \in DOMAIN sessions'[p][k].got : sessions'[p][k].got[i] = k + 1
    <3> DEFINE new == [size |-> Size[s.n], got |-> Empty]
    <3>1. new.size = Size[s.n] /\ DOMAIN new.got = {} BY DEF Empty
    <3>2. sessions' = sessions \/ sessions' = [sessions EXCEPT ![s.to][s.id] = new]
      BY <1>5 DEF LookUp
    <3> HIDE DEF new
    <3>3. sessions'[p][k] = sessions[p][k] \/ (k = s.id /\ sessions'[p][k] = new)
      <4>1. CASE sessions' = sessions BY <4>1
      <4>2. CASE sessions' = [sessions EXCEPT ![s.to][s.id] = new]
        <5>1. CASE p = s.to /\ k = s.id BY <2>1, <4>2, <5>1 DEF TypeOK
        <5>2. CASE ~(p = s.to /\ k = s.id) BY <2>1, <4>2, <5>2 DEF TypeOK
        <5>. QED BY <5>1, <5>2
      <4>. QED BY <3>2, <4>1, <4>2
    <3>. QED BY <2>1, <2>2, <2>5, <3>1, <3>3 DEF ReaderIds
  <2>6. ASSUME NEW p \in Peers
        PROVE  /\ inHand'[p] # None => inHand'[p].id = inHand'[p].n - 1
               /\ orphan'[p] # None =>
                    \A i \in DOMAIN orphan'[p].got : orphan'[p].got[i] = inHand'[p].id + 1
    <3>1. CASE p = s.to
      <4>1. inHand'[p] = s \/ inHand'[p] = None BY <2>1, <2>4, <3>1 DEF TypeOK
      <4>2. orphan'[p] = None BY <2>3, <3>1
      <4>. QED BY <2>2, <4>1, <4>2
    <3>2. CASE p # s.to
      <4>1. inHand'[p] = inHand[p] BY <2>1, <2>4, <3>2 DEF TypeOK
      <4>. QED BY <2>3, <4>1 DEF ReaderIds
    <3>. QED BY <3>1, <3>2
  <2>. QED BY <2>5, <2>6 DEF ReaderIds
<1>6. ASSUME NEW p \in Peers, NEW k \in Ids, Cleanup(p, k) PROVE ReaderIds'
  <2>1. /\ inHand' = inHand /\ sessions[p][k] # None
        /\ sessions' = [sessions EXCEPT ![p][k] = None]
        /\ \/ orphan' = orphan
           \/ inHand[p] # None /\ inHand[p].id = k /\ orphan' = [orphan EXCEPT ![p] = sessions[p][k]]
    BY <1>6 DEF Cleanup
  <2>2. \A r \in Peers, j \in Ids : sessions'[r][j] # None => sessions'[r][j] = sessions[r][j]
    BY <2>1 DEF TypeOK
  <2>3. ASSUME NEW r \in Peers, orphan'[r] # None
        PROVE  \A i \in DOMAIN orphan'[r].got : orphan'[r].got[i] = inHand[r].id + 1
    <3>1. \/ orphan'[r] = orphan[r]
          \/ r = p /\ inHand[p].id = k /\ orphan'[r] = sessions[p][k]
      BY <2>1 DEF TypeOK
    <3>. QED BY <2>1, <2>3, <3>1 DEF ReaderIds
  <2>. QED BY <2>1, <2>2, <2>3 DEF ReaderIds
<1>7. CASE UNCHANGED vars BY <1>1, <1>7 DEF vars
<1>. QED BY <1>2, <1>3, <1>4, <1>5, <1>6, <1>7 DEF Next


(* Before the first packet the counter is 0 and there is no shard. *)
LEMMA IdsInit == Init => WriterIds /\ ReaderIds /\ NeverMixed
  BY DEF Init, WriterIds, ReaderIds, NeverMixed

(* A decoder that is given one packet at a time puts out no garbage. *)
LEMMA MixStep ==
  ASSUME TypeOK, HandInv, ReaderIds, NeverMixed, [Next]_vars
  PROVE  NeverMixed'
<1>1. ASSUME NEW p \in Peers, AddShard(p) PROVE garbage' = garbage
  BY <1>1, OneSource DEF AddShard
<1>2. ASSUME NEW p \in Peers, ReadCounter(p) \/ SendShards(p) PROVE garbage' = garbage
  BY <1>2 DEF ReadCounter, SendShards, recvVars
<1>3. ASSUME NEW s \in net, Lose(s) \/ LookUp(s) PROVE garbage' = garbage
  BY <1>3 DEF Lose, LookUp, recvVars
<1>4. ASSUME NEW p \in Peers, NEW k \in Ids, Cleanup(p, k) PROVE garbage' = garbage
  BY <1>4 DEF Cleanup
<1>5. CASE UNCHANGED vars BY <1>5 DEF vars, NeverMixed
<1>6. garbage' = garbage BY <1>1, <1>2, <1>3, <1>4, <1>5 DEF Next, vars
<1>. QED BY <1>6 DEF NeverMixed

(* With one writer the decoder puts out only packets that were sent. *)
THEOREM FecNeverMixed == ASSUME OneWriter PROVE Spec => []NeverMixed
<1> DEFINE Inv == TypeOK /\ HandInv /\ WriterIds /\ ReaderIds /\ NeverMixed
<1>1. Init => Inv BY FecInit, IdsInit
<1>2. Inv /\ [Next]_vars => Inv' BY FecTypes, WriterStep, ReaderStep, MixStep
<1>. QED BY <1>1, <1>2, PTL DEF Spec

-----------------------------------------------------------------------------
(* The refinement of LossyChannel. *)

\* A packet that was handed up has been sent, and was handed up once.
ChannelInv ==
    /\ TypeOK /\ HandInv /\ OnePlace /\ LittleLeft /\ DeliveredOnce
    /\ WriterIds /\ ReaderIds /\ NeverMixed

(* The decode that hands up a packet is a HandUp of the channel: the packet's *)
(* shards were left, so it was sent, and it cannot have been handed up.       *)
LEMMA AddShardRefines ==
  ASSUME D >= 3, ChannelInv, NEW p \in Peers, AddShard(p),
         LittleLeft', DeliveredOnce', delivered' # delivered
  PROVE  \E n \in 1..MaxPackets : Channel!HandUp(p, n)
<1> USE DEF ChannelInv
<1> DEFINE got == WithShard(Held(p), inHand[p])
<1>1. inHand[p] # None BY DEF AddShard
<1>2. PICK n \in Numbers :
        /\ delivered'[p][n] = delivered[p][n] + 1
        /\ \A r \in Peers, m \in Numbers :
             ~(r = p /\ m = n) => delivered'[r][m] = delivered[r][m]
  BY AddShardDelivers
<1>3. delivered[p][n] \in Nat /\ delivered'[p][n] <= 1 BY DEF TypeOK, DeliveredOnce
<1>4. delivered[p][n] = 0 /\ delivered'[p][n] = 1 BY <1>2, <1>3
<1>5. sent' = sent BY AddShardMoves
<1>6. n <= sent[p] BY <1>4, <1>5 DEF LittleLeft
<1>7. delivered' = [delivered EXCEPT ![p][n] = 1]
  <2>1. delivered' \in [Peers -> [Numbers -> Nat]] BY FecTypes DEF Next, TypeOK
  <2>2. delivered \in [Peers -> [Numbers -> Nat]] BY DEF TypeOK
  <2>3. ASSUME NEW r \in Peers, NEW m \in Numbers
        PROVE  delivered'[r][m] = [delivered EXCEPT ![p][n] = 1][r][m]
    BY <1>2, <1>4, <2>2
  <2>4. ASSUME NEW r \in Peers PROVE delivered'[r] = [delivered EXCEPT ![p][n] = 1][r]
    <3>1. [delivered EXCEPT ![p][n] = 1][r] \in [Numbers -> Nat] BY <2>2
    <3>2. delivered'[r] \in [Numbers -> Nat] BY <2>1
    <3>. QED BY <2>3, <3>1, <3>2
  <2>5. [delivered EXCEPT ![p][n] = 1] \in [Peers -> [Numbers -> Nat]] BY <2>2
  <2>. QED BY <2>1, <2>4, <2>5
<1>8. garbage' = garbage
  BY <1>1, OneSource DEF AddShard
<1>. QED BY <1>4, <1>5, <1>6, <1>7, <1>8 DEF Channel!HandUp, Numbers

(* Every step is one of the channel, or does not show there. *)
LEMMA StepRefines ==
  ASSUME OneWriter, D >= 3, ChannelInv, ChannelInv', [Next]_vars
  PROVE  [Channel!ChannelNext]_(Channel!channelVars)
<1> SUFFICES ASSUME ~ UNCHANGED <<sent, delivered, garbage>> PROVE Channel!ChannelNext
  BY DEF Channel!channelVars
<1>1. ASSUME NEW p \in Peers, SendShards(p) PROVE Channel!Send(p)
  <2>1. sent[p] < MaxPackets BY <1>1 DEF SendShards, ChannelInv, HandInv
  <2>. QED BY <1>1, <2>1 DEF SendShards, recvVars, Channel!Send
<1>2. ASSUME NEW p \in Peers, AddShard(p)
      PROVE  \E n \in 1..MaxPackets : Channel!HandUp(p, n)
  <2>1. garbage' = garbage BY <1>2, OneSource DEF AddShard, ChannelInv
  <2>2. sent' = sent BY <1>2, AddShardMoves DEF ChannelInv
  <2>3. delivered' # delivered BY <2>1, <2>2
  <2>. QED BY <1>2, <2>3, AddShardRefines DEF ChannelInv
<1>3. ASSUME NEW p \in Peers, ReadCounter(p) PROVE FALSE
  BY <1>3 DEF ReadCounter, recvVars
<1>4. ASSUME NEW s \in net, Lose(s) \/ LookUp(s) PROVE FALSE
  BY <1>4 DEF Lose, LookUp, recvVars
<1>5. ASSUME NEW p \in Peers, NEW k \in Ids, Cleanup(p, k) PROVE FALSE
  BY <1>5 DEF Cleanup
<1>6. ~ UNCHANGED vars BY DEF vars
<1>. QED BY <1>1, <1>2, <1>3, <1>4, <1>5, <1>6 DEF Next, Channel!ChannelNext

(* With one writer and at least three data shards sendPacketWithFEC and        *)
(* processFECShard implement a channel that only loses packets.                *)
THEOREM FecRefinesChannel == ASSUME OneWriter, D >= 3 PROVE Spec => ChannelRefinement
<1>1. Init => ChannelInv BY FecInit, OnceInit, IdsInit DEF ChannelInv
<1>2. ChannelInv /\ [Next]_vars => ChannelInv'
  BY FecTypes, StepOnePlace, OnceStep, WriterStep, ReaderStep, MixStep DEF ChannelInv
<1>3. Init => Channel!ChannelInit BY DEF Init, Channel!ChannelInit, Numbers
<1>4. ChannelInv /\ ChannelInv' /\ [Next]_vars => [Channel!ChannelNext]_(Channel!channelVars)
  BY StepRefines
<1>. QED
  BY <1>1, <1>2, <1>3, <1>4, PTL DEF Spec, ChannelRefinement, Channel!ChannelSpec

-----------------------------------------------------------------------------
(* One loss is recovered. *)

\* A session that is in the map cannot be decoded yet.
NoneReady == \A p \in Peers, k \in Ids :
    sessions[p][k] # None => ~ Decodable(DOMAIN sessions[p][k].got)

\* As long as nothing was cleaned up, every shard of a packet that was sent and
\* not handed up is lost, under way, in hand, or in the session of the packet.
Kept(p, n, i) ==
    \/ i \in LostOf(p, n)
    \/ InNet(p, n, i) \/ InHand(p, n, i) \/ Has(sessions[p][n - 1], n, i)
NoneForgotten ==
    cleanups = 0 =>
        /\ \A p \in Peers : orphan[p] = None
        /\ \A p \in Peers, n \in Numbers, i \in ShardIdx :
             n <= sent[p] /\ delivered[p][n] = 0 => Kept(p, n, i)

(* A session that is decoded is removed. *)
LEMMA ReadyStep ==
  ASSUME TypeOK, HandInv, NoneReady, [Next]_vars
  PROVE  NoneReady'
<1>1. ASSUME sessions' = sessions PROVE NoneReady' BY <1>1 DEF NoneReady
<1>2. ASSUME NEW p \in Peers, ReadCounter(p) \/ SendShards(p) PROVE sessions' = sessions
  BY <1>2 DEF ReadCounter, SendShards, recvVars
<1>3. ASSUME NEW s \in net, Lose(s) PROVE sessions' = sessions
  BY <1>3 DEF Lose, recvVars
<1>4. ASSUME NEW s \in net, LookUp(s) PROVE NoneReady'
  <2> DEFINE new == [size |-> Size[s.n], got |-> Empty]
  <2>1. ~ Decodable(DOMAIN new.got)
    <3>1. DOMAIN new.got = {} BY DEF Empty
    <3>2. Cardinality({}) = 0 BY FS_EmptySet
    <3>. QED BY <3>1, <3>2, CodecAssumption DEF Decodable
  <2>2. s.to \in Peers /\ s.id \in Ids BY DEF TypeOK, Shards
  <2>3. sessions' = sessions \/ sessions' = [sessions EXCEPT ![s.to][s.id] = new]
    BY <1>4 DEF LookUp
  <2> HIDE DEF new
  <2>4. CASE sessions' = [sessions EXCEPT ![s.to][s.id] = new]
    <3> SUFFICES ASSUME NEW p \in Peers, NEW k \in Ids, sessions'[p][k] # None
                 PROVE  ~ Decodable(DOMAIN sessions'[p][k].got)
      BY DEF NoneReady
    <3>1. CASE p = s.to /\ k = s.id
      <4>1. sessions'[p][k] = new BY <2>2, <2>4, <3>1 DEF TypeOK
      <4>. QED BY <2>1, <4>1
    <3>2. CASE ~(p = s.to /\ k = s.id)
      <4>1. sessions'[p][k] = sessions[p][k] BY <2>2, <2>4, <3>2 DEF TypeOK
      <4>. QED BY <4>1 DEF NoneReady
    <3>. QED BY <3>1, <3>2
  <2>. QED BY <1>1, <2>3, <2>4
<1>5. ASSUME NEW p \in Peers, AddShard(p) PROVE NoneReady'
  <2>1. inHand[p] # None BY <1>5 DEF AddShard
  <2>2. Held(p) \in Sessions /\ WithShard(Held(p), inHand[p]) \in Contents
    BY <2>1, HeldType, WithShardType
  <2> SUFFICES ASSUME NEW r \in Peers, NEW k \in Ids, sessions'[r][k] # None
               PROVE  ~ Decodable(DOMAIN sessions'[r][k].got)
    BY DEF NoneReady
  <2>3. CASE r = p /\ k = inHand[p].id /\ orphan[p] = None
    <3>1. sessions'[r][k] = AfterAdd(Held(p), WithShard(Held(p), inHand[p]))
      BY <1>5, <2>3, AddShardMoves
    <3>. QED BY <2>2, <3>1, AfterAddType
  <2>4. CASE ~(r = p /\ k = inHand[p].id /\ orphan[p] = None)
    <3>1. sessions'[r][k] = sessions[r][k] BY <1>5, <2>4, AddShardMoves
    <3>. QED BY <3>1 DEF NoneReady
  <2>. QED BY <2>3, <2>4
<1>6. ASSUME NEW p \in Peers, NEW k \in Ids, Cleanup(p, k) PROVE NoneReady'
  <2>1. sessions' = [sessions EXCEPT ![p][k] = None] BY <1>6 DEF Cleanup
  <2>2. \A r \in Peers, j \in Ids : sessions'[r][j] # None => sessions'[r][j] = sessions[r][j]
    BY <2>1 DEF TypeOK
  <2>. QED BY <2>2 DEF NoneReady
<1>7. CASE UNCHANGED vars BY <1>1, <1>7 DEF vars
<1>. QED BY <1>1, <1>2, <1>3, <1>4, <1>5, <1>6, <1>7 DEF Next

(* With one writer a shard is given up only when its packet is handed up. *)
LEMMA AddShardKeeps ==
  ASSUME OneWriter, TypeOK, HandInv, ReaderIds, NEW p \in Peers, AddShard(p), orphan[p] = None,
         NEW n \in Numbers, NEW i \in ShardIdx, Kept(p, n, i), delivered'[p][n] = 0
  PROVE  Kept(p, n, i)'
<1> DEFINE got == WithShard(Held(p), inHand[p])
           id == inHand[p].id
<1>1. inHand[p] # None BY DEF AddShard
<1>2. Held(p) \in Sessions /\ inHand[p] \in Shards /\ id \in Ids BY <1>1, HeldType
<1>3. got \in Contents /\ DOMAIN got = DOMAIN Held(p).got \cup {inHand[p].i}
  BY <1>2, WithShardType
<1>4. n \in Int /\ n - 1 \in Ids BY SessionAssumption DEF Numbers, Ids, OneWriter
<1>5. inHand[p].n \in Numbers /\ id \in Int BY <1>2, SessionAssumption DEF Shards, Ids
<1>6. /\ Held(p) \in Sessions /\ inHand[p] \in Shards /\ id \in Ids /\ got \in Contents
      /\ inHand[p].n \in Numbers /\ id \in Int /\ n \in Int /\ n - 1 \in Ids
  BY <1>2, <1>3, <1>4, <1>5
<1>7. lost' = lost /\ net' = net BY DEF AddShard
<1>8. i \in LostOf(p, n) \/ InNet(p, n, i) => Kept(p, n, i)'
  BY <1>7 DEF Kept, LostOf, InNet
<1>9. Held(p) = sessions[p][id] BY DEF Held
<1>10. CASE InHand(p, n, i) \/ (n - 1 = id /\ Has(sessions[p][n - 1], n, i))
  <2>1. inHand[p].n = n /\ n - 1 = id
    <3>1. inHand[p].n = id + 1 BY <1>1, HeldIds
    <3>. QED BY <1>6, <1>10, <3>1 DEF InHand
  <2>2. i \in DOMAIN got
    <3>1. i = inHand[p].i \/ i \in DOMAIN Held(p).got BY <1>9, <1>10, <2>1 DEF InHand, Has
    <3>. QED BY <1>3, <3>1
  <2>3. got[i] = n BY <1>1, <2>1, <2>2, HeldIds
  <2>4. ~ Decodable(DOMAIN got)
    <3> SUFFICES ASSUME Decodable(DOMAIN got) PROVE FALSE
      OBVIOUS
    <3>1. Sources(got) = {n} /\ Cardinality(Sources(got)) = 1 BY <1>1, <2>1, OneSource
    <3> HIDE DEF got
    <3>2. delivered' = [delivered EXCEPT ![p] =
                          [m \in Numbers |-> IF m \in Sources(got) THEN @[m] + 1 ELSE @[m]]]
      BY <3>1 DEF AddShard, got
    <3>3. delivered'[p][n] = delivered[p][n] + 1 /\ delivered[p][n] \in Nat
      BY <3>1, <3>2 DEF TypeOK
    <3>. QED BY <3>3
  <2>5. sessions'[p][id] = AfterAdd(Held(p), got) BY AddShardMoves
  <2>6. sessions'[p][id] # None /\ sessions'[p][id].got = got
    BY <1>6, <2>4, <2>5, AfterAddType
  <2>7. Has(sessions'[p][n - 1], n, i) BY <2>1, <2>2, <2>3, <2>6 DEF Has
  <2>. QED BY <2>7 DEF Kept
<1>11. CASE n - 1 # id /\ Has(sessions[p][n - 1], n, i)
  <2>1. sessions'[p][n - 1] = sessions[p][n - 1] BY <1>6, <1>11, AddShardMoves
  <2>. QED BY <1>11, <2>1 DEF Kept
<1>. QED BY <1>8, <1>10, <1>11 DEF Kept

(* A shard that arrives is taken, since its session has the size of its packet. *)
LEMMA LookUpKeeps ==
  ASSUME OneWriter, TypeOK, HandInv, WriterIds, ReaderIds, NEW s \in net, LookUp(s),
         NEW p \in Peers, NEW n \in Numbers, NEW i \in ShardIdx, Kept(p, n, i)
  PROVE  Kept(p, n, i)'
<1>1. /\ s.to \in Peers /\ s.id \in Ids /\ s.n \in Numbers /\ s.n \in Int /\ s \in Shards
      /\ n \in Int /\ n - 1 \in Ids
  BY SessionAssumption, SMTT(30) DEF TypeOK, Shards, Numbers, Ids, OneWriter
<1>2. s # None BY <1>1, SessionAssumption
<1>3. s.id + 1 = s.n BY <1>1 DEF WriterIds
<1>4. inHand' = [inHand EXCEPT ![s.to] = s] BY <1>1, <1>3 DEF LookUp, ReaderIds
<1>5. lost' = lost /\ net' = net \ {s} /\ inHand[s.to] = None BY DEF LookUp
<1>6. CASE i \in LostOf(p, n) BY <1>5, <1>6 DEF Kept, LostOf
<1>7. CASE InNet(p, n, i)
  <2>1. PICK t \in net : t.to = p /\ t.n = n /\ t.i = i BY <1>7 DEF InNet
  <2>2. CASE t = s
    <3>1. inHand'[p] = s BY <1>4, <2>1, <2>2 DEF TypeOK
    <3>. QED BY <1>2, <2>1, <2>2, <3>1 DEF Kept, InHand
  <2>3. CASE t # s BY <1>5, <2>1, <2>3 DEF Kept, InNet
  <2>. QED BY <2>2, <2>3
<1>8. CASE InHand(p, n, i)
  <2>1. p # s.to BY <1>5, <1>8 DEF InHand
  <2>2. inHand'[p] = inHand[p] BY <1>4, <2>1 DEF TypeOK
  <2>. QED BY <1>8, <2>2 DEF Kept, InHand
<1>9. CASE Has(sessions[p][n - 1], n, i)
  <2>1. sessions'[p][n - 1] = sessions[p][n - 1]
    <3>1. CASE sessions' = sessions BY <3>1
    <3>2. CASE sessions' # sessions
      <4>1. sessions[s.to][s.id] = None
            /\ sessions' = [sessions EXCEPT ![s.to][s.id] = [size |-> Size[s.n], got |-> Empty]]
        BY <3>2 DEF LookUp
      <4>2. ~(p = s.to /\ n - 1 = s.id) BY <1>9, <4>1 DEF Has
      <4>. QED BY <1>1, <4>1, <4>2 DEF TypeOK
    <3>. QED BY <3>1, <3>2
  <2>. QED BY <1>9, <2>1 DEF Kept
<1>. QED BY <1>6, <1>7, <1>8, <1>9 DEF Kept


(* No shard is forgotten. *)
LEMMA ForgottenStep ==
  ASSUME OneWriter, TypeOK, HandInv, WriterIds, ReaderIds, NoneForgotten, [Next]_vars
  PROVE  NoneForgotten'
<1>1. ASSUME NEW p \in Peers, ReadCounter(p) PROVE NoneForgotten'
  BY <1>1 DEF ReadCounter, recvVars, NoneForgotten, Kept, LostOf, InNet, InHand
<1>2. ASSUME NEW p \in Peers, SendShards(p) PROVE NoneForgotten'
  <2>1. /\ sent' = [sent EXCEPT ![p] = @ + 1] /\ sent[p] \in Nat
        /\ UNCHANGED <<lost, sessions, inHand, orphan, delivered, cleanups>>
        /\ net \subseteq net'
    BY <1>2 DEF SendShards, recvVars, TypeOK
  <2>2. \A i \in ShardIdx : [to |-> p, n |-> sent[p] + 1, id |-> read[p], i |-> i] \in net'
    BY <1>2, <2>1 DEF SendShards, TypeOK
  <2>3. ASSUME NEW r \in Peers, NEW n \in Numbers, NEW i \in ShardIdx, Kept(r, n, i)
        PROVE  Kept(r, n, i)'
    BY <2>1, <2>3 DEF Kept, LostOf, InNet, InHand
  <2>4. ASSUME NEW n \in Numbers, n = sent[p] + 1, NEW i \in ShardIdx PROVE Kept(p, n, i)'
    BY <2>2, <2>4 DEF Kept, InNet
  <2>5. ASSUME cleanups' = 0, NEW r \in Peers, NEW n \in Numbers, NEW i \in ShardIdx,
               n <= sent'[r], delivered'[r][n] = 0
        PROVE  Kept(r, n, i)'
    <3>1. n \in Nat /\ sent[r] \in Nat BY SessionAssumption DEF TypeOK, Numbers
    <3>2. n <= sent[r] \/ (r = p /\ n = sent[p] + 1) BY <2>1, <2>5, <3>1 DEF TypeOK
    <3>3. CASE n <= sent[r] BY <2>1, <2>3, <2>5, <3>3 DEF NoneForgotten
    <3>4. CASE r = p /\ n = sent[p] + 1 BY <2>4, <3>4
    <3>. QED BY <3>2, <3>3, <3>4
  <2>. QED BY <2>1, <2>5 DEF NoneForgotten
<1>3. ASSUME NEW s \in net, Lose(s) PROVE NoneForgotten'
  <2>1. /\ net' = net \ {s} /\ lost' = lost \cup {s}
        /\ UNCHANGED <<sent, sessions, inHand, orphan, delivered, cleanups>>
    BY <1>3 DEF Lose, recvVars
  <2>2. ASSUME NEW r \in Peers, NEW n \in Numbers, NEW i \in ShardIdx, Kept(r, n, i)
        PROVE  Kept(r, n, i)'
    <3>1. CASE i \in LostOf(r, n) BY <2>1, <3>1 DEF Kept, LostOf
    <3>2. CASE InNet(r, n, i)
      <4>1. PICK t \in net : t.to = r /\ t.n = n /\ t.i = i BY <3>2 DEF InNet
      <4>2. CASE t = s
        <5>1. t \in lost' BY <2>1, <4>2
        <5>2. i \in LostOf(r, n)' BY <4>1, <5>1 DEF LostOf
        <5>. QED BY <5>2 DEF Kept
      <4>3. CASE t # s BY <2>1, <4>1, <4>3 DEF Kept, InNet
      <4>. QED BY <4>2, <4>3
    <3>3. CASE InHand(r, n, i) \/ Has(sessions[r][n - 1], n, i)
      BY <2>1, <3>3 DEF Kept, InHand
    <3>. QED BY <2>2, <3>1, <3>2, <3>3 DEF Kept
  <2>. QED BY <2>1, <2>2 DEF NoneForgotten
<1>4. ASSUME NEW s \in net, LookUp(s) PROVE NoneForgotten'
  <2>1. UNCHANGED <<sent, orphan, delivered, cleanups>> BY <1>4 DEF LookUp
  <2>. QED BY <1>4, <2>1, LookUpKeeps DEF NoneForgotten
<1>5. ASSUME NEW p \in Peers, AddShard(p) PROVE NoneForgotten'
  <2>1. UNCHANGED <<sent, cleanups, lost, net>> /\ orphan' = [orphan EXCEPT ![p] = None]
    BY <1>5 DEF AddShard
  <2> SUFFICES ASSUME cleanups = 0 PROVE NoneForgotten'
    BY <2>1 DEF NoneForgotten
  <2>2. \A r \in Peers : orphan[r] = None /\ orphan'[r] = None
    BY <2>1 DEF NoneForgotten, TypeOK
  <2>3. ASSUME NEW r \in Peers, NEW n \in Numbers, NEW i \in ShardIdx,
               n <= sent'[r], delivered'[r][n] = 0
        PROVE  Kept(r, n, i)'
    <3>1. r = p BY DEF OneWriter
    <3>2. delivered[p][n] = 0
      <4>1. delivered[p][n] \in Nat BY DEF TypeOK
      <4>2. \/ delivered' = delivered
            \/ delivered'[p][n] = delivered[p][n] + 1
            \/ delivered'[p][n] = delivered[p][n]
        BY <1>5, AddShardDelivers
      <4>. QED BY <2>3, <3>1, <4>1, <4>2
    <3>3. Kept(p, n, i) BY <2>1, <2>3, <3>1, <3>2 DEF NoneForgotten
    <3>. QED BY <1>5, <2>2, <2>3, <3>1, <3>3, AddShardKeeps
  <2>. QED BY <2>2, <2>3 DEF NoneForgotten
<1>6. ASSUME NEW p \in Peers, NEW k \in Ids, Cleanup(p, k) PROVE NoneForgotten'
  <2>1. cleanups' # 0 BY <1>6 DEF Cleanup, TypeOK
  <2>. QED BY <2>1 DEF NoneForgotten
<1>7. CASE UNCHANGED vars
  BY <1>7 DEF vars, NoneForgotten, Kept, LostOf, InNet, InHand
<1>. QED BY <1>1, <1>2, <1>3, <1>4, <1>5, <1>6, <1>7 DEF Next

(* A packet whose shards have all arrived or are lost was handed up, if the     *)
(* ones that arrived can be decoded.                                           *)
LEMMA RecoveredFromKept ==
  ASSUME OneWriter, TypeOK, NoneReady, NoneForgotten
  PROVE  OneLossRecovered
<1> SUFFICES ASSUME NEW p \in Peers, NEW n \in Numbers, cleanups = 0, Settled(p, n),
                    Decodable(ShardIdx \ LostOf(p, n)), ~(delivered[p][n] >= 1)
             PROVE  FALSE
  BY DEF OneLossRecovered
<1> DEFINE there == ShardIdx \ LostOf(p, n)
           session == sessions[p][n - 1]
<1>1. n \in Nat /\ n - 1 \in Ids BY SessionAssumption DEF Numbers, Ids, OneWriter
<1>2. delivered[p][n] = 0
  <2>1. delivered[p][n] \in Nat BY DEF TypeOK
  <2>. QED BY <2>1
<1>3. \A i \in there : Has(session, n, i)
  BY <1>2 DEF NoneForgotten, Kept, Settled, InNet, InHand
<1>4. there # {}
  <2> SUFFICES ASSUME there = {} PROVE FALSE
    OBVIOUS
  <2>1. Cardinality(there) = 0 BY FS_EmptySet
  <2>. QED BY <2>1, CodecAssumption DEF Decodable
<1>5. session # None /\ there \subseteq DOMAIN session.got BY <1>3, <1>4 DEF Has
<1>6. session \in Sessions BY <1>1, <1>5 DEF TypeOK
<1>7. DOMAIN session.got \subseteq ShardIdx BY <1>6, ContentsAre DEF Sessions
<1>8. Decodable(DOMAIN session.got) BY <1>5, <1>7, DecodableMonotone
<1>. QED BY <1>1, <1>5, <1>8 DEF NoneReady

(* With one writer the parity shards do what they are for: a packet is handed  *)
(* up whenever the shards that were not lost can be decoded, in whatever order *)
(* they arrive, as long as no session is cleaned up before.                    *)
THEOREM FecOneLossRecovered == ASSUME OneWriter PROVE Spec => []OneLossRecovered
<1> DEFINE Inv == /\ TypeOK /\ HandInv /\ WriterIds /\ ReaderIds
                  /\ NoneReady /\ NoneForgotten
<1>1. Init => Inv
  <2>1. Init => NoneReady /\ NoneForgotten
    <3> SUFFICES ASSUME Init PROVE NoneReady /\ NoneForgotten
      OBVIOUS
    <3>1. \A p \in Peers, k \in Ids : sessions[p][k] = None BY DEF Init
    <3>2. \A p \in Peers, n \in Numbers : ~(n <= sent[p])
      BY SessionAssumption DEF Init, Numbers
    <3>3. \A p \in Peers : orphan[p] = None BY DEF Init
    <3>. QED BY <3>1, <3>2, <3>3 DEF NoneReady, NoneForgotten
  <2>. QED BY <2>1, FecInit, IdsInit
<1>2. Inv /\ [Next]_vars => Inv'
  BY FecTypes, WriterStep, ReaderStep, ReadyStep, ForgottenStep
<1>3. Inv => OneLossRecovered BY RecoveredFromKept
<1>. QED BY <1>1, <1>2, <1>3, PTL DEF Spec

=============================================================================
