-------------------------- MODULE ContextMM_proofs --------------------------
(***************************************************************************)
(* Proofs about the region allocator, for every set of chunks, every size  *)
(* of a chunk, every limit on the kept chunks and every nesting of         *)
(* regions.                                                                *)
(***************************************************************************)
EXTENDS ContextMM, SequenceTheorems, TLAPS

Region == [nextFree : Address, endChunk : Address, index : Nat]

(* The regions are nested: the chunks of an outer one are a prefix of the  *)
(* chunks of an inner one.                                                 *)
Nested ==
    /\ regions \in Seq(Region)
    /\ \A i, j \in DOMAIN regions : i <= j => regions[i].index <= regions[j].index

(* Every block belongs to an open region, and what was allocated before a  *)
(* region was pushed lies in the chunks and in front of the pointer that   *)
(* pop of that region goes back to.  This is what makes BlocksAreOwned     *)
(* survive pop, which moves d_nextFree back into a shared chunk.           *)
OuterBlocks ==
    \A b \in data :
       /\ b.region <= Len(regions)
       /\ \A i \in DOMAIN regions : b.region < i =>
             /\ \E k \in 1 .. regions[i].index + 1 : b.chunk = d_chunkList[k]
             /\ b.chunk = regions[i].nextFree.chunk
                   => b.at + b.size <= regions[i].nextFree.at

(* The inductive invariant. *)
IInv == BlocksAreOwned /\ ChunksAccounted /\ Nested /\ OuterBlocks

-----------------------------------------------------------------------------
(* Sequences of chunks. *)

(* A concatenation repeats nothing if neither part does and they have      *)
(* nothing in common (the active chunks and the kept ones).                *)
LEMMA InjectiveConcat ==
    ASSUME NEW S, NEW s \in Seq(S), NEW t \in Seq(S)
    PROVE  IsInjective(s \o t) <=>
              /\ IsInjective(s) /\ IsInjective(t)
              /\ \A i \in 1 .. Len(s), j \in 1 .. Len(t) : s[i] # t[j]
  <1> DEFINE u == s \o t
             m == Len(s)
             n == Len(t)
  <1>1. /\ u \in Seq(S) /\ Len(u) = m + n /\ m \in Nat /\ n \in Nat
        /\ DOMAIN u = 1 .. m + n /\ DOMAIN s = 1 .. m /\ DOMAIN t = 1 .. n
    BY ConcatProperties
  <1>2. /\ \A i \in 1 .. m : u[i] = s[i]
        /\ \A i \in 1 .. n : u[m + i] = t[i]
        /\ \A i \in m + 1 .. m + n : u[i] = t[i - m]
    BY <1>1, ConcatProperties
  <1> HIDE DEF u, m, n
  <1>3. ASSUME IsInjective(u)
        PROVE  /\ IsInjective(s) /\ IsInjective(t)
               /\ \A i \in 1 .. m, j \in 1 .. n : s[i] # t[j]
    <2>1. ASSUME NEW i \in 1 .. m, NEW j \in 1 .. m, s[i] = s[j] PROVE i = j
      BY <1>1, <1>2, <1>3, <2>1 DEF IsInjective
    <2>2. ASSUME NEW i \in 1 .. n, NEW j \in 1 .. n, t[i] = t[j] PROVE i = j
      <3>1. u[m + i] = u[m + j] /\ m + i \in 1 .. m + n /\ m + j \in 1 .. m + n
        BY <1>1, <1>2, <2>2
      <3>2. m + i = m + j
        BY <3>1, <1>1, <1>3 DEF IsInjective
      <3> QED BY <3>2, <1>1
    <2>3. ASSUME NEW i \in 1 .. m, NEW j \in 1 .. n, s[i] = t[j] PROVE FALSE
      <3>1. u[i] = u[m + j] /\ i \in 1 .. m + n /\ m + j \in 1 .. m + n
        BY <1>1, <1>2, <2>3
      <3>2. i = m + j
        BY <3>1, <1>1, <1>3 DEF IsInjective
      <3> QED BY <3>2, <1>1
    <2> QED BY <1>1, <2>1, <2>2, <2>3 DEF IsInjective
  <1>4. ASSUME IsInjective(s), IsInjective(t),
               \A i \in 1 .. m, j \in 1 .. n : s[i] # t[j],
               NEW i \in 1 .. m + n, NEW j \in 1 .. m + n, u[i] = u[j]
        PROVE  i = j
    <2>1. CASE i <= m /\ j <= m
      BY <2>1, <1>1, <1>2, <1>4 DEF IsInjective
    <2>2. CASE i > m /\ j > m
      <3>1. i - m \in 1 .. n /\ j - m \in 1 .. n /\ t[i - m] = t[j - m]
        BY <2>2, <1>1, <1>2, <1>4
      <3>2. i - m = j - m
        BY <3>1, <1>1, <1>4 DEF IsInjective
      <3> QED BY <3>2, <1>1
    <2>3. CASE i <= m /\ j > m
      BY <2>3, <1>1, <1>2, <1>4
    <2>4. CASE i > m /\ j <= m
      BY <2>4, <1>1, <1>2, <1>4
    <2> QED BY <2>1, <2>2, <2>3, <2>4, <1>1
  <1>5. (IsInjective(s) /\ IsInjective(t)
         /\ \A i \in 1 .. m, j \in 1 .. n : s[i] # t[j]) => IsInjective(u)
    BY <1>1, <1>4 DEF IsInjective
  <1> QED BY <1>3, <1>5 DEF u, m, n

(* A part of a sequence: its elements and their order.                     *)
LEMMA PartOf ==
    ASSUME NEW S, NEW s \in Seq(S), NEW m \in 1 .. Len(s) + 1, NEW n \in m - 1 .. Len(s)
    PROVE  /\ SubSeq(s, m, n) \in Seq(S)
           /\ Len(SubSeq(s, m, n)) = n - m + 1
           /\ \A i \in 1 .. n - m + 1 : SubSeq(s, m, n)[i] = s[m + i - 1]
           /\ IsInjective(s) => IsInjective(SubSeq(s, m, n))
  <1> DEFINE u == SubSeq(s, m, n)
  <1>0. Len(s) \in Nat /\ m \in Int /\ n \in Int /\ \A i \in m .. n : s[i] \in S
    OBVIOUS
  <1>1. /\ u \in Seq(S) /\ Len(u) = n - m + 1
        /\ \A i \in 1 .. n - m + 1 : u[i] = s[m + i - 1]
    BY <1>0, SubSeqProperties
  <1>2. DOMAIN u = 1 .. n - m + 1 /\ DOMAIN s = 1 .. Len(s)
    BY <1>1
  <1> HIDE DEF u
  <1>3. ASSUME IsInjective(s), NEW i \in 1 .. n - m + 1, NEW j \in 1 .. n - m + 1,
               u[i] = u[j]
        PROVE  i = j
    <2>1. m + i - 1 \in 1 .. Len(s) /\ m + j - 1 \in 1 .. Len(s)
      BY <1>0
    <2>2. m + i - 1 = m + j - 1
      BY <2>1, <1>1, <1>2, <1>3 DEF IsInjective
    <2> QED BY <2>2, <1>0
  <1>4. IsInjective(s) => IsInjective(u)
    BY <1>2, <1>3 DEF IsInjective
  <1> QED BY <1>1, <1>4 DEF u

LEMMA PrefixOf ==
    ASSUME NEW S, NEW s \in Seq(S), NEW n \in 0 .. Len(s)
    PROVE  /\ SubSeq(s, 1, n) \in Seq(S)
           /\ Len(SubSeq(s, 1, n)) = n
           /\ \A i \in 1 .. n : SubSeq(s, 1, n)[i] = s[i]
           /\ IsInjective(s) => IsInjective(SubSeq(s, 1, n))
  <1> DEFINE u == SubSeq(s, 1, n)
  <1>1. 1 \in 1 .. Len(s) + 1 /\ n \in 1 - 1 .. Len(s) /\ n \in Nat
    OBVIOUS
  <1>2. /\ u \in Seq(S) /\ Len(u) = n - 1 + 1
        /\ \A i \in 1 .. n - 1 + 1 : u[i] = s[1 + i - 1]
        /\ IsInjective(s) => IsInjective(u)
    BY <1>1, PartOf
  <1> HIDE DEF u
  <1>3. n - 1 + 1 = n /\ \A i \in Int : 1 + i - 1 = i
    BY <1>1
  <1> QED BY <1>2, <1>3 DEF u

(* A sequence read backwards (the order in which pop gives up chunks).     *)
LEMMA Backwards ==
    ASSUME NEW S, NEW s \in Seq(S)
    PROVE  /\ Reverse(s) \in Seq(S)
           /\ Len(Reverse(s)) = Len(s)
           /\ \A i \in 1 .. Len(s) : Reverse(s)[i] = s[Len(s) - i + 1]
           /\ IsInjective(s) => IsInjective(Reverse(s))
  <1> DEFINE n == Len(s)
             u == Reverse(s)
  <1>1. n \in Nat /\ DOMAIN s = 1 .. n /\ \A i \in 1 .. n : s[i] \in S
    OBVIOUS
  <1>2. u = [i \in 1 .. n |-> s[n - i + 1]]
    BY DEF Reverse
  <1>3. \A i \in 1 .. n : n - i + 1 \in 1 .. n
    BY <1>1
  <1>4. u \in Seq(S) /\ Len(u) = n
    BY <1>1, <1>2, <1>3
  <1> HIDE DEF u, n
  <1>5. ASSUME IsInjective(s), NEW i \in 1 .. n, NEW j \in 1 .. n, u[i] = u[j]
        PROVE  i = j
    <2>1. n - i + 1 = n - j + 1
      BY <1>1, <1>2, <1>3, <1>5 DEF IsInjective
    <2> QED BY <2>1, <1>1
  <1>6. IsInjective(s) => IsInjective(u)
    BY <1>2, <1>5 DEF IsInjective
  <1> QED BY <1>2, <1>4, <1>6 DEF u, n

-----------------------------------------------------------------------------
(* The constructor establishes the invariant. *)
LEMMA InitIInv == Init => IInv
  <1> SUFFICES ASSUME NEW c \in Chunk,
                      d_chunkList = <<c>>, d_freeChunks = <<>>,
                      d_nextFree = [chunk |-> c, at |-> 0],
                      d_endChunk = [chunk |-> c, at |-> chunkSizeBytes],
                      d_indexChunkList = 0, regions = <<>>, data = {}
               PROVE  IInv
    BY DEF Init
  <1>1. BlocksAreOwned
    BY SizesAssumption DEF BlocksAreOwned, TypeOK, Address
  <1>2. IsInjective(d_chunkList \o d_freeChunks)
    <2>1. IsInjective(<<c>>) /\ IsInjective(<<>>)
      BY DEF IsInjective
    <2> QED BY <2>1, InjectiveConcat
  <1>3. ChunksAccounted
    BY <1>2, SizesAssumption DEF ChunksAccounted, Last
  <1>4. Nested /\ OuterBlocks
    BY DEF Nested, OuterBlocks
  <1> QED BY <1>1, <1>3, <1>4 DEF IInv

(* What the invariant says, in the form in which the steps use it.         *)
LEMMA Facts ==
    ASSUME IInv
    PROVE  /\ chunkSizeBytes \in Nat \ {0} /\ maxFreeChunks \in Nat
           /\ d_chunkList \in Seq(Chunk) /\ d_freeChunks \in Seq(Chunk)
           /\ d_indexChunkList \in Nat /\ Len(d_chunkList) = d_indexChunkList + 1
           /\ IsInjective(d_chunkList) /\ IsInjective(d_freeChunks)
           /\ \A i \in 1 .. Len(d_chunkList), j \in 1 .. Len(d_freeChunks) :
                 d_chunkList[i] # d_freeChunks[j]
           /\ regions \in Seq(Region)
           /\ d_nextFree \in Address
  BY InjectiveConcat, SizesAssumption
  DEF IInv, BlocksAreOwned, TypeOK, ChunksAccounted, Nested

LEMMA RegionFacts ==
    ASSUME IInv, NEW i \in DOMAIN regions
    PROVE  /\ regions[i].index \in Nat /\ regions[i].index <= d_indexChunkList
           /\ regions[i].index + 1 \in 1 .. Len(d_chunkList)
           /\ regions[i] \in Region
           /\ regions[i].nextFree.chunk = d_chunkList[regions[i].index + 1]
           /\ regions[i].endChunk = [chunk |-> regions[i].nextFree.chunk,
                                     at |-> chunkSizeBytes]
  <1>1. regions[i] \in Region
    BY DEF IInv, Nested
  <1>2. regions[i].index \in Nat
    BY <1>1 DEF Region
  <1> QED BY <1>1, <1>2, Facts DEF IInv, ChunksAccounted

LEMMA BlockFacts ==
    ASSUME IInv, NEW b \in data
    PROVE  b.at \in Nat /\ b.size \in Nat /\ b.region \in Nat
  <1>1. b.size \in Size /\ b.at \in 0 .. chunkSizeBytes - 1 /\ b.region \in Nat
    BY DEF IInv, BlocksAreOwned, TypeOK
  <1>2. b.size \in 1 .. chunkSizeBytes /\ chunkSizeBytes \in Nat
    BY <1>1, SizesAssumption
  <1>3. b.size \in Nat
    BY <1>2
  <1>4. b.at \in Nat
    BY <1>1, <1>2
  <1> QED BY <1>1, <1>3, <1>4

(* newData keeps it: the new block begins where all others in its chunk    *)
(* have ended.                                                             *)
LEMMA NewDataIInv ==
    ASSUME IInv, NEW size \in Size, newData(size)
    PROVE  IInv'
  <1> DEFINE n == Block(d_nextFree, size)
  <1>1. /\ size \in 1 .. chunkSizeBytes /\ d_nextFree.at + size <= d_endChunk.at
        /\ d_endChunk.at = chunkSizeBytes /\ d_nextFree \in Address
        /\ chunkSizeBytes \in Nat
    BY SizesAssumption DEF newData, IInv, ChunksAccounted, BlocksAreOwned, TypeOK
  <1>2. /\ data' = data \cup {n}
        /\ d_nextFree' = [d_nextFree EXCEPT !.at = @ + size]
        /\ UNCHANGED <<d_chunkList, d_freeChunks, d_endChunk, d_indexChunkList, regions>>
    BY DEF newData
  <1>3. /\ d_nextFree' \in Address /\ d_nextFree'.chunk = d_nextFree.chunk
        /\ d_nextFree'.at = d_nextFree.at + size
    BY <1>1, <1>2 DEF Address
  <1>4. /\ n.chunk = d_nextFree.chunk /\ n.at = d_nextFree.at /\ n.size = size
        /\ n.region = Len(regions) /\ n.chunk \in Chunk
        /\ n.at \in 0 .. chunkSizeBytes - 1 /\ n.region \in Nat
        /\ n.chunk \in ToSet(d_chunkList)
    BY <1>1, Facts DEF Block, Address, IInv, ChunksAccounted, Last, ToSet
  <1> HIDE DEF n
  <1>5. TypeOK'
    BY <1>2, <1>3, <1>4 DEF IInv, BlocksAreOwned, TypeOK
  <1>6. BlocksAreOwned'
    <2>1. ASSUME NEW b \in data
          PROVE  /\ b.chunk = n.chunk => b.at + b.size <= n.at
                 /\ b.chunk = d_nextFree'.chunk => b.at + b.size <= d_nextFree'.at
      <3>1. b.at \in Nat /\ b.size \in Nat /\ d_nextFree.at \in Nat
        BY <1>1, BlockFacts DEF Address
      <3> QED BY <3>1, <1>1, <1>3, <1>4 DEF IInv, BlocksAreOwned
    <2>2. n.at + n.size <= chunkSizeBytes /\ n.at + n.size <= d_nextFree'.at
      BY <1>1, <1>3, <1>4 DEF Address
    <2>3. ASSUME NEW b \in data', NEW e \in data' \ {b}, b.chunk = e.chunk
          PROVE  b.at + b.size <= e.at \/ e.at + e.size <= b.at
      <3>1. CASE b \in data /\ e \in data
        BY <2>3, <3>1 DEF IInv, BlocksAreOwned
      <3>2. CASE b = n /\ e \in data
        BY <2>1, <2>3, <3>2
      <3>3. CASE e = n /\ b \in data
        BY <2>1, <2>3, <3>3
      <3> QED BY <3>1, <3>2, <3>3, <1>2
    <2> QED BY <1>2, <1>4, <1>5, <2>1, <2>2, <2>3 DEF IInv, BlocksAreOwned
  <1>7. ChunksAccounted'
    BY <1>2, <1>3 DEF IInv, ChunksAccounted
  <1>8. Nested' /\ OuterBlocks'
    BY <1>2, <1>4, Facts DEF IInv, Nested, OuterBlocks
  <1> QED BY <1>6, <1>7, <1>8 DEF IInv

(* newData in a new chunk keeps it: the chunk holds no block of anybody,   *)
(* since it was not active.                                                *)
LEMMA NewChunkIInv ==
    ASSUME IInv, NEW size \in Size, NEW c \in Chunk, newDataInNewChunk(size, c)
    PROVE  IInv'
  <1> DEFINE n == Block([chunk |-> c, at |-> 0], size)
             m == Len(d_chunkList)
             free == d_freeChunks
  <1>1. /\ size \in 1 .. chunkSizeBytes /\ chunkSizeBytes \in Nat
        /\ m \in Nat /\ m = d_indexChunkList + 1 /\ Len(free) \in Nat
    BY SizesAssumption, Facts
  <1>2. /\ data' = data \cup {n}
        /\ d_nextFree' = [chunk |-> c, at |-> size]
        /\ d_endChunk' = [chunk |-> c, at |-> chunkSizeBytes]
        /\ d_indexChunkList' = d_indexChunkList + 1
        /\ d_chunkList' = Append(d_chunkList, c)
        /\ regions' = regions
    BY DEF newDataInNewChunk, newChunk
  <1>3. /\ n.chunk = c /\ n.at = 0 /\ n.size = size
        /\ n.region = Len(regions) /\ n.region \in Nat
    BY Facts DEF Block
  <1>4. /\ d_chunkList' \in Seq(Chunk) /\ Len(d_chunkList') = m + 1
        /\ \A i \in 1 .. m : d_chunkList'[i] = d_chunkList[i]
        /\ d_chunkList'[m + 1] = c
    BY <1>2, Facts, AppendProperties
  <1>5. /\ d_freeChunks' \in Seq(Chunk) /\ IsInjective(d_freeChunks')
        /\ Len(d_freeChunks') <= maxFreeChunks
        /\ \A i \in 1 .. m : d_chunkList[i] # c
        /\ \A j \in 1 .. Len(d_freeChunks') : d_freeChunks'[j] # c
        /\ \A i \in 1 .. m, j \in 1 .. Len(d_freeChunks') :
              d_chunkList[i] # d_freeChunks'[j]
    <2>1. CASE free = <<>>
      BY <2>1, Facts
      DEF newDataInNewChunk, newChunk, Malloced, ToSet, IInv, ChunksAccounted
    <2>2. CASE free # <<>>
      <3>1. /\ c = free[Len(free)] /\ Len(free) \in Nat \ {0}
            /\ d_freeChunks' = SubSeq(free, 1, Len(free) - 1)
        BY <2>2, Facts DEF newDataInNewChunk, newChunk, Last, Front
      <3>2. /\ d_freeChunks' \in Seq(Chunk) /\ Len(d_freeChunks') = Len(free) - 1
            /\ \A i \in 1 .. Len(free) - 1 : d_freeChunks'[i] = free[i]
            /\ IsInjective(d_freeChunks')
        <4> HIDE DEF free
        <4>1. free \in Seq(Chunk) /\ IsInjective(free)
          BY Facts DEF free
        <4>2. Len(free) - 1 \in 0 .. Len(free)
          BY <3>1
        <4> QED BY <3>1, <4>1, <4>2, PrefixOf
      <3>3. \A i \in 1 .. Len(free) - 1 : free[i] # c
        BY <3>1, Facts DEF IsInjective
      <3>4. Len(d_freeChunks') <= maxFreeChunks
        BY <3>1, <3>2, Facts DEF IInv, ChunksAccounted
      <3> QED BY <3>1, <3>2, <3>3, <3>4, Facts
    <2> QED BY <2>1, <2>2
  <1> HIDE DEF n
  <1>6. \A b \in data : b.chunk # c
    BY <1>5, Facts DEF IInv, BlocksAreOwned, ToSet
  <1>7. TypeOK'
    BY <1>1, <1>2, <1>3, <1>4, <1>5
    DEF IInv, BlocksAreOwned, TypeOK, Address
  <1>8. BlocksAreOwned'
    <2>1. \A b \in data : b.chunk \in ToSet(d_chunkList')
      <3> SUFFICES ASSUME NEW b \in data PROVE b.chunk \in ToSet(d_chunkList')
        OBVIOUS
      <3>1. PICK i \in 1 .. m : b.chunk = d_chunkList[i]
        BY Facts DEF IInv, BlocksAreOwned, ToSet
      <3>2. d_chunkList'[i] = b.chunk /\ i \in DOMAIN d_chunkList'
        BY <1>1, <1>4, <3>1
      <3> QED BY <3>2 DEF ToSet
    <2>2. n.chunk \in ToSet(d_chunkList')
      <3>1. m + 1 \in DOMAIN d_chunkList'
        BY <1>1, <1>4
      <3> QED BY <1>3, <1>4, <3>1 DEF ToSet
    <2>3. ASSUME NEW b \in data', NEW e \in data' \ {b}, b.chunk = e.chunk
          PROVE  b.at + b.size <= e.at \/ e.at + e.size <= b.at
      <3>1. b \in data /\ e \in data
        BY <2>3, <1>2, <1>3, <1>6
      <3> QED BY <2>3, <3>1 DEF IInv, BlocksAreOwned
    <2>4. \A b \in data' : /\ b.at + b.size <= chunkSizeBytes
                           /\ b.chunk = d_nextFree'.chunk
                                 => b.at + b.size <= d_nextFree'.at
      BY <1>1, <1>2, <1>3, <1>6 DEF IInv, BlocksAreOwned
    <2>5. \A b \in data' : b.chunk \in ToSet(d_chunkList')
      BY <1>2, <2>1, <2>2
    <2> QED BY <1>7, <2>3, <2>4, <2>5 DEF BlocksAreOwned
  <1>9. ChunksAccounted'
    <2>1. IsInjective(d_chunkList')
      <3>1. ASSUME NEW i \in 1 .. m + 1, NEW j \in 1 .. m + 1,
                   d_chunkList'[i] = d_chunkList'[j]
            PROVE  i = j
        <4>1. \A x, y \in 1 .. m : d_chunkList[x] = d_chunkList[y] => x = y
          <5>1. DOMAIN d_chunkList = 1 .. m
            BY Facts
          <5>2. IsInjective(d_chunkList)
            BY Facts
          <5> QED BY <5>1, <5>2 DEF IsInjective
        <4>2. CASE i \in 1 .. m /\ j \in 1 .. m
          BY <3>1, <4>1, <4>2, <1>4
        <4>3. CASE i = m + 1 /\ j = m + 1
          BY <4>3
        <4>4. CASE i \in 1 .. m /\ j = m + 1
          BY <3>1, <4>4, <1>4, <1>5
        <4>5. CASE i = m + 1 /\ j \in 1 .. m
          BY <3>1, <4>5, <1>4, <1>5
        <4> QED BY <4>2, <4>3, <4>4, <4>5, <1>1
      <3> QED BY <1>4, <3>1 DEF IsInjective
    <2>2. ASSUME NEW i \in 1 .. m + 1, NEW j \in 1 .. Len(d_freeChunks')
          PROVE  d_chunkList'[i] # d_freeChunks'[j]
      BY <1>1, <1>4, <1>5
    <2>3. IsInjective(d_chunkList' \o d_freeChunks')
      BY <1>4, <1>5, <2>1, <2>2, InjectiveConcat
    <2>4. ASSUME NEW i \in DOMAIN regions'
          PROVE  /\ regions'[i].index <= d_indexChunkList'
                 /\ regions'[i].nextFree.chunk = d_chunkList'[regions'[i].index + 1]
                 /\ regions'[i].endChunk = [chunk |-> regions'[i].nextFree.chunk,
                                            at |-> chunkSizeBytes]
      BY RegionFacts, <1>1, <1>2, <1>4
    <2> QED BY <1>1, <1>2, <1>4, <1>5, <2>3, <2>4 DEF ChunksAccounted, Last
  <1>10. Nested'
    BY <1>2 DEF IInv, Nested
  <1>11. OuterBlocks'
    <2>1. ASSUME NEW b \in data, NEW i \in DOMAIN regions, b.region < i
          PROVE  \E k \in 1 .. regions[i].index + 1 : b.chunk = d_chunkList'[k]
      <3>1. PICK k \in 1 .. regions[i].index + 1 : b.chunk = d_chunkList[k]
        BY <2>1 DEF IInv, OuterBlocks
      <3>2. k \in 1 .. m
        <4>1. regions[i].index \in Nat /\ regions[i].index + 1 \in 1 .. m
          BY RegionFacts
        <4> QED BY <4>1, <1>1
      <3> QED BY <3>1, <3>2, <1>4
    <2>2. \A i \in DOMAIN regions : ~(n.region < i)
      BY <1>3, Facts
    <2>3. \A b \in data' : b.region <= Len(regions')
      BY <1>2, <1>3 DEF IInv, OuterBlocks
    <2> QED BY <1>2, <2>1, <2>2, <2>3 DEF IInv, OuterBlocks
  <1> QED BY <1>8, <1>9, <1>10, <1>11 DEF IInv

(* push keeps it: all blocks there are become blocks of outer regions.     *)
LEMMA PushIInv ==
    ASSUME IInv, push
    PROVE  IInv'
  <1> DEFINE r == [nextFree |-> d_nextFree, endChunk |-> d_endChunk,
                   index |-> d_indexChunkList]
             n == Len(regions)
  <1>1. /\ regions' = Append(regions, r)
        /\ UNCHANGED <<d_chunkList, d_freeChunks, d_nextFree, d_endChunk,
                       d_indexChunkList, data>>
    BY DEF push
  <1>2. r \in Region
    BY DEF Region, IInv, BlocksAreOwned, TypeOK
  <1>3. /\ regions' \in Seq(Region) /\ n \in Nat
        /\ DOMAIN regions = 1 .. n /\ DOMAIN regions' = 1 .. n + 1 /\ Len(regions') = n + 1
        /\ \A i \in 1 .. n : regions'[i] = regions[i]
        /\ regions'[n + 1] = r
    BY <1>1, <1>2, Facts, AppendProperties
  <1>4. \A i \in 1 .. n + 1 : i \in 1 .. n \/ i = n + 1
    BY <1>3
  <1>5. /\ r.index = d_indexChunkList /\ r.nextFree = d_nextFree
        /\ r.endChunk = d_endChunk
    OBVIOUS
  <1> HIDE DEF r, n
  <1>6. TypeOK'
    <2>1. \A i \in DOMAIN regions' : regions'[i] \in Region
      BY <1>3
    <2> QED BY <1>1, <2>1 DEF IInv, BlocksAreOwned, TypeOK, Region
  <1>7. BlocksAreOwned'
    BY <1>1, <1>6 DEF IInv, BlocksAreOwned
  <1>8. ChunksAccounted'
    <2>1. /\ d_indexChunkList \in Nat /\ Len(d_chunkList) = d_indexChunkList + 1
          /\ d_nextFree.chunk = d_chunkList[d_indexChunkList + 1]
          /\ d_endChunk = [chunk |-> d_nextFree.chunk, at |-> chunkSizeBytes]
      BY Facts DEF IInv, ChunksAccounted, Last
    <2>2. ASSUME NEW i \in DOMAIN regions'
          PROVE  /\ regions'[i].index <= d_indexChunkList
                 /\ regions'[i].nextFree.chunk = d_chunkList[regions'[i].index + 1]
                 /\ regions'[i].endChunk = [chunk |-> regions'[i].nextFree.chunk,
                                            at |-> chunkSizeBytes]
      BY <1>3, <1>4, <1>5, <2>1, RegionFacts
    <2> QED BY <1>1, <2>2 DEF IInv, ChunksAccounted
  <1>9. Nested'
    <2>1. ASSUME NEW i \in 1 .. n + 1, NEW j \in 1 .. n + 1, i <= j
          PROVE  regions'[i].index <= regions'[j].index
      <3>1. CASE j = n + 1
        <4>1. regions'[j].index = d_indexChunkList /\ d_indexChunkList \in Nat
          BY <3>1, <1>3, <1>5, Facts
        <4>2. i = n + 1 \/ regions[i].index <= d_indexChunkList
          BY <1>3, <1>4, RegionFacts
        <4> QED BY <4>1, <4>2, <3>1, <1>3, <1>4
      <3>2. CASE j \in 1 .. n
        BY <2>1, <3>2, <1>3 DEF IInv, Nested
      <3> QED BY <3>1, <3>2, <1>4
    <2> QED BY <1>3, <2>1 DEF Nested
  <1>10. OuterBlocks'
    <2>1. ASSUME NEW b \in data, NEW i \in 1 .. n + 1, b.region < i
          PROVE  /\ \E k \in 1 .. regions'[i].index + 1 : b.chunk = d_chunkList[k]
                 /\ b.chunk = regions'[i].nextFree.chunk
                       => b.at + b.size <= regions'[i].nextFree.at
      <3>1. CASE i \in 1 .. n
        BY <2>1, <3>1, <1>3 DEF IInv, OuterBlocks
      <3>2. CASE i = n + 1
        BY <3>2, <1>3, <1>5, Facts, SMTT(30) DEF IInv, BlocksAreOwned, ToSet
      <3> QED BY <3>1, <3>2, <1>4
    <2>2. \A b \in data : b.region <= n + 1
      BY <1>3, BlockFacts DEF IInv, OuterBlocks, n
    <2> QED BY <1>1, <1>3, <2>1, <2>2 DEF OuterBlocks
  <1> QED BY <1>7, <1>8, <1>9, <1>10 DEF IInv

(* What pop does to the chunks: the active ones go back to those of the    *)
(* region, the kept ones are a part of what was kept or is given up.       *)
LEMMA PopChunks ==
    ASSUME IInv, pop
    PROVE  LET k == regions[Len(regions)].index IN
           /\ Len(regions) \in DOMAIN regions
           /\ d_indexChunkList' = k
           /\ d_chunkList' \in Seq(Chunk) /\ Len(d_chunkList') = k + 1
           /\ \A i \in 1 .. k + 1 : d_chunkList'[i] = d_chunkList[i]
           /\ d_freeChunks' \in Seq(Chunk) /\ Len(d_freeChunks') <= maxFreeChunks
           /\ IsInjective(d_chunkList' \o d_freeChunks')
  <1> DEFINE n == Len(regions)
             r == regions[n]
             k == r.index
             m == Len(d_chunkList)
             part == SubSeq(d_chunkList, k + 2, m)
             given == Reverse(part)
             free == d_freeChunks \o given
             kept == FreeChunks(given)
  <1>1. n \in DOMAIN regions
    BY Facts DEF pop
  <1>2. /\ k \in Nat /\ k + 1 \in 1 .. m /\ m \in Nat /\ m = d_indexChunkList + 1
        /\ d_indexChunkList \in Nat
    <2>1. k \in Nat /\ k + 1 \in 1 .. m
      BY <1>1, RegionFacts
    <2>2. m \in Nat /\ m = d_indexChunkList + 1 /\ d_indexChunkList \in Nat
      BY Facts
    <2> QED BY <2>1, <2>2
  <1>0. m = d_indexChunkList + 1
    BY Facts
  <1>3. /\ d_chunkList' = SubSeq(d_chunkList, 1, m - Len(given))
        /\ d_indexChunkList' = d_indexChunkList - Len(given)
        /\ d_freeChunks' = kept
    BY <1>0 DEF pop, Last
  <1> HIDE DEF n, r, k, m
  <1>4. /\ part \in Seq(Chunk) /\ Len(part) = m - k - 1 /\ IsInjective(part)
        /\ \A i \in 1 .. m - k - 1 : part[i] = d_chunkList[k + 1 + i]
    <2>1. k + 2 \in 1 .. m + 1 /\ m \in (k + 2) - 1 .. m
      BY <1>2
    <2>2. /\ part \in Seq(Chunk) /\ Len(part) = m - (k + 2) + 1 /\ IsInjective(part)
          /\ \A i \in 1 .. m - (k + 2) + 1 : part[i] = d_chunkList[k + 2 + i - 1]
      BY <2>1, Facts, PartOf DEF m
    <2>3. m - (k + 2) + 1 = m - k - 1 /\ \A i \in Int : k + 2 + i - 1 = k + 1 + i
      BY <1>2
    <2> QED BY <2>2, <2>3
  <1> HIDE DEF part
  <1>5. /\ given \in Seq(Chunk) /\ Len(given) = m - k - 1 /\ IsInjective(given)
        /\ \A i \in 1 .. m - k - 1 : given[i] = part[m - k - 1 - i + 1]
    BY <1>4, Backwards
  <1> HIDE DEF given
  <1>6. \A i \in 1 .. Len(given) : \E j \in k + 2 .. m : given[i] = d_chunkList[j]
    <2> SUFFICES ASSUME NEW i \in 1 .. Len(given)
                 PROVE  \E j \in k + 2 .. m : given[i] = d_chunkList[j]
      OBVIOUS
    <2>1. /\ m - k - 1 - i + 1 \in 1 .. m - k - 1
          /\ k + 1 + (m - k - 1 - i + 1) \in k + 2 .. m
      BY <1>2, <1>5
    <2> QED BY <2>1, <1>4, <1>5
  <1>7. /\ d_indexChunkList' = k
        /\ d_chunkList' \in Seq(Chunk) /\ Len(d_chunkList') = k + 1
        /\ \A i \in 1 .. k + 1 : d_chunkList'[i] = d_chunkList[i]
        /\ IsInjective(d_chunkList')
    <2>1. d_chunkList' = SubSeq(d_chunkList, 1, k + 1) /\ d_indexChunkList' = k
      BY <1>2, <1>3, <1>5
    <2>2. /\ d_chunkList \in Seq(Chunk) /\ IsInjective(d_chunkList)
          /\ k + 1 \in 0 .. Len(d_chunkList)
      BY <1>2, Facts DEF m
    <2> QED BY <2>1, <2>2, PrefixOf
  <1>8. IsInjective(free) /\ free \in Seq(Chunk) /\ Len(free) \in Nat
    <2>1. \A i \in 1 .. Len(d_freeChunks), j \in 1 .. Len(given) :
             d_freeChunks[i] # given[j]
      BY <1>2, <1>6, Facts DEF m
    <2>2. /\ d_freeChunks \in Seq(Chunk) /\ IsInjective(d_freeChunks)
          /\ given \in Seq(Chunk) /\ IsInjective(given)
      BY <1>5, Facts
    <2>3. IsInjective(free)
      BY <2>1, <2>2, InjectiveConcat
    <2> QED BY <2>2, <2>3, ConcatProperties
  <1>9. \A i \in 1 .. k + 1, j \in 1 .. Len(free) : d_chunkList[i] # free[j]
    <2> SUFFICES ASSUME NEW i \in 1 .. k + 1, NEW j \in 1 .. Len(free)
                 PROVE  d_chunkList[i] # free[j]
      OBVIOUS
    <2>1. /\ Len(free) = Len(d_freeChunks) + Len(given)
          /\ free[j] = IF j <= Len(d_freeChunks) THEN d_freeChunks[j]
                       ELSE given[j - Len(d_freeChunks)]
      <3>1. /\ d_freeChunks \in Seq(Chunk) /\ given \in Seq(Chunk)
            /\ Len(d_freeChunks) \in Nat /\ Len(given) \in Nat
        BY <1>5, Facts
      <3>2. Len(free) = Len(d_freeChunks) + Len(given)
        BY <3>1, ConcatProperties
      <3> QED BY <3>1, <3>2, ConcatProperties
    <2>2. CASE j <= Len(d_freeChunks)
      <3>1. i \in 1 .. m /\ j \in 1 .. Len(d_freeChunks)
        BY <1>2, <2>2, Facts
      <3> QED BY <2>1, <2>2, <3>1, Facts DEF m
    <2>3. CASE j > Len(d_freeChunks)
      <3>1. j - Len(d_freeChunks) \in 1 .. Len(given) /\ Len(d_freeChunks) \in Nat
        BY <2>1, <2>3, <1>2, <1>5, Facts
      <3>2. PICK l \in k + 2 .. m : free[j] = d_chunkList[l]
        BY <2>1, <2>3, <3>1, <1>6
      <3>3. i # l /\ i \in 1 .. m /\ l \in 1 .. m
        BY <1>2
      <3>4. IsInjective(d_chunkList) /\ DOMAIN d_chunkList = 1 .. m
        BY Facts DEF m
      <3> QED BY <3>2, <3>3, <3>4 DEF IsInjective
    <2> QED BY <2>2, <2>3, <1>8, Facts
  <1> HIDE DEF free
  <1>10. /\ kept \in Seq(Chunk) /\ Len(kept) <= maxFreeChunks /\ IsInjective(kept)
         /\ \A i \in 1 .. Len(kept) : \E j \in 1 .. Len(free) : kept[i] = free[j]
    <2> DEFINE excess == IF Len(free) > maxFreeChunks
                         THEN Len(free) - maxFreeChunks ELSE 0
    <2>1. kept = SubSeq(free, excess + 1, Len(free))
      BY DEF FreeChunks, free
    <2>2. /\ excess + 1 \in 1 .. Len(free) + 1
          /\ Len(free) \in (excess + 1) - 1 .. Len(free)
          /\ Len(free) - excess <= maxFreeChunks
          /\ excess \in Nat
      BY <1>8, Facts
    <2> HIDE DEF excess, kept
    <2>3. /\ kept \in Seq(Chunk) /\ Len(kept) = Len(free) - (excess + 1) + 1
          /\ \A i \in 1 .. Len(free) - (excess + 1) + 1 :
                kept[i] = free[excess + 1 + i - 1]
          /\ IsInjective(kept)
      BY <2>1, <2>2, <1>8, PartOf
    <2>4. \A i \in 1 .. Len(kept) : excess + 1 + i - 1 \in 1 .. Len(free)
      BY <2>2, <2>3, <1>8
    <2> QED BY <2>2, <2>3, <2>4, <1>8, Facts
  <1> HIDE DEF kept
  <1>11. IsInjective(d_chunkList' \o d_freeChunks')
    <2>1. \A i \in 1 .. Len(d_chunkList'), j \in 1 .. Len(d_freeChunks') :
             d_chunkList'[i] # d_freeChunks'[j]
      <3> SUFFICES ASSUME NEW i \in 1 .. Len(d_chunkList'), NEW j \in 1 .. Len(d_freeChunks')
                   PROVE  d_chunkList'[i] # d_freeChunks'[j]
        OBVIOUS
      <3>1. i \in 1 .. k + 1 /\ d_chunkList'[i] = d_chunkList[i]
        BY <1>7
      <3>2. PICK l \in 1 .. Len(free) : d_freeChunks'[j] = free[l]
        BY <1>3, <1>10
      <3> QED BY <3>1, <3>2, <1>9
    <2>2. d_freeChunks' \in Seq(Chunk) /\ IsInjective(d_freeChunks')
      BY <1>3, <1>10
    <2>3. d_chunkList' \in Seq(Chunk) /\ IsInjective(d_chunkList')
      BY <1>7
    <2> QED BY <2>1, <2>2, <2>3, InjectiveConcat
  <1> QED BY <1>1, <1>3, <1>7, <1>10, <1>11 DEF n, r, k

(* pop keeps it: the blocks that stay are those of outer regions.          *)
LEMMA PopIInv ==
    ASSUME IInv, pop
    PROVE  IInv'
  <1> DEFINE n == Len(regions)
             r == regions[n]
             k == r.index
  <1>1. /\ n \in DOMAIN regions /\ n \in Nat \ {0} /\ DOMAIN regions = 1 .. n
        /\ r \in Region /\ k \in Nat
        /\ r.nextFree.chunk = d_chunkList[k + 1]
        /\ r.endChunk = [chunk |-> r.nextFree.chunk, at |-> chunkSizeBytes]
    <2>1. n \in DOMAIN regions
      BY PopChunks
    <2>2. n \in Nat \ {0} /\ DOMAIN regions = 1 .. n
      BY <2>1, Facts
    <2> QED BY <2>1, <2>2, RegionFacts
  <1>2. /\ d_indexChunkList' = k
        /\ d_chunkList' \in Seq(Chunk) /\ Len(d_chunkList') = k + 1
        /\ \A i \in 1 .. k + 1 : d_chunkList'[i] = d_chunkList[i]
        /\ d_freeChunks' \in Seq(Chunk) /\ Len(d_freeChunks') <= maxFreeChunks
        /\ IsInjective(d_chunkList' \o d_freeChunks')
    BY PopChunks
  <1>3. /\ d_nextFree' = r.nextFree /\ d_endChunk' = r.endChunk
        /\ data' = {b \in data : b.region < n}
        /\ regions' = SubSeq(regions, 1, n - 1)
    BY DEF pop, RestorePointers, Last, Front
  <1> HIDE DEF n, r, k
  <1>4. /\ regions' \in Seq(Region) /\ Len(regions') = n - 1
        /\ DOMAIN regions' = 1 .. n - 1
        /\ \A i \in 1 .. n - 1 : regions'[i] = regions[i]
    <2>1. regions \in Seq(Region) /\ n - 1 \in 0 .. Len(regions)
      BY <1>1, Facts DEF n
    <2> QED BY <1>3, <2>1, PrefixOf
  <1>5. \A i \in 1 .. n - 1 : i \in DOMAIN regions /\ regions[i].index \in Nat
                              /\ regions[i].index <= k
    <2> SUFFICES ASSUME NEW i \in 1 .. n - 1
                 PROVE  i \in DOMAIN regions /\ regions[i].index \in Nat
                        /\ regions[i].index <= k
      OBVIOUS
    <2>1. i \in DOMAIN regions /\ i <= n
      BY <1>1
    <2>2. regions[i].index <= regions[n].index
      BY <1>1, <2>1 DEF IInv, Nested
    <2> QED BY <2>1, <2>2, RegionFacts DEF k, r
  <1>6. TypeOK'
    <2>1. \A i \in DOMAIN regions' : regions'[i] \in Region
      BY <1>4
    <2>2. r.nextFree \in Address /\ r.endChunk \in Address
      BY <1>1 DEF Region
    <2> QED BY <1>1, <1>2, <1>3, <2>1, <2>2 DEF IInv, BlocksAreOwned, TypeOK, Region
  <1>7. \A b \in data' : /\ b \in data
                         /\ \E i \in 1 .. k + 1 : b.chunk = d_chunkList[i]
                         /\ b.chunk = r.nextFree.chunk => b.at + b.size <= r.nextFree.at
    BY <1>1, <1>3 DEF IInv, OuterBlocks, k, r
  <1>8. BlocksAreOwned'
    <2>1. ASSUME NEW b \in data' PROVE b.chunk \in ToSet(d_chunkList')
      <3>1. PICK i \in 1 .. k + 1 : b.chunk = d_chunkList[i]
        BY <1>7
      <3>2. d_chunkList'[i] = b.chunk /\ i \in DOMAIN d_chunkList'
        BY <1>2, <3>1
      <3> QED BY <3>2 DEF ToSet
    <2> QED BY <1>3, <1>6, <1>7, <2>1 DEF IInv, BlocksAreOwned
  <1>9. ChunksAccounted'
    <2>1. ASSUME NEW i \in DOMAIN regions'
          PROVE  /\ regions'[i].index <= d_indexChunkList'
                 /\ regions'[i].nextFree.chunk = d_chunkList'[regions'[i].index + 1]
                 /\ regions'[i].endChunk = [chunk |-> regions'[i].nextFree.chunk,
                                            at |-> chunkSizeBytes]
      <3>1. /\ i \in DOMAIN regions /\ regions[i].index \in Nat
            /\ regions[i].index <= k /\ regions'[i] = regions[i]
        BY <1>4, <1>5
      <3>2. regions[i].index + 1 \in 1 .. k + 1
        BY <3>1, <1>1
      <3> QED BY <3>1, <3>2, <1>2, RegionFacts
    <2>2. d_chunkList'[k + 1] = r.nextFree.chunk
      BY <1>1, <1>2
    <2> QED BY <1>1, <1>2, <1>3, <2>1, <2>2 DEF ChunksAccounted, Last
  <1>10. Nested'
    <2>1. ASSUME NEW i \in 1 .. n - 1, NEW j \in 1 .. n - 1, i <= j
          PROVE  regions'[i].index <= regions'[j].index
      BY <1>4, <1>5, <2>1 DEF IInv, Nested
    <2> QED BY <1>4, <2>1 DEF Nested
  <1>11. OuterBlocks'
    <2>1. ASSUME NEW b \in data', NEW i \in 1 .. n - 1, b.region < i
          PROVE  /\ \E j \in 1 .. regions'[i].index + 1 : b.chunk = d_chunkList'[j]
                 /\ b.chunk = regions'[i].nextFree.chunk
                       => b.at + b.size <= regions'[i].nextFree.at
      <3>1. /\ i \in DOMAIN regions /\ regions[i].index \in Nat
            /\ regions[i].index <= k /\ regions'[i] = regions[i]
        BY <1>4, <1>5
      <3>2. PICK j \in 1 .. regions[i].index + 1 : b.chunk = d_chunkList[j]
        BY <1>3, <2>1, <3>1 DEF IInv, OuterBlocks
      <3>3. j \in 1 .. k + 1
        BY <3>1, <1>1
      <3>4. b.chunk = regions[i].nextFree.chunk => b.at + b.size <= regions[i].nextFree.at
        BY <1>3, <2>1, <3>1 DEF IInv, OuterBlocks
      <3> QED BY <3>1, <3>2, <3>3, <3>4, <1>2
    <2>2. \A b \in data' : b.region <= n - 1
      BY <1>1, <1>3, BlockFacts
    <2> QED BY <1>4, <2>1, <2>2 DEF OuterBlocks
  <1> QED BY <1>8, <1>9, <1>10, <1>11 DEF IInv

(* Every step keeps the invariant. *)
LEMMA NextIInv == IInv /\ [Next]_vars => IInv'
  <1> SUFFICES ASSUME IInv, [Next]_vars PROVE IInv'
    OBVIOUS
  <1>1. CASE UNCHANGED vars
    BY <1>1 DEF vars, IInv, BlocksAreOwned, TypeOK, ChunksAccounted, Nested, OuterBlocks
  <1>2. CASE Next
    BY <1>2, NewDataIInv, NewChunkIInv, PushIInv, PopIInv DEF Next
  <1> QED BY <1>1, <1>2

(* A client owns its block until its region is popped, whatever the order  *)
(* of newData, push and pop and however often chunks are reused: the block *)
(* lies in an active chunk, in front of what newData hands out next, and   *)
(* overlaps no other block (ContextMemoryManager::newData, pop).           *)
THEOREM OwnedUntilPopped == Spec => []BlocksAreOwned
  <1>1. IInv => BlocksAreOwned
    BY DEF IInv
  <1> QED BY <1>1, InitIInv, NextIInv, PTL DEF Spec

(* The saved and the current pointers agree with the chunk list, no chunk  *)
(* is active twice or active and kept at once, and no more than            *)
(* maxFreeChunks are kept (newChunk, pop).                                 *)
THEOREM ChunksAlwaysAccounted == Spec => []ChunksAccounted
  <1>1. IInv => ChunksAccounted
    BY DEF IInv
  <1> QED BY <1>1, InitIInv, NextIInv, PTL DEF Spec

=============================================================================
