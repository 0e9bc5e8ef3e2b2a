----------------------------- MODULE ContextMM -----------------------------
(***************************************************************************)
(* The region allocator under the contexts: class ContextMemoryManager     *)
(* (src/cvc5/src/context/context_mm.{h,cpp}), in its default build.        *)
(*                                                                         *)
(* Memory is handed out by moving d_nextFree forward in the current chunk; *)
(* nothing is freed but by pop(), which puts d_nextFree back where it was  *)
(* at the matching push(), often in the middle of a chunk that outer       *)
(* regions share, and gives up the chunks taken since.  Given-up chunks    *)
(* are kept for reuse, and the oldest are freed when there are too many.   *)
(*                                                                         *)
(* An address is a record of a chunk and an offset in it.                  *)
(***************************************************************************)
EXTENDS Integers, Sequences, FiniteSets, SequencesExt

CONSTANTS
    Chunk,          (* the chunks malloc() can return                      *)
    chunkSizeBytes, (* size of a chunk                                     *)
    maxFreeChunks,  (* how many given-up chunks are kept                   *)
    Size,           (* the sizes clients ask for                           *)
    MaxLevel        (* bound: the deepest nesting of regions               *)

ASSUME SizesAssumption ==
    /\ chunkSizeBytes \in Nat \ {0} /\ maxFreeChunks \in Nat /\ MaxLevel \in Nat
    /\ Size \subseteq 1 .. chunkSizeBytes

VARIABLES
    d_chunkList,      (* the active chunks                                 *)
    d_freeChunks,     (* the chunks kept for reuse                         *)
    d_nextFree,       (* start of the free memory of the current chunk     *)
    d_endChunk,       (* end of the current chunk                          *)
    d_indexChunkList, (* index of the current chunk in d_chunkList         *)
    regions,          (* the three stacks of saved regions, as one         *)
    data              (* the blocks clients hold: address, size and region *)

vars == <<d_chunkList, d_freeChunks, d_nextFree, d_endChunk, d_indexChunkList,
          regions, data>>

(* What the C library has handed out and not got back.                     *)
Malloced == ToSet(d_chunkList) \cup ToSet(d_freeChunks)

Init ==
    \E c \in Chunk :
        /\ d_chunkList = <<c>>
        /\ d_freeChunks = <<>>
        /\ d_nextFree = [chunk |-> c, at |-> 0]
        /\ d_endChunk = [chunk |-> c, at |-> chunkSizeBytes]
        /\ d_indexChunkList = 0
        /\ regions = <<>>
        /\ data = {}

-----------------------------------------------------------------------------
Block(a, size) == [chunk |-> a.chunk, at |-> a.at, size |-> size, region |-> Len(regions)]

(* newData when the block fits in the current chunk.                       *)
newData(size) ==
    /\ d_nextFree.at + size <= d_endChunk.at
    /\ data' = data \cup {Block(d_nextFree, size)}
    /\ d_nextFree' = [d_nextFree EXCEPT !.at = @ + size]
    /\ UNCHANGED <<d_chunkList, d_freeChunks, d_endChunk, d_indexChunkList, regions>>

(* Faulty: the reused chunk stays on the free list.                        *)
newChunkStaysFree(c) ==
    /\ d_indexChunkList' = d_indexChunkList + 1
    /\ d_chunkList' = Append(d_chunkList, c)
    /\ d_endChunk' = [chunk |-> c, at |-> chunkSizeBytes]
    /\ IF d_freeChunks = <<>> THEN c \notin Malloced ELSE c = Last(d_freeChunks)
    /\ UNCHANGED d_freeChunks

(* newData when it does not: newChunk makes c the current chunk, the one   *)
(* given up last or else a new one, and the block is at its beginning.     *)
newChunk(c) ==
    /\ d_indexChunkList' = d_indexChunkList + 1
    /\ d_chunkList' = Append(d_chunkList, c)
    /\ d_endChunk' = [chunk |-> c, at |-> chunkSizeBytes]
    /\ IF d_freeChunks = <<>>
       THEN /\ c \notin Malloced
            /\ UNCHANGED d_freeChunks
       ELSE /\ c = Last(d_freeChunks)
            /\ d_freeChunks' = Front(d_freeChunks)

newDataInNewChunk(size, c) ==
    /\ d_nextFree.at + size > d_endChunk.at
    /\ newChunk(c)
    /\ data' = data \cup {Block([chunk |-> c, at |-> 0], size)}
    /\ d_nextFree' = [chunk |-> c, at |-> size]
    /\ UNCHANGED regions

push ==
    /\ Len(regions) < MaxLevel
    /\ regions' = Append(regions, [nextFree |-> d_nextFree, endChunk |-> d_endChunk,
                                   index |-> d_indexChunkList])
    /\ UNCHANGED <<d_chunkList, d_freeChunks, d_nextFree, d_endChunk,
                   d_indexChunkList, data>>

(* pop: the blocks of the region are gone, and d_nextFree and d_endChunk   *)
(* are what they were; the chunks of the region, last one first, go to the *)
(* end of d_freeChunks, which is then cut from the front.                  *)
FreeChunks(given) ==
    LET free == d_freeChunks \o given
        excess == IF Len(free) > maxFreeChunks THEN Len(free) - maxFreeChunks ELSE 0
    IN SubSeq(free, excess + 1, Len(free))

(* Faulty: d_nextFree goes back to the start of the chunk.                 *)
RestorePointersToStart(r) ==
    /\ d_nextFree' = [r.nextFree EXCEPT !.at = 0]
    /\ d_endChunk' = r.endChunk

RestorePointers(r) ==
    /\ d_nextFree' = r.nextFree
    /\ d_endChunk' = r.endChunk

pop ==
    /\ regions # <<>>
    /\ LET r == Last(regions)
           given == Reverse(SubSeq(d_chunkList, r.index + 2, d_indexChunkList + 1))
       IN /\ RestorePointers(r)
          /\ d_chunkList' = SubSeq(d_chunkList, 1, Len(d_chunkList) - Len(given))
          /\ d_indexChunkList' = d_indexChunkList - Len(given)
          /\ d_freeChunks' = FreeChunks(given)
    /\ data' = {b \in data : b.region < Len(regions)}
    /\ regions' = Front(regions)

Next ==
    \/ \E size \in Size : newData(size)
    \/ \E size \in Size, c \in Chunk : newDataInNewChunk(size, c)
    \/ push
    \/ pop

Spec == Init /\ [][Next]_vars

-----------------------------------------------------------------------------
Address == [chunk : Chunk, at : 0 .. chunkSizeBytes]

(* Every variable has its type.                                            *)
TypeOK ==
    /\ d_chunkList \in Seq(Chunk) /\ d_freeChunks \in Seq(Chunk)
    /\ d_nextFree \in Address /\ d_endChunk \in Address
    /\ d_indexChunkList \in Nat
    /\ \A i \in DOMAIN regions :
          regions[i] \in [nextFree : Address, endChunk : Address, index : Nat]
    /\ \A b \in data : /\ b.chunk \in Chunk /\ b.size \in Size
                       /\ b.at \in 0 .. chunkSizeBytes - 1 /\ b.region \in Nat

(* A client owns its block until its region is popped: the block lies in   *)
(* an active chunk, in front of the memory newData hands out next, and     *)
(* overlaps no other block (newData, pop).                                 *)
BlocksAreOwned ==
    /\ TypeOK
    /\ \A b \in data :
          /\ b.chunk \in ToSet(d_chunkList)
          /\ b.at + b.size <= chunkSizeBytes
          /\ b.chunk = d_nextFree.chunk => b.at + b.size <= d_nextFree.at
          /\ \A e \in data \ {b} :
                b.chunk = e.chunk => b.at + b.size <= e.at \/ e.at + e.size <= b.at

(* The pointers of the current and of every saved region agree with its    *)
(* index into the chunk list ("Index should be at the end of the list",    *)
(* context_mm.cpp), so pop gives up exactly the chunks of its region; and  *)
(* no chunk is used twice, active and kept at once, or kept beyond the     *)
(* limit, so newChunk never hands out memory that has an owner.            *)
ChunksAccounted ==
    /\ Len(d_chunkList) = d_indexChunkList + 1
    /\ d_nextFree.chunk = Last(d_chunkList)
    /\ d_endChunk = [chunk |-> Last(d_chunkList), at |-> chunkSizeBytes]
    /\ \A i \in DOMAIN regions :
          LET r == regions[i] IN
          /\ r.index <= d_indexChunkList
          /\ r.nextFree.chunk = d_chunkList[r.index + 1]
          /\ r.endChunk = [chunk |-> r.nextFree.chunk, at |-> chunkSizeBytes]
    /\ IsInjective(d_chunkList \o d_freeChunks)
    /\ Len(d_freeChunks) <= maxFreeChunks

=============================================================================
