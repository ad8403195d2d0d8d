------------------------------ MODULE SmpPool ------------------------------
(***************************************************************************)
(* The memory pool of smp_mpool/smp_mpool.c, from smp_mpool_create to      *)
(* smp_mpdestory.                                                          *)
(*                                                                         *)
(* A pool is a chain of malloc'd blocks of one size.  The first block      *)
(* starts with the struct smp_pool_s, the others with its leading          *)
(* struct smp_pool_data_s, and requests are carved from what follows.      *)
(* Requests above pool->max get a malloc'd block of their own (a "big      *)
(* allocation"), recorded in a list whose elements, the slots, are         *)
(* themselves carved from the pool.                                        *)
(*                                                                         *)
(* Block b is the b-th of the chain and an address in the pool is a block  *)
(* and an offset from its start: posix_memalign aligns every start, so     *)
(* aligning an address aligns its offset.                                  *)
(***************************************************************************)
EXTENDS Integers, Sequences

CONSTANTS
  PSize,     (* the size given to smp_mpool_create *)
  PageSize,  (* SMP_PAGE_SIZE, i.e. getpagesize() *)
  Sizes,     (* the sizes the client asks for *)
  SizeMod,   (* the number of values of size_t *)
  MaxBlocks, (* bound: the blocks the heap can give the chain *)
  BigIds,    (* bound: the addresses the heap can give big allocations *)
  NULL

HeadHeader  == 56  \* sizeof(struct smp_pool_s)
BlockHeader == 32  \* sizeof(struct smp_pool_data_s)
SlotSize    == 16  \* sizeof(struct smp_big_pool_s)

(* pool->max, the largest request carved from a block *)
MaxSmall == IF PSize - HeadHeader < PageSize THEN PSize - HeadHeader ELSE PageSize

(***************************************************************************)
(* A pool in which a slot does not fit is out of the model: recording a    *)
(* big allocation would need a big allocation, without end.                *)
(***************************************************************************)
ASSUME PoolAssumption ==
  /\ PSize \in Nat
  /\ PageSize \in Nat
  /\ SlotSize <= MaxSmall
  /\ Sizes \subseteq Nat
  /\ SizeMod \in Nat
  /\ MaxBlocks \in Nat \ {0}
  /\ NULL \notin BigIds

Blocks == 1 .. MaxBlocks

VARIABLES
  phase,   (* "none", "live", or where smp_mpdestory has got to *)
  nblocks, (* the length of the chain *)
  last,    (* data.last of each block, as an offset *)
  failure, (* data.failure of each block *)
  current, (* pool->current *)
  slots,   (* the slots in the order they were made: pool->big_pool is the last *)
  cursor,  (* the slot or block smp_mpdestory looks at next *)
  blive,   (* heap: the blocks of the chain that are allocated *)
  heap,    (* heap: the big allocations that are allocated *)
  grants,  (* history: the regions carved from each block, in order *)
  held,    (* history: the big allocations the client has not given back *)
  lost,    (* history: the big allocations whose slot could not be made *)
  fault    (* history: a free of, or an access to, memory already freed *)

vars == <<phase, nblocks, last, failure, current, slots, cursor, blive, heap,
          grants, held, lost, fault>>

chainVars == <<nblocks, last, failure, current, blive, grants>>

(***************************************************************************)
(* The operators named Mutant... are not part of the specification: each is *)
(* what the definition after it would be with a plausible mistake in the   *)
(* code, and shows that a property can tell.                               *)
(***************************************************************************)
MutantAlignDown(x) == (x \div 8) * 8

(* smp_align_ptr with SMP_POOL_ALIGNMENT, the 8 bytes of an unsigned long *)
Align(x) == ((x + 7) \div 8) * 8

(* The conversion of a pointer difference to size_t *)
SizeT(x) == IF x >= 0 THEN x ELSE x + SizeMod

MutantRoomUnaligned(b) == SizeT(PSize - last[b])

(* (size_t) (p->data.end - m), with m the first aligned address of block b *)
Room(b) == SizeT(PSize - Align(last[b]))

Header(b) == IF b = 1 THEN HeadHeader ELSE BlockHeader

Init == /\ phase = "none"
        /\ nblocks = 0
        /\ last = [b \in Blocks |-> 0]
        /\ failure = [b \in Blocks |-> 0]
        /\ current = 1
        /\ slots = <<>>
        /\ cursor = 0
        /\ blive = {}
        /\ heap = {}
        /\ grants = [b \in Blocks |-> <<>>]
        /\ held = {}
        /\ lost = {}
        /\ fault = FALSE

(***************************************************************************)
(* smp_mpool_create: a head block whose cursor stands after the header.    *)
(***************************************************************************)
MpoolCreate ==
  /\ phase = "none"
  /\ phase' = "live"
  /\ nblocks' = 1
  /\ last' = [b \in Blocks |-> IF b = 1 THEN HeadHeader ELSE 0]
  /\ failure' = [b \in Blocks |-> 0]
  /\ current' = 1
  /\ slots' = <<>>
  /\ blive' = {1}
  /\ grants' = [b \in Blocks |-> <<>>]
  /\ UNCHANGED <<cursor, heap, held, lost, fault>>

(***************************************************************************)
(* Carving a region from the chain.                                        *)
(***************************************************************************)

(* Record the region of a request; an empty one has no byte to record. *)
Recorded(b, lo, size, who) ==
  IF size = 0 THEN grants
  ELSE [grants EXCEPT ![b] = Append(@, [lo |-> lo, hi |-> lo + size, who |-> who])]

(* b is the first block from current on in which the request fits. *)
FirstFit(b, size) == /\ b \in current .. nblocks
                     /\ Room(b) >= size
                     /\ \A c \in current .. b - 1 : Room(c) < size

NoFit(size) == \A c \in current .. nblocks : Room(c) < size

MutantCarveGapless(b, size, who) ==
  /\ last' = [last EXCEPT ![b] = last[b] + size]
  /\ grants' = Recorded(b, Align(last[b]), size, who)
  /\ UNCHANGED <<nblocks, failure, current, blive>>

Carve(b, size, who) ==
  /\ last' = [last EXCEPT ![b] = Align(last[b]) + size]
  /\ grants' = Recorded(b, Align(last[b]), size, who)
  /\ UNCHANGED <<nblocks, failure, current, blive>>

MutantMovesSooner(c) == /\ c \in current .. nblocks
                        /\ c > current => failure[c - 1] > 3
                        /\ \A b \in c .. nblocks - 1 : failure[b] <= 3

(* The walk over the chain found that the blocks before c were used out. *)
MovesTo(c) == /\ c \in current .. nblocks
              /\ c > current => failure[c - 1] > 4
              /\ \A b \in c .. nblocks - 1 : failure[b] <= 4

(***************************************************************************)
(* smp_mpalloc_block: a new block at the end of the chain.  The walk to    *)
(* the end counts a failure in every block from current on but the last    *)
(* one, and current moves past the blocks that had more than 4 already.    *)
(***************************************************************************)
MpallocBlock(b, size, who) ==
  /\ b = nblocks + 1
  /\ last' = [last EXCEPT ![b] = Align(BlockHeader) + size]
  /\ grants' = Recorded(b, Align(BlockHeader), size, who)
  /\ failure' = [c \in Blocks |-> IF c \in current .. nblocks - 1
                                  THEN failure[c] + 1
                                  ELSE IF c = b THEN 0 ELSE failure[c]]
  /\ \E c \in Blocks : MovesTo(c) /\ current' = c
  /\ nblocks' = b
  /\ blive' = blive \union {b}

(* A request of at most pool->max, carved from block b for who. *)
Place(b, size, who) ==
  \/ FirstFit(b, size) /\ Carve(b, size, who)
  \/ NoFit(size) /\ MpallocBlock(b, size, who)

(***************************************************************************)
(* smp_mpalloc for a request of at most pool->max.  When no block has room *)
(* and posix_memalign fails, as it does once MaxBlocks blocks are in use,  *)
(* the answer is NULL and nothing changes.                                 *)
(***************************************************************************)
MpallocSmall(size) ==
  /\ phase = "live"
  /\ size <= MaxSmall
  /\ \E b \in Blocks : Place(b, size, "client")
  /\ UNCHANGED <<phase, slots, cursor, heap, held, lost, fault>>

(***************************************************************************)
(* smp_mpalloc_bigpool, for a request above pool->max.                     *)
(***************************************************************************)

(* The slots the search looks at: the five most recent. *)
Looked == {i \in DOMAIN slots : i > Len(slots) - 5}

MutantTakesAnySlot(i) == i \in Looked /\ \A j \in Looked : j <= i

(* i is the first of them, from the head of the list, that is free. *)
FreeSlot(i) == /\ i \in Looked
               /\ slots[i].alloc = NULL
               /\ \A j \in Looked : j > i => slots[j].alloc /= NULL

NoFreeSlot == \A i \in Looked : slots[i].alloc /= NULL

BigRequest == phase = "live" /\ \E size \in Sizes : size > MaxSmall

BigReuse(p) ==
  /\ BigRequest
  /\ p \in BigIds \ heap
  /\ \E i \in Looked : FreeSlot(i) /\ slots' = [slots EXCEPT ![i].alloc = p]
  /\ heap' = heap \union {p}
  /\ held' = held \union {p}
  /\ UNCHANGED <<phase, chainVars, cursor, lost, fault>>

(* The slot is the region just carved: block b, the latest of its regions. *)
BigNewSlot(p) ==
  /\ BigRequest
  /\ p \in BigIds \ heap
  /\ NoFreeSlot
  /\ \E b \in Blocks :
       /\ Place(b, SlotSize, "slot")
       /\ slots' = Append(slots, [blk |-> b, pos |-> Len(grants[b]) + 1, alloc |-> p])
  /\ heap' = heap \union {p}
  /\ held' = held \union {p}
  /\ UNCHANGED <<phase, cursor, lost, fault>>

(* The slot cannot be made: smp_free(big_p) frees NULL, and p stays behind. *)
BigSlotFails(p) ==
  /\ BigRequest
  /\ p \in BigIds \ heap
  /\ NoFreeSlot
  /\ NoFit(SlotSize)
  /\ heap' = heap \union {p}
  /\ lost' = lost \union {p}
  /\ UNCHANGED <<phase, chainVars, slots, cursor, held, fault>>

MutantMpfreeKeepsSlot(p) ==
  /\ phase = "live"
  /\ p \in held
  /\ heap' = heap \ {p}
  /\ held' = held \ {p}
  /\ UNCHANGED <<phase, chainVars, slots, cursor, lost, fault>>

(***************************************************************************)
(* smp_mpfree_bigpool with a pointer the client may pass: one it holds, or *)
(* one that no longer is, or never was, a big allocation of this pool.     *)
(* NULL matches the first free slot, and free(NULL) does nothing.          *)
(***************************************************************************)
MpfreeBigpool(p) ==
  /\ phase = "live"
  /\ p \in held \/ p \notin heap
  /\ \/ /\ \A i \in DOMAIN slots : slots[i].alloc /= p
        /\ UNCHANGED <<slots, heap, fault>>
     \/ \E i \in DOMAIN slots :
          /\ slots[i].alloc = p
          /\ \A j \in DOMAIN slots : j > i => slots[j].alloc /= p
          /\ slots' = [slots EXCEPT ![i].alloc = NULL]
          /\ heap' = heap \ {p}
          /\ fault' = (fault \/ (p /= NULL /\ p \notin heap))
  /\ held' = held \ {p}
  /\ UNCHANGED <<phase, chainVars, cursor, lost>>

MutantDestorySkipsBigs ==
  /\ phase = "live"
  /\ phase' = "chain"
  /\ cursor' = 2
  /\ held' = {}
  /\ UNCHANGED <<chainVars, slots, heap, lost, fault>>

(***************************************************************************)
(* smp_mpdestory, one free at a time: the big allocations from the head of *)
(* the list, then the blocks after the head, then the head.                *)
(***************************************************************************)
MpdestoryBegin ==
  /\ phase = "live"
  /\ phase' = "bigs"
  /\ cursor' = Len(slots)
  /\ held' = {}
  /\ UNCHANGED <<chainVars, slots, heap, lost, fault>>

DestoryBig ==
  /\ phase = "bigs"
  /\ cursor > 0
  /\ LET s == slots[cursor] IN
       /\ fault' = (fault \/ s.blk \notin blive
                          \/ (s.alloc /= NULL /\ s.alloc \notin heap))
       /\ heap' = heap \ {s.alloc}
  /\ slots' = [slots EXCEPT ![cursor].alloc = NULL]
  /\ cursor' = cursor - 1
  /\ UNCHANGED <<phase, chainVars, held, lost>>

DestoryBigsDone ==
  /\ phase = "bigs"
  /\ cursor = 0
  /\ phase' = "chain"
  /\ cursor' = 2
  /\ UNCHANGED <<chainVars, slots, heap, held, lost, fault>>

(* Reads next of the block at cursor and of the head, then frees the block. *)
DestoryBlock ==
  /\ phase = "chain"
  /\ cursor <= nblocks
  /\ fault' = (fault \/ cursor \notin blive \/ 1 \notin blive)
  /\ blive' = blive \ {cursor}
  /\ cursor' = cursor + 1
  /\ UNCHANGED <<phase, nblocks, last, failure, current, grants, slots, heap, held, lost>>

(* Frees the head.  With the pool go its cursors and its lists. *)
DestoryHead ==
  /\ phase = "chain"
  /\ cursor > nblocks
  /\ fault' = (fault \/ 1 \notin blive)
  /\ phase' = "none"
  /\ blive' = blive \ {1}
  /\ nblocks' = 0
  /\ last' = [b \in Blocks |-> 0]
  /\ failure' = [b \in Blocks |-> 0]
  /\ current' = 1
  /\ slots' = <<>>
  /\ cursor' = 0
  /\ grants' = [b \in Blocks |-> <<>>]
  /\ UNCHANGED <<heap, held, lost>>

Next == \/ MpoolCreate
        \/ \E size \in Sizes : MpallocSmall(size)
        \/ \E p \in BigIds : BigReuse(p) \/ BigNewSlot(p) \/ BigSlotFails(p)
        \/ \E p \in BigIds \union {NULL} : MpfreeBigpool(p)
        \/ MpdestoryBegin \/ DestoryBig \/ DestoryBigsDone
        \/ DestoryBlock \/ DestoryHead

Spec == Init /\ [][Next]_vars
-----------------------------------------------------------------------------
(***************************************************************************)
(* Properties.                                                             *)
(***************************************************************************)

Region == [lo : Nat, hi : Nat, who : {"client", "slot"}]

Slot == [blk : Blocks, pos : Nat \ {0}, alloc : BigIds \union {NULL}]

(* Every variable has its type, and no cursor has passed its block's end.  *)
TypeOK ==
  /\ phase \in {"none", "live", "bigs", "chain"}
  /\ nblocks \in 0 .. MaxBlocks
  /\ last \in [Blocks -> 0 .. PSize]
  /\ failure \in [Blocks -> Nat]
  /\ current \in Blocks
  /\ slots \in Seq(Slot)
  /\ cursor \in Nat
  /\ blive \subseteq Blocks
  /\ heap \subseteq BigIds
  /\ grants \in [Blocks -> Seq(Region)]
  /\ held \subseteq BigIds
  /\ lost \subseteq BigIds
  /\ fault \in BOOLEAN

(***************************************************************************)
(* What smp_mpalloc carves "in a pool" (smp_mpool.c:45) is in the pool:    *)
(* every region starts aligned, after the header of a block of the chain,  *)
(* and ends inside the block.                                              *)
(***************************************************************************)
RegionsInBlock ==
  \A b \in Blocks : \A i \in DOMAIN grants[b] :
    LET r == grants[b][i] IN
      /\ b <= nblocks
      /\ r.lo % 8 = 0
      /\ Header(b) <= r.lo
      /\ r.hi <= PSize

(* Two requests, the pool's own for slots included, never share a byte.    *)
RegionsDisjoint ==
  \A b \in Blocks : \A i, j \in DOMAIN grants[b] :
    i < j => \/ grants[b][i].hi <= grants[b][j].lo
             \/ grants[b][j].hi <= grants[b][i].lo

(***************************************************************************)
(* While the pool is in use, the list of big allocations holds each one    *)
(* the client has, once, and nothing else: freeing one frees that one, and *)
(* smp_mpdestory reaches all.  Only a failure to make a slot loses one.    *)
(***************************************************************************)
BigsRecorded ==
  phase = "live" =>
    /\ heap = held \union lost
    /\ held \intersect lost = {}
    /\ held = {slots[i].alloc : i \in DOMAIN slots} \ {NULL}
    /\ \A i, j \in DOMAIN slots :
         slots[i].alloc = slots[j].alloc => i = j \/ slots[i].alloc = NULL

(***************************************************************************)
(* "if p->data.failure++ > 4, current pool space used out"                 *)
(* (smp_mpool.c:97): the blocks pool->current has passed are exactly those *)
(* that failed six times, and those after it failed less, the older ones   *)
(* at least as often as the younger.                                       *)
(***************************************************************************)
RetiredUsedOut ==
  /\ \A b \in 1 .. current - 1 : failure[b] = 6
  /\ \A b \in current .. nblocks : failure[b] <= 5
  /\ \A a, b \in 1 .. nblocks : a < b => failure[a] >= failure[b]

(* No memory is freed twice, and no slot or block is read once freed.      *)
NoFault == ~fault

(***************************************************************************)
(* Once smp_mpdestory returns, the heap has every block and every big      *)
(* allocation back but those whose slot could not be made.                 *)
(***************************************************************************)
NothingLeft == phase = "none" => blive = {} /\ heap = lost

(* The regions the client holds, as the arena sees them.                   *)
ClientRegions ==
  IF phase /= "live" THEN {}
  ELSE UNION {{[blk |-> b, pos |-> i, lo |-> grants[b][i].lo, hi |-> grants[b][i].hi] :
               i \in {j \in DOMAIN grants[b] : grants[b][j].who = "client"}} : b \in Blocks}

Arena == INSTANCE SmpArena WITH
  Starts <- [b \in Blocks |-> Header(b)],
  Ends <- [b \in Blocks |-> PSize],
  granted <- ClientRegions

(* The pool keeps the promise of SmpArena, whatever walks it takes.        *)
ArenaRefined == Arena!ASpec
=============================================================================
