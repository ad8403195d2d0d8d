--------------------------- MODULE SmpPoolProofs ---------------------------
(***************************************************************************)
(* What is proved of SmpPool for every size of block, page and request,    *)
(* every bound and every order of calls.                                   *)
(***************************************************************************)
EXTENDS SmpPool, TLAPS

USE DEF HeadHeader, BlockHeader, SlotSize

(***************************************************************************)
(* The chain as the walks of smp_mpalloc need it: current points into it,  *)
(* and no region reaches past the cursor of its block.                     *)
(***************************************************************************)
ChainShape ==
  /\ phase = "none" => nblocks = 0
  /\ phase \in {"live", "bigs"} => nblocks >= 1
  /\ current <= nblocks \/ nblocks = 0
  /\ \A b \in Blocks : b <= nblocks => Header(b) <= last[b]
  /\ \A b \in Blocks : \A i \in DOMAIN grants[b] : grants[b][i].hi <= last[b]

(* The regions of a block, in the order they were carved.                  *)
RegionsOrdered ==
  \A b \in Blocks : \A i \in DOMAIN grants[b] :
    /\ grants[b][i].lo < grants[b][i].hi
    /\ \A j \in DOMAIN grants[b] : i < j => grants[b][i].hi <= grants[b][j].lo

(* The walk over the slots starts at one of them.                          *)
CursorInSlots == phase = "bigs" => cursor <= Len(slots)

PoolInv == TypeOK /\ CursorInSlots /\ ChainShape /\ RegionsInBlock /\ RegionsOrdered

-----------------------------------------------------------------------------
(* Rounding up to 8 bytes stays within any bound that is a multiple of 8.  *)
LEMMA AlignFacts ==
  ASSUME NEW x \in Nat, NEW m \in Nat, x <= m, m % 8 = 0
  PROVE  /\ Align(x) \in Nat
         /\ x <= Align(x)
         /\ Align(x) <= m
         /\ Align(x) % 8 = 0
  BY DEF Align

LEMMA AlignHeader == Align(BlockHeader) = 32
  BY DEF Align

(* In a pool of a multiple of 8 bytes, a request fits where it seems to.   *)
LEMMA RoomIsReal ==
  ASSUME PSize % 8 = 0, TypeOK, NEW b \in Blocks, NEW size \in Nat,
         Room(b) >= size
  PROVE  Align(last[b]) + size <= PSize
  <1>1. last[b] \in Nat /\ last[b] <= PSize /\ PSize \in Nat
    BY PoolAssumption DEF TypeOK
  <1>2. Align(last[b]) \in Nat /\ Align(last[b]) <= PSize
    BY <1>1, AlignFacts
  <1> QED  BY <1>1, <1>2 DEF Room, SizeT

-----------------------------------------------------------------------------
(* The part of the invariant that carving a region can disturb.            *)
ChainType == /\ nblocks \in 0 .. MaxBlocks
             /\ last \in [Blocks -> 0 .. PSize]
             /\ failure \in [Blocks -> Nat]
             /\ current \in Blocks
             /\ blive \subseteq Blocks
             /\ grants \in [Blocks -> Seq(Region)]

ChainInv == ChainType /\ ChainShape /\ RegionsInBlock /\ RegionsOrdered

(***************************************************************************)
(* Recording a region that starts at or after the cursor of its block and  *)
(* moving the cursor to its end keeps the regions in order and in bounds.  *)
(***************************************************************************)
LEMMA RecordStep ==
  ASSUME ChainInv, NEW b \in Blocks, NEW size \in Nat, NEW lo \in Nat,
         NEW who \in {"client", "slot"},
         b <= nblocks', nblocks <= nblocks', nblocks' \in Nat,
         b <= nblocks => last[b] <= lo,
         Header(b) <= lo, lo % 8 = 0, lo + size <= PSize,
         grants' = Recorded(b, lo, size, who),
         last' = [last EXCEPT ![b] = lo + size]
  PROVE  /\ last' \in [Blocks -> 0 .. PSize]
         /\ grants' \in [Blocks -> Seq(Region)]
         /\ \A c \in Blocks : \A i \in DOMAIN grants'[c] : grants'[c][i].hi <= last'[c]
         /\ RegionsInBlock'
         /\ RegionsOrdered'
  <1> DEFINE r == [lo |-> lo, hi |-> lo + size, who |-> who]
  <1>1. PSize \in Nat /\ lo + size \in 0 .. PSize
    BY PoolAssumption
  <1>2. last' \in [Blocks -> 0 .. PSize]
    BY <1>1 DEF ChainInv, ChainType
  <1>3. r \in Region
    BY DEF Region
  <1>4. \A i \in DOMAIN grants[b] :
          b <= nblocks /\ grants[b][i].hi <= last[b] /\ grants[b][i].hi <= lo
    <2> SUFFICES ASSUME NEW i \in DOMAIN grants[b]
                 PROVE  b <= nblocks /\ grants[b][i].hi <= last[b] /\ grants[b][i].hi <= lo
      OBVIOUS
    <2>1. b <= nblocks /\ grants[b][i].hi <= last[b]
      BY DEF ChainInv, ChainShape, RegionsInBlock
    <2>2. grants[b] \in Seq(Region) /\ last[b] \in Nat
      BY <1>1 DEF ChainInv, ChainType
    <2>3. grants[b][i] \in Region
      BY <2>2
    <2> QED  BY <2>1, <2>2, <2>3 DEF Region
  <1>5. CASE size = 0
    <2>1. grants' = grants
      BY <1>5 DEF Recorded
    <2>2. \A c \in Blocks : \A i \in DOMAIN grants'[c] : grants'[c][i].hi <= last'[c]
      BY <1>4, <1>5, <2>1 DEF ChainInv, ChainShape, ChainType
    <2>3. RegionsInBlock' /\ RegionsOrdered'
      BY <2>1 DEF ChainInv, ChainType, RegionsInBlock, RegionsOrdered, Blocks
    <2> QED  BY <1>2, <2>1, <2>2, <2>3 DEF ChainInv, ChainType
  <1>6. CASE size > 0
    <2>1. grants' = [grants EXCEPT ![b] = Append(grants[b], r)]
      BY <1>6 DEF Recorded
    <2>2. grants[b] \in Seq(Region)
      BY DEF ChainInv, ChainType
    <2>3. /\ grants'[b] = Append(grants[b], r)
          /\ DOMAIN grants'[b] = 1 .. Len(grants[b]) + 1
          /\ DOMAIN grants[b] = 1 .. Len(grants[b])
          /\ Len(grants[b]) \in Nat
          /\ grants'[b][Len(grants[b]) + 1] = r
          /\ \A i \in DOMAIN grants[b] : grants'[b][i] = grants[b][i]
      BY <2>1, <2>2 DEF ChainInv, ChainType
    <2>4. \A c \in Blocks : c /= b => grants'[c] = grants[c] /\ last'[c] = last[c]
      BY <2>1 DEF ChainInv, ChainType
    <2>5. last'[b] = lo + size
      BY DEF ChainInv, ChainType
    <2>6. grants' \in [Blocks -> Seq(Region)]
      BY <1>3, <2>1, <2>2 DEF ChainInv, ChainType
    <2>7. \A i \in DOMAIN grants'[b] : i \in DOMAIN grants[b] \/ grants'[b][i] = r
      BY <2>3
    <2>8. \A c \in Blocks : \A i \in DOMAIN grants'[c] : grants'[c][i].hi <= last'[c]
      <3> SUFFICES ASSUME NEW c \in Blocks, NEW i \in DOMAIN grants'[c]
                   PROVE  grants'[c][i].hi <= last'[c]
        OBVIOUS
      <3>1. CASE c /= b
        BY <3>1, <2>4 DEF ChainInv, ChainShape
      <3>2. CASE c = b /\ i \in DOMAIN grants[b]
        <4>1. grants[b][i] \in Region /\ last[b] \in Nat
          BY <3>2, <2>2, <1>1 DEF ChainInv, ChainType
        <4>2. grants[b][i].hi \in Nat
          BY <4>1 DEF Region
        <4> QED  BY <3>2, <4>1, <4>2, <1>4, <2>3, <2>5
      <3>3. CASE c = b /\ grants'[b][i] = r
        BY <3>3, <2>5
      <3> QED  BY <3>1, <3>2, <3>3, <2>7
    <2>9. RegionsInBlock'
      <3> SUFFICES ASSUME NEW c \in Blocks, NEW i \in DOMAIN grants'[c]
                   PROVE  /\ c <= nblocks'
                          /\ grants'[c][i].lo % 8 = 0
                          /\ Header(c) <= grants'[c][i].lo
                          /\ grants'[c][i].hi <= PSize
        BY DEF RegionsInBlock, Header
      <3>1. CASE c /= b
        BY <3>1, <2>4 DEF ChainInv, ChainType, RegionsInBlock, Blocks
      <3>2. CASE c = b /\ i \in DOMAIN grants[b]
        BY <3>2, <2>3 DEF ChainInv, RegionsInBlock
      <3>3. CASE c = b /\ grants'[b][i] = r
        BY <3>3
      <3> QED  BY <3>1, <3>2, <3>3, <2>7
    <2>10. RegionsOrdered'
      <3> SUFFICES ASSUME NEW c \in Blocks, NEW i \in DOMAIN grants'[c]
                   PROVE  /\ grants'[c][i].lo < grants'[c][i].hi
                          /\ \A j \in DOMAIN grants'[c] :
                               i < j => grants'[c][i].hi <= grants'[c][j].lo
        BY DEF RegionsOrdered
      <3>1. CASE c /= b
        BY <3>1, <2>4 DEF ChainInv, RegionsOrdered
      <3>2. CASE c = b /\ i \in DOMAIN grants[b]
        <4>1. grants[b][i].lo < grants[b][i].hi
          BY <3>2 DEF ChainInv, RegionsOrdered
        <4>2. ASSUME NEW j \in DOMAIN grants'[b], i < j
              PROVE  grants[b][i].hi <= grants'[b][j].lo
          <5>1. CASE j \in DOMAIN grants[b]
            BY <5>1, <4>2, <3>2, <2>3 DEF ChainInv, RegionsOrdered
          <5>2. CASE grants'[b][j] = r
            BY <5>2, <3>2, <1>4
          <5> QED  BY <5>1, <5>2, <2>7
        <4> QED  BY <3>2, <4>1, <4>2, <2>3
      <3>3. CASE c = b /\ i = Len(grants[b]) + 1
        BY <3>3, <2>3, <1>6
      <3> QED  BY <3>1, <3>2, <3>3, <2>3
    <2> QED  BY <1>2, <2>6, <2>8, <2>9, <2>10
  <1>7. size = 0 \/ size > 0
    OBVIOUS
  <1> QED  BY <1>5, <1>6, <1>7, Zenon

(* Carving from a block of the chain in which the request fits.            *)
LEMMA CarveStep ==
  ASSUME PSize % 8 = 0, PoolInv, phase = "live", phase' = phase,
         NEW b \in Blocks, NEW size \in Nat, NEW who \in {"client", "slot"},
         FirstFit(b, size), Carve(b, size, who)
  PROVE  ChainInv'
  <1> DEFINE lo == Align(last[b])
  <1>1. ChainInv
    BY DEF PoolInv, TypeOK, ChainInv, ChainType
  <1>2. /\ b <= nblocks /\ nblocks' = nblocks /\ nblocks \in Nat
        /\ last[b] \in Nat /\ last[b] <= PSize /\ PSize \in Nat
    BY PoolAssumption DEF PoolInv, TypeOK, Carve, FirstFit, Blocks
  <1>3. /\ lo \in Nat /\ last[b] <= lo /\ lo % 8 = 0
        /\ lo + size <= PSize
    BY <1>2, AlignFacts, RoomIsReal DEF PoolInv, FirstFit
  <1>4. Header(b) <= lo
    BY <1>2, <1>3 DEF PoolInv, ChainShape, Header
  <1>5. grants' = Recorded(b, lo, size, who) /\ last' = [last EXCEPT ![b] = lo + size]
    BY DEF Carve
  <1> HIDE DEF lo
  <1>bounds. b <= nblocks' /\ nblocks <= nblocks' /\ nblocks' \in Nat
    BY <1>2
  <1>6. /\ last' \in [Blocks -> 0 .. PSize]
        /\ grants' \in [Blocks -> Seq(Region)]
        /\ \A c \in Blocks : \A i \in DOMAIN grants'[c] : grants'[c][i].hi <= last'[c]
        /\ RegionsInBlock'
        /\ RegionsOrdered'
    BY <1>1, <1>bounds, <1>3, <1>4, <1>5, RecordStep, Zenon
  <1>7. ChainType'
    BY <1>1, <1>6 DEF Carve, ChainInv, ChainType
  <1>8. \A c \in Blocks : c <= nblocks' => Header(c) <= last'[c]
    <2>1. last \in [Blocks -> 0 .. PSize] /\ last' = [last EXCEPT ![b] = lo + size]
      BY <1>1, <1>5 DEF ChainInv, ChainType
    <2> SUFFICES ASSUME NEW c \in Blocks, c <= nblocks' PROVE Header(c) <= last'[c]
      OBVIOUS
    <2>2. last'[c] = IF c = b THEN lo + size ELSE last[c]
      BY <2>1
    <2>3. CASE c = b
      <3>1. Header(b) \in Int /\ lo \in Int /\ size \in Nat /\ Header(b) <= lo
        BY <1>3, <1>4 DEF Header
      <3>2. Header(b) <= lo + size
        BY <3>1
      <3> QED  BY <2>2, <2>3, <3>2
    <2>4. CASE c /= b
      <3>1. Header(c) <= last[c]
        BY <1>1, <1>2 DEF ChainInv, ChainShape
      <3> QED  BY <2>2, <2>4, <3>1
    <2> QED  BY <2>3, <2>4
  <1>9. ChainShape'
    BY <1>1, <1>2, <1>6, <1>8 DEF Carve, ChainInv, ChainShape, Header
  <1> QED  BY <1>6, <1>7, <1>9 DEF ChainInv

(* Carving from a new block: a request of at most pool->max always fits.   *)
LEMMA GrowStep ==
  ASSUME PSize % 8 = 0, PoolInv, phase = "live", phase' = phase,
         NEW b \in Blocks, NEW size \in Nat, NEW who \in {"client", "slot"},
         size <= MaxSmall, MpallocBlock(b, size, who)
  PROVE  ChainInv'
  <1>1. ChainInv
    BY DEF PoolInv, TypeOK, ChainInv, ChainType
  <1>2. /\ nblocks \in Nat /\ nblocks >= 1 /\ b = nblocks + 1 /\ nblocks' = b
        /\ PSize \in Nat /\ MaxBlocks \in Nat /\ b <= MaxBlocks
    BY PoolAssumption DEF PoolInv, TypeOK, ChainShape, MpallocBlock, Blocks
  <1>3. 32 + size <= PSize
    BY <1>2, PoolAssumption DEF MaxSmall
  <1>4. Header(b) = 32
    BY <1>2 DEF Header
  <1> DEFINE lo == Align(BlockHeader)
  <1>5. /\ grants' = Recorded(b, lo, size, who)
        /\ last' = [last EXCEPT ![b] = lo + size]
    BY DEF MpallocBlock
  <1>lo. lo = 32
    BY AlignHeader
  <1> HIDE DEF lo
  <1>bounds. /\ b <= nblocks' /\ nblocks <= nblocks' /\ nblocks' \in Nat
             /\ b <= nblocks => last[b] <= lo
             /\ lo \in Nat /\ Header(b) <= lo /\ lo % 8 = 0 /\ lo + size <= PSize
    BY <1>2, <1>3, <1>4, <1>lo
  <1>6. /\ last' \in [Blocks -> 0 .. PSize]
        /\ grants' \in [Blocks -> Seq(Region)]
        /\ \A c \in Blocks : \A i \in DOMAIN grants'[c] : grants'[c][i].hi <= last'[c]
        /\ RegionsInBlock'
        /\ RegionsOrdered'
    BY <1>1, <1>bounds, <1>5, RecordStep, Zenon
  <1>7. failure' \in [Blocks -> Nat]
    <2>1. failure \in [Blocks -> Nat]
      BY <1>1 DEF ChainInv, ChainType
    <2>2. failure' = [c \in Blocks |-> IF c \in current .. nblocks - 1
                                      THEN failure[c] + 1
                                      ELSE IF c = b THEN 0 ELSE failure[c]]
      BY DEF MpallocBlock
    <2>3. \A c \in Blocks : failure[c] \in Nat /\ failure[c] + 1 \in Nat
      BY <2>1
    <2> QED  BY <2>2, <2>3
  <1>8. current' \in Blocks /\ current' <= nblocks'
    <2>1. PICK c \in Blocks : MovesTo(c) /\ current' = c
      BY DEF MpallocBlock
    <2> QED  BY <2>1, <1>2 DEF MovesTo, Blocks
  <1>9. ChainType'
    <2>1. nblocks' \in 0 .. MaxBlocks
      BY <1>2
    <2>2. blive' \subseteq Blocks
      BY <1>1 DEF MpallocBlock, ChainInv, ChainType
    <2> QED  BY <1>6, <1>7, <1>8, <2>1, <2>2 DEF ChainType
  <1>10. \A c \in Blocks : c <= nblocks' => Header(c) <= last'[c]
    <2> SUFFICES ASSUME NEW c \in Blocks, c <= nblocks' PROVE Header(c) <= last'[c]
      BY DEF Header
    <2>1. CASE c = b
      BY <2>1, <1>1, <1>4, <1>5, <1>lo DEF ChainInv, ChainType
    <2>2. CASE c /= b
      BY <2>2, <1>1, <1>2, <1>5 DEF ChainInv, ChainShape, ChainType, Blocks
    <2> QED  BY <2>1, <2>2
  <1>11. ChainShape'
    BY <1>1, <1>2, <1>6, <1>8, <1>10 DEF ChainInv, ChainShape, Header
  <1> QED  BY <1>6, <1>9, <1>11 DEF ChainInv

LEMMA PlaceStep ==
  ASSUME PSize % 8 = 0, PoolInv, phase = "live", phase' = phase,
         NEW b \in Blocks, NEW size \in Nat, NEW who \in {"client", "slot"},
         size <= MaxSmall, Place(b, size, who)
  PROVE  ChainInv'
  BY CarveStep, GrowStep DEF Place

-----------------------------------------------------------------------------
LEMMA InitInv == Init => PoolInv
  <1> SUFFICES ASSUME Init PROVE PoolInv
    OBVIOUS
  <1>1. PSize \in Nat /\ MaxBlocks \in Nat \ {0}
    BY PoolAssumption
  <1>2. <<>> \in Seq(Slot) /\ <<>> \in Seq(Region) /\ DOMAIN <<>> = {}
    OBVIOUS
  <1>3. TypeOK
    <2>1. 0 \in 0 .. MaxBlocks /\ 0 \in 0 .. PSize /\ 0 \in Nat /\ 1 \in Blocks
      BY <1>1 DEF Blocks
    <2> QED  BY <1>2, <2>1 DEF Init, TypeOK
  <1>4. \A b \in Blocks : DOMAIN grants[b] = {}
    BY DEF Init
  <1>5. CursorInSlots /\ ChainShape /\ RegionsInBlock /\ RegionsOrdered
    BY <1>1, <1>4 DEF Init, CursorInSlots, ChainShape, RegionsInBlock, RegionsOrdered, Blocks
  <1> QED  BY <1>3, <1>5 DEF PoolInv

(* What the other variables must be for the invariant, the chain apart.    *)
RestType == /\ phase \in {"none", "live", "bigs", "chain"}
            /\ slots \in Seq(Slot)
            /\ cursor \in Nat
            /\ heap \subseteq BigIds
            /\ held \subseteq BigIds
            /\ lost \subseteq BigIds
            /\ fault \in BOOLEAN
            /\ CursorInSlots

LEMMA InvParts == ASSUME PoolInv PROVE ChainInv /\ RestType
  BY DEF PoolInv, TypeOK, ChainInv, ChainType, RestType

LEMMA PartsInv == ASSUME ChainInv', RestType' PROVE PoolInv'
  BY DEF PoolInv, TypeOK, ChainInv, ChainType, RestType

(* A step that leaves the chain alone, and does not make a pool.           *)
LEMMA ChainUnchanged ==
  ASSUME ChainInv, UNCHANGED chainVars,
         phase' = phase \/ phase' = "chain" \/ (phase = "live" /\ phase' = "bigs")
  PROVE  ChainInv'
  BY DEF ChainInv, ChainType, ChainShape, RegionsInBlock, RegionsOrdered, chainVars

LEMMA NextInv == ASSUME PSize % 8 = 0, PoolInv, [Next]_vars PROVE PoolInv'
  <1>1. ChainInv /\ RestType /\ TypeOK
    BY InvParts DEF PoolInv
  <1>2. PSize \in Nat /\ PageSize \in Nat /\ SlotSize <= MaxSmall /\ NULL \notin BigIds
        /\ MaxBlocks \in Nat \ {0} /\ Sizes \subseteq Nat
    BY PoolAssumption
  <1>3. Len(slots) \in Nat /\ DOMAIN slots = 1 .. Len(slots)
    BY <1>1 DEF RestType, CursorInSlots
  <1>4. CASE MpoolCreate
    <2>1. <<>> \in Seq(Slot) /\ <<>> \in Seq(Region) /\ DOMAIN <<>> = {}
      OBVIOUS
    <2>2. /\ 1 \in 0 .. MaxBlocks /\ 0 \in 0 .. PSize /\ 56 \in 0 .. PSize
          /\ 1 \in Blocks /\ 0 \in Nat
      BY <1>2 DEF Blocks, MaxSmall
    <2>3. ChainType'
      BY <1>4, <2>1, <2>2 DEF MpoolCreate, ChainType
    <2>4. \A b \in Blocks : DOMAIN grants'[b] = {}
      BY <1>4, <2>1 DEF MpoolCreate
    <2>5. RegionsInBlock' /\ RegionsOrdered'
      BY <2>4 DEF RegionsInBlock, RegionsOrdered
    <2>6. ChainShape'
      BY <1>4, <2>4 DEF MpoolCreate, ChainShape, Header, Blocks
    <2>7. RestType'
      BY <1>1, <1>4, <2>1 DEF MpoolCreate, RestType, CursorInSlots
    <2> QED  BY <2>3, <2>5, <2>6, <2>7, PartsInv DEF ChainInv
  <1>5. ASSUME NEW size \in Sizes, MpallocSmall(size) PROVE PoolInv'
    <2>1. PICK b \in Blocks : Place(b, size, "client")
      BY <1>5 DEF MpallocSmall
    <2>2. ChainInv'
      BY <1>2, <1>5, <2>1, PlaceStep DEF MpallocSmall
    <2>3. RestType'
      BY <1>1, <1>5 DEF MpallocSmall, RestType, CursorInSlots
    <2> QED  BY <2>2, <2>3, PartsInv
  <1>6. ASSUME NEW p \in BigIds, BigReuse(p) PROVE PoolInv'
    <2>1. ChainInv'
      BY <1>1, <1>6, ChainUnchanged DEF BigReuse
    <2>2. slots' \in Seq(Slot)
      <3>1. PICK i \in Looked : slots' = [slots EXCEPT ![i].alloc = p]
        BY <1>6 DEF BigReuse
      <3>2. i \in DOMAIN slots /\ slots[i] \in Slot
        BY <1>1 DEF Looked, RestType, CursorInSlots
      <3> QED  BY <1>1, <3>1, <3>2 DEF RestType, Slot
    <2>3. RestType'
      BY <1>1, <1>6, <2>2 DEF BigReuse, RestType, CursorInSlots
    <2> QED  BY <2>1, <2>3, PartsInv
  <1>7. ASSUME NEW p \in BigIds, BigNewSlot(p) PROVE PoolInv'
    <2>1. PICK b \in Blocks :
            /\ Place(b, SlotSize, "slot")
            /\ slots' = Append(slots, [blk |-> b, pos |-> Len(grants[b]) + 1, alloc |-> p])
      BY <1>7 DEF BigNewSlot
    <2>2. ChainInv'
      BY <1>2, <1>7, <2>1, PlaceStep DEF BigNewSlot, BigRequest
    <2>3. Len(grants[b]) \in Nat
      BY <1>1 DEF ChainInv, ChainType
    <2>4. slots' \in Seq(Slot)
      BY <1>1, <2>1, <2>3 DEF RestType, Slot
    <2>5. RestType'
      BY <1>1, <1>7, <2>4 DEF BigNewSlot, RestType, CursorInSlots
    <2> QED  BY <2>2, <2>5, PartsInv
  <1>8. ASSUME NEW p \in BigIds, BigSlotFails(p) PROVE PoolInv'
    <2>1. ChainInv'
      BY <1>1, <1>8, ChainUnchanged DEF BigSlotFails
    <2>2. RestType'
      BY <1>1, <1>8 DEF BigSlotFails, RestType, CursorInSlots
    <2> QED  BY <2>1, <2>2, PartsInv
  <1>9. ASSUME NEW p \in BigIds \union {NULL}, MpfreeBigpool(p) PROVE PoolInv'
    <2>1. ChainInv'
      BY <1>1, <1>9, ChainUnchanged DEF MpfreeBigpool
    <2>2. slots' \in Seq(Slot)
      <3>1. CASE slots' = slots
        BY <1>1, <3>1 DEF RestType, CursorInSlots
      <3>2. CASE \E i \in DOMAIN slots : slots' = [slots EXCEPT ![i].alloc = NULL]
        <4>1. PICK i \in DOMAIN slots : slots' = [slots EXCEPT ![i].alloc = NULL]
          BY <3>2
        <4>2. slots[i] \in Slot
          BY <1>1, <4>1 DEF RestType, CursorInSlots
        <4> QED  BY <1>1, <4>1, <4>2 DEF RestType, Slot
      <3> QED  BY <1>9, <3>1, <3>2 DEF MpfreeBigpool
    <2>3. heap' \subseteq BigIds /\ fault' \in BOOLEAN
      BY <1>1, <1>9 DEF MpfreeBigpool, RestType, CursorInSlots
    <2>4. RestType'
      BY <1>1, <1>9, <2>2, <2>3 DEF MpfreeBigpool, RestType, CursorInSlots
    <2> QED  BY <2>1, <2>4, PartsInv
  <1>10. CASE MpdestoryBegin
    <2>1. ChainInv'
      BY <1>1, <1>10, ChainUnchanged DEF MpdestoryBegin
    <2>2. RestType'
      BY <1>1, <1>3, <1>10 DEF MpdestoryBegin, RestType, CursorInSlots
    <2> QED  BY <2>1, <2>2, PartsInv
  <1>11. CASE DestoryBig
    <2>1. ChainInv'
      BY <1>1, <1>11, ChainUnchanged DEF DestoryBig
    <2>2. slots' \in Seq(Slot)
      <3>1. cursor \in DOMAIN slots
        BY <1>1, <1>3, <1>11 DEF DestoryBig, RestType, CursorInSlots
      <3>2. slots[cursor] \in Slot
        BY <1>1, <3>1 DEF RestType
      <3> QED  BY <1>1, <1>11, <3>1, <3>2 DEF DestoryBig, RestType, Slot
    <2>3. cursor' \in Nat
      BY <1>1, <1>11 DEF DestoryBig, RestType, CursorInSlots
    <2>4. fault' \in BOOLEAN /\ heap' \subseteq BigIds
      BY <1>1, <1>11 DEF DestoryBig, RestType, CursorInSlots
    <2>5. RestType'
      BY <1>1, <1>11, <2>2, <2>3, <2>4 DEF DestoryBig, RestType, CursorInSlots
    <2> QED  BY <2>1, <2>5, PartsInv
  <1>12. CASE DestoryBigsDone
    <2>1. ChainInv'
      BY <1>1, <1>12, ChainUnchanged DEF DestoryBigsDone
    <2>2. RestType'
      BY <1>1, <1>12 DEF DestoryBigsDone, RestType, CursorInSlots
    <2> QED  BY <2>1, <2>2, PartsInv
  <1>13. CASE DestoryBlock
    <2>1. ChainInv'
      BY <1>1, <1>13 DEF DestoryBlock, ChainInv, ChainType, ChainShape, RegionsInBlock,
                         RegionsOrdered
    <2>2. RestType'
      BY <1>1, <1>13 DEF DestoryBlock, RestType, CursorInSlots
    <2> QED  BY <2>1, <2>2, PartsInv
  <1>14. CASE DestoryHead
    <2>1. <<>> \in Seq(Slot) /\ <<>> \in Seq(Region) /\ DOMAIN <<>> = {}
      OBVIOUS
    <2>2. /\ 0 \in 0 .. MaxBlocks /\ 0 \in 0 .. PSize
          /\ 1 \in Blocks /\ 0 \in Nat /\ blive \ {1} \subseteq Blocks
      BY <1>1, <1>2 DEF Blocks, ChainInv, ChainType
    <2>3. ChainType'
      BY <1>14, <2>1, <2>2 DEF DestoryHead, ChainType
    <2>4. \A b \in Blocks : DOMAIN grants'[b] = {}
      BY <1>14, <2>1 DEF DestoryHead
    <2>5. RegionsInBlock' /\ RegionsOrdered'
      BY <2>4 DEF RegionsInBlock, RegionsOrdered
    <2>6. ChainShape'
      BY <1>14, <2>4 DEF DestoryHead, ChainShape, Header, Blocks
    <2>7. RestType'
      BY <1>1, <1>14, <2>1 DEF DestoryHead, RestType, CursorInSlots
    <2> QED  BY <2>3, <2>5, <2>6, <2>7, PartsInv DEF ChainInv
  <1>15. CASE UNCHANGED vars
    <2>1. ChainInv'
      BY <1>1, <1>15, ChainUnchanged DEF vars, chainVars
    <2>2. RestType'
      BY <1>1, <1>15 DEF vars, RestType, CursorInSlots
    <2> QED  BY <2>1, <2>2, PartsInv
  <1> QED
    BY <1>4, <1>5, <1>6, <1>7, <1>8, <1>9, <1>10, <1>11, <1>12, <1>13, <1>14, <1>15
       DEF Next

(***************************************************************************)
(* The invariant holds throughout the life of a pool whose block size is a *)
(* multiple of 8, the alignment.  For other sizes it does not: the aligned *)
(* cursor can pass the end of a block, and the room left, a negative       *)
(* number, becomes a huge size_t.                                          *)
(***************************************************************************)
THEOREM PoolInvariant == ASSUME PSize % 8 = 0 PROVE Spec => []PoolInv
  BY InitInv, NextInv, PTL DEF Spec

(* Type correctness: no cursor of the chain ever passes its block's end.   *)
THEOREM Typing == ASSUME PSize % 8 = 0 PROVE Spec => []TypeOK
  <1>1. PoolInv => TypeOK
    BY DEF PoolInv
  <1> QED  BY <1>1, PoolInvariant, PTL

(* What smp_mpalloc carves is aligned and inside a block of the pool.      *)
THEOREM InBlock == ASSUME PSize % 8 = 0 PROVE Spec => []RegionsInBlock
  <1>1. PoolInv => RegionsInBlock
    BY DEF PoolInv
  <1> QED  BY <1>1, PoolInvariant, PTL

(* No two requests ever share a byte.                                      *)
THEOREM Disjoint == ASSUME PSize % 8 = 0 PROVE Spec => []RegionsDisjoint
  <1>1. PoolInv => RegionsDisjoint
    BY DEF PoolInv, RegionsOrdered, RegionsDisjoint
  <1> QED  BY <1>1, PoolInvariant, PTL

-----------------------------------------------------------------------------
(***************************************************************************)
(* The failure counters.  A walk to the end of the chain adds one to every *)
(* counter from current on but the last, so the counters stay ordered and  *)
(* those current jumps over all stand at five before and six after.        *)
(***************************************************************************)
LEMMA FailureGrow ==
  ASSUME PoolInv, RetiredUsedOut, nblocks >= 1, NEW b \in Blocks, NEW size, NEW who,
         MpallocBlock(b, size, who)
  PROVE  RetiredUsedOut'
  <1>1. /\ nblocks \in Nat /\ MaxBlocks \in Nat /\ b = nblocks + 1 /\ nblocks' = b
        /\ b <= MaxBlocks /\ current \in Nat /\ current >= 1 /\ current <= nblocks
    <2>1. b = nblocks + 1 /\ nblocks' = b /\ (current <= nblocks \/ nblocks = 0)
      BY DEF MpallocBlock, PoolInv, ChainShape
    <2>2. nblocks \in Nat /\ MaxBlocks \in Nat /\ current \in Blocks
      BY PoolAssumption DEF PoolInv, TypeOK
    <2> QED  BY <2>1, <2>2 DEF Blocks
  <1>2. PICK c \in Blocks : MovesTo(c) /\ current' = c
    BY DEF MpallocBlock
  <1>3. /\ c \in Nat /\ current <= c /\ c <= nblocks
        /\ c > current => failure[c - 1] > 4
        /\ \A d \in c .. nblocks - 1 : failure[d] <= 4
    BY <1>1, <1>2 DEF MovesTo
  <1>4. \A d \in 1 .. nblocks : failure[d] \in Nat
    BY <1>1 DEF PoolInv, TypeOK, Blocks
  <1>5. /\ \A d \in current .. nblocks - 1 : failure'[d] = failure[d] + 1
        /\ \A d \in 1 .. current - 1 : failure'[d] = failure[d]
        /\ failure'[nblocks] = failure[nblocks]
        /\ failure'[nblocks + 1] = 0
    BY <1>1 DEF MpallocBlock, Blocks
  <1>6. \A d \in current .. c - 1 : failure[d] = 5
    BY <1>1, <1>3, <1>4 DEF RetiredUsedOut
  <1>7. \A d \in 1 .. c - 1 : failure'[d] = 6
    BY <1>1, <1>3, <1>5, <1>6 DEF RetiredUsedOut
  <1>8. \A d \in c .. nblocks + 1 : failure'[d] <= 5
    BY <1>1, <1>3, <1>4, <1>5 DEF RetiredUsedOut
  <1>9. \A d, e \in 1 .. nblocks + 1 : d < e => failure'[d] >= failure'[e]
    <2> SUFFICES ASSUME NEW d \in 1 .. nblocks + 1, NEW e \in 1 .. nblocks + 1, d < e
                 PROVE  failure'[d] >= failure'[e]
      OBVIOUS
    <2>1. \A x \in 1 .. nblocks + 1 : failure'[x] \in Nat
      BY <1>1, <1>4, <1>5
    <2>2. CASE d < c
      BY <2>1, <2>2, <1>1, <1>3, <1>7, <1>8
    <2>3. CASE c <= d /\ e <= nblocks
      BY <2>1, <2>3, <1>1, <1>3, <1>4, <1>5 DEF RetiredUsedOut
    <2>4. CASE e = nblocks + 1
      BY <2>1, <2>4, <1>5
    <2> QED  BY <2>2, <2>3, <2>4, <1>1, <1>3
  <1> QED  BY <1>1, <1>2, <1>7, <1>8, <1>9 DEF RetiredUsedOut

LEMMA FailurePlace ==
  ASSUME PoolInv, RetiredUsedOut, phase = "live", NEW b \in Blocks, NEW size, NEW who,
         Place(b, size, who)
  PROVE  RetiredUsedOut'
  <1>1. CASE Carve(b, size, who)
    BY <1>1 DEF Carve, RetiredUsedOut
  <1>2. CASE MpallocBlock(b, size, who)
    BY <1>2, FailureGrow DEF PoolInv, ChainShape
  <1> QED  BY <1>1, <1>2 DEF Place

LEMMA FailureNext ==
  ASSUME PoolInv, RetiredUsedOut, [Next]_vars PROVE RetiredUsedOut'
  <1>1. ASSUME NEW size \in Sizes, MpallocSmall(size) PROVE RetiredUsedOut'
    BY <1>1, FailurePlace DEF MpallocSmall
  <1>2. ASSUME NEW p \in BigIds, BigNewSlot(p) PROVE RetiredUsedOut'
    BY <1>2, FailurePlace DEF BigNewSlot, BigRequest
  <1>3. CASE MpoolCreate
    BY <1>3, PoolAssumption DEF MpoolCreate, RetiredUsedOut, Blocks
  <1>4. CASE DestoryHead
    BY <1>4 DEF DestoryHead, RetiredUsedOut
  <1>5. ASSUME UNCHANGED <<failure, current, nblocks>> PROVE RetiredUsedOut'
    BY <1>5 DEF RetiredUsedOut
  <1> QED
    BY <1>1, <1>2, <1>3, <1>4, <1>5
       DEF Next, BigReuse, BigSlotFails, MpfreeBigpool, MpdestoryBegin, DestoryBig,
           DestoryBigsDone, DestoryBlock, chainVars, vars

(* The blocks pool->current has passed are those that failed six times.    *)
THEOREM Retired == ASSUME PSize % 8 = 0 PROVE Spec => []RetiredUsedOut
  <1>1. Init => RetiredUsedOut
    BY DEF Init, RetiredUsedOut
  <1>2. PoolInv /\ RetiredUsedOut /\ [Next]_vars => RetiredUsedOut'
    BY FailureNext
  <1> QED  BY <1>1, <1>2, PoolInvariant, PTL DEF Spec

-----------------------------------------------------------------------------
(***************************************************************************)
(* The heap.  A big allocation is in the list, or lost, or free: the list  *)
(* has each at most once, while the pool is in use it has those the client *)
(* holds, and smp_mpdestory works through it before it frees the blocks    *)
(* the slots lie in.                                                       *)
(***************************************************************************)
Listed(p) == \E i \in DOMAIN slots : slots[i].alloc = p

ListExact ==
  /\ \A i \in DOMAIN slots : slots[i].blk <= nblocks /\ slots[i].alloc \notin lost
  /\ \A i, j \in DOMAIN slots :
       slots[i].alloc = slots[j].alloc => i = j \/ slots[i].alloc = NULL
  /\ \A p \in BigIds : p \in heap <=> p \in lost \/ Listed(p)

HeapInv ==
  /\ ~fault
  /\ ListExact
  /\ phase = "live" => \A p \in BigIds : p \in held <=> Listed(p)
  /\ phase /= "live" => held = {}
  /\ phase \in {"live", "bigs"} => blive = 1 .. nblocks
  /\ phase = "bigs" => \A i \in DOMAIN slots : i > cursor => slots[i].alloc = NULL
  /\ phase = "none" => blive = {} /\ slots = <<>>
  /\ phase = "chain" => /\ \A p \in BigIds : ~Listed(p)
                        /\ nblocks >= 1
                        /\ cursor >= 2
                        /\ cursor <= nblocks + 1
                        /\ blive = {1} \union cursor .. nblocks

(* How the list changes when one slot changes.                             *)
LEMMA SlotSet ==
  ASSUME slots \in Seq(Slot), NEW i \in DOMAIN slots, NEW p \in BigIds \union {NULL},
         slots' = [slots EXCEPT ![i].alloc = p]
  PROVE  /\ DOMAIN slots' = DOMAIN slots
         /\ Len(slots') = Len(slots)
         /\ slots'[i].alloc = p
         /\ \A j \in DOMAIN slots : /\ slots'[j].blk = slots[j].blk
                                    /\ j /= i => slots'[j].alloc = slots[j].alloc
  <1>1. slots[i] \in Slot /\ \A j \in DOMAIN slots : slots[j] \in Slot
    OBVIOUS
  <1>2. slots' \in Seq(Slot)
    BY <1>1 DEF Slot
  <1> QED  BY <1>1, <1>2 DEF Slot

(* A big allocation enters a free slot.                                    *)
LEMMA ReuseHeap ==
  ASSUME PoolInv, HeapInv, NEW p \in BigIds, BigReuse(p) PROVE HeapInv'
  <1>1. PICK i \in Looked : FreeSlot(i) /\ slots' = [slots EXCEPT ![i].alloc = p]
    BY DEF BigReuse
  <1>2. /\ slots \in Seq(Slot) /\ i \in DOMAIN slots /\ slots[i].alloc = NULL
        /\ p \notin heap /\ p /= NULL /\ heap \subseteq BigIds /\ held \subseteq BigIds
    BY <1>1, PoolAssumption DEF PoolInv, TypeOK, Looked, FreeSlot, BigReuse
  <1>3. /\ DOMAIN slots' = DOMAIN slots
        /\ slots'[i].alloc = p
        /\ \A j \in DOMAIN slots : /\ slots'[j].blk = slots[j].blk
                                   /\ j /= i => slots'[j].alloc = slots[j].alloc
    BY <1>1, <1>2, SlotSet
  <1>4. ~Listed(p) /\ p \notin lost
    BY <1>2 DEF HeapInv, ListExact
  <1>5. \A q \in BigIds : Listed(q)' <=> Listed(q) \/ q = p
    BY <1>2, <1>3, PoolAssumption DEF Listed
  <1>6. ListExact'
    <2>1. \A j \in DOMAIN slots' : slots'[j].blk <= nblocks' /\ slots'[j].alloc \notin lost'
      BY <1>2, <1>3, <1>4 DEF HeapInv, ListExact, BigReuse, chainVars
    <2>2. \A j, k \in DOMAIN slots' :
            slots'[j].alloc = slots'[k].alloc => j = k \/ slots'[j].alloc = NULL
      BY <1>2, <1>3, <1>4 DEF HeapInv, ListExact, Listed
    <2>3. \A q \in BigIds : q \in heap' <=> q \in lost' \/ Listed(q)'
      BY <1>5 DEF HeapInv, ListExact, BigReuse
    <2> QED  BY <2>1, <2>2, <2>3 DEF ListExact
  <1>7. \A q \in BigIds : q \in held' <=> Listed(q)'
    BY <1>5 DEF HeapInv, BigReuse, BigRequest
  <1>8. ~fault' /\ phase' = "live" /\ blive' = 1 .. nblocks'
    BY DEF HeapInv, BigReuse, BigRequest, chainVars
  <1> QED  BY <1>6, <1>7, <1>8 DEF HeapInv

(* A big allocation enters a new slot, in whatever block it was carved.    *)
LEMMA NewSlotHeap ==
  ASSUME PSize % 8 = 0, PoolInv, HeapInv, NEW p \in BigIds, BigNewSlot(p) PROVE HeapInv'
  <1>1. PICK b \in Blocks :
          /\ Place(b, SlotSize, "slot")
          /\ slots' = Append(slots, [blk |-> b, pos |-> Len(grants[b]) + 1, alloc |-> p])
    BY DEF BigNewSlot
  <1> DEFINE s == [blk |-> b, pos |-> Len(grants[b]) + 1, alloc |-> p]
  <1>2. /\ slots \in Seq(Slot) /\ Len(slots) \in Nat /\ DOMAIN slots = 1 .. Len(slots)
        /\ p \notin heap /\ p /= NULL /\ nblocks \in Nat /\ phase = "live"
        /\ heap \subseteq BigIds /\ held \subseteq BigIds
    BY PoolAssumption DEF PoolInv, TypeOK, BigNewSlot, BigRequest
  <1>3. /\ DOMAIN slots' = 1 .. Len(slots) + 1
        /\ slots'[Len(slots) + 1] = s
        /\ \A j \in DOMAIN slots : slots'[j] = slots[j]
    BY <1>1, <1>2
  <1>4. /\ b <= nblocks' /\ nblocks <= nblocks' /\ nblocks' \in Nat
        /\ blive' = 1 .. nblocks'
    <2>1. blive = 1 .. nblocks
      BY <1>2 DEF HeapInv
    <2>2. CASE FirstFit(b, SlotSize) /\ Carve(b, SlotSize, "slot")
      BY <1>2, <2>1, <2>2 DEF FirstFit, Carve, Blocks
    <2>3. CASE MpallocBlock(b, SlotSize, "slot")
      BY <1>2, <2>1, <2>3 DEF MpallocBlock
    <2> QED  BY <1>1, <2>2, <2>3 DEF Place
  <1>5. ~Listed(p) /\ p \notin lost
    BY <1>2 DEF HeapInv, ListExact
  <1>6. \A q : Listed(q)' <=> Listed(q) \/ q = p
    BY <1>2, <1>3 DEF Listed
  <1>7. \A j \in DOMAIN slots' : j \in DOMAIN slots \/ slots'[j] = s
    BY <1>2, <1>3
  <1>8. ListExact'
    <2>1. \A j \in DOMAIN slots' : slots'[j].blk <= nblocks' /\ slots'[j].alloc \notin lost'
      <3>1. \A j \in DOMAIN slots : slots[j].blk \in Blocks
        <4>1. \A j \in DOMAIN slots : slots[j] \in Slot
          BY <1>2
        <4> QED  BY <4>1 DEF Slot
      <3> QED  BY <3>1, <1>2, <1>3, <1>4, <1>5, <1>7
               DEF HeapInv, ListExact, BigNewSlot, Blocks
    <2>2. \A j, k \in DOMAIN slots' :
            slots'[j].alloc = slots'[k].alloc => j = k \/ slots'[j].alloc = NULL
      BY <1>2, <1>3, <1>5 DEF HeapInv, ListExact, Listed
    <2>3. \A q \in BigIds : q \in heap' <=> q \in lost' \/ Listed(q)'
      BY <1>6 DEF HeapInv, ListExact, BigNewSlot
    <2> QED  BY <2>1, <2>2, <2>3 DEF ListExact
  <1>9. \A q \in BigIds : q \in held' <=> Listed(q)'
    BY <1>2, <1>6 DEF HeapInv, BigNewSlot
  <1>10. ~fault' /\ phase' = "live"
    BY <1>2 DEF HeapInv, BigNewSlot
  <1> QED  BY <1>4, <1>8, <1>9, <1>10 DEF HeapInv

(* Giving a big allocation back empties its slot, and frees it once.       *)
LEMMA FreeHeap ==
  ASSUME PoolInv, HeapInv, NEW p \in BigIds \union {NULL}, MpfreeBigpool(p) PROVE HeapInv'
  <1>1. /\ slots \in Seq(Slot) /\ NULL \notin BigIds /\ phase = "live" /\ phase' = phase
        /\ heap \subseteq BigIds /\ held \subseteq BigIds /\ lost' = lost
        /\ held' = held \ {p} /\ blive' = blive /\ nblocks' = nblocks
    BY PoolAssumption DEF PoolInv, TypeOK, MpfreeBigpool, chainVars
  <1>2. CASE UNCHANGED <<slots, heap, fault>> /\ ~Listed(p)
    <2>1. \A q : Listed(q)' <=> Listed(q)
      BY <1>2 DEF Listed
    <2>2. ListExact'
      BY <1>1, <1>2, <2>1 DEF HeapInv, ListExact
    <2> QED  BY <1>1, <1>2, <2>1, <2>2 DEF HeapInv
  <1>3. ASSUME NEW i \in DOMAIN slots, slots[i].alloc = p,
               slots' = [slots EXCEPT ![i].alloc = NULL],
               heap' = heap \ {p},
               fault' = (fault \/ (p /= NULL /\ p \notin heap))
        PROVE  HeapInv'
    <2>1. /\ DOMAIN slots' = DOMAIN slots
          /\ slots'[i].alloc = NULL
          /\ \A j \in DOMAIN slots : /\ slots'[j].blk = slots[j].blk
                                     /\ j /= i => slots'[j].alloc = slots[j].alloc
      BY <1>1, <1>3, SlotSet
    <2>2. \A q \in BigIds : Listed(q)' <=> Listed(q) /\ q /= p
      BY <1>1, <1>3, <2>1 DEF Listed, HeapInv, ListExact
    <2>3. p = NULL \/ p \in heap
      BY <1>3 DEF HeapInv, ListExact, Listed
    <2>4. \A j \in DOMAIN slots' : slots'[j].blk <= nblocks' /\ slots'[j].alloc \notin lost'
      <3>1. NULL \notin lost
        BY <1>1 DEF PoolInv, TypeOK
      <3> QED  BY <1>1, <2>1, <3>1 DEF HeapInv, ListExact
    <2>5. \A j, k \in DOMAIN slots' :
            slots'[j].alloc = slots'[k].alloc => j = k \/ slots'[j].alloc = NULL
      BY <2>1 DEF HeapInv, ListExact
    <2>6. \A q \in BigIds : q \in heap' <=> q \in lost' \/ Listed(q)'
      BY <1>1, <1>3, <2>2 DEF HeapInv, ListExact
    <2>7. \A q \in BigIds : q \in held' <=> Listed(q)'
      BY <1>1, <2>2 DEF HeapInv
    <2>8. ~fault'
      BY <1>3, <2>3 DEF HeapInv
    <2> QED  BY <1>1, <2>4, <2>5, <2>6, <2>7, <2>8 DEF HeapInv, ListExact
  <1> QED  BY <1>2, <1>3 DEF MpfreeBigpool, Listed

(* One step of smp_bigpool_destory.                                        *)
LEMMA DestoryBigHeap ==
  ASSUME PoolInv, HeapInv, DestoryBig PROVE HeapInv'
  <1>1. /\ slots \in Seq(Slot) /\ Len(slots) \in Nat /\ DOMAIN slots = 1 .. Len(slots)
        /\ NULL \notin BigIds /\ cursor \in Nat /\ cursor > 0 /\ cursor <= Len(slots)
        /\ cursor \in DOMAIN slots /\ heap \subseteq BigIds /\ lost \subseteq BigIds
        /\ nblocks \in Nat
    BY PoolAssumption DEF PoolInv, TypeOK, CursorInSlots, DestoryBig
  <1>2. /\ phase = "bigs" /\ phase' = phase /\ lost' = lost /\ held' = held
        /\ blive' = blive /\ nblocks' = nblocks /\ cursor' = cursor - 1
        /\ heap' = heap \ {slots[cursor].alloc}
        /\ slots' = [slots EXCEPT ![cursor].alloc = NULL]
    BY DEF DestoryBig, chainVars
  <1>3. /\ DOMAIN slots' = DOMAIN slots
        /\ slots'[cursor].alloc = NULL
        /\ \A j \in DOMAIN slots : /\ slots'[j].blk = slots[j].blk
                                   /\ j /= cursor => slots'[j].alloc = slots[j].alloc
    BY <1>1, <1>2, SlotSet
  <1>4. \A q \in BigIds : Listed(q)' <=> Listed(q) /\ q /= slots[cursor].alloc
    BY <1>1, <1>3 DEF Listed, HeapInv, ListExact
  <1>5. ~fault'
    <2>1. slots[cursor] \in Slot
      BY <1>1
    <2>2. slots[cursor].blk \in blive
      BY <1>1, <1>2, <2>1 DEF Slot, Blocks, HeapInv, ListExact
    <2>3. slots[cursor].alloc = NULL \/ slots[cursor].alloc \in heap
      BY <1>1, <2>1 DEF Slot, HeapInv, ListExact, Listed
    <2> QED  BY <2>2, <2>3 DEF DestoryBig, HeapInv
  <1>6. ListExact'
    <2>1. \A j \in DOMAIN slots' : slots'[j].blk <= nblocks' /\ slots'[j].alloc \notin lost'
      BY <1>1, <1>2, <1>3 DEF HeapInv, ListExact
    <2>2. \A j, k \in DOMAIN slots' :
            slots'[j].alloc = slots'[k].alloc => j = k \/ slots'[j].alloc = NULL
      BY <1>3 DEF HeapInv, ListExact
    <2>3. \A q \in BigIds : q \in heap' <=> q \in lost' \/ Listed(q)'
      BY <1>1, <1>2, <1>4 DEF HeapInv, ListExact
    <2> QED  BY <2>1, <2>2, <2>3 DEF ListExact
  <1>7. \A i \in DOMAIN slots' : i > cursor' => slots'[i].alloc = NULL
    BY <1>1, <1>2, <1>3 DEF HeapInv
  <1> QED  BY <1>2, <1>5, <1>6, <1>7 DEF HeapInv

LEMMA HeapNext ==
  ASSUME PSize % 8 = 0, PoolInv, HeapInv, [Next]_vars PROVE HeapInv'
  <1>1. /\ nblocks \in Nat /\ cursor \in Nat /\ slots \in Seq(Slot)
        /\ Len(slots) \in Nat /\ DOMAIN slots = 1 .. Len(slots)
        /\ NULL \notin BigIds /\ heap \subseteq BigIds /\ lost \subseteq BigIds
    BY PoolAssumption DEF PoolInv, TypeOK
  <1>2. CASE MpoolCreate
    <2>1. slots' = slots /\ DOMAIN slots = {} /\ \A q : ~Listed(q) /\ ~Listed(q)'
      BY <1>2 DEF MpoolCreate, HeapInv, Listed
    <2>2. ListExact'
      BY <1>2, <2>1 DEF MpoolCreate, HeapInv, ListExact
    <2>3. 1 .. 1 = {1}
      OBVIOUS
    <2> QED  BY <1>2, <2>1, <2>2, <2>3 DEF MpoolCreate, HeapInv
  <1>3. ASSUME NEW size \in Sizes, MpallocSmall(size) PROVE HeapInv'
    <2>1. PICK b \in Blocks : Place(b, size, "client")
      BY <1>3 DEF MpallocSmall
    <2>2. blive = 1 .. nblocks /\ phase = "live"
      BY <1>3 DEF MpallocSmall, HeapInv
    <2>3. nblocks <= nblocks' /\ nblocks' \in Nat /\ blive' = 1 .. nblocks'
      <3>1. CASE Carve(b, size, "client")
        BY <1>1, <2>2, <3>1 DEF Carve
      <3>2. CASE MpallocBlock(b, size, "client")
        BY <1>1, <2>2, <3>2 DEF MpallocBlock
      <3> QED  BY <2>1, <3>1, <3>2 DEF Place
    <2>4. \A q : Listed(q)' <=> Listed(q)
      BY <1>3 DEF MpallocSmall, Listed
    <2>5. \A i \in DOMAIN slots : slots[i].blk <= nblocks'
      <3>1. \A i \in DOMAIN slots : slots[i] \in Slot
        BY <1>1
      <3> QED  BY <1>1, <2>3, <3>1 DEF Slot, Blocks, HeapInv, ListExact
    <2>6. ListExact'
      BY <1>3, <2>4, <2>5 DEF MpallocSmall, HeapInv, ListExact
    <2> QED  BY <1>3, <2>2, <2>3, <2>4, <2>6 DEF MpallocSmall, HeapInv
  <1>4. ASSUME NEW p \in BigIds, BigSlotFails(p) PROVE HeapInv'
    <2>1. \A q : Listed(q)' <=> Listed(q)
      BY <1>4 DEF BigSlotFails, Listed
    <2>2. ~Listed(p)
      BY <1>4 DEF BigSlotFails, HeapInv, ListExact
    <2>3. ListExact'
      BY <1>4, <2>1, <2>2 DEF BigSlotFails, HeapInv, ListExact, Listed, chainVars
    <2> QED  BY <1>4, <2>1, <2>3 DEF BigSlotFails, BigRequest, HeapInv, chainVars
  <1>5. CASE MpdestoryBegin
    <2>1. \A q : Listed(q)' <=> Listed(q)
      BY <1>5 DEF MpdestoryBegin, Listed
    <2>2. ListExact'
      BY <1>5, <2>1 DEF MpdestoryBegin, HeapInv, ListExact, chainVars
    <2>3. \A i \in DOMAIN slots' : ~(i > cursor')
      BY <1>1, <1>5 DEF MpdestoryBegin
    <2> QED  BY <1>5, <2>2, <2>3 DEF MpdestoryBegin, HeapInv, chainVars
  <1>6. CASE DestoryBigsDone
    <2>1. \A q : Listed(q)' <=> Listed(q)
      BY <1>6 DEF DestoryBigsDone, Listed
    <2>2. \A q \in BigIds : ~Listed(q)
      BY <1>1, <1>6 DEF DestoryBigsDone, HeapInv, Listed
    <2>3. ListExact'
      BY <1>6, <2>1 DEF DestoryBigsDone, HeapInv, ListExact, chainVars
    <2>4. nblocks >= 1 /\ 1 .. nblocks = {1} \union 2 .. nblocks
      <3>1. nblocks >= 1
        BY <1>6 DEF PoolInv, ChainShape, DestoryBigsDone
      <3> QED  BY <1>1, <3>1
    <2>5. blive' = {1} \union 2 .. nblocks
      BY <1>6, <2>4 DEF DestoryBigsDone, HeapInv, chainVars
    <2> QED  BY <1>1, <1>6, <2>1, <2>2, <2>3, <2>4, <2>5
             DEF DestoryBigsDone, HeapInv, chainVars
  <1>7. CASE DestoryBlock
    <2>1. \A q : Listed(q)' <=> Listed(q)
      BY <1>7 DEF DestoryBlock, Listed
    <2>2. ListExact'
      BY <1>7, <2>1 DEF DestoryBlock, HeapInv, ListExact
    <2>3. /\ nblocks >= 1 /\ cursor >= 2 /\ cursor <= nblocks
          /\ blive = {1} \union cursor .. nblocks
      BY <1>7 DEF DestoryBlock, HeapInv
    <2>4. blive' = {1} \union cursor' .. nblocks
      BY <1>1, <1>7, <2>3 DEF DestoryBlock
    <2>5. ~fault'
      <3>1. cursor \in blive /\ 1 \in blive
        BY <1>1, <2>3
      <3> QED  BY <1>7, <3>1 DEF DestoryBlock, HeapInv
    <2> QED  BY <1>1, <1>7, <2>1, <2>2, <2>3, <2>4, <2>5 DEF DestoryBlock, HeapInv
  <1>8. CASE DestoryHead
    <2>1. /\ cursor = nblocks + 1 /\ blive = {1} \union cursor .. nblocks
          /\ \A q \in BigIds : ~Listed(q)
      BY <1>1, <1>8 DEF DestoryHead, HeapInv
    <2>2. blive = {1}
      BY <1>1, <2>1
    <2>3. \A q : ~Listed(q)'
      BY <1>8 DEF DestoryHead, Listed
    <2>4. ListExact'
      BY <1>8, <2>1, <2>3 DEF DestoryHead, HeapInv, ListExact
    <2> QED  BY <1>8, <2>2, <2>3, <2>4 DEF DestoryHead, HeapInv
  <1>9. CASE UNCHANGED vars
    BY <1>9 DEF vars, HeapInv, ListExact, Listed
  <1> QED
    BY <1>2, <1>3, <1>4, <1>5, <1>6, <1>7, <1>8, <1>9,
       ReuseHeap, NewSlotHeap, FreeHeap, DestoryBigHeap DEF Next

(* The inductive invariant of the heap under smp_mpalloc_bigpool and       *)
(* smp_mpdestory: what is allocated, recorded and still to be freed.       *)
THEOREM HeapInvariant == ASSUME PSize % 8 = 0 PROVE Spec => []HeapInv
  <1>1. Init => HeapInv
    BY DEF Init, HeapInv, ListExact, Listed
  <1>2. PoolInv /\ HeapInv /\ [Next]_vars => HeapInv'
    BY HeapNext
  <1> QED  BY <1>1, <1>2, PoolInvariant, PTL DEF Spec

(* Nothing is freed twice or read after it was freed.                      *)
THEOREM Faultless == ASSUME PSize % 8 = 0 PROVE Spec => []NoFault
  <1>1. HeapInv => NoFault
    BY DEF HeapInv, NoFault
  <1> QED  BY <1>1, HeapInvariant, PTL

(* smp_mpdestory gives everything back but the lost big allocations.       *)
THEOREM Returned == ASSUME PSize % 8 = 0 PROVE Spec => []NothingLeft
  <1>1. PoolInv /\ HeapInv => NothingLeft
    <2> SUFFICES ASSUME PoolInv, HeapInv, phase = "none"
                 PROVE  blive = {} /\ heap = lost
      BY DEF NothingLeft
    <2>1. \A q : ~Listed(q)
      BY DEF HeapInv, Listed
    <2>2. heap \subseteq BigIds /\ lost \subseteq BigIds
      BY DEF PoolInv, TypeOK
    <2> QED  BY <2>1, <2>2 DEF HeapInv, ListExact
  <1> QED  BY <1>1, PoolInvariant, HeapInvariant, PTL

(* The list holds the client's big allocations, each once, and no other.   *)
THEOREM Recording == ASSUME PSize % 8 = 0 PROVE Spec => []BigsRecorded
  <1>1. PoolInv /\ HeapInv => BigsRecorded
    <2> SUFFICES ASSUME PoolInv, HeapInv, phase = "live"
                 PROVE  /\ heap = held \union lost
                        /\ held \intersect lost = {}
                        /\ held = {slots[i].alloc : i \in DOMAIN slots} \ {NULL}
                        /\ \A i, j \in DOMAIN slots :
                             slots[i].alloc = slots[j].alloc
                               => i = j \/ slots[i].alloc = NULL
      BY DEF BigsRecorded
    <2>1. /\ heap \subseteq BigIds /\ lost \subseteq BigIds /\ held \subseteq BigIds
          /\ NULL \notin BigIds /\ slots \in Seq(Slot)
      BY PoolAssumption DEF PoolInv, TypeOK
    <2>2. \A i \in DOMAIN slots : slots[i].alloc \in BigIds \union {NULL}
      <3>1. \A i \in DOMAIN slots : slots[i] \in Slot
        BY <2>1
      <3> QED  BY <3>1 DEF Slot
    <2>3. \A p \in BigIds : p \in held <=> \E i \in DOMAIN slots : slots[i].alloc = p
      BY DEF HeapInv, Listed
    <2>4. held = {slots[i].alloc : i \in DOMAIN slots} \ {NULL}
      BY <2>1, <2>2, <2>3
    <2>5. heap = held \union lost /\ held \intersect lost = {}
      BY <2>1, <2>3 DEF HeapInv, ListExact, Listed
    <2> QED  BY <2>4, <2>5 DEF HeapInv, ListExact
  <1> QED  BY <1>1, PoolInvariant, HeapInvariant, PTL

-----------------------------------------------------------------------------
(***************************************************************************)
(* The pool implements SmpArena.                                           *)
(***************************************************************************)
Entry(b, i) == [blk |-> b, pos |-> i, lo |-> grants[b][i].lo, hi |-> grants[b][i].hi]

LEMMA InRegions ==
  \A r : r \in ClientRegions <=>
           /\ phase = "live"
           /\ \E b \in Blocks : \E i \in DOMAIN grants[b] :
                grants[b][i].who = "client" /\ r = Entry(b, i)
  BY DEF ClientRegions, Entry

LEMMA InRegionsNext ==
  \A r : r \in ClientRegions' <=>
           /\ phase' = "live"
           /\ \E b \in Blocks : \E i \in DOMAIN grants'[b] :
                grants'[b][i].who = "client" /\ r = Entry(b, i)'
  <1>1. (\A r : r \in ClientRegions <=>
                  /\ phase = "live"
                  /\ \E b \in Blocks : \E i \in DOMAIN grants[b] :
                       grants[b][i].who = "client" /\ r = Entry(b, i))'
    BY InRegions, PTL
  <1> QED  BY <1>1

(* What recording a region adds: one at the end of its block's.            *)
LEMMA RecordedAdds ==
  ASSUME ChainType, NEW b \in Blocks, NEW lo, NEW size, NEW who, size /= 0,
         grants' = Recorded(b, lo, size, who)
  PROVE  /\ grants'[b][Len(grants[b]) + 1] = [lo |-> lo, hi |-> lo + size, who |-> who]
         /\ DOMAIN grants'[b] = DOMAIN grants[b] \union {Len(grants[b]) + 1}
         /\ Len(grants[b]) + 1 \notin DOMAIN grants[b]
         /\ \A i \in DOMAIN grants[b] : grants'[b][i] = grants[b][i]
         /\ \A c \in Blocks : c /= b => grants'[c] = grants[c]
  <1>1. grants[b] \in Seq(Region) /\ grants \in [Blocks -> Seq(Region)]
    BY DEF ChainType
  <1>2. grants' = [grants EXCEPT ![b] = Append(grants[b], [lo |-> lo, hi |-> lo + size, who |-> who])]
    BY DEF Recorded
  <1> QED  BY <1>1, <1>2

(* A region the pool records for itself is none of the client's.           *)
LEMMA SlotHidden ==
  ASSUME ChainType, phase = "live", phase' = "live",
         NEW b \in Blocks, NEW lo, NEW size,
         grants' = Recorded(b, lo, size, "slot")
  PROVE  ClientRegions' = ClientRegions
  <1>1. CASE size = 0
    BY <1>1 DEF Recorded, ClientRegions
  <1>2. CASE size /= 0
    <2>0. /\ grants'[b][Len(grants[b]) + 1] = [lo |-> lo, hi |-> lo + size, who |-> "slot"]
          /\ DOMAIN grants'[b] = DOMAIN grants[b] \union {Len(grants[b]) + 1}
          /\ \A i \in DOMAIN grants[b] : grants'[b][i] = grants[b][i]
          /\ \A c \in Blocks : c /= b => grants'[c] = grants[c]
      BY <1>2, RecordedAdds
    <2>1. ASSUME NEW r, r \in ClientRegions' PROVE r \in ClientRegions
      <3>10. PICK c \in Blocks : \E i \in DOMAIN grants'[c] : grants'[c][i].who = "client" /\ r = Entry(c, i)'
        BY <2>1, InRegionsNext
      <3>1. PICK i \in DOMAIN grants'[c] : grants'[c][i].who = "client" /\ r = Entry(c, i)'
        BY <3>10
      <3>2. i \in DOMAIN grants[c] /\ grants'[c][i] = grants[c][i]
        BY <2>0, <3>1
      <3> QED  BY <3>1, <3>2, InRegions DEF Entry
    <2>2. ASSUME NEW r, r \in ClientRegions PROVE r \in ClientRegions'
      <3>10. PICK c \in Blocks : \E i \in DOMAIN grants[c] : grants[c][i].who = "client" /\ r = Entry(c, i)
        BY <2>2, InRegions
      <3>1. PICK i \in DOMAIN grants[c] : grants[c][i].who = "client" /\ r = Entry(c, i)
        BY <3>10
      <3>2. i \in DOMAIN grants'[c] /\ grants'[c][i] = grants[c][i]
        BY <1>2, <3>1, RecordedAdds
      <3> QED  BY <3>1, <3>2, InRegionsNext DEF Entry
    <2> QED  BY <2>1, <2>2
  <1> QED  BY <1>1, <1>2

(* One it records for the client is new, inside its block and apart.       *)
LEMMA RegionGranted ==
  ASSUME PoolInv, PoolInv', phase = "live", phase' = "live", held' = held,
         NEW b \in Blocks, NEW lo, NEW size, size /= 0,
         grants' = Recorded(b, lo, size, "client")
  PROVE  Arena!Grant
  <1>0. PICK k : k = Len(grants[b]) + 1
    OBVIOUS
  <1> DEFINE r == Entry(b, k)'
  <1>1. ChainType /\ grants \in [Blocks -> Seq(Region)] /\ grants' \in [Blocks -> Seq(Region)]
    BY DEF PoolInv, TypeOK, ChainType
  <1>2. /\ grants'[b][k] = [lo |-> lo, hi |-> lo + size, who |-> "client"]
        /\ DOMAIN grants'[b] = DOMAIN grants[b] \union {k}
        /\ k \notin DOMAIN grants[b]
        /\ \A i \in DOMAIN grants[b] : grants'[b][i] = grants[b][i]
        /\ \A c \in Blocks : c /= b => grants'[c] = grants[c]
    BY <1>0, <1>1, RecordedAdds
  <1>who. grants'[b][k].who = "client"
    BY <1>2
  <1>3. \A x : x \in ClientRegions => \E c \in Blocks : \E i \in DOMAIN grants[c] :
                /\ x = Entry(c, i) /\ x = Entry(c, i)' /\ grants'[c][i].who = "client"
                /\ i \in DOMAIN grants'[c] /\ (c = b => i /= k)
    BY <1>2, InRegions DEF Entry
  <1>4. /\ r.blk = b /\ r.pos = k /\ r.lo = grants'[b][k].lo /\ r.hi = grants'[b][k].hi
        /\ k \in DOMAIN grants'[b]
    BY <1>2 DEF Entry
  <1>5. ClientRegions' = ClientRegions \union {r}
    <2>1. ASSUME NEW x, x \in ClientRegions' PROVE x \in ClientRegions \/ x = r
      <3>10. PICK c \in Blocks : \E i \in DOMAIN grants'[c] : grants'[c][i].who = "client" /\ x = Entry(c, i)'
        BY <2>1, InRegionsNext
      <3>1. PICK i \in DOMAIN grants'[c] : grants'[c][i].who = "client" /\ x = Entry(c, i)'
        BY <3>10
      <3>2. CASE c = b /\ i = k
        BY <3>1, <3>2 DEF Entry
      <3>3. CASE ~(c = b /\ i = k)
        <4>1. i \in DOMAIN grants[c] /\ grants'[c][i] = grants[c][i]
          BY <1>2, <3>1, <3>3
        <4> QED  BY <3>1, <4>1, InRegions DEF Entry
      <3> QED  BY <3>2, <3>3
    <2>2. ASSUME NEW x, x \in ClientRegions PROVE x \in ClientRegions'
      BY <1>3, <2>2, InRegionsNext
    <2>3. r \in ClientRegions'
      BY <1>who, <1>4, InRegionsNext
    <2> QED  BY <2>1, <2>2, <2>3
  <1>6. r \notin ClientRegions
    BY <1>3, <1>4 DEF Entry
  <1>7. /\ Header(b) <= r.lo /\ r.lo < r.hi /\ r.hi <= PSize
    BY <1>4 DEF PoolInv, RegionsInBlock, RegionsOrdered, Header
  <1>8. ASSUME NEW x \in ClientRegions
        PROVE  x.blk /= r.blk \/ x.hi <= r.lo
    <2>10. PICK c \in Blocks : \E i \in DOMAIN grants[c] : x = Entry(c, i)' /\ i \in DOMAIN grants'[c] /\ (c = b => i /= k)
      BY <1>3, <1>8
    <2>1. PICK i \in DOMAIN grants[c] : x = Entry(c, i)' /\ i \in DOMAIN grants'[c] /\ (c = b => i /= k)
      BY <2>10
    <2>2. CASE c = b
      <3>1. i < k /\ i \in DOMAIN grants'[b]
        <4>1. Len(grants[b]) \in Nat /\ DOMAIN grants[b] = 1 .. Len(grants[b])
          BY <1>1
        <4> QED  BY <1>0, <1>2, <2>1, <2>2, <4>1
      <3>2. grants'[b][i].hi <= grants'[b][k].lo
        BY <1>4, <3>1 DEF PoolInv, RegionsOrdered
      <3> QED  BY <1>4, <2>1, <2>2, <3>2 DEF Entry
    <2>3. CASE c /= b
      BY <1>4, <2>1, <2>3 DEF Entry
    <2> QED  BY <2>2, <2>3
  <1> HIDE DEF r
  <1>9. Arena!Usable(r)
    BY <1>4, <1>7 DEF Arena!Usable
  <1>10. \A x \in ClientRegions : Arena!Apart(r, x)
    BY <1>8 DEF Arena!Apart
  <1> QED  BY <1>5, <1>6, <1>9, <1>10 DEF Arena!Grant

(* What a request for a region does to the regions.                        *)
LEMMA PlaceRecords ==
  ASSUME NEW b \in Blocks, NEW size, NEW who, Place(b, size, who)
  PROVE  \E lo : grants' = Recorded(b, lo, size, who)
  BY DEF Place, Carve, MpallocBlock

LEMMA ArenaStep ==
  ASSUME PoolInv, PoolInv', HeapInv, [Next]_vars
  PROVE  [Arena!ANext]_(Arena!avars)
  <1>1. ChainType /\ held \subseteq BigIds /\ NULL \notin BigIds
    BY PoolAssumption DEF PoolInv, TypeOK, ChainType
  <1>2. phase = "live" => held \subseteq heap
    BY <1>1 DEF HeapInv, ListExact
  <1>3. ASSUME phase' = phase \/ (phase /= "live" /\ phase' /= "live"), grants' = grants
        PROVE  ClientRegions' = ClientRegions
    BY <1>3 DEF ClientRegions
  <1>4. ASSUME ClientRegions' = ClientRegions, NEW p \in BigIds,
               p \notin held, held' = held \union {p}
        PROVE  Arena!ANext
    BY <1>4 DEF Arena!ANext, Arena!HandOut
  <1>5. CASE MpoolCreate
    <2>1. ClientRegions = {} /\ ClientRegions' = {} /\ held' = held
      BY <1>5 DEF MpoolCreate, ClientRegions
    <2> QED  BY <2>1 DEF Arena!avars
  <1>6. ASSUME NEW size \in Sizes, MpallocSmall(size) PROVE [Arena!ANext]_(Arena!avars)
    <2>1. PICK b \in Blocks : Place(b, size, "client")
      BY <1>6 DEF MpallocSmall
    <2>2. PICK lo : grants' = Recorded(b, lo, size, "client")
      BY <2>1, PlaceRecords
    <2>3. phase = "live" /\ phase' = "live" /\ held' = held
      BY <1>6 DEF MpallocSmall
    <2>4. CASE size = 0
      BY <1>3, <2>2, <2>3, <2>4 DEF Recorded, Arena!avars
    <2>5. CASE size /= 0
      BY <2>2, <2>3, <2>5, RegionGranted DEF Arena!ANext
    <2> QED  BY <2>4, <2>5
  <1>7. ASSUME NEW p \in BigIds, BigReuse(p) PROVE Arena!ANext
    <2>1. p \notin held /\ held' = held \union {p} /\ ClientRegions' = ClientRegions
      BY <1>2, <1>3, <1>7 DEF BigReuse, BigRequest, chainVars
    <2> QED  BY <1>4, <2>1
  <1>8. ASSUME NEW p \in BigIds, BigNewSlot(p) PROVE Arena!ANext
    <2>1. PICK b \in Blocks : Place(b, SlotSize, "slot")
      BY <1>8 DEF BigNewSlot
    <2>2. PICK lo : grants' = Recorded(b, lo, SlotSize, "slot")
      BY <2>1, PlaceRecords
    <2>3. phase = "live" /\ phase' = "live" /\ p \notin held /\ held' = held \union {p}
      BY <1>2, <1>8 DEF BigNewSlot, BigRequest
    <2>4. ClientRegions' = ClientRegions
      BY <1>1, <2>2, <2>3, SlotHidden
    <2> QED  BY <1>4, <2>3, <2>4
  <1>9. ASSUME NEW p \in BigIds, BigSlotFails(p) PROVE [Arena!ANext]_(Arena!avars)
    BY <1>3, <1>9 DEF BigSlotFails, chainVars, Arena!avars
  <1>10. ASSUME NEW p \in BigIds \union {NULL}, MpfreeBigpool(p)
         PROVE  [Arena!ANext]_(Arena!avars)
    <2>1. ClientRegions' = ClientRegions /\ held' = held \ {p}
      BY <1>3, <1>10 DEF MpfreeBigpool, chainVars
    <2>2. CASE p \in held
      <3>1. Arena!TakeBack(p) /\ p \in BigIds
        BY <1>1, <2>1, <2>2 DEF Arena!TakeBack
      <3> QED  BY <3>1 DEF Arena!ANext
    <2>3. CASE p \notin held
      BY <2>1, <2>3 DEF Arena!avars
    <2> QED  BY <2>2, <2>3
  <1>11. CASE MpdestoryBegin
    <2>1. ClientRegions' = {} /\ held' = {}
      BY <1>11 DEF MpdestoryBegin, ClientRegions
    <2> QED  BY <2>1 DEF Arena!ANext, Arena!Retire
  <1>12. CASE DestoryBig \/ DestoryBigsDone \/ DestoryBlock \/ DestoryHead
    <2>1. phase /= "live" /\ phase' /= "live" /\ held' = held
      BY <1>12 DEF DestoryBig, DestoryBigsDone, DestoryBlock, DestoryHead
    <2> QED  BY <2>1 DEF ClientRegions, Arena!avars
  <1>13. CASE UNCHANGED vars
    BY <1>3, <1>13 DEF vars, Arena!avars
  <1> QED  BY <1>5, <1>6, <1>7, <1>8, <1>9, <1>10, <1>11, <1>12, <1>13 DEF Next

(* The pool implements SmpArena: what the client holds is apart from all   *)
(* else it holds, and its own until it gives it back.                      *)
THEOREM ArenaImplemented == ASSUME PSize % 8 = 0 PROVE Spec => ArenaRefined
  <1>1. Init => Arena!AInit
    BY DEF Init, Arena!AInit, ClientRegions
  <1>2. PoolInv /\ PoolInv' /\ HeapInv /\ [Next]_vars => [Arena!ANext]_(Arena!avars)
    BY ArenaStep
  <1> QED  BY <1>1, <1>2, PoolInvariant, HeapInvariant, PTL
           DEF Spec, ArenaRefined, Arena!ASpec
=============================================================================
