------------------------------ MODULE SmpArray ------------------------------
(***************************************************************************)
(* The array of smp_stl/smp_array/smp_array.c: units of UnitElemAmt        *)
(* elements, found through an index that is copied to a longer one when it *)
(* is full; access by number; and the traversal, whose visitor may push.   *)
(*                                                                         *)
(* Memory comes from a pool of the array's own, never runs out by itself   *)
(* and may fail at any call.  An element is the pair of its unit and its   *)
(* place there; calls with NULL arguments change nothing and are left out. *)
(***************************************************************************)
EXTENDS Integers, Sequences, SmpAddress

CONSTANTS
  UnitElemAmt, (* array->unit_elem_amt *)
  IndexAmt,    (* SMP_ARRAY_INDEX_AMT, the length of the first index *)
  IndexInc,    (* SMP_ARRAY_INDEX_INC, what each longer one adds *)
  UIntMod,     (* one more than the greatest uint *)
  MaxUnits     (* bound: the units an array may get *)

ASSUME ArrayAssumption ==
  /\ UnitElemAmt \in Nat \ {0} /\ IndexAmt \in Nat \ {0} /\ IndexInc \in Nat \ {0}
  /\ UIntMod \in Nat /\ UIntMod > MaxUnits * UnitElemAmt
  /\ MaxUnits \in Nat \ {0}

VARIABLES
  arrayPhase, (* "none", "live", "visit" or "destory" while a traversal runs *)
  index,      (* array->index: the unit each entry points to *)
  indexAmt,   (* array->index_amt, how many entries the array thinks there are *)
  indexUsed,  (* array->index_used *)
  currPoint,  (* array->curr_point *)
  idx,        (* idx, i and tmp of smp_array_traversal *)
  elemI,
  tmp,
  inUnit,     (* whether its inner loop runs *)
  pushed,     (* history: the elements smp_array_push has given, in order *)
  visited,    (* history: the elements the traversal has visited, in order *)
  began       (* history: how many there were when the traversal began *)

arrayElems == <<index, indexAmt, indexUsed, currPoint, pushed>>
arrayVisit == <<idx, elemI, tmp, inUnit, visited, began>>
arrayVars == <<arrayPhase, arrayElems, arrayVisit>>

(* The operators named Mutant... are not part of the specification: each is *)
(* what the definition after it would be with a plausible mistake in the   *)
(* code, and shows that a property can tell.                               *)

ArrayInit == /\ arrayPhase = "none"
             /\ index = <<>> /\ indexAmt = 0 /\ indexUsed = 0 /\ currPoint = 0
             /\ idx = 0 /\ elemI = 0 /\ tmp = 0 /\ inUnit = FALSE
             /\ pushed = <<>> /\ visited = <<>> /\ began = 0

NoElem == <<>>  (* the null pointer, where an element is expected *)

(* smp_array_size. *)
ArraySize == currPoint + (indexUsed - 1) * UnitElemAmt

MutantArrayElemN(k) == LET j == (k + 1) % UIntMod
                           n == ((j % UnitElemAmt) - 1) % UIntMod
                           u == j \div UnitElemAmt
                       IN IF u < indexUsed /\ n < UnitElemAmt THEN <<index[u], n>> ELSE NoElem

(***************************************************************************)
(* smp_array_elem_n, in unsigned arithmetic: k is incremented first, so    *)
(* that the last element of a unit becomes number -1 of the next one.      *)
(***************************************************************************)
ArrayElemN(k) == LET j == (k + 1) % UIntMod
                     n == ((j % UnitElemAmt) - 1) % UIntMod
                     u == j \div UnitElemAmt
                 IN IF u < indexUsed /\ n < currPoint THEN <<index[u], n>> ELSE NoElem

(* smp_array_init, smp_array_index_init included. *)
ArrayCreate ==
  /\ arrayPhase = "none"
  /\ arrayPhase' = "live"
  /\ index' = [k \in 0 .. IndexAmt - 1 |-> IF k = 0 THEN 1 ELSE NULL]
  /\ indexAmt' = IndexAmt
  /\ indexUsed' = 1
  /\ currPoint' = 0
  /\ pushed' = <<>>
  /\ UNCHANGED arrayVisit

(* A call of smp_array_push finds the array between two calls, or comes    *)
(* from the visitor, which has just been given an element.                 *)
MayPush == \/ arrayPhase = "live"
           \/ arrayPhase = "visit" /\ inUnit /\ elemI > 0

PushInUnit ==
  /\ MayPush
  /\ currPoint < UnitElemAmt
  /\ currPoint' = currPoint + 1
  /\ pushed' = Append(pushed, <<index[indexUsed - 1], currPoint>>)
  /\ UNCHANGED <<arrayPhase, index, indexAmt, indexUsed, arrayVisit>>

MutantIndexRealloc == IF indexUsed < indexAmt THEN index
                      ELSE [k \in 0 .. indexUsed + IndexInc - 1 |->
                              IF k < indexUsed - 1 THEN index[k] ELSE WILD]

(***************************************************************************)
(* The index after smp_array_index_realloc, which is called when all of it *)
(* is used: the used entries are copied, the new ones are not written.     *)
(***************************************************************************)
IndexRealloc == IF indexUsed < indexAmt THEN index
                ELSE [k \in 0 .. indexUsed + IndexInc - 1 |->
                        IF k < indexUsed THEN index[k] ELSE WILD]

ReallocAmt == IF indexUsed = indexAmt THEN indexAmt + IndexInc ELSE indexAmt

(* smp_array_push when the last unit is full: the index may have to grow,  *)
(* then comes the unit, and its first element.                             *)
PushExpand ==
  /\ MayPush
  /\ currPoint >= UnitElemAmt
  /\ indexUsed < MaxUnits
  /\ index' = [IndexRealloc EXCEPT ![indexUsed] = indexUsed + 1]
  /\ indexAmt' = ReallocAmt
  /\ indexUsed' = indexUsed + 1
  /\ currPoint' = 1
  /\ pushed' = Append(pushed, <<index'[indexUsed], 0>>)
  /\ UNCHANGED <<arrayPhase, arrayVisit>>

(* The same with no memory for the unit, when the index has grown already. *)
(* With none for the index either, nothing changes.                        *)
PushFails ==
  /\ MayPush
  /\ currPoint >= UnitElemAmt
  /\ indexUsed = indexAmt
  /\ index' = IndexRealloc
  /\ indexAmt' = ReallocAmt
  /\ UNCHANGED <<arrayPhase, indexUsed, currPoint, pushed, arrayVisit>>

VisitBegin == /\ idx' = 0 /\ elemI' = 0 /\ tmp' = 0 /\ inUnit' = FALSE
              /\ visited' = <<>>
              /\ began' = Len(pushed)

(* smp_array_traversal. *)
TraversalBegin ==
  /\ arrayPhase = "live"
  /\ arrayPhase' = "visit"
  /\ VisitBegin
  /\ UNCHANGED arrayElems

MutantTraversalUnit ==
  /\ arrayPhase \in {"visit", "destory"}
  /\ ~inUnit
  /\ idx < indexUsed
  /\ inUnit' = TRUE
  /\ elemI' = 0
  /\ tmp' = IF idx = indexUsed THEN currPoint ELSE UnitElemAmt
  /\ UNCHANGED <<arrayPhase, arrayElems, idx, visited, began>>

(* A unit to visit, and how many of its elements: a number that is stale   *)
(* as soon as the visitor pushes.                                          *)
TraversalUnit ==
  /\ arrayPhase \in {"visit", "destory"}
  /\ ~inUnit
  /\ idx < indexUsed
  /\ inUnit' = TRUE
  /\ elemI' = 0
  /\ tmp' = IF idx = indexUsed - 1 THEN currPoint ELSE UnitElemAmt
  /\ UNCHANGED <<arrayPhase, arrayElems, idx, visited, began>>

(* The visitor is given an element; what it does itself are steps after it. *)
TraversalElem ==
  /\ inUnit
  /\ elemI < tmp
  /\ elemI' = elemI + 1
  /\ visited' = Append(visited, <<index[idx], elemI>>)
  /\ UNCHANGED <<arrayPhase, arrayElems, idx, tmp, inUnit, began>>

TraversalUnitEnd ==
  /\ inUnit
  /\ elemI >= tmp
  /\ inUnit' = FALSE
  /\ idx' = idx + 1
  /\ UNCHANGED <<arrayPhase, arrayElems, elemI, tmp, visited, began>>

Visited == /\ arrayPhase \in {"visit", "destory"}
           /\ ~inUnit
           /\ idx >= indexUsed

TraversalEnd == /\ Visited /\ arrayPhase = "visit"
                /\ arrayPhase' = "live"
                /\ UNCHANGED <<arrayElems, arrayVisit>>

(* smp_array_destory: a traversal with free_elems_func, if there is one,   *)
(* which does not push, and then the pool goes with all the elements.      *)
DestoryBegin ==
  /\ arrayPhase = "live"
  /\ arrayPhase' = "destory"
  /\ VisitBegin
  /\ UNCHANGED arrayElems

DestoryEnd ==
  /\ \/ arrayPhase = "live"
     \/ arrayPhase = "destory" /\ Visited
  /\ arrayPhase' = "none"
  /\ index' = <<>> /\ indexAmt' = 0 /\ indexUsed' = 0 /\ currPoint' = 0
  /\ pushed' = <<>>
  /\ UNCHANGED arrayVisit

ArrayNext == \/ ArrayCreate
             \/ PushInUnit \/ PushExpand \/ PushFails
             \/ TraversalBegin \/ TraversalUnit \/ TraversalElem
             \/ TraversalUnitEnd \/ TraversalEnd
             \/ DestoryBegin \/ DestoryEnd

ArraySpec == ArrayInit /\ [][ArrayNext]_arrayVars
-----------------------------------------------------------------------------
(***************************************************************************)
(* Properties.                                                             *)
(***************************************************************************)

Live == arrayPhase /= "none"

(* Every variable has its type. *)
ArrayTypeOK ==
  /\ arrayPhase \in {"none", "live", "visit", "destory"}
  /\ \A k \in DOMAIN index : index[k] \in 1 .. MaxUnits \union {NULL, WILD}
  /\ {indexAmt, indexUsed, currPoint, idx, elemI, tmp, began} \subseteq Nat
  /\ inUnit \in BOOLEAN
  /\ pushed \in Seq((1 .. MaxUnits) \X Nat) /\ visited \in Seq((1 .. MaxUnits) \X Nat)

(***************************************************************************)
(* The elements pushed stay where they are, each in a place of its own, at *)
(* the unit and the offset its number says, however the index has been     *)
(* copied and whatever calls failed; the index has as many entries as      *)
(* index_amt says, and the size is the number of pushes.                   *)
(***************************************************************************)
ArrayKept ==
  Live => /\ ArraySize = Len(pushed)
          /\ DOMAIN index = 0 .. indexAmt - 1
          /\ indexUsed \in 1 .. indexAmt
          /\ \A k \in DOMAIN pushed :
               /\ pushed[k] = <<index[(k - 1) \div UnitElemAmt], (k - 1) % UnitElemAmt>>
               /\ \A l \in DOMAIN pushed : pushed[k] = pushed[l] => k = l

(***************************************************************************)
(* smp_array_elem_n(k) never gives anything but the element pushed k-th,   *)
(* counted from 0, for any uint k: nothing that was not pushed, and no     *)
(* other one.  It may give none: see ElemFound.                            *)
(***************************************************************************)
ElemSound ==
  Live => \A k \in 0 .. UIntMod - 1 :
            ArrayElemN(k) /= NoElem => k < Len(pushed) /\ ArrayElemN(k) = pushed[k + 1]

(***************************************************************************)
(* It gives every element there is.  (The code's does not.)                *)
(***************************************************************************)
ElemFound == Live => \A k \in 0 .. ArraySize - 1 : ArrayElemN(k) /= NoElem

(***************************************************************************)
(* A traversal that ends has visited all the elements there were when it   *)
(* began, in order, and no element twice, whatever its visitor has pushed; *)
(* smp_array_destory's has visited exactly the elements pushed.            *)
(***************************************************************************)
ArrayVisits ==
  [][(arrayPhase \in {"visit", "destory"} /\ arrayPhase' /= arrayPhase) =>
       /\ Len(visited) >= began
       /\ SubSeq(visited, 1, began) = SubSeq(pushed, 1, began)
       /\ \A k, l \in DOMAIN visited : visited[k] = visited[l] => k = l
       /\ \A k \in DOMAIN visited : \E l \in DOMAIN pushed : visited[k] = pushed[l]
       /\ arrayPhase = "destory" => visited = pushed]_arrayVars
=============================================================================
