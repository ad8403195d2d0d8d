------------------------------- MODULE SmpList ------------------------------
(***************************************************************************)
(* The list of smp_stl/smp_list/smp_list.c: a chain of parts, the first of *)
(* which is in the list itself, each with room for PartElemMaxmnt elements *)
(* that never move; and its traversal, whose visitor may push.             *)
(*                                                                         *)
(* Memory comes from a pool of the list's own.  A call for which there is  *)
(* none changes nothing (a part without elements is left to the pool) and  *)
(* is left out, as are calls with NULL arguments.  An element is the pair  *)
(* of its part and its distance from the part's first, in ints.            *)
(***************************************************************************)
EXTENDS Integers, Sequences, SmpAddress

CONSTANTS
  PartElemMaxmnt, (* list->part_elem_maxmnt *)
  ElemInts,       (* list->elem_size, in ints *)
  MaxParts        (* bound: the parts a list may get *)

ASSUME ListAssumption ==
  {PartElemMaxmnt, ElemInts, MaxParts} \subseteq Nat \ {0}

Parts == 1 .. MaxParts
HeadPart == 1  (* list->head *)

VARIABLES
  listPhase,  (* "none" or "live" *)
  listTail,   (* list->tail *)
  elemMnt,    (* elem_mnt of every part *)
  partNext,   (* next of every part *)
  parts,      (* how many parts the pool has given *)
  part,       (* part of smp_list_visit_parts, NULL if no traversal is under way *)
  partI,      (* i of smp_list_visit_part_elems *)
  listPushed, (* history: the elements smp_list_push has given, in order *)
  listVisited (* history: the elements the traversal has visited, in order *)

listElems == <<listPhase, listTail, elemMnt, partNext, parts, listPushed>>
listVars == <<listElems, part, partI, listVisited>>

(* For operators named Mutant..., see SmpArray. *)

ListInit == /\ listPhase = "none"
            /\ listTail = NULL /\ parts = 0
            /\ elemMnt = [p \in Parts |-> 0]
            /\ partNext = [p \in Parts |-> NULL]
            /\ part = NULL /\ partI = 0
            /\ listPushed = <<>> /\ listVisited = <<>>

(* smp_list_create, with smp_list_init and __smp_list_init. *)
ListCreate ==
  /\ listPhase = "none"
  /\ listPhase' = "live"
  /\ listTail' = HeadPart
  /\ elemMnt' = [p \in Parts |-> 0]
  /\ partNext' = [p \in Parts |-> NULL]
  /\ parts' = 1
  /\ listPushed' = <<>>
  /\ UNCHANGED <<part, partI, listVisited>>

(* A call of smp_list_push comes between two others, or from the visitor. *)
MayPushList == listPhase = "live" /\ (part = NULL \/ partI > 0)

PushInPart ==
  /\ MayPushList
  /\ elemMnt[listTail] /= PartElemMaxmnt
  /\ listPushed' = Append(listPushed, <<listTail, ElemInts * elemMnt[listTail]>>)
  /\ elemMnt' = [elemMnt EXCEPT ![listTail] = @ + 1]
  /\ UNCHANGED <<listPhase, listTail, partNext, parts, part, partI, listVisited>>

(* smp_list_push when the last part is full: a new one behind it. *)
PushNewPart ==
  /\ MayPushList
  /\ elemMnt[listTail] = PartElemMaxmnt
  /\ parts < MaxParts
  /\ LET last == parts + 1
     IN /\ partNext' = [partNext EXCEPT ![last] = NULL, ![listTail] = last]
        /\ listTail' = last
        /\ elemMnt' = [elemMnt EXCEPT ![last] = 1]
        /\ listPushed' = Append(listPushed, <<last, 0>>)
        /\ parts' = last
  /\ UNCHANGED <<listPhase, part, partI, listVisited>>

(* smp_list_traversal and smp_list_visit_parts. *)
ListTraversalBegin ==
  /\ listPhase = "live" /\ part = NULL
  /\ part' = HeadPart
  /\ partI' = 0
  /\ listVisited' = <<>>
  /\ UNCHANGED listElems

(* smp_list_visit_part_elems, which steps by ints; elem_mnt is read again  *)
(* after each visit.                                                       *)
VisitElem ==
  /\ part /= NULL
  /\ partI < elemMnt[part]
  /\ listVisited' = Append(listVisited, <<part, partI>>)
  /\ partI' = partI + 1
  /\ UNCHANGED <<listElems, part>>

MutantVisitNext ==
  /\ part /= NULL
  /\ partI >= elemMnt[part]
  /\ part' = partNext[part]
  /\ UNCHANGED <<listElems, partI, listVisited>>

VisitNext ==
  /\ part /= NULL
  /\ partI >= elemMnt[part]
  /\ part' = partNext[part]
  /\ partI' = 0
  /\ UNCHANGED <<listElems, listVisited>>

(* smp_list_destory: all goes with the pool. *)
ListDestory ==
  /\ listPhase = "live" /\ part = NULL
  /\ listPhase' = "none"
  /\ listTail' = NULL /\ parts' = 0
  /\ elemMnt' = [p \in Parts |-> 0]
  /\ partNext' = [p \in Parts |-> NULL]
  /\ listPushed' = <<>>
  /\ UNCHANGED <<part, partI, listVisited>>

ListNext == \/ ListCreate
            \/ PushInPart \/ PushNewPart
            \/ ListTraversalBegin \/ VisitElem \/ VisitNext
            \/ ListDestory

ListSpec == ListInit /\ [][ListNext]_listVars
-----------------------------------------------------------------------------
(***************************************************************************)
(* Properties.                                                             *)
(***************************************************************************)

(* Every variable has its type. *)
ListTypeOK ==
  /\ listPhase \in {"none", "live"}
  /\ {listTail, part} \subseteq Parts \union {NULL}
  /\ elemMnt \in [Parts -> 0 .. PartElemMaxmnt]
  /\ partNext \in [Parts -> Parts \union {NULL}]
  /\ parts \in 0 .. MaxParts /\ partI \in Nat
  /\ listPushed \in Seq(Parts \X Nat) /\ listVisited \in Seq(Parts \X Nat)

(***************************************************************************)
(* A traversal that ends has visited, at the addresses smp_list_push gave  *)
(* them, all the elements then in the list, those its visitor has pushed   *)
(* included, in the order they were pushed, each once.  The elements have  *)
(* the size of an int: the traversal steps by ints whatever elem_size is.  *)
(***************************************************************************)
ListVisits ==
  [][(part /= NULL /\ part' = NULL) => /\ listVisited = listPushed
                                       /\ \A k, l \in DOMAIN listPushed :
                                            listPushed[k] = listPushed[l] => k = l]_listVars
=============================================================================
