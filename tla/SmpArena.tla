------------------------------ MODULE SmpArena ------------------------------
(***************************************************************************)
(* What a pool of smp_mpool promises to its client, with no block, cursor  *)
(* or list in sight.  A client asks for memory and gets either a region    *)
(* carved from the pool or a block of its own; it can give back blocks of  *)
(* its own one at a time, and regions only all together by destroying the  *)
(* pool.  No two regions a client holds ever share a byte, and a block of  *)
(* its own is never handed out twice while the client holds it.            *)
(***************************************************************************)
EXTENDS Integers

CONSTANTS
  Blocks,  (* the blocks regions are carved from *)
  Starts,  (* the first offset of a block a region may use *)
  Ends,    (* the first offset past the end of a block *)
  BigIds   (* the addresses of blocks handed out whole *)

VARIABLES
  granted, (* the regions the client holds *)
  held     (* the blocks of its own the client holds *)

avars == <<granted, held>>

(* Two regions have no byte in common. *)
Apart(r, s) == r.blk /= s.blk \/ r.hi <= s.lo \/ s.hi <= r.lo

(* A region lies inside the usable part of its block and has bytes. *)
Usable(r) == /\ r.blk \in Blocks
             /\ Starts[r.blk] <= r.lo
             /\ r.lo < r.hi
             /\ r.hi <= Ends[r.blk]

AInit == granted = {} /\ held = {}

(* The client gains exactly one region, usable and apart from all others. *)
Grant ==
  /\ \E r \in granted' :
       /\ granted' = granted \union {r}
       /\ r \notin granted
       /\ Usable(r)
       /\ \A s \in granted : Apart(r, s)
  /\ UNCHANGED held

HandOut(p) == p \notin held /\ held' = held \union {p} /\ UNCHANGED granted

TakeBack(p) == p \in held /\ held' = held \ {p} /\ UNCHANGED granted

Retire == granted' = {} /\ held' = {}

ANext == \/ Grant
         \/ \E p \in BigIds : HandOut(p) \/ TakeBack(p)
         \/ Retire

ASpec == AInit /\ [][ANext]_avars
=============================================================================
