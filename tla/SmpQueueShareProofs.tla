------------------------ MODULE SmpQueueShareProofs ------------------------
(***************************************************************************)
(* What is proved of SmpQueueShare for any number of threads that hold a   *)
(* lock of their own around each call.                                     *)
(***************************************************************************)
EXTENDS SmpQueueShare, FiniteSetTheorems, TLAPS

Calls == {"inc", "dec", "test", "clean"}

(* The lock is held by the one thread that is in a call.                   *)
OneInCall == /\ \A t \in Threads : pc[t] \in Calls => lock = t
             /\ lock \in Threads => pc[lock] \in Calls

(* A thread that has left the queue no longer counts, even before its      *)
(* smp_qdestory returns.                                                   *)
Quoting == {t \in Threads : pc[t] \in {"using", "inc", "dec"}}

Counted == /\ alive <=> Users /= {}
           /\ alive => quotes = Cardinality(Quoting) /\ frees = 0

(* What a thread in a call has read is still true.                         *)
ReadHolds ==
  \A t \in Threads : /\ pc[t] \in {"inc", "dec", "test"} => reg[t] = quotes
                     /\ pc[t] = "clean" => quotes = 0
                     /\ pc[t] = "inc" => peer[t] \in Threads /\ pc[peer[t]] = "out"

ShareInv == /\ TypeOK /\ OneInCall /\ Counted /\ ReadHolds
            /\ frees <= 1 /\ ~fault

-----------------------------------------------------------------------------
(* The threads that quote the queue are finitely many, fewer than an       *)
(* unsigned int counts.                                                    *)
LEMMA QuotingFinite ==
  /\ IsFiniteSet(Quoting) /\ Cardinality(Quoting) \in 0 .. UIntMod - 1
  /\ Cardinality(Quoting) = 0 <=> Quoting = {}
  <1>1. Quoting \subseteq Threads /\ IsFiniteSet(Threads)
    BY ShareAssumption DEF Quoting
  <1>2. IsFiniteSet(Quoting) /\ Cardinality(Quoting) <= Cardinality(Threads)
    BY <1>1, FS_Subset
  <1>3. Cardinality(Quoting) \in Nat /\ Cardinality(Threads) \in Nat
    BY <1>1, <1>2, FS_CardinalityType
  <1>4. Cardinality(Quoting) = 0 <=> Quoting = {}
    BY <1>2, FS_EmptySet
  <1> QED  BY <1>2, <1>3, <1>4, ShareAssumption

(* A thread in a call is the only one, and the queue exists.               *)
LEMMA Alone ==
  ASSUME ShareInv, NEW t \in Threads, pc[t] \in Calls
  PROVE  /\ lock = t /\ alive
         /\ \A u \in Threads : u /= t => pc[u] \in {"out", "using"}
  <1>1. pc[t] /= "out" /\ t \in Users
    BY DEF Calls, Users
  <1>2. lock = t /\ alive
    BY <1>1 DEF ShareInv, OneInCall, Counted
  <1> QED  BY <1>2 DEF ShareInv, OneInCall, TypeOK, Calls

(* A thread enters a call when no other is in one.                         *)
LEMMA Entering ==
  ASSUME ShareInv, Serialised, NEW t \in Threads, pc[t] = "using", Enter(t)
  PROVE  /\ lock' = t /\ alive
         /\ \A u \in Threads : pc[u] \in {"out", "using"}
  <1>1. lock = NONE /\ lock' = t
    BY DEF Enter
  <1>2. t \in Users
    BY DEF Users
  <1>3. \A u \in Threads : pc[u] \notin Calls
    BY <1>1, ShareAssumption DEF ShareInv, OneInCall
  <1> QED  BY <1>1, <1>2, <1>3 DEF ShareInv, Counted, TypeOK, Calls

-----------------------------------------------------------------------------
LEMMA ShareInit == Init => ShareInv
  <1> SUFFICES ASSUME Init PROVE ShareInv
    OBVIOUS
  <1>1. \A t \in Threads : pc[t] = "out"
    BY DEF Init
  <1>2. Users = {}
    BY <1>1 DEF Users
  <1>3. UIntMod >= 1
    <2>1. Cardinality(Threads) \in Nat
      BY ShareAssumption, FS_CardinalityType
    <2> QED  BY <2>1, ShareAssumption
  <1>4. TypeOK
    <2>1. 0 \in 0 .. UIntMod - 1 /\ 0 \in 0 .. NodeCount /\ 0 \in Nat
      BY <1>3, ShareAssumption
    <2> QED  BY <2>1 DEF Init, TypeOK
  <1>5. OneInCall /\ ReadHolds
    BY <1>1, ShareAssumption DEF Init, OneInCall, ReadHolds, Calls
  <1> QED  BY <1>2, <1>4, <1>5 DEF Init, ShareInv, Counted

LEMMA CreateKeeps ==
  ASSUME ShareInv, NEW t \in Threads, QueueCreate(t)
  PROVE  ShareInv'
  <1>1. /\ \A u \in Threads : pc[u] = "out"
        /\ pc' = [pc EXCEPT ![t] = "using"] /\ pc \in [Threads -> {"out", "using", "inc", "dec", "test", "clean"}]
        /\ quotes' = 1 /\ alive' = TRUE /\ frees' = 0
        /\ UNCHANGED <<reg, peer, lock, fault>>
    BY DEF QueueCreate, Goto, ShareInv, TypeOK
  <1>2. \A u \in Threads : pc'[u] = IF u = t THEN "using" ELSE "out"
    BY <1>1
  <1>3. lock = NONE
    BY <1>1 DEF ShareInv, OneInCall, TypeOK, Calls
  <1>4. Users' = {t} /\ Quoting' = {t}
    BY <1>2 DEF Users, Quoting
  <1>5. Cardinality(Quoting') = 1
    BY <1>4, FS_Singleton
  <1>6. quotes' \in 0 .. UIntMod - 1
    <2>1. Cardinality({t}) <= Cardinality(Threads) /\ Cardinality({t}) = 1
      BY ShareAssumption, FS_Subset, FS_Singleton
    <2>2. Cardinality(Threads) \in Nat
      BY ShareAssumption, FS_CardinalityType
    <2> QED  BY <1>1, <2>1, <2>2, ShareAssumption
  <1>7. TypeOK'
    BY <1>1, <1>6, ShareAssumption DEF ShareInv, TypeOK, QueueCreate
  <1>8. OneInCall' /\ ReadHolds'
    BY <1>1, <1>2, <1>3, ShareAssumption DEF OneInCall, ReadHolds, Calls
  <1> QED  BY <1>1, <1>4, <1>5, <1>7, <1>8 DEF ShareInv, Counted

LEMMA IncReadKeeps ==
  ASSUME ShareInv, Serialised, NEW t \in Threads, NEW u \in Threads, QuoteIncRead(t, u)
  PROVE  ShareInv'
  <1>1. /\ lock' = t /\ alive /\ \A v \in Threads : pc[v] \in {"out", "using"}
        /\ pc[t] = "using" /\ pc[u] = "out"
    BY Entering DEF QuoteIncRead
  <1>2. /\ pc' = [pc EXCEPT ![t] = "inc"] /\ reg' = [reg EXCEPT ![t] = quotes]
        /\ peer' = [peer EXCEPT ![t] = u] /\ fault' = FALSE
        /\ UNCHANGED <<quotes, nodes, alive, frees>>
    BY <1>1 DEF QuoteIncRead, Goto, Touch, ShareInv
  <1>3. TypeOK'
    BY <1>1, <1>2 DEF ShareInv, TypeOK
  <1>4. \A v \in Threads : pc'[v] = IF v = t THEN "inc" ELSE pc[v]
    BY <1>2 DEF ShareInv, TypeOK
  <1>5. Users' = Users /\ Quoting' = Quoting
    BY <1>1, <1>4 DEF Users, Quoting
  <1>6. OneInCall' /\ ReadHolds'
    BY <1>1, <1>2, <1>4 DEF ShareInv, TypeOK, OneInCall, ReadHolds, Calls
  <1> QED  BY <1>2, <1>3, <1>5, <1>6 DEF ShareInv, Counted

LEMMA DecReadKeeps ==
  ASSUME ShareInv, Serialised, NEW t \in Threads, QuoteDecRead(t)
  PROVE  ShareInv'
  <1>1. /\ lock' = t /\ alive /\ \A v \in Threads : pc[v] \in {"out", "using"}
        /\ pc[t] = "using"
    BY Entering DEF QuoteDecRead
  <1>2. /\ pc' = [pc EXCEPT ![t] = "dec"] /\ reg' = [reg EXCEPT ![t] = quotes]
        /\ fault' = FALSE /\ UNCHANGED <<peer, quotes, nodes, alive, frees>>
    BY <1>1 DEF QuoteDecRead, Goto, Touch, ShareInv
  <1>3. TypeOK'
    BY <1>1, <1>2 DEF ShareInv, TypeOK
  <1>4. \A v \in Threads : pc'[v] = IF v = t THEN "dec" ELSE pc[v]
    BY <1>2 DEF ShareInv, TypeOK
  <1>5. Users' = Users /\ Quoting' = Quoting
    BY <1>1, <1>4 DEF Users, Quoting
  <1>6. OneInCall' /\ ReadHolds'
    BY <1>1, <1>2, <1>4 DEF ShareInv, TypeOK, OneInCall, ReadHolds, Calls
  <1> QED  BY <1>2, <1>3, <1>5, <1>6 DEF ShareInv, Counted

LEMMA IncWriteKeeps ==
  ASSUME ShareInv, NEW t \in Threads, QuoteIncWrite(t)
  PROVE  ShareInv'
  <1>1. /\ pc[t] = "inc" /\ lock = t /\ alive /\ t \in Quoting
        /\ \A v \in Threads : v /= t => pc[v] \in {"out", "using"}
    BY Alone DEF QuoteIncWrite, Calls, Quoting
  <1> DEFINE u == peer[t]
  <1>2. u \in Threads /\ pc[u] = "out" /\ u /= t /\ u \notin Quoting /\ reg[t] = quotes
    BY <1>1 DEF ShareInv, ReadHolds, Quoting
  <1>3. /\ pc' = [pc EXCEPT ![t] = "using", ![u] = "using"]
        /\ quotes' = (quotes + 1) % UIntMod /\ peer' = [peer EXCEPT ![t] = NONE]
        /\ lock' = NONE /\ fault' = FALSE /\ UNCHANGED <<reg, nodes, alive, frees>>
    BY <1>1, <1>2 DEF QuoteIncWrite, Leave, Touch, ShareInv
  <1>4. \A v \in Threads : pc'[v] = IF v = t \/ v = u THEN "using" ELSE pc[v]
    BY <1>2, <1>3 DEF ShareInv, TypeOK
  <1>5. /\ Users' = Users \union {u} /\ Quoting' = Quoting \union {u}
        /\ \A v \in Threads : pc'[v] \in {"out", "using"}
    BY <1>1, <1>2, <1>4 DEF Users, Quoting
  <1>6. Cardinality(Quoting') = Cardinality(Quoting) + 1
    BY <1>2, <1>5, QuotingFinite, FS_AddElement
  <1>7. Cardinality(Quoting') <= Cardinality(Threads)
    <2>1. Quoting' \subseteq Threads
      BY <1>2, <1>5 DEF Quoting
    <2> QED  BY <2>1, ShareAssumption, FS_Subset
  <1>8. quotes = Cardinality(Quoting) /\ frees = 0
    BY <1>1 DEF ShareInv, Counted
  <1>9. quotes' = Cardinality(Quoting') /\ quotes' \in 0 .. UIntMod - 1
    <2>1. Cardinality(Threads) \in Nat
      BY ShareAssumption, FS_CardinalityType
    <2>2. quotes \in Nat /\ quotes + 1 < UIntMod /\ UIntMod \in Nat
      BY <1>6, <1>7, <1>8, <2>1, QuotingFinite, ShareAssumption
    <2>3. (quotes + 1) % UIntMod = quotes + 1
      BY <2>2
    <2> QED  BY <1>3, <1>6, <1>8, <2>2, <2>3
  <1>10. TypeOK'
    BY <1>2, <1>3, <1>9 DEF ShareInv, TypeOK
  <1>11. OneInCall' /\ ReadHolds'
    BY <1>3, <1>5, ShareAssumption DEF OneInCall, ReadHolds, Calls
  <1>12. Counted'
    BY <1>1, <1>2, <1>3, <1>5, <1>8, <1>9 DEF Counted
  <1> QED  BY <1>3, <1>8, <1>10, <1>11, <1>12 DEF ShareInv

LEMMA DecWriteKeeps ==
  ASSUME ShareInv, NEW t \in Threads, QuoteDecWrite(t)
  PROVE  ShareInv'
  <1>1. /\ pc[t] = "dec" /\ lock = t /\ alive /\ t \in Quoting
        /\ \A v \in Threads : v /= t => pc[v] \in {"out", "using"}
    BY Alone DEF QuoteDecWrite, Calls, Quoting
  <1>2. reg[t] = quotes /\ quotes = Cardinality(Quoting) /\ frees = 0
    BY <1>1 DEF ShareInv, ReadHolds, Counted
  <1>3. /\ pc' = [pc EXCEPT ![t] = "test"] /\ quotes' = (quotes - 1) % UIntMod
        /\ reg' = [reg EXCEPT ![t] = (quotes - 1) % UIntMod]
        /\ fault' = FALSE /\ UNCHANGED <<peer, lock, nodes, alive, frees>>
    BY <1>1, <1>2 DEF QuoteDecWrite, Goto, Touch, ShareInv
  <1>4. \A v \in Threads : pc'[v] = IF v = t THEN "test" ELSE pc[v]
    BY <1>3 DEF ShareInv, TypeOK
  <1>5. Users' = Users /\ Quoting' = Quoting \ {t}
    BY <1>1, <1>4 DEF Users, Quoting
  <1>6. Cardinality(Quoting') = Cardinality(Quoting) - 1
    BY <1>1, <1>5, QuotingFinite, FS_RemoveElement
  <1>7. quotes' = quotes - 1 /\ quotes' \in 0 .. UIntMod - 1
    <2>1. quotes \in 1 .. UIntMod - 1 /\ UIntMod \in Nat
      BY <1>1, <1>2, QuotingFinite, ShareAssumption
    <2>2. (quotes - 1) % UIntMod = quotes - 1
      BY <2>1
    <2> QED  BY <1>3, <2>1, <2>2
  <1>8. reg' = [reg EXCEPT ![t] = quotes']
    BY <1>3
  <1>9. TypeOK'
    BY <1>3, <1>7, <1>8 DEF ShareInv, TypeOK
  <1>10. OneInCall' /\ ReadHolds'
    BY <1>1, <1>3, <1>4, <1>8 DEF ShareInv, TypeOK, OneInCall, ReadHolds, Calls
  <1>11. Counted'
    BY <1>1, <1>2, <1>3, <1>5, <1>6, <1>7 DEF ShareInv, Counted
  <1> QED  BY <1>2, <1>3, <1>9, <1>10, <1>11 DEF ShareInv

(* Whichever way the build returns it, the value is the counter.           *)
LEMMA ValueSafe ==
  ASSUME ShareInv, NEW t \in Threads, pc[t] = "test", NEW v, QuoteDecValue(t, v)
  PROVE  v = quotes /\ fault' = FALSE
  <1>1. reg[t] = quotes /\ fault = FALSE /\ alive
    BY Alone DEF ShareInv, ReadHolds, TypeOK, Calls
  <1>2. CASE v = reg[t] /\ fault' = fault
    BY <1>1, <1>2
  <1>3. CASE v = quotes /\ Touch
    BY <1>1, <1>3 DEF Touch
  <1> QED  BY <1>2, <1>3 DEF QuoteDecValue

LEMMA LastKeeps ==
  ASSUME ShareInv, NEW t \in Threads, QdestoryLast(t)
  PROVE  ShareInv'
  <1>1. /\ pc[t] = "test" /\ lock = t /\ alive
        /\ \A v \in Threads : v /= t => pc[v] \in {"out", "using"}
    BY Alone DEF QdestoryLast, QuoteDecValue, Calls
  <1>2. /\ pc' = [pc EXCEPT ![t] = "clean"] /\ quotes = 0 /\ fault' = FALSE
        /\ UNCHANGED <<reg, peer, lock, quotes, nodes, alive, frees>>
    <2>1. QuoteDecValue(t, 0) /\ reg[t] = quotes
      BY <1>1 DEF QdestoryLast, ShareInv, ReadHolds
    <2>2. quotes = 0 /\ fault' = FALSE
      BY <1>1, <2>1, ValueSafe
    <2> QED  BY <2>2 DEF QdestoryLast, Goto
  <1>3. \A v \in Threads : pc'[v] = IF v = t THEN "clean" ELSE pc[v]
    BY <1>2 DEF ShareInv, TypeOK
  <1>4. Users' = Users /\ Quoting' = Quoting
    BY <1>1, <1>3 DEF Users, Quoting
  <1>5. TypeOK'
    BY <1>2 DEF ShareInv, TypeOK
  <1>6. OneInCall' /\ ReadHolds'
    BY <1>1, <1>2, <1>3 DEF ShareInv, OneInCall, ReadHolds, Calls
  <1> QED  BY <1>2, <1>4, <1>5, <1>6 DEF ShareInv, Counted

LEMMA FailsKeeps ==
  ASSUME ShareInv, NEW t \in Threads, QdestoryFails(t)
  PROVE  ShareInv'
  <1>1. /\ pc[t] = "test" /\ lock = t /\ alive /\ t \notin Quoting
        /\ \A v \in Threads : v /= t => pc[v] \in {"out", "using"}
    BY Alone DEF QdestoryFails, QuoteDecValue, Calls, Quoting
  <1>2. /\ pc' = [pc EXCEPT ![t] = "out"] /\ quotes /= 0 /\ fault' = FALSE /\ lock' = NONE
        /\ UNCHANGED <<reg, peer, quotes, nodes, alive, frees>>
    <2>1. PICK v \in {reg[t], quotes} \ {0} : QuoteDecValue(t, v)
      BY DEF QdestoryFails
    <2>2. quotes /= 0 /\ fault' = FALSE
      BY <1>1, <2>1, ValueSafe
    <2> QED  BY <1>1, <2>2 DEF QdestoryFails, Goto, Leave
  <1>3. \A v \in Threads : pc'[v] = IF v = t THEN "out" ELSE pc[v]
    BY <1>2 DEF ShareInv, TypeOK
  <1>4. /\ Users' = Users \ {t} /\ Quoting' = Quoting
        /\ \A v \in Threads : pc'[v] \in {"out", "using"}
    BY <1>1, <1>3 DEF Users, Quoting
  <1>5. Users' /= {}
    <2>1. Quoting /= {}
      BY <1>1, <1>2, QuotingFinite DEF ShareInv, Counted
    <2> QED  BY <1>1, <1>4, <2>1 DEF Quoting, Users
  <1>6. TypeOK'
    BY <1>2 DEF ShareInv, TypeOK
  <1>7. OneInCall' /\ ReadHolds'
    BY <1>2, <1>4, ShareAssumption DEF OneInCall, ReadHolds, Calls
  <1> QED  BY <1>1, <1>2, <1>4, <1>5, <1>6, <1>7 DEF ShareInv, Counted

LEMMA CleanKeeps ==
  ASSUME ShareInv, NEW t \in Threads, QcleanNode(t)
  PROVE  ShareInv'
  <1>1. alive
    BY Alone DEF QcleanNode, Calls
  <1>2. /\ nodes' = nodes - 1 /\ nodes > 0 /\ fault' = FALSE
        /\ UNCHANGED <<pc, reg, peer, lock, quotes, alive, frees>>
    BY <1>1 DEF QcleanNode, Touch, ShareInv
  <1>3. TypeOK'
    <2>1. nodes \in 0 .. NodeCount
      BY DEF ShareInv, TypeOK
    <2>2. nodes' \in 0 .. NodeCount
      BY <1>2, <2>1, ShareAssumption
    <2>3. fault' \in BOOLEAN
      BY <1>2
    <2> QED  BY <1>2, <2>2, <2>3 DEF ShareInv, TypeOK
  <1> QED
    BY <1>2, <1>3 DEF ShareInv, OneInCall, ReadHolds, Counted, Users, Quoting, Calls

LEMMA FreeKeeps ==
  ASSUME ShareInv, NEW t \in Threads, QdestoryFree(t)
  PROVE  ShareInv'
  <1>1. /\ pc[t] = "clean" /\ lock = t /\ alive
        /\ \A v \in Threads : v /= t => pc[v] \in {"out", "using"}
    BY Alone DEF QdestoryFree, Calls
  <1>2. frees = 0 /\ Quoting = {}
    BY <1>1, QuotingFinite DEF ShareInv, Counted, ReadHolds
  <1>3. /\ pc' = [pc EXCEPT ![t] = "out"] /\ alive' = FALSE /\ frees' = 1 /\ fault' = FALSE
        /\ lock' = NONE /\ UNCHANGED <<reg, peer, quotes, nodes>>
    <2>1. fault' = FALSE
      BY <1>1 DEF QdestoryFree, Touch, ShareInv
    <2> QED  BY <1>1, <1>2, <2>1 DEF QdestoryFree, Goto, Leave
  <1>4. \A v \in Threads : pc'[v] = "out"
    BY <1>1, <1>2, <1>3 DEF Quoting, ShareInv, TypeOK
  <1>5. Users' = {}
    BY <1>4 DEF Users
  <1>6. TypeOK'
    BY <1>3 DEF ShareInv, TypeOK
  <1>7. OneInCall' /\ ReadHolds'
    BY <1>3, <1>4, ShareAssumption DEF OneInCall, ReadHolds, Calls
  <1> QED  BY <1>3, <1>5, <1>6, <1>7 DEF ShareInv, Counted

LEMMA ShareNext == ASSUME ShareInv, Serialised, [Next]_vars PROVE ShareInv'
  <1>1. CASE UNCHANGED vars
    BY <1>1 DEF vars, ShareInv, TypeOK, OneInCall, Counted, ReadHolds, Users, Quoting, Calls
  <1>2. CASE Next
    <2>1. PICK t \in Threads : \/ QueueCreate(t) \/ QuoteDecRead(t) \/ InCall(t)
                               \/ \E u \in Threads : QuoteIncRead(t, u)
      BY <1>2 DEF Next
    <2> QED  BY <2>1, CreateKeeps, IncReadKeeps, DecReadKeeps, IncWriteKeeps, DecWriteKeeps,
                LastKeeps, FailsKeeps, CleanKeeps, FreeKeeps DEF InCall
  <1> QED  BY <1>1, <1>2

(* The inductive invariant of the shared queue when the threads lock around*)
(* their calls: quotes is the number of threads that have the queue.       *)
THEOREM ShareInvariant == ASSUME Serialised PROVE Spec => []ShareInv
  <1>1. ShareInv /\ [Next]_vars => ShareInv'
    BY ShareNext
  <1> QED  BY <1>1, ShareInit, PTL DEF Spec

(* quotes is the number of threads that may still use the queue.           *)
THEOREM CountsUsers == ASSUME Serialised PROVE Spec => []QuotesIsAmount
  <1>1. ShareInv => QuotesIsAmount
    <2> SUFFICES ASSUME ShareInv, alive, \A t \in Threads : pc[t] \in {"out", "using"}
                 PROVE  quotes = Cardinality(Users)
      BY DEF QuotesIsAmount
    <2>1. Users = Quoting
      BY DEF Users, Quoting
    <2> QED  BY <2>1 DEF ShareInv, Counted
  <1> QED  BY <1>1, ShareInvariant, PTL

(* It is freed once, by the last of them, and never touched afterwards.    *)
THEOREM LastFrees == ASSUME Serialised PROVE Spec => []FreedByLast
  <1>1. ShareInv => FreedByLast
    BY DEF ShareInv, FreedByLast, Counted, Users
  <1> QED  BY <1>1, ShareInvariant, PTL

(* The queue is not leaked when the last thread has left it.               *)
THEOREM NotLeaked == ASSUME Serialised PROVE Spec => []NoneLeft
  <1>1. ShareInv => NoneLeft
    BY DEF ShareInv, NoneLeft, Counted, Users
  <1> QED  BY <1>1, ShareInvariant, PTL
=============================================================================
