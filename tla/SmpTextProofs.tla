---------------------------- MODULE SmpTextProofs ---------------------------
(***************************************************************************)
(* What is proved of the components that work on strings.  Of SmpSearch,   *)
(* for any characters, pattern, text and limit: the tables of the          *)
(* Boyer-Moore search are what they should be, the search finds every      *)
(* occurrence if the tables have an entry for every character of the text, *)
(* and what is split covers the text.  Of SmpTitle, for any                *)
(* number of arguments and variables of any length: the title that is      *)
(* written over them leaves the process its parameters.                    *)
(***************************************************************************)
EXTENDS SmpSearch, SmpTitle, SmpWalks, FiniteSetTheorems, SequenceTheorems, TLAPS

-----------------------------------------------------------------------------
(***************************************************************************)
(* Strings, and the greatest of a set.                                     *)
(***************************************************************************)

LEMMA MaxIs ==
  ASSUME NEW a \in Int, NEW b \in Int, NEW S \in SUBSET (a .. b), S /= {}
  PROVE  Max(S) \in S /\ \A y \in S : y <= Max(S)
  <1> DEFINE Has(T) == \E x \in T : \A y \in T : x >= y
             Long == {n \in Nat : \A T \in SUBSET (a .. a + n) : T /= {} => Has(T)}
  <1>1. 0 \in Long
    <2> SUFFICES ASSUME NEW T \in SUBSET (a .. a + 0), T /= {} PROVE Has(T)
      OBVIOUS
    <2>1. \A x \in T : x = a
      OBVIOUS
    <2>2. PICK x : x \in T
      OBVIOUS
    <2>3. \A y \in T : x >= y
      BY <2>1, <2>2
    <2> QED  BY <2>2, <2>3
  <1>2. ASSUME NEW n \in Nat, n \in Long PROVE n + 1 \in Long
    <2> SUFFICES ASSUME NEW T \in SUBSET (a .. a + (n + 1)), T /= {} PROVE Has(T)
      OBVIOUS
    <2>1. CASE a + (n + 1) \in T
      BY <2>1
    <2>2. CASE a + (n + 1) \notin T
      <3>1. T \in SUBSET (a .. a + n)
        BY <2>2
      <3> QED  BY <1>2, <3>1
    <2> QED  BY <2>1, <2>2
  <1>3. \A n \in Nat : n \in Long
    <2> HIDE DEF Long
    <2> QED  BY <1>1, <1>2, NatInSet
  <1>4. PICK n \in Nat : a + n = b
    <2>1. PICK x : x \in S
      OBVIOUS
    <2>2. a <= b /\ b - a \in Nat /\ a + (b - a) = b
      BY <2>1
    <2> QED  BY <2>2
  <1>5. \E x \in S : \A y \in S : x >= y
    BY <1>3, <1>4
  <1>6. Max(S) \in S /\ \A y \in S : Max(S) >= y
    BY <1>5 DEF Max
  <1> QED  BY <1>6

LEMMA LenIs ==
  ASSUME NEW n \in Nat, NEW s, DOMAIN s = 0 .. n - 1
  PROVE  StrLen(s) = n
  <1>1. Cardinality(0 .. n - 1) = n
    BY FS_Interval
  <1> QED  BY <1>1 DEF StrLen

LEMMA StringIs ==
  ASSUME NEW cs, NEW b \in Nat, NEW s \in Strings(cs, b)
  PROVE  /\ StrLen(s) \in 0 .. b /\ s \in [0 .. StrLen(s) - 1 -> cs]
  <1>1. PICK n \in 0 .. b : s \in [0 .. n - 1 -> cs]
    BY DEF Strings
  <1>2. StrLen(s) = n
    BY <1>1, LenIs
  <1> QED  BY <1>1, <1>2

LEMMA PatternIs ==
  ASSUME NEW s \in Patterns
  PROVE  /\ StrLen(s) \in Nat \ {0} /\ s \in [0 .. StrLen(s) - 1 -> Letters]
         /\ s \in Strings(Letters, MaxSubstr)
  <1> USE SearchAssumption
  <1>1. s \in Strings(Letters, MaxSubstr) /\ s \notin Strings(Letters, 0)
    BY DEF Patterns
  <1>2. StrLen(s) \in Nat /\ s \in [0 .. StrLen(s) - 1 -> Letters]
    BY <1>1, StringIs
  <1>3. StrLen(s) /= 0
    <2> SUFFICES ASSUME StrLen(s) = 0 PROVE s \in Strings(Letters, 0)
      BY <1>1
    <2>1. s \in [0 .. 0 - 1 -> Letters] /\ 0 \in 0 .. 0
      BY <1>2
    <2> QED  BY <2>1 DEF Strings
  <1> QED  BY <1>1, <1>2, <1>3

-----------------------------------------------------------------------------
(***************************************************************************)
(* The table of suffixes.                                                  *)
(***************************************************************************)

(* What smp_bm_suffix makes of the results so far for place k.             *)
SuffixStep(s, m, k, old, known) ==
  IF k > old.miss /\ known < k - old.miss
  THEN [old EXCEPT !.len = known]
  ELSE LET from == IF k < old.miss THEN k ELSE old.miss
           miss == Max({-1} \union {q \in 0 .. from : s[q] /= s[q + m - (k + 1)]})
       IN [succ |-> k, miss |-> miss, len |-> k - miss]

SuffixAt(s, m, at, k) ==
  IF k = m - 1 THEN [succ |-> 0, miss |-> m - 1, len |-> m]
  ELSE SuffixStep(s, m, k, at[k + 1], at[k + m - (at[k + 1].succ + 1)].len)

(* The function smp_bm_suffix computes, if there is one. *)
Solves(s, m, at) == at = [k \in 0 .. m - 1 |-> SuffixAt(s, m, at, k)]
SuffixFn(s, m) == CHOOSE at : at = [k \in 0 .. m - 1 |-> SuffixAt(s, m, at, k)]

LEMMA SuffixIs ==
  ASSUME NEW s
  PROVE  Suffix(s) = [k \in 0 .. StrLen(s) - 1 |-> SuffixFn(s, StrLen(s))[k].len]
  BY DEF Suffix, SuffixFn, SuffixAt, SuffixStep

(* The part of s up to k and s have their last len letters in common, and  *)
(* no more.                                                                *)
Longest(s, m, k, len) ==
  /\ len \in 0 .. k + 1
  /\ \A i \in 0 .. len - 1 : s[k - i] = s[m - 1 - i]
  /\ len <= k => s[k - len] /= s[m - 1 - len]

(* The result st for place k, and the part it was read from, which ends at *)
(* succ and from after miss on is the end of s.                            *)
Standing(s, m, k, st) ==
  /\ st \in [succ : Nat, miss : Int, len : Nat]
  /\ Longest(s, m, k, st.len)
  /\ k = m - 1 => st.miss = m - 1
  /\ k < m - 1 => /\ st.succ \in k .. m - 2 /\ st.miss \in -1 .. st.succ
                  /\ \A q \in st.miss + 1 .. st.succ : s[q] = s[q + m - (st.succ + 1)]

LEMMA StepStands ==
  ASSUME NEW s, NEW m \in Nat, NEW k \in 0 .. m - 2, NEW old, NEW known,
         Standing(s, m, k + 1, old),
         k > old.miss => Longest(s, m, k + m - (old.succ + 1), known)
  PROVE  Standing(s, m, k, SuffixStep(s, m, k, old, known))
  <1>1. PICK f \in Nat, g \in Int : f = old.succ /\ g = old.miss
    BY DEF Standing
  <1>2. /\ old \in [succ : Nat, miss : Int, len : Nat]
        /\ k > g => /\ f \in k + 1 .. m - 2 /\ g \in -1 .. f
                    /\ \A q \in g + 1 .. f : s[q] = s[q + m - (f + 1)]
        /\ g >= -1
    BY <1>1 DEF Standing
  <1>3. PICK e \in Int : e = k + m - (f + 1)
    OBVIOUS
  <1>4. k > g => Longest(s, m, e, known) /\ e \in k + 1 .. m - 1
    BY <1>1, <1>2, <1>3
  <1>5. CASE k > g /\ known < k - g
    <2>1. known \in Nat /\ known <= k /\ known <= e
      BY <1>2, <1>4, <1>5 DEF Longest
    <2>2. PICK st : st = [old EXCEPT !.len = known]
      OBVIOUS
    <2>3. st \in [succ : Nat, miss : Int, len : Nat] /\ st.succ = f /\ st.miss = g /\ st.len = known
      BY <1>1, <1>2, <2>1, <2>2
    <2>4. ASSUME NEW i \in 0 .. known PROVE s[k - i] = s[e - i]
      <3>1. k - i \in g + 1 .. f /\ (k - i) + m - (f + 1) = e - i
        BY <1>2, <1>3, <1>5, <2>1
      <3> QED  BY <1>2, <1>5, <3>1
    <2>5. Longest(s, m, k, known)
      <3>1. \A i \in 0 .. known - 1 : s[e - i] = s[m - 1 - i]
        BY <1>4, <1>5 DEF Longest
      <3>2. s[e - known] /= s[m - 1 - known]
        BY <1>4, <1>5, <2>1 DEF Longest
      <3>3. \A i \in 0 .. known - 1 : s[k - i] = s[m - 1 - i]
        BY <2>1, <2>4, <3>1
      <3>4. s[k - known] /= s[m - 1 - known]
        BY <2>1, <2>4, <3>2
      <3> QED  BY <2>1, <3>3, <3>4 DEF Longest
    <2>6. Standing(s, m, k, st)
      BY <1>2, <1>5, <2>3, <2>5 DEF Standing
    <2>7. SuffixStep(s, m, k, old, known) = st
      BY <1>1, <1>5, <2>2 DEF SuffixStep
    <2> QED  BY <2>6, <2>7
  <1>6. CASE ~(k > g /\ known < k - g)
    <2>1. PICK from \in Int : from = IF k < g THEN k ELSE g
      OBVIOUS
    <2>2. PICK D : D = {-1} \union {q \in 0 .. from : s[q] /= s[q + m - (k + 1)]}
      OBVIOUS
    <2>3. from \in -1 .. k /\ D \in SUBSET (-1 .. k) /\ D /= {}
      BY <1>2, <2>1, <2>2
    <2>4. PICK miss : miss = Max(D)
      OBVIOUS
    <2>5. miss \in D /\ \A y \in D : y <= miss
      <3>1. -1 \in Int /\ k \in Int
        OBVIOUS
      <3>2. Max(D) \in D /\ \A y \in D : y <= Max(D)
        BY <2>3, <3>1, MaxIs
      <3> QED  BY <2>4, <3>2
    <2>6. miss \in -1 .. k /\ miss <= from
      BY <1>2, <2>1, <2>2, <2>3, <2>5
    <2>7. ASSUME NEW q \in miss + 1 .. k PROVE s[q] = s[q + m - (k + 1)]
      <3>1. CASE q <= from
        <4>1. q \in 0 .. from
          BY <2>6, <3>1
        <4>2. q \notin D
          BY <2>5, <2>6
        <4> QED  BY <2>2, <4>1, <4>2
      <3>2. CASE q > from
        <4>1. k > g /\ from = g
          BY <2>1, <3>2
        <4>2. known >= k - g /\ known \in Int
          BY <1>4, <1>6, <4>1 DEF Longest
        <4>3. q \in g + 1 .. f /\ s[q] = s[q + m - (f + 1)]
          BY <1>2, <2>6, <3>2, <4>1
        <4>4. k - q \in 0 .. known - 1
          BY <1>2, <2>6, <3>2, <4>1, <4>2
        <4>5. s[e - (k - q)] = s[m - 1 - (k - q)]
          BY <1>4, <4>1, <4>4 DEF Longest
        <4>6. e - (k - q) = q + m - (f + 1) /\ m - 1 - (k - q) = q + m - (k + 1)
          BY <1>3, <2>6
        <4> QED  BY <4>3, <4>5, <4>6
      <3> QED  BY <2>3, <2>6, <3>1, <3>2
    <2>8. Longest(s, m, k, k - miss)
      <3>1. ASSUME NEW i \in 0 .. (k - miss) - 1 PROVE s[k - i] = s[m - 1 - i]
        <4>1. k - i \in miss + 1 .. k /\ (k - i) + m - (k + 1) = m - 1 - i
          BY <2>6
        <4> QED  BY <2>7, <4>1
      <3>2. ASSUME k - miss <= k PROVE s[k - (k - miss)] /= s[m - 1 - (k - miss)]
        <4>1. miss \in 0 .. from
          BY <2>6, <3>2
        <4>2. s[miss] /= s[miss + m - (k + 1)]
          BY <2>2, <2>5, <4>1
        <4>3. k - (k - miss) = miss /\ m - 1 - (k - miss) = miss + m - (k + 1)
          BY <2>6
        <4> QED  BY <4>2, <4>3
      <3>3. k - miss \in 0 .. k + 1
        BY <2>6
      <3> QED  BY <3>1, <3>2, <3>3 DEF Longest
    <2>9. PICK st : st = [succ |-> k, miss |-> miss, len |-> k - miss]
      OBVIOUS
    <2>10. st \in [succ : Nat, miss : Int, len : Nat] /\ st.succ = k /\ st.miss = miss /\ st.len = k - miss
      BY <2>6, <2>9
    <2>11. Standing(s, m, k, st)
      BY <2>6, <2>7, <2>8, <2>10 DEF Standing
    <2>12. SuffixStep(s, m, k, old, known) = st
      BY <1>1, <1>6, <2>1, <2>2, <2>4, <2>9 DEF SuffixStep
    <2> QED  BY <2>11, <2>12
  <1> QED  BY <1>5, <1>6

(* The result for place k depends on those for the places after it only,   *)
(* and stands if they do.                                                  *)
LEMMA Settled ==
  ASSUME NEW s, NEW m \in Nat \ {0}, NEW a, NEW b, NEW k \in 0 .. m - 1,
         \A q \in k + 1 .. m - 1 : a[q] = b[q] /\ Standing(s, m, q, a[q])
  PROVE  SuffixAt(s, m, a, k) = SuffixAt(s, m, b, k) /\ Standing(s, m, k, SuffixAt(s, m, a, k))
  <1>1. CASE k = m - 1
    <2>1. PICK st : st = [succ |-> 0, miss |-> m - 1, len |-> m]
      OBVIOUS
    <2>2. SuffixAt(s, m, a, k) = st /\ SuffixAt(s, m, b, k) = st
      BY <1>1, <2>1 DEF SuffixAt
    <2>3. st \in [succ : Nat, miss : Int, len : Nat] /\ st.miss = m - 1 /\ st.len = m
      BY <2>1
    <2>4. Longest(s, m, k, m)
      BY <1>1 DEF Longest
    <2>5. Standing(s, m, k, st)
      BY <1>1, <2>3, <2>4 DEF Standing
    <2> QED  BY <2>2, <2>5
  <1>2. CASE k /= m - 1
    <2>1. k \in 0 .. m - 2 /\ k + 1 \in k + 1 .. m - 1
      BY <1>2
    <2>2. PICK old : old = a[k + 1] /\ old = b[k + 1] /\ Standing(s, m, k + 1, old)
      BY <2>1
    <2>3. PICK e : e = k + m - (old.succ + 1)
      OBVIOUS
    <2>4. SuffixAt(s, m, a, k) = SuffixStep(s, m, k, old, a[e].len)
      BY <1>2, <2>2, <2>3 DEF SuffixAt
    <2>5. SuffixAt(s, m, b, k) = SuffixStep(s, m, k, old, b[e].len)
      BY <1>2, <2>2, <2>3 DEF SuffixAt
    <2>6. old.miss \in Int /\ old.succ \in Nat
      BY <2>2 DEF Standing
    <2>7. ASSUME k > old.miss PROVE a[e] = b[e] /\ Longest(s, m, e, a[e].len)
      <3>1. old.succ \in k + 1 .. m - 2
        BY <2>1, <2>2, <2>6, <2>7 DEF Standing
      <3>2. e \in k + 1 .. m - 1
        BY <2>1, <2>3, <3>1
      <3> QED  BY <3>2 DEF Standing
    <2>8. SuffixStep(s, m, k, old, a[e].len) = SuffixStep(s, m, k, old, b[e].len)
      <3>1. CASE k > old.miss
        BY <2>7, <3>1
      <3>2. CASE ~(k > old.miss)
        BY <3>2 DEF SuffixStep
      <3> QED  BY <3>1, <3>2
    <2>9. Standing(s, m, k, SuffixStep(s, m, k, old, a[e].len))
      BY <2>1, <2>2, <2>3, <2>7, StepStands
    <2> QED  BY <2>4, <2>5, <2>8, <2>9
  <1> QED  BY <1>1, <1>2

(* The last n of the results at are settled.                               *)
Solved(s, m, at, n) ==
  \A k \in m - n .. m - 1 : at[k] = SuffixAt(s, m, at, k) /\ Standing(s, m, k, at[k])

LEMMA SolvedOn ==
  ASSUME NEW s, NEW m \in Nat \ {0}, NEW n \in Nat, n < m, NEW at, Solved(s, m, at, n)
  PROVE  \E b : DOMAIN b = 0 .. m - 1 /\ Solved(s, m, b, n + 1)
  <1>1. PICK p \in 0 .. m - 1 : p = m - (n + 1)
    OBVIOUS
  <1>2. PICK b : b = [k \in 0 .. m - 1 |-> IF k = p THEN SuffixAt(s, m, at, p) ELSE at[k]]
    OBVIOUS
  <1>3. DOMAIN b = 0 .. m - 1 /\ b[p] = SuffixAt(s, m, at, p) /\ \A k \in p + 1 .. m - 1 : at[k] = b[k]
    BY <1>1, <1>2
  <1>4. \A k \in p + 1 .. m - 1 : at[k] = SuffixAt(s, m, at, k) /\ Standing(s, m, k, at[k])
    BY <1>1 DEF Solved
  <1>5. ASSUME NEW k \in p .. m - 1
        PROVE  SuffixAt(s, m, at, k) = SuffixAt(s, m, b, k) /\ Standing(s, m, k, SuffixAt(s, m, at, k))
    <2>1. k \in 0 .. m - 1
      OBVIOUS
    <2>2. \A q \in k + 1 .. m - 1 : at[q] = b[q] /\ Standing(s, m, q, at[q])
      BY <1>3, <1>4
    <2> QED  BY <2>1, <2>2, Settled
  <1>6. ASSUME NEW k \in p .. m - 1 PROVE b[k] = SuffixAt(s, m, at, k)
    <2>1. k = p \/ k \in p + 1 .. m - 1
      OBVIOUS
    <2> QED  BY <1>3, <1>4, <2>1
  <1>7. Solved(s, m, b, n + 1)
    BY <1>1, <1>5, <1>6 DEF Solved
  <1> QED  BY <1>3, <1>7

LEMMA SuffixSolved ==
  ASSUME NEW s, NEW m \in Nat \ {0}
  PROVE  Solves(s, m, SuffixFn(s, m))
  <1> DEFINE Can == {n \in Nat : n <= m => \E b : DOMAIN b = 0 .. m - 1 /\ Solved(s, m, b, n)}
  <1>1. 0 \in Can
    <2>1. PICK b : b = [k \in 0 .. m - 1 |-> 0]
      OBVIOUS
    <2>2. DOMAIN b = 0 .. m - 1 /\ Solved(s, m, b, 0)
      BY <2>1 DEF Solved
    <2> QED  BY <2>2
  <1>2. ASSUME NEW n \in Nat, n \in Can PROVE n + 1 \in Can
    <2> SUFFICES ASSUME n + 1 <= m PROVE \E b : DOMAIN b = 0 .. m - 1 /\ Solved(s, m, b, n + 1)
      OBVIOUS
    <2>1. n < m /\ n <= m
      OBVIOUS
    <2>2. PICK at : Solved(s, m, at, n)
      BY <1>2, <2>1
    <2> QED  BY <2>1, <2>2, SolvedOn
  <1>3. m \in Can
    <2>1. \A n \in Nat : n \in Can
      <3> HIDE DEF Can
      <3> QED  BY <1>1, <1>2, NatInSet
    <2> QED  BY <2>1
  <1>4. PICK b : DOMAIN b = 0 .. m - 1 /\ Solved(s, m, b, m)
    BY <1>3
  <1>5. PICK c : c = [k \in 0 .. m - 1 |-> b[k]]
    OBVIOUS
  <1>6. ASSUME NEW k \in 0 .. m - 1 PROVE c[k] = SuffixAt(s, m, c, k)
    <2>1. \A q \in 0 .. m - 1 : b[q] = SuffixAt(s, m, b, q) /\ Standing(s, m, q, b[q]) /\ b[q] = c[q]
      BY <1>4, <1>5 DEF Solved
    <2>2. \A q \in k + 1 .. m - 1 : b[q] = c[q] /\ Standing(s, m, q, b[q])
      BY <2>1
    <2>3. SuffixAt(s, m, b, k) = SuffixAt(s, m, c, k)
      BY <2>2, Settled
    <2> QED  BY <2>1, <2>3
  <1>7. Solves(s, m, c)
    BY <1>5, <1>6 DEF Solves
  <1> QED  BY <1>7 DEF Solves, SuffixFn

(* Suffix(s)[k] is the length of the longest common suffix of s and of its *)
(* part up to k.                                                           *)
LEMMA SuffixFacts ==
  ASSUME NEW m \in Nat \ {0}, NEW s, StrLen(s) = m
  PROVE  \A k \in 0 .. m - 1 : Longest(s, m, k, Suffix(s)[k])
  <1>1. PICK at : at = SuffixFn(s, m)
    OBVIOUS
  <1>2. \A k \in 0 .. m - 1 : at[k] = SuffixAt(s, m, at, k)
    <2>1. Solves(s, m, at)
      BY <1>1, SuffixSolved
    <2> QED  BY <2>1 DEF Solves
  <1> DEFINE Right == {n \in Nat : \A k \in m - n .. m - 1 : k >= 0 => Standing(s, m, k, at[k])}
  <1>3. 0 \in Right
    OBVIOUS
  <1>4. ASSUME NEW n \in Nat, n \in Right PROVE n + 1 \in Right
    <2>1. PICK p \in Int : p = m - (n + 1)
      OBVIOUS
    <2>2. \A k \in p + 1 .. m - 1 : k >= 0 => Standing(s, m, k, at[k])
      BY <1>4, <2>1
    <2>3. ASSUME p >= 0 PROVE Standing(s, m, p, at[p])
      <3>1. p \in 0 .. m - 1 /\ \A q \in p + 1 .. m - 1 : Standing(s, m, q, at[q])
        BY <2>1, <2>2, <2>3
      <3>2. Standing(s, m, p, SuffixAt(s, m, at, p))
        BY <3>1, Settled
      <3> QED  BY <1>2, <3>1, <3>2
    <2>4. \A k \in p .. m - 1 : k >= 0 => Standing(s, m, k, at[k])
      <3> SUFFICES ASSUME NEW k \in p .. m - 1, k >= 0 PROVE Standing(s, m, k, at[k])
        OBVIOUS
      <3>1. k = p \/ k \in p + 1 .. m - 1
        OBVIOUS
      <3> QED  BY <2>2, <2>3, <3>1
    <2> QED  BY <2>1, <2>4
  <1>5. \A n \in Nat : n \in Right
    <2> HIDE DEF Right
    <2> QED  BY <1>3, <1>4, NatInSet
  <1>6. ASSUME NEW k \in 0 .. m - 1 PROVE Longest(s, m, k, Suffix(s)[k])
    <2>1. Standing(s, m, k, at[k])
      BY <1>5
    <2>2. Suffix(s) = [q \in 0 .. m - 1 |-> at[q].len]
      BY <1>1, SuffixIs
    <2> QED  BY <2>1, <2>2 DEF Standing
  <1> QED  BY <1>6

-----------------------------------------------------------------------------
(***************************************************************************)
(* How far the pattern may move.                                           *)
(***************************************************************************)

(* Moved by d, s still agrees with a text of which the letters of s after  *)
(* place i are known, and that place i has another one.                    *)
Agrees(s, m, i, d) ==
  /\ \A q \in i + 1 .. m - 1 : q - d >= 0 => s[q - d] = s[q]
  /\ d <= i => s[i - d] /= s[i]

LEMMA GoodSuffixFacts ==
  ASSUME NEW m \in Nat \ {0}, NEW s, StrLen(s) = m, NEW i \in 0 .. m - 1
  PROVE  /\ GoodSuffix(s)[i] \in 1 .. m
         /\ \A d \in 1 .. m - 1 : d < GoodSuffix(s)[i] => ~Agrees(s, m, i, d)
  <1>1. PICK suff, O, P : /\ suff = Suffix(s)
                          /\ O = {q \in 0 .. m - 2 : m - 1 - suff[q] = i}
                          /\ P = {q \in 0 .. m - 1 : suff[q] = q + 1 /\ i < m - 1 - q}
    OBVIOUS
  <1>2. PICK g : g = IF O /= {} THEN m - 1 - Max(O) ELSE IF P /= {} THEN m - 1 - Max(P) ELSE m
    OBVIOUS
  <1>3. GoodSuffix(s)[i] = g
    BY <1>1, <1>2 DEF GoodSuffix
  <1>4. \A q \in 0 .. m - 1 : Longest(s, m, q, suff[q])
    BY <1>1, SuffixFacts
  <1>5. O /= {} => Max(O) \in O /\ \A y \in O : y <= Max(O)
    <2>1. O \in SUBSET (0 .. m - 2) /\ 0 \in Int /\ m - 2 \in Int
      BY <1>1
    <2> QED  BY <2>1, MaxIs
  <1>6. P /= {} => Max(P) \in P /\ \A y \in P : y <= Max(P)
    <2>1. P \in SUBSET (0 .. m - 1) /\ 0 \in Int /\ m - 1 \in Int
      BY <1>1
    <2> QED  BY <2>1, MaxIs
  <1>7. g \in 1 .. m
    <2>1. CASE O /= {}
      <3>1. PICK x \in 0 .. m - 2 : x = Max(O)
        BY <1>1, <1>5, <2>1
      <3> QED  BY <1>2, <2>1, <3>1
    <2>2. CASE O = {} /\ P /= {}
      <3>1. PICK x \in 0 .. m - 1 : x = Max(P) /\ i < m - 1 - x
        BY <1>1, <1>6, <2>2
      <3> QED  BY <1>2, <2>2, <3>1
    <2> QED  BY <1>2, <2>1, <2>2
  <1>8. ASSUME NEW d \in 1 .. m - 1, Agrees(s, m, i, d) PROVE g <= d
    <2>1. PICK x \in 0 .. m - 2 : x = m - 1 - d
      OBVIOUS
    <2>2. PICK len : len = suff[x] /\ Longest(s, m, x, len)
      BY <1>4, <2>1
    <2>3. len \in 0 .. x + 1
      BY <2>2 DEF Longest
    <2>4. ASSUME NEW l \in 0 .. x, l < m - 1 - i PROVE s[x - l] = s[m - 1 - l]
      <3>1. PICK q \in i + 1 .. m - 1 : q = m - 1 - l
        BY <2>1, <2>4
      <3>2. q - d = x - l /\ q - d >= 0
        BY <2>1, <3>1
      <3>3. s[q - d] = s[q]
        BY <1>8, <3>2 DEF Agrees
      <3> QED  BY <3>1, <3>2, <3>3
    <2>5. len <= x => len >= m - 1 - i
      <3> SUFFICES ASSUME len <= x, len < m - 1 - i PROVE FALSE
        BY <2>3
      <3>1. len \in 0 .. x
        BY <2>3
      <3>2. s[x - len] = s[m - 1 - len]
        BY <2>4, <3>1
      <3> QED  BY <2>2, <3>2 DEF Longest
    <2>6. CASE d <= i
      <3>1. PICK l \in 0 .. x : l = m - 1 - i
        BY <2>1, <2>6
      <3>2. s[x - l] /= s[m - 1 - l]
        <4>1. s[i - d] /= s[i]
          BY <1>8, <2>6 DEF Agrees
        <4>2. x - l = i - d /\ m - 1 - l = i
          BY <2>1, <3>1
        <4> QED  BY <4>1, <4>2
      <3>3. len <= l
        <4> SUFFICES ASSUME l < len PROVE FALSE
          BY <2>3
        <4>1. l \in 0 .. len - 1
          BY <2>3
        <4> QED  BY <2>2, <3>2, <4>1 DEF Longest
      <3>4. len = l
        BY <2>3, <2>5, <3>1, <3>3
      <3>5. x \in O
        <4>1. m - 1 - suff[x] = i
          BY <2>2, <3>1, <3>4
        <4> QED  BY <1>1, <4>1
      <3>6. PICK y \in 0 .. m - 2 : y = Max(O) /\ x <= y
        BY <1>1, <1>5, <3>5
      <3> QED  BY <1>2, <2>1, <3>5, <3>6
    <2>7. CASE d > i
      <3>1. len = x + 1
        BY <2>1, <2>3, <2>5, <2>7
      <3>2. x \in P
        <4>1. suff[x] = x + 1 /\ i < m - 1 - x /\ x \in 0 .. m - 1
          BY <2>1, <2>2, <2>7, <3>1
        <4> QED  BY <1>1, <4>1
      <3>3. CASE O /= {}
        <4>1. PICK y \in 0 .. m - 2 : y = Max(O) /\ m - 1 - suff[y] = i
          BY <1>1, <1>5, <3>3
        <4>2. suff[y] \in 0 .. y + 1
          BY <1>4, <4>1 DEF Longest
        <4> QED  BY <1>2, <2>7, <3>3, <4>1, <4>2
      <3>4. CASE O = {}
        <4>1. PICK y \in 0 .. m - 1 : y = Max(P) /\ x <= y
          BY <1>1, <1>6, <3>2
        <4> QED  BY <1>2, <2>1, <3>2, <3>4, <4>1
      <3> QED  BY <3>3, <3>4
    <2> QED  BY <2>6, <2>7
  <1>9. \A d \in 1 .. m - 1 : d < g => ~Agrees(s, m, i, d)
    BY <1>7, <1>8
  <1> QED  BY <1>3, <1>7, <1>9

LEMMA BadCharFacts ==
  ASSUME NEW m \in Nat \ {0}, NEW s, StrLen(s) = m, NEW c \in Letters
  PROVE  /\ BadChar(s)[c] \in 1 .. m
         /\ \A i \in 0 .. m - 1, d \in Nat \ {0} :
              d <= i /\ s[i - d] = c => BadChar(s)[c] - m + 1 + i <= d
  <1>1. PICK A : A = {k \in 0 .. m - 2 : s[k] = c}
    OBVIOUS
  <1>2. PICK b : b = IF A = {} THEN m ELSE m - 1 - Max(A)
    OBVIOUS
  <1>3. BadChar(s)[c] = b
    BY <1>1, <1>2 DEF BadChar
  <1>4. A /= {} => Max(A) \in 0 .. m - 2 /\ \A y \in A : y <= Max(A)
    <2>1. A \in SUBSET (0 .. m - 2) /\ 0 \in Int /\ m - 2 \in Int
      BY <1>1
    <2>2. A /= {} => Max(A) \in A /\ \A y \in A : y <= Max(A)
      BY <2>1, MaxIs
    <2> QED  BY <2>1, <2>2
  <1>5. b \in 1 .. m
    <2>1. CASE A /= {}
      <3>1. PICK x \in 0 .. m - 2 : x = Max(A)
        BY <1>4, <2>1
      <3> QED  BY <1>2, <2>1, <3>1
    <2> QED  BY <1>2, <2>1
  <1>6. ASSUME NEW i \in 0 .. m - 1, NEW d \in Nat \ {0}, d <= i, s[i - d] = c PROVE b - m + 1 + i <= d
    <2>1. i - d \in A
      BY <1>1, <1>6
    <2>2. PICK x \in 0 .. m - 2 : x = Max(A) /\ i - d <= x
      BY <1>4, <2>1
    <2> QED  BY <1>2, <2>1, <2>2
  <1> QED  BY <1>3, <1>5, <1>6

-----------------------------------------------------------------------------
(***************************************************************************)
(* The search.                                                             *)
(***************************************************************************)

(* s is found in t at p.                                                   *)
At(s, m, t, p) == \A k \in 0 .. m - 1 : s[k] = t[p + k]

(* The pattern laid at j differs from the text at i, and nowhere after.    *)
DiffersLast(s, m, t, p, i) ==
  s[i] /= t[i + p] /\ \A q \in i + 1 .. m - 1 : s[q] = t[q + p]

LEMMA AgreesAt ==
  ASSUME NEW m \in Nat \ {0}, NEW s, NEW t, NEW p \in Nat, NEW i \in 0 .. m - 1,
         NEW d \in Nat \ {0}, At(s, m, t, p + d),
         DiffersLast(s, m, t, p, i) \/ (i = 0 /\ At(s, m, t, p))
  PROVE  Agrees(s, m, i, d)
  <1>1. ASSUME NEW q \in i .. m - 1, q - d >= 0 PROVE s[q - d] = t[q + p]
    <2>1. q - d \in 0 .. m - 1 /\ (p + d) + (q - d) = q + p
      BY <1>1
    <2> QED  BY <2>1 DEF At
  <1>2. ASSUME NEW q \in i + 1 .. m - 1 PROVE s[q] = t[q + p]
    <2>1. q \in 0 .. m - 1 /\ q + p = p + q
      OBVIOUS
    <2> QED  BY <2>1 DEF DiffersLast, At
  <1>3. ASSUME d <= i PROVE s[i - d] /= s[i]
    <2>1. s[i] /= t[i + p]
      BY <1>3 DEF DiffersLast
    <2> QED  BY <1>1, <1>3, <2>1
  <1> QED  BY <1>1, <1>2, <1>3 DEF Agrees

(* Found, the pattern is not found again before it has moved as far as the *)
(* table says.                                                             *)
LEMMA NoneAfterMatch ==
  ASSUME NEW m \in Nat \ {0}, NEW s, StrLen(s) = m, NEW t, NEW p \in Nat, NEW d \in Nat \ {0},
         At(s, m, t, p), At(s, m, t, p + d)
  PROVE  d >= GoodSuffix(s)[0]
  <1>1. 0 \in 0 .. m - 1
    OBVIOUS
  <1>2. GoodSuffix(s)[0] \in 1 .. m /\ \A e \in 1 .. m - 1 : e < GoodSuffix(s)[0] => ~Agrees(s, m, 0, e)
    BY <1>1, GoodSuffixFacts
  <1>3. Agrees(s, m, 0, d)
    BY <1>1, AgreesAt
  <1> QED  BY <1>2, <1>3

(* Nor is it before it has moved as far as either table says, where the    *)
(* text has a letter that differs.                                         *)
LEMMA NoneAfterMismatch ==
  ASSUME NEW m \in Nat \ {0}, NEW s, StrLen(s) = m, NEW t, NEW p \in Nat, NEW d \in Nat \ {0},
         NEW i \in 0 .. m - 1, t[i + p] \in Letters, DiffersLast(s, m, t, p, i), At(s, m, t, p + d)
  PROVE  d >= GoodSuffix(s)[i] /\ d >= BadChar(s)[t[i + p]] - m + 1 + i
  <1>1. GoodSuffix(s)[i] \in 1 .. m /\ \A e \in 1 .. m - 1 : e < GoodSuffix(s)[i] => ~Agrees(s, m, i, e)
    BY GoodSuffixFacts
  <1>2. Agrees(s, m, i, d)
    BY AgreesAt
  <1>3. d >= GoodSuffix(s)[i]
    BY <1>1, <1>2
  <1>4. PICK c \in Letters : c = t[i + p]
    OBVIOUS
  <1>5. PICK b : b = BadChar(s)[c]
    OBVIOUS
  <1>6. /\ b \in 1 .. m
        /\ \A x \in 0 .. m - 1, e \in Nat \ {0} : e <= x /\ s[x - e] = c => b - m + 1 + x <= e
    BY <1>5, BadCharFacts
  <1>7. CASE d <= i
    <2>1. i - d \in 0 .. m - 1 /\ (p + d) + (i - d) = i + p
      BY <1>7
    <2>2. s[i - d] = c
      BY <1>4, <2>1 DEF At
    <2>3. b - m + 1 + i <= d
      BY <1>6, <1>7, <2>2
    <2> QED  BY <1>3, <1>4, <1>5, <1>6, <2>3
  <1>8. CASE d > i
    <2>1. b - m + 1 + i <= d
      BY <1>6, <1>8
    <2> QED  BY <1>3, <1>4, <1>5, <1>6, <2>1
  <1> QED  BY <1>7, <1>8

(* The points in use are those of occurrences before j, in order; and of   *)
(* all of them, if the tables have an entry for every character.           *)
Pointed ==
  /\ \A k \in 1 .. Len(points) : points[k] \in Occurs /\ points[k] < j
  /\ Plain => \A p \in Occurs : p < j => \E k \in 1 .. Len(points) : points[k] = p
  /\ \A k, l \in 1 .. Len(points) : k < l => points[k] < points[l]

Searching ==
  /\ substr \in Patterns
  /\ tables = [bc |-> BadChar(substr), gs |-> GoodSuffix(substr)]
  /\ limit >= 1 /\ (asked > 0 => limit = asked - 1)
  /\ Pointed

SearchInv ==
  /\ searchPhase \in {"none", "search", "found"}
  /\ asked \in Nat /\ limit \in Nat /\ j \in Nat /\ amount \in Nat
  /\ substr \in Strings(Letters, MaxSubstr) /\ text \in Texts
  /\ points \in Seq(Nat)
  /\ searchPhase /= "none" => Searching
  /\ searchPhase = "search" => Len(points) < limit
  /\ searchPhase = "found" => /\ amount = Len(points) /\ amount <= limit
                              /\ amount < limit => ~Fits

LEMMA EmptyString ==
  ASSUME NEW cs, NEW b \in Nat
  PROVE  <<>> \in Strings(cs, b)
  <1>1. PICK e : e = <<>>
    OBVIOUS
  <1>2. e \in [0 .. 0 - 1 -> cs]
    <2>1. e \in Seq(cs) /\ Len(e) = 0
      BY <1>1
    <2>2. DOMAIN e = 1 .. 0 /\ 1 .. 0 = {} /\ 0 .. 0 - 1 = {}
      BY <2>1
    <2>3. e = [x \in {} |-> e[x]]
      BY <2>1, <2>2
    <2> QED  BY <2>2, <2>3
  <1>3. 0 \in 0 .. b
    OBVIOUS
  <1> QED  BY <1>1, <1>2, <1>3 DEF Strings

LEMMA SearchInitInv == SearchInit => SearchInv
  <1>1. <<>> \in Seq(Nat)
    OBVIOUS
  <1>2. <<>> \in Strings(Letters, MaxSubstr) /\ <<>> \in Texts
    BY SearchAssumption, EmptyString DEF Texts
  <1> QED  BY <1>1, <1>2 DEF SearchInit, SearchInv

LEMMA ReturnInv == SearchInv /\ SearchReturn => SearchInv'
  <1>1. <<>> \in Seq(Nat)
    OBVIOUS
  <1>2. <<>> \in Strings(Letters, MaxSubstr) /\ <<>> \in Texts
    BY SearchAssumption, EmptyString DEF Texts
  <1> QED  BY <1>1, <1>2 DEF SearchReturn, SearchInv

LEMMA BeginInv ==
  ASSUME NEW s \in Patterns, NEW t \in Texts, NEW n \in 1 .. MaxLimit,
         SearchInv, SearchBegin(s, t, n) \/ SplitBegin(s, t, n)
  PROVE  SearchInv'
  <1> USE SearchAssumption
  <1>1. PICK l \in Nat \ {0} : Begin(s, t, l) /\ asked' \in Nat /\ (asked' > 0 => l = asked' - 1)
    <2>1. CASE SearchBegin(s, t, n)
      BY <2>1 DEF SearchBegin
    <2>2. CASE SplitBegin(s, t, n)
      BY <2>2 DEF SplitBegin
    <2> QED  BY <2>1, <2>2
  <1>2. PICK e : e = <<>>
    OBVIOUS
  <1>3. e \in Seq(Nat) /\ Len(e) = 0
    BY <1>2
  <1>4. /\ searchPhase' = "search" /\ substr' = s /\ text' = t /\ limit' = l
        /\ tables' = Tables[s] /\ j' = 0 /\ points' = e /\ amount' = 0
    BY <1>1, <1>2 DEF Begin
  <1>5. tables' = [bc |-> BadChar(s), gs |-> GoodSuffix(s)]
    BY <1>4 DEF Tables
  <1>6. Occurs' \in SUBSET Nat
    BY <1>4 DEF Occurs
  <1>7. Pointed'
    BY <1>3, <1>4, <1>6 DEF Pointed
  <1>8. s \in Strings(Letters, MaxSubstr)
    BY PatternIs
  <1>9. Searching'
    <2>1. substr' \in Patterns /\ limit' >= 1 /\ (asked' > 0 => limit' = asked' - 1)
      <3>1. substr' \in Patterns
        BY <1>4
      <3>2. limit' >= 1
        BY <1>4
      <3>3. asked' > 0 => limit' = asked' - 1
        BY <1>1, <1>4
      <3> QED  BY <3>1, <3>2, <3>3
    <2>2. tables' = [bc |-> BadChar(substr'), gs |-> GoodSuffix(substr')]
      BY <1>4, <1>5
    <2> QED  BY <1>7, <2>1, <2>2 DEF Searching
  <1>10. Len(points') < limit'
    BY <1>3, <1>4
  <1>11. asked' \in Nat /\ points' \in Seq(Nat)
    BY <1>1, <1>3, <1>4
  <1> QED  BY <1>4, <1>8, <1>9, <1>10, <1>11 DEF SearchInv

LEMMA SearchFacts ==
  ASSUME SearchInv, searchPhase /= "none"
  PROVE  /\ StrLen(substr) \in Nat \ {0} /\ substr \in [0 .. StrLen(substr) - 1 -> Letters]
         /\ StrLen(text) \in Nat /\ text \in [0 .. StrLen(text) - 1 -> Letters \union High]
         /\ \A p : p \in Occurs <=> /\ p \in 0 .. StrLen(text) - StrLen(substr)
                                    /\ At(substr, StrLen(substr), text, p)
  <1> USE SearchAssumption
  <1>1. StrLen(substr) \in Nat \ {0} /\ substr \in [0 .. StrLen(substr) - 1 -> Letters]
    BY PatternIs DEF SearchInv, Searching
  <1>2. StrLen(text) \in Nat /\ text \in [0 .. StrLen(text) - 1 -> Letters \union High]
    BY StringIs DEF SearchInv, Texts
  <1>3. DOMAIN substr = 0 .. StrLen(substr) - 1
    BY <1>1
  <1> QED  BY <1>1, <1>2, <1>3 DEF Occurs, At

(* The pattern moves on by d, past no occurrence.                          *)
LEMMA PointedOn ==
  ASSUME SearchInv, searchPhase /= "none", NEW d \in Nat \ {0},
         j' = j + d, UNCHANGED <<substr, text>>, Plain => \A p \in Occurs : p > j => p >= j + d,
         \/ j \in Occurs /\ points' = Append(points, j)
         \/ j \notin Occurs /\ points' = points
  PROVE  Pointed' /\ points' \in Seq(Nat)
  <1>1. /\ Pointed /\ points \in Seq(Nat) /\ j \in Nat
    BY DEF SearchInv, Searching
  <1>2. PICK len \in Nat : len = Len(points)
    BY <1>1
  <1>3. Occurs' = Occurs /\ Occurs \in SUBSET Nat
    <2>1. StrLen(text) - StrLen(substr) \in Int
      BY SearchFacts
    <2> QED  BY <2>1 DEF Occurs, StrLen
  <1>7. Plain' <=> Plain
    BY DEF Plain
  <1>4. Plain => \A p \in Occurs : p < j + d => p < j \/ p = j
    BY <1>1, <1>3
  <1>5. CASE j \notin Occurs /\ points' = points
    <2>1. \A k \in 1 .. len : points[k] \in Nat /\ points[k] < j'
      BY <1>1, <1>2, <1>3 DEF Pointed
    <2>2. Plain => \A p \in Occurs : p < j' => p < j
      BY <1>4, <1>5
    <2> QED  BY <1>1, <1>2, <1>3, <1>5, <1>7, <2>1, <2>2 DEF Pointed
  <1>6. CASE j \in Occurs /\ points' = Append(points, j)
    <2>1. PICK q : q = points'
      OBVIOUS
    <2>2. q \in Seq(Nat) /\ Len(q) = len + 1 /\ q[len + 1] = j /\ \A k \in 1 .. len : q[k] = points[k]
      BY <1>1, <1>2, <1>6, <2>1
    <2>3. \A k \in 1 .. len + 1 : k = len + 1 \/ k \in 1 .. len
      BY <1>2
    <2>4. \A k \in 1 .. len : points[k] \in Occurs /\ points[k] \in Nat /\ points[k] < j
      BY <1>1, <1>2, <1>3 DEF Pointed
    <2>5. \A k \in 1 .. len + 1 : q[k] \in Occurs /\ q[k] < j + d
      <3>1. \A x \in Nat : x < j => x < j + d
        BY <1>1
      <3>2. j < j + d
        BY <1>1
      <3>3. ASSUME NEW k \in 1 .. len PROVE q[k] \in Occurs /\ q[k] < j + d
        BY <2>2, <2>4, <3>1
      <3>4. q[len + 1] \in Occurs /\ q[len + 1] < j + d
        BY <1>6, <2>2, <3>2
      <3> QED  BY <2>3, <3>3, <3>4
    <2>6. Plain => \A p \in Occurs : p < j + d => \E k \in 1 .. len + 1 : q[k] = p
      <3> SUFFICES ASSUME Plain, NEW p \in Occurs, p < j + d PROVE \E k \in 1 .. len + 1 : q[k] = p
        OBVIOUS
      <3>1. CASE p = j
        <4>1. len + 1 \in 1 .. len + 1
          BY <1>2
        <4> QED  BY <2>2, <3>1, <4>1
      <3>2. CASE p < j
        <4>1. PICK k \in 1 .. len : points[k] = p
          BY <1>1, <1>2, <3>2 DEF Pointed
        <4>2. k \in 1 .. len + 1
          BY <1>2
        <4> QED  BY <2>2, <4>1, <4>2
      <3> QED  BY <1>4, <3>1, <3>2
    <2>7. \A k, l \in 1 .. len + 1 : k < l => q[k] < q[l]
      <3> SUFFICES ASSUME NEW k \in 1 .. len + 1, NEW l \in 1 .. len + 1, k < l PROVE q[k] < q[l]
        OBVIOUS
      <3>1. k \in 1 .. len
        BY <1>2
      <3>2. l = len + 1 \/ (l \in 1 .. len /\ points[k] < points[l])
        BY <1>1, <1>2, <2>3, <3>1 DEF Pointed
      <3> QED  BY <2>2, <2>4, <3>1, <3>2
    <2> QED  BY <1>3, <1>7, <2>1, <2>2, <2>5, <2>6, <2>7 DEF Pointed
  <1> QED  BY <1>5, <1>6

LEMMA MatchInv == SearchInv /\ SearchMatch => SearchInv'
  <1> SUFFICES ASSUME SearchInv, SearchMatch PROVE SearchInv'
    OBVIOUS
  <1>1. /\ searchPhase = "search" /\ Fits /\ Differs = {}
        /\ points' = Append(points, j) /\ j' = j + tables.gs[0]
        /\ UNCHANGED <<asked, substr, text, limit, tables>>
    BY DEF SearchMatch
  <1>2. PICK m \in Nat \ {0}, n \in Nat : m = StrLen(substr) /\ n = StrLen(text)
    BY <1>1, SearchFacts
  <1>3. /\ DOMAIN substr = 0 .. m - 1
        /\ \A p : p \in Occurs <=> p \in 0 .. n - m /\ At(substr, m, text, p)
    BY <1>1, <1>2, SearchFacts
  <1>4. j \in 0 .. n - m /\ j \in Nat /\ limit \in Nat /\ Len(points) < limit /\ Len(points) \in Nat
    BY <1>1, <1>2 DEF Fits, SearchInv
  <1>5. At(substr, m, text, j)
    <2> SUFFICES ASSUME NEW k \in 0 .. m - 1 PROVE substr[k] = text[j + k]
      BY DEF At
    <2>1. substr[k] = text[k + j]
      BY <1>1, <1>3 DEF Differs
    <2>2. k + j = j + k
      BY <1>4
    <2> QED  BY <2>1, <2>2
  <1>6. PICK d : d = GoodSuffix(substr)[0]
    OBVIOUS
  <1>7. d \in 1 .. m
    <2>1. 0 \in 0 .. m - 1
      OBVIOUS
    <2> QED  BY <1>2, <1>6, <2>1, GoodSuffixFacts
  <1>8. j' = j + d
    BY <1>1, <1>6 DEF SearchInv, Searching
  <1>9. ASSUME NEW p \in Occurs, p > j PROVE p >= j + d
    <2>1. PICK e \in Nat \ {0} : p = j + e
      <3>1. p \in Nat
        BY <1>3
      <3>2. p - j \in Nat \ {0} /\ j + (p - j) = p
        BY <1>4, <1>9, <3>1
      <3> QED  BY <3>2
    <2>2. At(substr, m, text, j + e)
      BY <1>3, <2>1
    <2>3. e >= d
      BY <1>2, <1>4, <1>5, <1>6, <2>2, NoneAfterMatch
    <2> QED  BY <1>4, <1>7, <2>1, <2>3
  <1>10. Pointed' /\ points' \in Seq(Nat)
    <2>1. d \in Nat \ {0} /\ j \in Occurs
      BY <1>3, <1>4, <1>5, <1>7
    <2> QED  BY <1>1, <1>8, <1>9, <2>1, PointedOn
  <1>11. Len(points') = Len(points) + 1
    BY <1>1, <1>4 DEF SearchInv
  <1>12. Searching'
    BY <1>1, <1>10 DEF SearchInv, Searching
  <1>13. j' \in Nat
    BY <1>4, <1>7, <1>8
  <1>14. \/ searchPhase' = "search" /\ amount' = amount /\ Len(points') < limit'
         \/ searchPhase' = "found" /\ amount' = limit' /\ amount' = Len(points')
    BY <1>1, <1>4, <1>11 DEF SearchMatch
  <1> QED  BY <1>1, <1>4, <1>10, <1>12, <1>13, <1>14 DEF SearchInv

LEMMA MismatchInv == SearchInv /\ SearchMismatch => SearchInv'
  <1> SUFFICES ASSUME SearchInv, SearchMismatch PROVE SearchInv'
    OBVIOUS
  <1>1. PICK i : i = Max(Differs)
    OBVIOUS
  <1>2. /\ searchPhase = "search" /\ Fits /\ Differs /= {}
        /\ \E entry \in BadEntries(text[i + j]) :
             j' = j + Max({entry - StrLen(substr) + 1 + i, tables.gs[i]})
        /\ UNCHANGED <<searchPhase, asked, substr, text, limit, tables, points, amount>>
    BY <1>1 DEF SearchMismatch
  <1>3. PICK m \in Nat \ {0}, n \in Nat : m = StrLen(substr) /\ n = StrLen(text)
    BY <1>2, SearchFacts
  <1>4. /\ DOMAIN substr = 0 .. m - 1 /\ text \in [0 .. n - 1 -> Letters \union High]
        /\ \A p : p \in Occurs <=> p \in 0 .. n - m /\ At(substr, m, text, p)
    BY <1>2, <1>3, SearchFacts
  <1>5. j \in 0 .. n - m /\ j \in Nat
    BY <1>2, <1>3 DEF Fits, SearchInv
  <1>6. i \in Differs /\ \A y \in Differs : y <= i
    <2>1. Differs \in SUBSET (0 .. m - 1) /\ 0 \in Int /\ m - 1 \in Int
      BY <1>4 DEF Differs
    <2>2. Max(Differs) \in Differs /\ \A y \in Differs : y <= Max(Differs)
      BY <1>2, <2>1, MaxIs
    <2> QED  BY <1>1, <2>2
  <1>7. i \in 0 .. m - 1 /\ DiffersLast(substr, m, text, j, i)
    <2>1. i \in 0 .. m - 1 /\ substr[i] /= text[i + j]
      BY <1>4, <1>6 DEF Differs
    <2>2. ASSUME NEW q \in i + 1 .. m - 1 PROVE substr[q] = text[q + j]
      <3>1. q \in 0 .. m - 1 /\ ~(q <= i)
        BY <2>1
      <3> QED  BY <1>4, <1>6, <3>1 DEF Differs
    <2> QED  BY <2>1, <2>2 DEF DiffersLast
  <1>8. PICK c \in Letters \union High : c = text[i + j] /\ (Plain => c \notin High)
    <2>1. i + j \in 0 .. n - 1
      BY <1>5, <1>7
    <2> QED  BY <1>4, <2>1 DEF Plain
  <1>9. PICK b, g : /\ b \in BadEntries(c) /\ g = GoodSuffix(substr)[i]
                    /\ j' = j + Max({b - m + 1 + i, g})
    <2>1. tables.gs[i] = GoodSuffix(substr)[i]
      BY <1>2 DEF SearchInv, Searching
    <2> QED  BY <1>2, <1>3, <1>8, <2>1
  <1>10. b \in Int /\ g \in 1 .. m /\ (c \notin High => c \in Letters /\ b = BadChar(substr)[c])
    <2>1. g \in 1 .. m
      BY <1>3, <1>7, <1>9, GoodSuffixFacts
    <2>2. ASSUME c \in High PROVE b \in Int
      BY <1>9, <2>2, SearchAssumption DEF BadEntries
    <2>3. ASSUME c \notin High PROVE c \in Letters /\ b = BadChar(substr)[c] /\ b \in Int
      <3>1. c \in Letters /\ b = tables.bc[c]
        BY <1>8, <1>9, <2>3 DEF BadEntries
      <3>2. b = BadChar(substr)[c]
        BY <1>2, <3>1 DEF SearchInv, Searching
      <3>3. BadChar(substr)[c] \in 1 .. m
        BY <1>3, <3>1, BadCharFacts
      <3> QED  BY <3>1, <3>2, <3>3
    <2> QED  BY <2>1, <2>2, <2>3
  <1>11. PICK h \in Int : h = b - m + 1 + i
    BY <1>7, <1>10
  <1>12. PICK d : d = Max({h, g})
    OBVIOUS
  <1>13. d \in {h, g} /\ d >= h /\ d >= g /\ d \in Nat \ {0}
    <2>1. PICK a \in Int, z \in Int : a <= h /\ a <= g /\ h <= z /\ g <= z
      <3>1. (h <= g \/ g <= h) /\ h <= h /\ g <= g /\ g \in Int
        BY <1>10
      <3> QED  BY <3>1
    <2>2. {h, g} \in SUBSET (a .. z) /\ {h, g} /= {}
      BY <1>10, <2>1
    <2>3. d \in {h, g} /\ \A y \in {h, g} : y <= d
      BY <1>12, <2>1, <2>2, MaxIs
    <2> QED  BY <1>10, <2>3
  <1>14. j' = j + d
    BY <1>9, <1>11, <1>12
  <1>15. ASSUME Plain, NEW p \in Occurs, p > j PROVE p >= j + d
    <2>1. PICK e \in Nat \ {0} : p = j + e
      <3>1. p \in Nat
        BY <1>4
      <3>2. p - j \in Nat \ {0} /\ j + (p - j) = p
        BY <1>5, <1>15, <3>1
      <3> QED  BY <3>2
    <2>2. At(substr, m, text, j + e)
      BY <1>4, <2>1
    <2>3. text[i + j] \in Letters /\ b = BadChar(substr)[text[i + j]]
      BY <1>8, <1>10, <1>15
    <2>4. e >= g /\ e >= h
      BY <1>3, <1>5, <1>7, <1>9, <1>11, <2>2, <2>3, NoneAfterMismatch
    <2> QED  BY <1>5, <1>13, <2>1, <2>4
  <1>16. j \notin Occurs
    <2> SUFFICES ASSUME At(substr, m, text, j) PROVE FALSE
      BY <1>4
    <2>1. substr[i] = text[j + i] /\ j + i = i + j
      BY <1>5, <1>7 DEF At
    <2> QED  BY <1>7, <2>1 DEF DiffersLast
  <1>17. Pointed' /\ points' \in Seq(Nat)
    BY <1>2, <1>13, <1>14, <1>15, <1>16, PointedOn
  <1>18. Searching'
    BY <1>2, <1>17 DEF SearchInv, Searching
  <1>19. j' \in Nat
    BY <1>5, <1>13, <1>14
  <1> QED  BY <1>2, <1>17, <1>18, <1>19 DEF SearchInv

LEMMA SearchEndInv == SearchInv /\ (SearchEnd \/ UNCHANGED searchVars) => SearchInv'
  <1> SUFFICES ASSUME SearchInv, SearchEnd \/ UNCHANGED searchVars PROVE SearchInv'
    OBVIOUS
  <1>1. UNCHANGED <<asked, substr, text, limit, tables, j, points>>
    BY DEF SearchEnd, searchVars
  <1>2. Searching => Searching'
    BY <1>1 DEF Searching, Pointed, Plain, Occurs, StrLen
  <1>3. Fits' <=> Fits
    BY <1>1 DEF Fits, StrLen
  <1>4. Len(points) \in Nat
    BY DEF SearchInv
  <1>5. CASE SearchEnd
    BY <1>1, <1>2, <1>3, <1>4, <1>5 DEF SearchEnd, SearchInv
  <1>6. CASE UNCHANGED searchVars
    BY <1>1, <1>2, <1>3, <1>6 DEF searchVars, SearchInv
  <1> QED  BY <1>5, <1>6

(* The invariant of the search: the tables are those of the pattern, and   *)
(* the points are occurrences before the place it is at, in order; all of  *)
(* them, unless the text has a character above 127.                        *)
THEOREM SearchInvariant == SearchSpec => []SearchInv
  <1>1. SearchInv /\ [SearchNext]_searchVars => SearchInv'
    BY BeginInv, MatchInv, MismatchInv, SearchEndInv, ReturnInv DEF SearchNext
  <1> QED  BY SearchInitInv, <1>1, PTL DEF SearchSpec

(* Every variable of the search has its type.                              *)
THEOREM SearchTyping == SearchSpec => []SearchTypeOK
  <1>1. SearchInv => SearchTypeOK
    BY DEF SearchInv, SearchTypeOK
  <1> QED  BY <1>1, SearchInvariant, PTL

(* The search finds occurrences of the pattern, stops at the limit, and    *)
(* moves the pattern on in every step, whatever pattern, text and limit,   *)
(* and whatever is in the memory before the table; and it finds all of     *)
(* them in every text of characters below 128.                             *)
THEOREM NonePassed == SearchSpec => []NoneSkipped
  <1>1. SearchInv => NoneSkipped
    <2> SUFFICES ASSUME SearchInv, searchPhase /= "none" PROVE NoneSkipped
      BY DEF NoneSkipped
    <2>1. PICK m \in Nat \ {0}, n \in Nat : m = StrLen(substr) /\ n = StrLen(text)
      BY SearchFacts
    <2>2. Searching /\ Pointed /\ points \in Seq(Nat) /\ limit \in Nat
      BY DEF SearchInv, Searching
    <2>3. PICK len \in Nat : len = Len(points)
      BY <2>2
    <2>4. DOMAIN points = 1 .. len
      BY <2>2, <2>3
    <2>5. /\ {points[k] : k \in DOMAIN points} \subseteq {p \in Occurs : p < j}
          /\ Plain => {points[k] : k \in DOMAIN points} = {p \in Occurs : p < j}
      BY <2>2, <2>3, <2>4 DEF Pointed
    <2>6. \A k \in 1 .. Len(points) - 1 : points[k] < points[k + 1]
      <3> SUFFICES ASSUME NEW k \in 1 .. len - 1 PROVE points[k] < points[k + 1]
        BY <2>3
      <3>1. k \in 1 .. len /\ k + 1 \in 1 .. len /\ k < k + 1
        OBVIOUS
      <3> QED  BY <2>2, <2>3, <3>1 DEF Pointed
    <2>7. Len(points) <= limit
      BY <2>2, <2>3 DEF SearchInv
    <2>8. \A k \in DOMAIN tables.gs : tables.gs[k] > 0
      <3>1. tables.gs = GoodSuffix(substr)
        BY <2>2 DEF Searching
      <3>2. DOMAIN GoodSuffix(substr) = 0 .. m - 1
        BY <2>1 DEF GoodSuffix
      <3>3. \A k \in 0 .. m - 1 : GoodSuffix(substr)[k] \in 1 .. m
        BY <2>1, GoodSuffixFacts
      <3> QED  BY <3>1, <3>2, <3>3
    <2>10. searchPhase = "found" => amount = Len(points)
      BY DEF SearchInv
    <2>9. ASSUME searchPhase = "found", Plain
          PROVE  /\ amount < limit => Cardinality(Occurs) = amount
                 /\ SubstrExist <=> Occurs /= {}
      <3>1. amount = len /\ (amount < limit => ~Fits) /\ limit >= 1 /\ j \in Nat
        BY <2>2, <2>3, <2>9 DEF SearchInv, Searching
      <3>2. Occurs \in SUBSET (0 .. n - m)
        BY <2>1, SearchFacts
      <3>3. amount < limit => \A p \in Occurs : p < j
        BY <2>1, <3>1, <3>2 DEF Fits
      <3>4. ASSUME amount < limit PROVE Cardinality(Occurs) = amount
        <4>1. PICK f : f = [k \in 1 .. len |-> points[k]]
          OBVIOUS
        <4>2. f \in [1 .. len -> Occurs]
          BY <2>2, <2>3, <4>1 DEF Pointed
        <4>3. \A p \in Occurs : \E k \in 1 .. len : f[k] = p
          BY <2>2, <2>3, <2>9, <3>3, <3>4, <4>1 DEF Pointed
        <4>4. \A k, l \in 1 .. len : f[k] = f[l] => k = l
          <5> SUFFICES ASSUME NEW k \in 1 .. len, NEW l \in 1 .. len, f[k] = f[l] PROVE k = l
            OBVIOUS
          <5>1. points[k] = points[l] /\ points[k] \in Nat
            BY <2>2, <2>3, <4>1
          <5>2. k < l => points[k] < points[l]
            BY <2>2, <2>3 DEF Pointed
          <5>3. l < k => points[l] < points[k]
            BY <2>2, <2>3 DEF Pointed
          <5> QED  BY <5>1, <5>2, <5>3
        <4>5. ExistsBijection(1 .. len, Occurs)
          <5>1. f \in Bijection(1 .. len, Occurs)
            BY <4>2, <4>3, <4>4 DEF Bijection, Injection, Surjection, IsInjective
          <5> QED  BY <5>1 DEF ExistsBijection
        <4>6. IsFiniteSet(1 .. len) /\ Cardinality(1 .. len) = len
          <5>1. IsFiniteSet(1 .. len) /\ Cardinality(1 .. len) = IF 1 > len THEN 0 ELSE len - 1 + 1
            BY FS_Interval
          <5> QED  BY <5>1
        <4>7. Cardinality(Occurs) = Cardinality(1 .. len)
          BY <4>5, <4>6, FS_Bijection
        <4> QED  BY <3>1, <4>6, <4>7
      <3>5. SubstrExist <=> Occurs /= {}
        <4>1. CASE len = 0
          <5>1. Occurs = {}
            <6> SUFFICES ASSUME NEW p \in Occurs PROVE FALSE
              OBVIOUS
            <6>1. p < j
              BY <2>2, <3>1, <3>3, <4>1
            <6>2. PICK k \in 1 .. len : points[k] = p
              BY <2>2, <2>3, <2>9, <6>1 DEF Pointed
            <6> QED  BY <4>1, <6>2
          <5> QED  BY <3>1, <4>1, <5>1 DEF SubstrExist
        <4>2. CASE len /= 0
          <5>1. 1 \in 1 .. len
            BY <4>2
          <5>2. points[1] \in Occurs
            BY <2>2, <2>3, <5>1 DEF Pointed
          <5> QED  BY <3>1, <4>2, <5>2 DEF SubstrExist
        <4> QED  BY <4>1, <4>2
      <3> QED  BY <2>3, <3>1, <3>4, <3>5
    <2> QED  BY <2>5, <2>6, <2>7, <2>8, <2>9, <2>10 DEF NoneSkipped
  <1> QED  BY <1>1, SearchInvariant, PTL

-----------------------------------------------------------------------------
(***************************************************************************)
(* The pieces of a split text.                                             *)
(***************************************************************************)

(* The delimiters found: len of them, of m letters, at pts, in a text of n.*)
Delimited(pts, len, m, n) ==
  /\ len \in Nat /\ m \in Nat \ {0} /\ n \in Nat
  /\ \A k \in 1 .. len : pts[k] \in 0 .. n - m
  /\ \A k, l \in 1 .. len : k < l => pts[k] < pts[l]

(* Where the k-th piece begins and ends. *)
From(pts, m, k) == IF k = 1 THEN 0 ELSE pts[k - 1] + m
To(pts, len, n, k) == IF k = len + 1 THEN n ELSE pts[k]

PieceOf(pts, len, m, n, k) ==
  Piece(From(pts, m, k),
        IF To(pts, len, n, k) <= From(pts, m, k) THEN 0 ELSE To(pts, len, n, k) - From(pts, m, k))

LEMMA FromTo ==
  ASSUME NEW pts, NEW len, NEW m, NEW n, Delimited(pts, len, m, n), NEW k \in 1 .. len + 1
  PROVE  /\ From(pts, m, k) \in 0 .. n /\ To(pts, len, n, k) \in 0 .. n
         /\ k = 1 \/ k = len + 1 => From(pts, m, k) <= To(pts, len, n, k)
  <1>1. len \in Nat /\ m \in Nat \ {0} /\ n \in Nat /\ \A l \in 1 .. len : pts[l] \in 0 .. n - m
    BY DEF Delimited
  <1>2. k \in 1 .. len \/ k = len + 1
    BY <1>1
  <1>3. k = 1 \/ k - 1 \in 1 .. len
    BY <1>1
  <1>4. From(pts, m, k) \in 0 .. n
    BY <1>1, <1>3 DEF From
  <1>5. To(pts, len, n, k) \in 0 .. n
    BY <1>1, <1>2 DEF To
  <1>6. k = 1 \/ k = len + 1 => From(pts, m, k) <= To(pts, len, n, k)
    BY <1>1, <1>4, <1>5 DEF From, To
  <1> QED  BY <1>4, <1>5, <1>6

(* A letter of the text is in a piece or else in a delimiter.              *)
LEMMA PieceOrDelimiter ==
  ASSUME NEW pts, NEW len, NEW m, NEW n, Delimited(pts, len, m, n), NEW x \in Int
  PROVE  (\E k \in 1 .. len + 1 : From(pts, m, k) <= x /\ x < To(pts, len, n, k))
         <=> x \in 0 .. n - 1 /\ ~ \E k \in 1 .. len : pts[k] <= x /\ x < pts[k] + m
  <1>1. /\ len \in Nat /\ m \in Nat \ {0} /\ n \in Nat /\ \A l \in 1 .. len : pts[l] \in 0 .. n - m
        /\ \A k, l \in 1 .. len : k < l => pts[k] < pts[l]
    BY DEF Delimited
  <1>2. ASSUME NEW k \in 1 .. len + 1, From(pts, m, k) <= x, x < To(pts, len, n, k)
        PROVE  x \in 0 .. n - 1 /\ ~ \E l \in 1 .. len : pts[l] <= x /\ x < pts[l] + m
    <2>1. x \in 0 .. n - 1
      BY <1>1, <1>2, FromTo
    <2>2. ASSUME NEW l \in 1 .. len, pts[l] <= x, x < pts[l] + m PROVE FALSE
      <3>1. CASE l < k
        <4>1. k /= 1 /\ k - 1 \in 1 .. len /\ (l = k - 1 \/ l < k - 1)
          BY <1>1, <3>1
        <4>2. pts[l] \in Nat /\ pts[k - 1] \in Nat /\ pts[l] <= pts[k - 1]
          BY <1>1, <4>1
        <4>3. pts[k - 1] + m <= x
          BY <1>2, <4>1 DEF From
        <4> QED  BY <1>1, <2>2, <4>2, <4>3
      <3>2. CASE k <= l
        <4>1. k /= len + 1 /\ k \in 1 .. len /\ (l = k \/ k < l)
          BY <1>1, <3>2
        <4>2. pts[l] \in Nat /\ pts[k] \in Nat /\ pts[k] <= pts[l]
          BY <1>1, <4>1
        <4>3. x < pts[k]
          BY <1>2, <4>1 DEF To
        <4> QED  BY <2>2, <4>2, <4>3
      <3> QED  BY <1>1, <3>1, <3>2
    <2> QED  BY <2>1, <2>2
  <1>3. ASSUME x \in 0 .. n - 1, \A l \in 1 .. len : ~(pts[l] <= x /\ x < pts[l] + m)
        PROVE  \E k \in 1 .. len + 1 : From(pts, m, k) <= x /\ x < To(pts, len, n, k)
    <2>1. PICK S : S = {k \in 1 .. len : pts[k] <= x}
      OBVIOUS
    <2>2. CASE S = {}
      <3>1. 1 \in 1 .. len + 1 /\ From(pts, m, 1) = 0
        BY <1>1 DEF From
      <3>2. x < To(pts, len, n, 1)
        <4>1. CASE len = 0
          BY <1>1, <1>3, <4>1 DEF To
        <4>2. CASE len /= 0
          <5>1. 1 \in 1 .. len /\ 1 /= len + 1
            BY <1>1, <4>2
          <5>2. pts[1] \in Nat /\ ~(pts[1] <= x)
            BY <1>1, <2>1, <2>2, <5>1
          <5> QED  BY <5>1, <5>2 DEF To
        <4> QED  BY <4>1, <4>2
      <3> QED  BY <1>3, <3>1, <3>2
    <2>3. CASE S /= {}
      <3>1. PICK k : k = Max(S)
        OBVIOUS
      <3>2. k \in S /\ \A y \in S : y <= k
        <4>1. S \in SUBSET (1 .. len) /\ 1 \in Int /\ len \in Int
          BY <1>1, <2>1
        <4>2. Max(S) \in S /\ \A y \in S : y <= Max(S)
          BY <2>3, <4>1, MaxIs
        <4> QED  BY <3>1, <4>2
      <3>3. k \in 1 .. len /\ pts[k] <= x /\ pts[k] \in Nat
        BY <1>1, <2>1, <3>2
      <3>4. pts[k] + m <= x
        BY <1>1, <1>3, <3>3
      <3>5. k + 1 \in 1 .. len + 1 /\ k + 1 /= 1 /\ (k + 1) - 1 = k
        BY <1>1, <3>3
      <3>6. From(pts, m, k + 1) = pts[k] + m
        BY <3>5 DEF From
      <3>7. x < To(pts, len, n, k + 1)
        <4>1. CASE k = len
          BY <1>1, <1>3, <4>1 DEF To
        <4>2. CASE k /= len
          <5>1. k + 1 \in 1 .. len /\ k + 1 /= len + 1 /\ ~(k + 1 <= k)
            BY <1>1, <3>3, <4>2
          <5>2. pts[k + 1] \in Nat /\ k + 1 \notin S
            BY <1>1, <3>2, <5>1
          <5>3. ~(pts[k + 1] <= x)
            BY <2>1, <5>1, <5>2
          <5> QED  BY <5>1, <5>2, <5>3 DEF To
        <4> QED  BY <4>1, <4>2
      <3> QED  BY <3>4, <3>5, <3>6, <3>7
    <2> QED  BY <2>2, <2>3
  <1> QED  BY <1>2, <1>3

(* A piece that is not empty ends before each later one begins.            *)
LEMMA PiecesInOrder ==
  ASSUME NEW pts, NEW len, NEW m, NEW n, Delimited(pts, len, m, n),
         NEW k \in 1 .. len, NEW l \in k + 1 .. len + 1
  PROVE  To(pts, len, n, k) <= From(pts, m, l)
  <1>1. /\ len \in Nat /\ m \in Nat \ {0} /\ n \in Nat /\ \A i \in 1 .. len : pts[i] \in 0 .. n - m
        /\ \A i, q \in 1 .. len : i < q => pts[i] < pts[q]
    BY DEF Delimited
  <1>2. k /= len + 1 /\ l /= 1 /\ l - 1 \in 1 .. len /\ (k = l - 1 \/ k < l - 1)
    BY <1>1
  <1>3. pts[k] \in Nat /\ pts[l - 1] \in Nat /\ pts[k] <= pts[l - 1]
    BY <1>1, <1>2
  <1> QED  BY <1>1, <1>2, <1>3 DEF From, To

LEMMA CoveredIs ==
  ASSUME NEW from \in Int, NEW len \in Int, NEW x
  PROVE  x \in Covered(Piece(from, len)) <=> x \in Int /\ from <= x /\ x < from + len
  <1>1. PICK q : q = Piece(from, len)
    OBVIOUS
  <1>2. q.from = from /\ q.len = len
    BY <1>1 DEF Piece
  <1>3. x \in Covered(q) <=> \E k \in 0 .. len - 1 : x = from + k
    BY <1>2 DEF Covered
  <1>4. (\E k \in 0 .. len - 1 : x = from + k) <=> x \in Int /\ from <= x /\ x < from + len
    <2>1. ASSUME x \in Int, from <= x, x < from + len PROVE \E k \in 0 .. len - 1 : x = from + k
      <3>1. x - from \in 0 .. len - 1 /\ x = from + (x - from)
        BY <2>1
      <3> QED  BY <3>1
    <2> QED  BY <2>1
  <1> QED  BY <1>1, <1>3, <1>4

(* The pieces smp_str_split makes.                                         *)
LEMMA SplitIs ==
  ASSUME NEW len, NEW m, NEW n, Delimited(points, len, m, n),
         amount = len, StrLen(substr) = m, StrLen(text) = n
  PROVE  /\ Len(Split) = len + 1 /\ DOMAIN Split = 1 .. len + 1
         /\ \A k \in 1 .. len + 1 : Split[k] = PieceOf(points, len, m, n, k)
  <1> USE DEF Delimited
  <1> DEFINE e(k) == IF k = 1 THEN Piece(0, points[1])
                     ELSE Piece(points[k - 1] + m, IF points[k] - (points[k - 1] + m) <= 0 THEN 0
                                                   ELSE points[k] - (points[k - 1] + m))
  <1>1. PICK T : T = [from : Int, len : Int]
    OBVIOUS
  <1>2. CASE len = 0
    <2>1. PICK p : p = Piece(0, n)
      OBVIOUS
    <2>2. Split = <<p>>
      BY <1>2, <2>1 DEF Split
    <2>3. PieceOf(points, len, m, n, 1) = p
      BY <1>2, <2>1 DEF PieceOf, From, To, Piece
    <2>4. Len(<<p>>) = 1 /\ DOMAIN <<p>> = 1 .. 1 /\ <<p>>[1] = p
      OBVIOUS
    <2>5. \A k \in 1 .. len + 1 : k = 1
      BY <1>2
    <2> QED  BY <1>2, <2>2, <2>3, <2>4, <2>5
  <1>3. CASE len /= 0
    <2>1. len \in 1 .. len /\ points[len] \in 0 .. n - m
      BY <1>3
    <2>2. PICK last \in Int : last = points[len] + m /\ last <= n
      BY <2>1
    <2>3. PICK p : p = Piece(last, n - last)
      OBVIOUS
    <2>4. PICK a : a = [k \in 1 .. len |-> e(k)]
      OBVIOUS
    <2>5. Split = a \o <<p>>
      BY <1>3, <2>2, <2>3, <2>4 DEF Split
    <2>6. \A k \in 1 .. len : e(k) = PieceOf(points, len, m, n, k) /\ e(k) \in T
      <3> SUFFICES ASSUME NEW k \in 1 .. len PROVE e(k) = PieceOf(points, len, m, n, k) /\ e(k) \in T
        OBVIOUS
      <3>1. k /= len + 1 /\ points[k] \in Nat /\ (k /= 1 => k - 1 \in 1 .. len)
        OBVIOUS
      <3>2. CASE k = 1
        BY <1>1, <3>1, <3>2 DEF PieceOf, From, To, Piece
      <3>3. CASE k /= 1
        <4>1. PICK f \in Int, t \in Int : f = points[k - 1] + m /\ t = points[k]
          BY <3>1, <3>3
        <4>2. e(k) = Piece(f, IF t - f <= 0 THEN 0 ELSE t - f)
          BY <3>3, <4>1
        <4>3. PieceOf(points, len, m, n, k) = Piece(f, IF t <= f THEN 0 ELSE t - f)
          BY <3>1, <3>3, <4>1 DEF PieceOf, From, To
        <4>4. (t - f <= 0) <=> (t <= f)
          OBVIOUS
        <4> HIDE DEF e
        <4> QED  BY <1>1, <4>2, <4>3, <4>4 DEF Piece
      <3> QED  BY <3>2, <3>3
    <2>7. a \in Seq(T) /\ Len(a) = len /\ \A k \in 1 .. len : a[k] = PieceOf(points, len, m, n, k)
      <3> HIDE DEF e
      <3>1. a \in [1 .. len -> T] /\ len \in Nat
        BY <2>4, <2>6
      <3> QED  BY <2>4, <2>6, <3>1
    <2>8. p \in T /\ p = PieceOf(points, len, m, n, len + 1)
      <3>1. len + 1 /= 1 /\ (len + 1) - 1 = len
        BY <1>3
      <3>2. PieceOf(points, len, m, n, len + 1) = Piece(last, IF n <= last THEN 0 ELSE n - last)
        BY <2>2, <3>1 DEF PieceOf, From, To
      <3>3. (IF n <= last THEN 0 ELSE n - last) = n - last /\ n - last \in Int
        BY <2>2
      <3> QED  BY <1>1, <2>2, <2>3, <3>2, <3>3 DEF Piece
    <2>9. PICK b : b = <<p>>
      OBVIOUS
    <2>10. b \in Seq(T) /\ Len(b) = 1 /\ b[1] = p
      BY <2>8, <2>9
    <2>11. /\ a \o b \in Seq(T) /\ Len(a \o b) = len + 1
           /\ \A k \in 1 .. len + 1 : (a \o b)[k] = IF k <= len THEN a[k] ELSE b[k - len]
      <3>1. /\ a \o b \in Seq(T) /\ Len(a \o b) = Len(a) + Len(b)
            /\ \A k \in 1 .. Len(a) + Len(b) : (a \o b)[k] = IF k <= Len(a) THEN a[k] ELSE b[k - Len(a)]
        <4>1. a \in Seq(T) /\ b \in Seq(T)
          BY <2>7, <2>10
        <4> HIDE DEF e
        <4> QED  BY <4>1, ConcatProperties
      <3>2. Len(a) = len /\ Len(b) = 1
        BY <2>7, <2>10
      <3> QED  BY <3>1, <3>2
    <2>12. ASSUME NEW k \in 1 .. len + 1 PROVE (a \o b)[k] = PieceOf(points, len, m, n, k)
      <3>1. k \in 1 .. len \/ (k = len + 1 /\ ~(k <= len) /\ k - len = 1)
        OBVIOUS
      <3> QED  BY <2>7, <2>8, <2>10, <2>11, <3>1
    <2>13. DOMAIN (a \o b) = 1 .. len + 1
      BY <2>11
    <2> QED  BY <2>5, <2>9, <2>11, <2>12, <2>13
  <1> QED  BY <1>2, <1>3

(* smp_str_split cuts the text at the delimiters found: the pieces are all *)
(* the rest of it, in order and apart, and no more than were asked for.    *)
THEOREM PiecesCover == SearchSpec => []SplitCovers
  <1>1. SearchInv => SplitCovers
    <2> SUFFICES ASSUME SearchInv, searchPhase = "found", asked > 0 PROVE SplitCovers
      BY DEF SplitCovers
    <2>1. PICK m \in Nat \ {0}, n \in Nat : m = StrLen(substr) /\ n = StrLen(text)
      BY SearchFacts
    <2>2. DOMAIN text = 0 .. n - 1 /\ \A p \in Occurs : p \in 0 .. n - m
      BY <2>1, SearchFacts
    <2>3. /\ Searching /\ Pointed /\ points \in Seq(Nat) /\ limit \in Nat /\ asked \in Nat
          /\ amount = Len(points) /\ amount <= limit /\ limit = asked - 1
      BY DEF SearchInv, Searching
    <2>4. PICK len \in Nat : len = Len(points)
      BY <2>3
    <2>5. DOMAIN points = 1 .. len
      BY <2>3, <2>4
    <2>6. Delimited(points, len, m, n)
      BY <2>2, <2>3, <2>4 DEF Pointed, Delimited
    <2>7. /\ Len(Split) = len + 1 /\ DOMAIN Split = 1 .. len + 1
          /\ \A k \in 1 .. len + 1 : Split[k] = PieceOf(points, len, m, n, k)
      BY <2>1, <2>3, <2>4, <2>6, SplitIs
    <2>8. Len(Split) <= asked
      BY <2>3, <2>4, <2>7
    <2>9. ASSUME NEW k \in 1 .. len + 1
          PROVE  /\ Split[k].from = From(points, m, k) /\ Split[k].len \in Nat
                 /\ Split[k].len > 0 => From(points, m, k) + Split[k].len = To(points, len, n, k)
                 /\ \A x : x \in Covered(Split[k]) <=> x \in Int /\ From(points, m, k) <= x /\ x < To(points, len, n, k)
      <3>1. PICK f \in Int, t \in Int : f = From(points, m, k) /\ t = To(points, len, n, k)
        BY <2>6, FromTo
      <3>2. PICK g \in Nat : g = IF t <= f THEN 0 ELSE t - f
        OBVIOUS
      <3>3. Split[k] = Piece(f, g)
        BY <2>7, <3>1, <3>2 DEF PieceOf
      <3>4. Split[k].from = f /\ Split[k].len = g
        BY <3>3 DEF Piece
      <3>5. ASSUME NEW x PROVE x \in Covered(Split[k]) <=> x \in Int /\ f <= x /\ x < t
        <4>1. x \in Covered(Split[k]) <=> x \in Int /\ f <= x /\ x < f + g
          BY <3>2, <3>3, CoveredIs
        <4> QED  BY <3>2, <4>1
      <3> QED  BY <3>1, <3>2, <3>4, <3>5
    <2>10. PICK delims : delims = UNION {Covered(Piece(points[k], StrLen(substr))) : k \in DOMAIN points}
      OBVIOUS
    <2>11. PICK pieces : pieces = {Covered(Split[k]) : k \in DOMAIN Split}
      OBVIOUS
    <2>12. ASSUME NEW x
           PROVE  x \in delims <=> x \in Int /\ \E k \in 1 .. len : points[k] <= x /\ x < points[k] + m
      <3>1. x \in delims <=> \E k \in 1 .. len : x \in Covered(Piece(points[k], m))
        BY <2>1, <2>5, <2>10
      <3>2. ASSUME NEW k \in 1 .. len
            PROVE  x \in Covered(Piece(points[k], m)) <=> x \in Int /\ points[k] <= x /\ x < points[k] + m
        <4>1. PICK p \in Int : p = points[k]
          BY <2>6 DEF Delimited
        <4>2. x \in Covered(Piece(p, m)) <=> x \in Int /\ p <= x /\ x < p + m
          BY CoveredIs
        <4> QED  BY <4>1, <4>2
      <3> QED  BY <3>1, <3>2
    <2>13. ASSUME NEW x
           PROVE  x \in UNION pieces <=> \E k \in 1 .. len + 1 :
                                           x \in Int /\ From(points, m, k) <= x /\ x < To(points, len, n, k)
      <3>1. x \in UNION pieces <=> \E k \in 1 .. len + 1 : x \in Covered(Split[k])
        BY <2>7, <2>11
      <3> QED  BY <2>9, <3>1
    <2>14. UNION pieces = DOMAIN text \ delims
      <3>1. ASSUME NEW x PROVE x \in UNION pieces <=> x \in DOMAIN text /\ x \notin delims
        <4>1. CASE x \in Int
          <5>1. (\E k \in 1 .. len + 1 : From(points, m, k) <= x /\ x < To(points, len, n, k))
                <=> x \in 0 .. n - 1 /\ ~ \E k \in 1 .. len : points[k] <= x /\ x < points[k] + m
            BY <2>6, <4>1, PieceOrDelimiter
          <5> QED  BY <2>2, <2>12, <2>13, <4>1, <5>1
        <4>2. CASE x \notin Int
          BY <2>2, <2>13, <4>2
        <4> QED  BY <4>1, <4>2
      <3> QED  BY <3>1
    <2>15. \A k \in DOMAIN Split : Split[k].len >= 0
      BY <2>7, <2>9
    <2>16. ASSUME NEW k \in 1 .. Len(Split) - 1, Split[k].len > 0,
                  NEW l \in k + 1 .. Len(Split), Split[l].len > 0
           PROVE  Split[k].from + Split[k].len <= Split[l].from
      <3>1. k \in 1 .. len /\ l \in k + 1 .. len + 1 /\ k \in 1 .. len + 1 /\ l \in 1 .. len + 1
        BY <2>7
      <3>2. To(points, len, n, k) <= From(points, m, l)
        BY <2>6, <3>1, PiecesInOrder
      <3>3. Split[k].from + Split[k].len = To(points, len, n, k)
        BY <2>9, <2>16, <3>1
      <3>4. Split[l].from = From(points, m, l)
        BY <2>9, <3>1
      <3> QED  BY <3>2, <3>3, <3>4
    <2> QED  BY <2>8, <2>10, <2>11, <2>14, <2>15, <2>16 DEF SplitCovers
  <1> QED  BY <1>1, SearchInvariant, PTL

-----------------------------------------------------------------------------
(***************************************************************************)
(* The process title: sequences, and those of strings that are laid down   *)
(* one behind the other.                                                   *)
(***************************************************************************)

LEMMA UpToNext == \A n \in Nat : \A i \in 1 .. n + 1 : i \in 1 .. n \/ i = n + 1
  OBVIOUS

LEMMA OneByOne ==
  \A L \in Nat : /\ 0 \in 0 .. L /\ L \in 0 .. L /\ L <= L
                 /\ \A i \in 1 .. L : i \in 0 .. L /\ i - 1 \in 0 .. L
                 /\ \A i \in 0 .. L : i /= 0 => i \in 1 .. L /\ i - 1 \in 0 .. L
                 /\ \A i \in Nat : /\ i + 1 \in Nat /\ i + 1 /= 0 /\ (i + 1) - 1 = i
                                   /\ i + 1 <= L => i <= L /\ i + 1 \in 1 .. L /\ i + 1 \in 0 .. L
  OBVIOUS

LEMMA ThreeInARow ==
  \A x, y, z \in Seq(Nat) : (x \o y) \o z = x \o (y \o z)
  OBVIOUS

LEMMA IsSequence ==
  ASSUME NEW S, NEW n \in Nat, NEW f \in [1 .. n -> S]
  PROVE  f \in Seq(S) /\ Len(f) = n
  OBVIOUS

(* f[i] is what the first i of the sequences are, one behind the other.    *)
Flattens(f, seqs, n) ==
  \A i \in 1 .. n : f[i] = IF i = 1 THEN seqs[i] ELSE f[i - 1] \o seqs[i]

LEMMA FlattenExists ==
  ASSUME NEW S, NEW seqs \in Seq(Seq(S))
  PROVE  \E f \in [1 .. Len(seqs) -> Seq(S)] : Flattens(f, seqs, Len(seqs))
  <1> DEFINE Can == {n \in Nat : n <= Len(seqs) =>
                                   \E f \in [1 .. n -> Seq(S)] : Flattens(f, seqs, n)}
  <1>1. 0 \in Can
    <2>1. PICK f : f = [i \in 1 .. 0 |-> <<>>]
      OBVIOUS
    <2>2. f \in [1 .. 0 -> Seq(S)] /\ Flattens(f, seqs, 0)
      BY <2>1 DEF Flattens
    <2> QED  BY <2>2
  <1>2. ASSUME NEW n \in Nat, n \in Can PROVE n + 1 \in Can
    <2> SUFFICES ASSUME n + 1 <= Len(seqs)
                 PROVE  \E g \in [1 .. n + 1 -> Seq(S)] : Flattens(g, seqs, n + 1)
      OBVIOUS
    <2>1. PICK f \in [1 .. n -> Seq(S)] : Flattens(f, seqs, n)
      BY <1>2
    <2>2. n + 1 \in 1 .. Len(seqs) /\ seqs[n + 1] \in Seq(S)
      OBVIOUS
    <2>3. PICK last \in Seq(S) : last = IF n = 0 THEN seqs[n + 1] ELSE f[n] \o seqs[n + 1]
      <3>1. CASE n = 0
        BY <2>2, <3>1
      <3>2. CASE n /= 0
        <4>1. f[n] \in Seq(S)
          BY <3>2
        <4>2. f[n] \o seqs[n + 1] \in Seq(S)
          BY <2>2, <4>1, ConcatProperties
        <4> QED  BY <3>2, <4>2
      <3> QED  BY <3>1, <3>2
    <2>4. PICK g : g = [i \in 1 .. n + 1 |-> IF i <= n THEN f[i] ELSE last]
      OBVIOUS
    <2>5. g \in [1 .. n + 1 -> Seq(S)]
      BY <2>4
    <2>6. ASSUME NEW i \in 1 .. n + 1
          PROVE  g[i] = IF i = 1 THEN seqs[i] ELSE g[i - 1] \o seqs[i]
      <3>1. CASE i <= n
        <4>1. f[i] = IF i = 1 THEN seqs[i] ELSE f[i - 1] \o seqs[i]
          <5>1. i \in 1 .. n
            BY <3>1
          <5> QED  BY <2>1, <5>1, Zenon DEF Flattens
        <4>2. g[i] = f[i] /\ (i /= 1 => g[i - 1] = f[i - 1])
          BY <2>4, <3>1
        <4> QED  BY <4>1, <4>2
      <3>2. CASE i = n + 1
        <4>1. g[i] = last /\ (n /= 0 => g[n] = f[n]) /\ i - 1 = n /\ (i = 1 <=> n = 0)
          BY <2>4, <3>2
        <4> QED  BY <2>3, <3>2, <4>1
      <3> QED  BY <3>1, <3>2
    <2> QED  BY <2>5, <2>6 DEF Flattens
  <1>3. \A n \in Nat : n \in Can
    <2> HIDE DEF Can
    <2> QED  BY <1>1, <1>2, NatInSet
  <1> QED  BY <1>3

LEMMA FlattenIs ==
  ASSUME NEW S, NEW seqs \in Seq(Seq(S)), Len(seqs) /= 0,
         NEW f \in [1 .. Len(seqs) -> Seq(S)], Flattens(f, seqs, Len(seqs))
  PROVE  FlattenSeq(seqs) = f[Len(seqs)]
  <1> DEFINE Eq(g) == g = [i \in 1 .. Len(seqs) |-> IF i = 1 THEN seqs[i] ELSE g[i - 1] \o seqs[i]]
             h == CHOOSE g : Eq(g)
  <1>1. FlattenSeq(seqs) = h[Len(seqs)]
    BY DEF FlattenSeq
  <1>2. Eq(f)
    BY DEF Flattens
  <1>3. Eq(h)
    BY <1>2
  <1>4. \A i \in 1 .. Len(seqs) : h[i] = IF i = 1 THEN seqs[i] ELSE h[i - 1] \o seqs[i]
    <2> HIDE DEF h
    <2> QED  BY <1>3
  <1> HIDE DEF h
  <1> DEFINE Same == {n \in Nat : n + 1 <= Len(seqs) => h[n + 1] = f[n + 1]}
  <1>5. 0 \in Same
    <2> SUFFICES ASSUME 0 + 1 <= Len(seqs) PROVE h[0 + 1] = f[0 + 1]
      OBVIOUS
    <2>1. 1 \in 1 .. Len(seqs) /\ 0 + 1 = 1
      OBVIOUS
    <2>2. h[1] = seqs[1] /\ f[1] = seqs[1]
      <3> HIDE DEF Same
      <3> QED  BY <1>4, <2>1, Zenon DEF Flattens
    <2> QED  BY <2>1, <2>2
  <1>6. ASSUME NEW n \in Nat, n \in Same PROVE n + 1 \in Same
    <2> SUFFICES ASSUME (n + 1) + 1 <= Len(seqs) PROVE h[(n + 1) + 1] = f[(n + 1) + 1]
      OBVIOUS
    <2>1. (n + 1) + 1 \in 1 .. Len(seqs) /\ ((n + 1) + 1) - 1 = n + 1 /\ (n + 1) + 1 /= 1
      OBVIOUS
    <2>2. h[n + 1] = f[n + 1]
      BY <1>6
    <2>3. /\ h[(n + 1) + 1] = h[n + 1] \o seqs[(n + 1) + 1]
          /\ f[(n + 1) + 1] = f[n + 1] \o seqs[(n + 1) + 1]
      <3> HIDE DEF Same
      <3> QED  BY <1>4, <2>1 DEF Flattens
    <2> QED  BY <2>2, <2>3
  <1>7. Len(seqs) - 1 \in Same
    <2>1. \A n \in Nat : n \in Same
      <3> HIDE DEF Same
      <3> QED  BY <1>5, <1>6, NatInSet
    <2> HIDE DEF Same
    <2> QED  BY <2>1
  <1> QED  BY <1>1, <1>7

LEMMA FlattenEmpty == FlattenSeq(<<>>) = <<>>
  BY DEF FlattenSeq

LEMMA FlattenAppend ==
  ASSUME NEW S, NEW seqs \in Seq(Seq(S)), NEW s \in Seq(S)
  PROVE  /\ FlattenSeq(seqs) \in Seq(S)
         /\ FlattenSeq(Append(seqs, s)) = FlattenSeq(seqs) \o s
  <1>1. /\ Append(seqs, s) \in Seq(Seq(S))
        /\ Len(Append(seqs, s)) = Len(seqs) + 1
        /\ \A i \in 1 .. Len(seqs) : Append(seqs, s)[i] = seqs[i]
        /\ Append(seqs, s)[Len(seqs) + 1] = s
    BY AppendProperties
  <1>2. PICK t \in Seq(Seq(S)) :
           /\ t = Append(seqs, s) /\ Len(t) = Len(seqs) + 1 /\ t[Len(seqs) + 1] = s
           /\ \A i \in 1 .. Len(seqs) : t[i] = seqs[i]
    BY <1>1, Zenon
  <1>3. PICK g \in [1 .. Len(t) -> Seq(S)] : Flattens(g, t, Len(t))
    BY FlattenExists
  <1>4. PICK n \in Nat : n = Len(seqs)
    OBVIOUS
  <1>5. Len(t) /= 0 /\ Len(t) = n + 1
    BY <1>2, <1>4
  <1>6. FlattenSeq(t) = g[n + 1]
    BY <1>3, <1>5, FlattenIs, Zenon
  <1>7. \A i \in 1 .. n + 1 : /\ g[i] \in Seq(S)
                              /\ g[i] = IF i = 1 THEN t[i] ELSE g[i - 1] \o t[i]
    BY <1>3, <1>5, Zenon DEF Flattens
  <1>8. CASE n = 0
    <2>1. seqs = <<>> /\ FlattenSeq(seqs) = <<>>
      BY <1>4, <1>8, FlattenEmpty, EmptySeq
    <2>2. g[1] = s
      BY <1>2, <1>4, <1>7, <1>8
    <2>3. <<>> \o s = s /\ <<>> \in Seq(S)
      BY ConcatEmptySeq
    <2>4. n + 1 = 1
      BY <1>8
    <2>5. FlattenSeq(seqs) \in Seq(S) /\ FlattenSeq(seqs) \o s = s
      BY <2>1, <2>3, Zenon
    <2> QED  BY <1>2, <1>6, <2>2, <2>4, <2>5, Zenon
  <1>9. CASE n /= 0
    <2>1. PICK f : f = [i \in 1 .. n |-> g[i]]
      OBVIOUS
    <2>2. f \in [1 .. n -> Seq(S)]
      <3>1. \A i \in 1 .. n : i \in 1 .. n + 1
        OBVIOUS
      <3> QED  BY <1>7, <2>1, <3>1, Zenon
    <2>3. ASSUME NEW i \in 1 .. n
          PROVE  f[i] = IF i = 1 THEN seqs[i] ELSE f[i - 1] \o seqs[i]
      <3>1. i \in 1 .. n + 1 /\ (i /= 1 => i - 1 \in 1 .. n)
        OBVIOUS
      <3>2. t[i] = seqs[i]
        BY <1>2, <1>4
      <3>3. f[i] = g[i] /\ (i /= 1 => f[i - 1] = g[i - 1])
        BY <2>1, <3>1, Zenon
      <3> QED  BY <1>7, <3>1, <3>2, <3>3, Zenon
    <2>4. FlattenSeq(seqs) = f[n]
      <3>1. Flattens(f, seqs, Len(seqs))
        BY <1>4, <2>3, Zenon DEF Flattens
      <3> QED  BY <1>4, <1>9, <2>2, <3>1, FlattenIs, Zenon
    <2>5. n \in 1 .. n /\ n + 1 \in 1 .. n + 1 /\ n + 1 /= 1 /\ (n + 1) - 1 = n
      BY <1>9
    <2>6. g[n + 1] = g[n] \o s
      <3>1. g[n + 1] = g[n] \o t[n + 1]
        BY <1>7, <2>5
      <3> QED  BY <1>2, <1>4, <3>1
    <2>7. f[n] = g[n] /\ f[n] \in Seq(S)
      BY <2>1, <2>2, <2>5, Zenon
    <2> QED  BY <1>2, <1>6, <2>4, <2>6, <2>7, Zenon
  <1> QED  BY <1>8, <1>9

-----------------------------------------------------------------------------
(* Strings laid one behind the other, one more and one after another.      *)

(* A function of every element of a sequence, and of one more.             *)
Mapped(e, seq) == [i \in DOMAIN seq |-> e[seq[i]]]

LEMMA MappedType ==
  ASSUME NEW S, NEW T, NEW e, \A x \in S : e[x] \in T, NEW seq \in Seq(S)
  PROVE  Mapped(e, seq) \in Seq(T) /\ Len(Mapped(e, seq)) = Len(seq)
  <1>1. Len(seq) \in Nat /\ DOMAIN seq = 1 .. Len(seq) /\ \A i \in 1 .. Len(seq) : e[seq[i]] \in T
    BY LenProperties, ElementOfSeq
  <1> QED  BY <1>1, IsASeq, LenProperties DEF Mapped

LEMMA MappedAppend ==
  ASSUME NEW S, NEW e, NEW seq \in Seq(S), NEW s \in S
  PROVE  Mapped(e, Append(seq, s)) = Append(Mapped(e, seq), e[s])
  <1>0. PICK T : \A x \in S : e[x] \in T
    <2> \A x \in S : e[x] \in {e[y] : y \in S}
      OBVIOUS
    <2> QED  OBVIOUS
  <1>1. PICK n \in Nat : n = Len(seq) /\ DOMAIN seq = 1 .. n /\ \A i \in 1 .. n : seq[i] \in S
    BY LenProperties, ElementOfSeq
  <1>2. \A r \in Seq(S) : Mapped(e, r) \in Seq(T) /\ Len(Mapped(e, r)) = Len(r)
    <2> SUFFICES ASSUME NEW r \in Seq(S) PROVE Mapped(e, r) \in Seq(T) /\ Len(Mapped(e, r)) = Len(r)
      OBVIOUS
    <2>1. Len(r) \in Nat /\ DOMAIN r = 1 .. Len(r) /\ \A i \in 1 .. Len(r) : e[r[i]] \in T
      BY <1>0, LenProperties, ElementOfSeq
    <2> QED  BY <2>1, IsASeq, LenProperties DEF Mapped
  <1>3. PICK t \in Seq(S) :
           /\ t = Append(seq, s) /\ Len(t) = n + 1 /\ t[n + 1] = s
           /\ \A i \in 1 .. n : t[i] = seq[i]
    <2>1. /\ Append(seq, s) \in Seq(S) /\ Len(Append(seq, s)) = n + 1
          /\ Append(seq, s)[n + 1] = s
          /\ \A i \in 1 .. n : Append(seq, s)[i] = seq[i]
      BY <1>1, AppendProperties
    <2> QED  BY <2>1, Zenon
  <1>4. PICK d \in Seq(T) : d = Mapped(e, seq) /\ Len(d) = n
    BY <1>1, <1>2
  <1>5. PICK u \in Seq(T) :
           /\ u = Append(d, e[s]) /\ Len(u) = n + 1 /\ u[n + 1] = e[s]
           /\ \A i \in 1 .. n : u[i] = d[i]
    <2>1. /\ Append(d, e[s]) \in Seq(T) /\ Len(Append(d, e[s])) = n + 1
          /\ Append(d, e[s])[n + 1] = e[s]
          /\ \A i \in 1 .. n : Append(d, e[s])[i] = d[i]
      BY <1>0, <1>4, AppendProperties
    <2> QED  BY <2>1, Zenon
  <1>6. ASSUME NEW i \in 1 .. n + 1 PROVE Mapped(e, t)[i] = u[i]
    <2>1. DOMAIN t = 1 .. n + 1
      BY <1>3, LenProperties
    <2>2. Mapped(e, t)[i] = e[t[i]]
      BY <2>1 DEF Mapped
    <2>3. CASE i \in 1 .. n
      <3>1. Mapped(e, seq)[i] = e[seq[i]]
        BY <1>1, <2>3 DEF Mapped
      <3> QED  BY <1>3, <1>4, <1>5, <2>2, <2>3, <3>1, Zenon
    <2>4. CASE i = n + 1
      BY <1>3, <1>5, <2>2, <2>4, Zenon
    <2> QED  BY <2>3, <2>4, UpToNext, Zenon
  <1>7. Mapped(e, t) = u
    <2>1. Mapped(e, t) \in Seq(T) /\ Len(Mapped(e, t)) = n + 1
      BY <1>2, <1>3
    <2> QED  BY <1>5, <1>6, <2>1, SeqEqual
  <1> QED  BY <1>2, <1>3, <1>4, <1>5, <1>7, Zenon

(* As smp_strcpyn is given them: with their end.                           *)
Ended == [s \in Seq(Nat) |-> Append(s, NUL)]

LEMMA LaidIs ==
  ASSUME NEW strs \in Seq(Seq(Nat))
  PROVE  /\ Laid(strs) = FlattenSeq(Mapped(Ended, strs))
         /\ Ended \in [Seq(Nat) -> Seq(Nat)]
  <1>1. NUL \in Nat
    BY DEF NUL
  <1>2. \A s \in Seq(Nat) : Append(s, NUL) \in Seq(Nat)
    BY <1>1, AppendProperties
  <1>3. Ended \in [Seq(Nat) -> Seq(Nat)]
    BY <1>2 DEF Ended
  <1>4. \A i \in DOMAIN strs : strs[i] \in Seq(Nat)
    BY ElementOfSeq, LenProperties
  <1>5. Mapped(Ended, strs) = [i \in DOMAIN strs |-> Append(strs[i], NUL)]
    BY <1>4, Zenon DEF Mapped, Ended
  <1> QED  BY <1>3, <1>5 DEF Laid

LEMMA LaidEmpty == Laid(<<>>) = <<>>
  <1>1. [i \in DOMAIN <<>> |-> Append(<<>>[i], NUL)] = <<>>
    OBVIOUS
  <1> QED  BY <1>1, FlattenEmpty DEF Laid

LEMMA LaidAppend ==
  ASSUME NEW strs \in Seq(Seq(Nat)), NEW s \in Seq(Nat)
  PROVE  /\ Laid(strs) \in Seq(Nat)
         /\ Append(s, NUL) \in Seq(Nat)
         /\ Laid(Append(strs, s)) = Laid(strs) \o Append(s, NUL)
  <1>1. /\ Laid(strs) = FlattenSeq(Mapped(Ended, strs))
        /\ Ended \in [Seq(Nat) -> Seq(Nat)] /\ Ended[s] = Append(s, NUL)
    BY LaidIs DEF Ended
  <1>2. Append(strs, s) \in Seq(Seq(Nat)) /\ Ended[s] \in Seq(Nat)
    BY <1>1, AppendProperties
  <1>3. Laid(Append(strs, s)) = FlattenSeq(Mapped(Ended, Append(strs, s)))
    BY <1>2, LaidIs, Zenon
  <1>4. /\ Mapped(Ended, strs) \in Seq(Seq(Nat))
        /\ Mapped(Ended, Append(strs, s)) = Append(Mapped(Ended, strs), Ended[s])
    <2>1. PICK e \in [Seq(Nat) -> Seq(Nat)] : e = Ended
      BY <1>1
    <2>2. /\ Mapped(e, strs) \in Seq(Seq(Nat))
          /\ Mapped(e, Append(strs, s)) = Append(Mapped(e, strs), e[s])
      <3>1. \A x \in Seq(Nat) : e[x] \in Seq(Nat)
        OBVIOUS
      <3>2. Mapped(e, strs) \in Seq(Seq(Nat))
        BY <3>1, MappedType
      <3>3. Mapped(e, Append(strs, s)) = Append(Mapped(e, strs), e[s])
        BY MappedAppend
      <3> QED  BY <3>2, <3>3
    <2> QED  BY <2>1, <2>2, Zenon
  <1>5. /\ FlattenSeq(Mapped(Ended, strs)) \in Seq(Nat)
        /\ FlattenSeq(Append(Mapped(Ended, strs), Ended[s])) = FlattenSeq(Mapped(Ended, strs)) \o Ended[s]
    BY <1>2, <1>4, FlattenAppend, Zenon
  <1> QED  BY <1>1, <1>2, <1>3, <1>4, <1>5, Zenon

LEMMA LaidConcat ==
  ASSUME NEW a \in Seq(Seq(Nat)), NEW b \in Seq(Seq(Nat))
  PROVE  /\ a \o b \in Seq(Seq(Nat))
         /\ Laid(a \o b) = Laid(a) \o Laid(b)
  <1> PICK n \in Nat : n = Len(b)
    BY LenProperties
  <1> DEFINE Part(m) == SubSeq(b, 1, m)
             Can == {m \in Nat : m <= n => Laid(a \o Part(m)) = Laid(a) \o Laid(Part(m))}
  <1>0. a \o b \in Seq(Seq(Nat)) /\ Laid(a) \in Seq(Nat) /\ <<>> \in Seq(Nat)
    BY ConcatProperties, LaidAppend
  <1>1. 0 \in Can
    <2>1. Part(0) = <<>>
      BY SubSeqEmpty
    <2>2. a \o <<>> = a /\ Laid(a) \o <<>> = Laid(a)
      BY <1>0, ConcatEmptySeq
    <2> QED  BY <2>1, <2>2, LaidEmpty
  <1>2. ASSUME NEW m \in Nat, m \in Can PROVE m + 1 \in Can
    <2> SUFFICES ASSUME m + 1 <= n
                 PROVE  Laid(a \o Part(m + 1)) = Laid(a) \o Laid(Part(m + 1))
      OBVIOUS
    <2>1. m + 1 \in 1 .. n /\ b[m + 1] \in Seq(Nat) /\ m <= n
      BY ElementOfSeq
    <2>2. PICK p \in Seq(Seq(Nat)) : p = Part(m) /\ Part(m + 1) = Append(p, b[m + 1])
      <3>1. \A i \in 1 .. m : b[i] \in Seq(Nat)
        BY <2>1, ElementOfSeq
      <3>2. Part(m) \in Seq(Seq(Nat))
        BY <3>1, SubSeqProperties
      <3>3. Part(m + 1) = Append(Part(m), b[m + 1])
        BY <2>1
      <3> QED  BY <3>2, <3>3
    <2>3. a \o Append(p, b[m + 1]) = Append(a \o p, b[m + 1]) /\ a \o p \in Seq(Seq(Nat))
      OBVIOUS
    <2>4. Laid(a \o p) = Laid(a) \o Laid(p)
      <3> HIDE DEF Part
      <3> QED  BY <1>2, <2>1, <2>2
    <2> HIDE DEF Part, Can
    <2>5. Laid(Append(a \o p, b[m + 1])) = Laid(a \o p) \o Append(b[m + 1], NUL)
      BY <2>1, <2>3, LaidAppend
    <2>6. /\ Laid(Append(p, b[m + 1])) = Laid(p) \o Append(b[m + 1], NUL)
          /\ Laid(p) \in Seq(Nat) /\ Append(b[m + 1], NUL) \in Seq(Nat)
      BY <2>1, LaidAppend
    <2>7. (Laid(a) \o Laid(p)) \o Append(b[m + 1], NUL) = Laid(a) \o (Laid(p) \o Append(b[m + 1], NUL))
      <3>1. PICK x \in Seq(Nat), y \in Seq(Nat), z \in Seq(Nat) :
               x = Laid(a) /\ y = Laid(p) /\ z = Append(b[m + 1], NUL)
        BY <1>0, <2>6, Zenon
      <3>2. (x \o y) \o z = x \o (y \o z)
        BY ThreeInARow, Zenon
      <3> QED  BY <3>1, <3>2, Zenon
    <2> QED  BY <2>2, <2>3, <2>4, <2>5, <2>6, <2>7, Zenon
  <1>3. n \in Can
    <2>1. \A m \in Nat : m \in Can
      <3> HIDE DEF Can
      <3> QED  BY <1>1, <1>2, NatInSet
    <2> HIDE DEF Can
    <2> QED  BY <2>1
  <1>4. Part(n) = b
    BY SubSeqFull
  <1>5. Laid(a \o Part(n)) = Laid(a) \o Laid(Part(n))
    <2>1. n <= n
      OBVIOUS
    <2> HIDE DEF Part
    <2> QED  BY <1>3, <2>1
  <1> HIDE DEF Part
  <1> QED  BY <1>0, <1>4, <1>5, Zenon

-----------------------------------------------------------------------------
(* s is in the memory m from byte n on.                                    *)
Holds(m, n, s) == /\ n + Len(s) - 1 <= Len(m)
                  /\ \A k \in 1 .. Len(s) : m[n + k - 1] = s[k]

LEMMA HoldsParts ==
  ASSUME NEW m, Len(m) \in Nat, NEW n \in Nat, NEW s \in Seq(Nat), NEW t \in Seq(Nat)
  PROVE  Holds(m, n, s \o t) <=> Holds(m, n, s) /\ Holds(m, n + Len(s), t)
  <1>1. PICK a \in Nat, b \in Nat : a = Len(s) /\ b = Len(t)
    BY LenProperties
  <1>2. /\ Len(s \o t) = a + b
        /\ \A i \in 1 .. a + b : (s \o t)[i] = IF i <= a THEN s[i] ELSE t[i - a]
    BY <1>1, ConcatProperties
  <1>3. ASSUME Holds(m, n, s \o t) PROVE Holds(m, n, s) /\ Holds(m, n + a, t)
    <2>1. n + (a + b) - 1 <= Len(m)
      BY <1>2, <1>3 DEF Holds
    <2>2. ASSUME NEW k \in 1 .. a PROVE m[n + k - 1] = s[k]
      <3>1. k \in 1 .. a + b /\ k <= a
        OBVIOUS
      <3> QED  BY <1>2, <1>3, <3>1, Zenon DEF Holds
    <2>3. ASSUME NEW k \in 1 .. b PROVE m[(n + a) + k - 1] = t[k]
      <3>1. a + k \in 1 .. a + b /\ ~(a + k <= a) /\ (a + k) - a = k /\ n + (a + k) - 1 = (n + a) + k - 1
        OBVIOUS
      <3>2. m[n + (a + k) - 1] = (s \o t)[a + k]
        BY <1>2, <1>3, <3>1, Zenon DEF Holds
      <3> QED  BY <1>2, <3>1, <3>2, Zenon
    <2>4. n + a - 1 <= Len(m) /\ (n + a) + b - 1 <= Len(m)
      BY <2>1
    <2> QED  BY <1>1, <2>2, <2>3, <2>4, Zenon DEF Holds
  <1>4. ASSUME Holds(m, n, s), Holds(m, n + a, t) PROVE Holds(m, n, s \o t)
    <2>1. n + (a + b) - 1 <= Len(m)
      <3>1. (n + a) + b - 1 <= Len(m)
        BY <1>1, <1>4 DEF Holds
      <3> QED  BY <3>1
    <2>2. ASSUME NEW k \in 1 .. a + b PROVE m[n + k - 1] = (s \o t)[k]
      <3>1. CASE k <= a
        <4>1. k \in 1 .. a
          BY <3>1
        <4> QED  BY <1>1, <1>2, <1>4, <3>1, <4>1, Zenon DEF Holds
      <3>2. CASE ~(k <= a)
        <4>1. k - a \in 1 .. b /\ (n + a) + (k - a) - 1 = n + k - 1
          BY <3>2
        <4>2. m[(n + a) + (k - a) - 1] = t[k - a]
          BY <1>1, <1>4, <4>1, Zenon DEF Holds
        <4> QED  BY <1>2, <3>2, <4>1, <4>2, Zenon
      <3> QED  BY <3>1, <3>2
    <2> QED  BY <1>2, <2>1, <2>2, Zenon DEF Holds
  <1> QED  BY <1>1, <1>3, <1>4, Zenon

LEMMA LaidOne ==
  ASSUME NEW s \in Seq(Nat)
  PROVE  <<s>> \in Seq(Seq(Nat)) /\ Laid(<<s>>) = Append(s, NUL)
  <1>1. <<>> \in Seq(Seq(Nat)) /\ Append(<<>>, s) = <<s>> /\ <<s>> \in Seq(Seq(Nat))
    OBVIOUS
  <1>2. /\ Laid(Append(<<>>, s)) = Laid(<<>>) \o Append(s, NUL)
        /\ Append(s, NUL) \in Seq(Nat)
    BY <1>1, LaidAppend
  <1>3. PICK e \in Seq(Nat) : e = Append(s, NUL)
    BY <1>2, Zenon
  <1>4. <<>> \o e = e
    BY ConcatEmptySeq
  <1> QED  BY <1>1, <1>2, <1>3, <1>4, LaidEmpty, Zenon

(* The strings before the i-th, that one, and those after it.              *)
LEMMA LaidSplit ==
  ASSUME NEW strs \in Seq(Seq(Nat)), NEW i \in 1 .. Len(strs)
  PROVE  /\ SubSeq(strs, 1, i - 1) \in Seq(Seq(Nat)) /\ SubSeq(strs, i + 1, Len(strs)) \in Seq(Seq(Nat))
         /\ strs[i] \in Seq(Nat)
         /\ Laid(SubSeq(strs, 1, i)) = Laid(SubSeq(strs, 1, i - 1)) \o Append(strs[i], NUL)
         /\ Laid(strs) = Laid(SubSeq(strs, 1, i)) \o Laid(SubSeq(strs, i + 1, Len(strs)))
         /\ SubSeq(strs, 1, i) \in Seq(Seq(Nat))
  <1> PICK n \in Nat : n = Len(strs)
    BY LenProperties
  <1>1. \A k \in 1 .. n : strs[k] \in Seq(Nat)
    BY ElementOfSeq
  <1>2. PICK a \in Seq(Seq(Nat)) : a = SubSeq(strs, 1, i - 1)
    <2>1. i - 1 \in Int /\ 1 \in Int /\ \A k \in 1 .. i - 1 : strs[k] \in Seq(Nat)
      BY <1>1
    <2>2. SubSeq(strs, 1, i - 1) \in Seq(Seq(Nat))
      BY <2>1, SubSeqProperties, Zenon
    <2> QED  BY <2>2, Zenon
  <1>3. PICK b \in Seq(Seq(Nat)) : b = SubSeq(strs, i + 1, n)
    <2>1. i + 1 \in Int /\ n \in Int /\ \A k \in i + 1 .. n : strs[k] \in Seq(Nat)
      BY <1>1
    <2>2. SubSeq(strs, i + 1, n) \in Seq(Seq(Nat))
      BY <2>1, SubSeqProperties, Zenon
    <2> QED  BY <2>2, Zenon
  <1>4. PICK s \in Seq(Nat) : s = strs[i]
    BY <1>1
  <1>5. SubSeq(strs, 1, i) = Append(a, s)
    BY <1>2, <1>4
  <1>6. PICK c \in Seq(Seq(Nat)) : c = Append(a, s)
    BY AppendProperties
  <1>7. strs = c \o b
    <2>1. strs = SubSeq(strs, 1, i) \o SubSeq(strs, i + 1, n)
      OBVIOUS
    <2> QED  BY <1>3, <1>5, <1>6, <2>1, Zenon
  <1>8. Laid(c) = Laid(a) \o Append(s, NUL)
    BY <1>6, LaidAppend
  <1>9. Laid(c \o b) = Laid(c) \o Laid(b)
    BY LaidConcat
  <1> QED  BY <1>2, <1>3, <1>4, <1>5, <1>6, <1>7, <1>8, <1>9, Zenon

Chars == Nat \ {NUL}

LEMMA CharsAreBytes ==
  /\ NUL \in Nat
  /\ \A s \in Seq(Chars) : s \in Seq(Nat)
  /\ \A strs \in Seq(Seq(Chars)) : strs \in Seq(Seq(Nat))
  <1>1. NUL \in Nat
    BY DEF NUL
  <1>2. ASSUME NEW s \in Seq(Chars) PROVE s \in Seq(Nat)
    <2>1. Chars \subseteq Nat
      BY DEF Chars
    <2> QED  BY <2>1, SeqMonotonic
  <1>3. ASSUME NEW strs \in Seq(Seq(Chars)) PROVE strs \in Seq(Seq(Nat))
    <2>1. Seq(Chars) \subseteq Seq(Nat)
      BY <1>2
    <2> QED  BY <2>1, SeqMonotonic
  <1> QED  BY <1>1, <1>2, <1>3

(* A string in memory is read to its end.                                  *)
LEMMA StringRead ==
  ASSUME memory \in Seq(Nat), NEW p \in Nat \ {0}, NEW s \in Seq(Chars),
         Holds(memory, p, Append(s, NUL))
  PROVE  StringAt(<<"in", p>>) = s
  <1> DEFINE End(e) == memory[e] = NUL /\ \A k \in p .. e - 1 : memory[k] /= NUL
  <1>1. PICK n \in Nat : n = Len(s)
    BY LenProperties
  <1>2. PICK N \in Nat : N = Len(memory)
    BY LenProperties
  <1>3. s \in Seq(Nat) /\ NUL \in Nat
    BY CharsAreBytes
  <1>4. /\ Len(Append(s, NUL)) = n + 1 /\ Append(s, NUL)[n + 1] = NUL
        /\ \A k \in 1 .. n : Append(s, NUL)[k] = s[k]
    BY <1>1, <1>3, AppendProperties
  <1>5. p + n <= N /\ memory[p + n] = NUL
    <2>1. p + (n + 1) - 1 <= N /\ memory[p + (n + 1) - 1] = NUL
      <3>1. n + 1 \in 1 .. n + 1
        OBVIOUS
      <3> QED  BY <1>2, <1>4, <3>1, Zenon DEF Holds
    <2>2. p + (n + 1) - 1 = p + n
      OBVIOUS
    <2> QED  BY <2>1, <2>2, Zenon
  <1>6. \A k \in 1 .. n : memory[p + k - 1] = s[k]
    <2>1. \A k \in 1 .. n : k \in 1 .. n + 1
      OBVIOUS
    <2> QED  BY <1>4, <2>1, Zenon DEF Holds
  <1>7. \A k \in 1 .. n : s[k] \in Nat /\ s[k] /= NUL
    BY <1>1, ElementOfSeq DEF Chars
  <1>8. \A k \in p .. (p + n) - 1 : memory[k] /= NUL
    <2> SUFFICES ASSUME NEW k \in p .. (p + n) - 1 PROVE memory[k] /= NUL
      OBVIOUS
    <2>1. k - p + 1 \in 1 .. n /\ p + (k - p + 1) - 1 = k
      OBVIOUS
    <2> QED  BY <1>6, <1>7, <2>1, Zenon
  <1>9. p + n \in p .. N /\ End(p + n)
    BY <1>5, <1>8
  <1>10. ASSUME NEW e \in p .. N, End(e) PROVE e = p + n
    <2>1. ~(e < p + n)
      BY <1>8, <1>10
    <2>2. ~(p + n < e)
      <3> SUFFICES ASSUME p + n < e PROVE FALSE
        OBVIOUS
      <3>1. p + n \in p .. e - 1
        OBVIOUS
      <3> QED  BY <1>5, <1>10, <3>1
    <2> QED  BY <2>1, <2>2
  <1>11. StringAt(<<"in", p>>) = SubSeq(memory, p, (p + n) - 1)
    <2>1. (CHOOSE e \in p .. N : End(e)) = p + n
      <3> HIDE DEF End
      <3> QED  BY <1>9, <1>10
    <2>2. <<"in", p>>[1] = "in" /\ <<"in", p>>[2] = p
      OBVIOUS
    <2> QED  BY <1>2, <2>1, <2>2, Zenon DEF StringAt
  <1>12. /\ SubSeq(memory, p, (p + n) - 1) \in Seq(Nat)
         /\ Len(SubSeq(memory, p, (p + n) - 1)) = n
         /\ \A k \in 1 .. n : SubSeq(memory, p, (p + n) - 1)[k] = s[k]
    <2>1. \A k \in p .. (p + n) - 1 : memory[k] \in Nat
      BY <1>2, <1>5, ElementOfSeq
    <2>2. /\ SubSeq(memory, p, (p + n) - 1) \in Seq(Nat)
          /\ Len(SubSeq(memory, p, (p + n) - 1))
              = IF p <= (p + n) - 1 THEN ((p + n) - 1) - p + 1 ELSE 0
          /\ \A k \in 1 .. ((p + n) - 1) - p + 1 : SubSeq(memory, p, (p + n) - 1)[k] = memory[p + k - 1]
      BY <2>1, SubSeqProperties
    <2>3. ((p + n) - 1) - p + 1 = n /\ (~(p <= (p + n) - 1) => n = 0)
      OBVIOUS
    <2> QED  BY <1>6, <2>2, <2>3
  <1> QED  BY <1>1, <1>3, <1>11, <1>12, SeqEqual

(* Strings in a memory are each at their place.                            *)
LEMMA PlacesHold ==
  ASSUME NEW m \in Seq(Nat), NEW n \in Nat \ {0}, NEW strs \in Seq(Seq(Nat)),
         Holds(m, n, Laid(strs))
  PROVE  /\ DOMAIN Places(n, strs) = 1 .. Len(strs)
         /\ \A i \in 1 .. Len(strs) :
              LET p == n + Len(Laid(SubSeq(strs, 1, i - 1)))
              IN /\ Places(n, strs)[i] = <<"in", p>>
                 /\ p \in Nat \ {0} /\ p + Len(strs[i]) <= Len(m)
                 /\ Holds(m, p, Append(strs[i], NUL))
  <1>1. PICK L \in Nat : L = Len(strs) /\ DOMAIN strs = 1 .. L
    BY LenProperties
  <1>2. DOMAIN Places(n, strs) = 1 .. L
    BY <1>1 DEF Places
  <1> SUFFICES ASSUME NEW i \in 1 .. L
               PROVE  LET p == n + Len(Laid(SubSeq(strs, 1, i - 1)))
                      IN /\ Places(n, strs)[i] = <<"in", p>>
                         /\ p \in Nat \ {0} /\ p + Len(strs[i]) <= Len(m)
                         /\ Holds(m, p, Append(strs[i], NUL))
    BY <1>1, <1>2
  <1> DEFINE pre == SubSeq(strs, 1, i - 1)
             upto == SubSeq(strs, 1, i)
             post == SubSeq(strs, i + 1, Len(strs))
  <1>3. strs[i] \in Seq(Nat) /\ NUL \in Nat
    BY <1>1, CharsAreBytes, ElementOfSeq
  <1>4. /\ pre \in Seq(Seq(Nat)) /\ post \in Seq(Seq(Nat)) /\ upto \in Seq(Seq(Nat))
        /\ Laid(upto) = Laid(pre) \o Append(strs[i], NUL)
        /\ Laid(strs) = Laid(upto) \o Laid(post)
    BY <1>1, LaidSplit
  <1> HIDE DEF pre, upto, post
  <1>5. /\ Laid(pre) \in Seq(Nat) /\ Laid(upto) \in Seq(Nat) /\ Laid(post) \in Seq(Nat)
        /\ Append(strs[i], NUL) \in Seq(Nat)
    BY <1>3, <1>4, LaidAppend
  <1>6. PICK p \in Nat : p = n + Len(Laid(pre))
    <2>1. Len(Laid(pre)) \in Nat
      BY <1>5, LenProperties
    <2> QED  BY <2>1
  <1>7. Len(m) \in Nat
    BY LenProperties
  <1> PICK x \in Seq(Nat), y \in Seq(Nat), u \in Seq(Nat), z \in Seq(Nat) :
         /\ x = Laid(pre) /\ y = Append(strs[i], NUL) /\ u = Laid(upto) /\ z = Laid(post)
         /\ u = x \o y /\ Laid(strs) = u \o z
    BY <1>4, <1>5, Zenon
  <1>8. Holds(m, n, u)
    <2>1. Holds(m, n, u \o z) <=> Holds(m, n, u) /\ Holds(m, n + Len(u), z)
      BY <1>7, HoldsParts
    <2> QED  BY <2>1, Zenon
  <1>9. Holds(m, p, Append(strs[i], NUL))
    <2>1. Holds(m, n, x \o y) <=> Holds(m, n, x) /\ Holds(m, n + Len(x), y)
      BY <1>7, HoldsParts
    <2> QED  BY <1>6, <1>8, <2>1, Zenon
  <1>10. p \in Nat \ {0}
    <2>1. Len(Laid(pre)) \in Nat
      BY <1>5, LenProperties
    <2> QED  BY <1>6, <2>1
  <1>11. p + Len(strs[i]) <= Len(m)
    <2>1. Len(Append(strs[i], NUL)) = Len(strs[i]) + 1 /\ Len(strs[i]) \in Nat
      BY <1>3, AppendProperties, LenProperties
    <2>2. p + Len(Append(strs[i], NUL)) - 1 <= Len(m)
      BY <1>9 DEF Holds
    <2> QED  BY <1>7, <2>1, <2>2
  <1>12. Places(n, strs)[i] = <<"in", p>>
    BY <1>1, <1>6 DEF Places, pre
  <1> QED  BY <1>6, <1>9, <1>10, <1>11, <1>12 DEF pre

(* And are read there.                                                     *)
LEMMA PlacesRead ==
  ASSUME memory \in Seq(Nat), NEW n \in Nat \ {0}, NEW strs \in Seq(Seq(Chars)),
         Holds(memory, n, Laid(strs))
  PROVE  /\ DOMAIN Places(n, strs) = 1 .. Len(strs)
         /\ \A i \in 1 .. Len(strs) :
              LET p == n + Len(Laid(SubSeq(strs, 1, i - 1)))
              IN /\ Places(n, strs)[i] = <<"in", p>>
                 /\ StringAt(<<"in", p>>) = strs[i]
  <1>1. strs \in Seq(Seq(Nat)) /\ \A i \in 1 .. Len(strs) : strs[i] \in Seq(Chars)
    BY CharsAreBytes, ElementOfSeq
  <1>2. DOMAIN Places(n, strs) = 1 .. Len(strs)
    BY <1>1, PlacesHold
  <1>3. ASSUME NEW i \in 1 .. Len(strs)
        PROVE  LET p == n + Len(Laid(SubSeq(strs, 1, i - 1)))
               IN /\ Places(n, strs)[i] = <<"in", p>>
                  /\ StringAt(<<"in", p>>) = strs[i]
    <2>1. PICK p \in Nat \ {0} : /\ p = n + Len(Laid(SubSeq(strs, 1, i - 1)))
                                 /\ Places(n, strs)[i] = <<"in", p>>
                                 /\ Holds(memory, p, Append(strs[i], NUL))
      BY <1>1, PlacesHold
    <2>2. StringAt(<<"in", p>>) = strs[i]
      BY <1>1, <2>1, StringRead
    <2> QED  BY <2>1, <2>2, Zenon
  <1> QED  BY <1>2, <1>3, Zenon

(* The value of the loops of smp_init_set_proc_title.                      *)
LEMMA EndFromIs ==
  ASSUME NEW n, NEW as, Len(as) \in Nat, NEW met, met[0] = n,
         \A i \in 1 .. Len(as) :
           met[i] = IF as[i] = <<"in", met[i - 1]>> THEN met[i - 1] + Len(StringAt(as[i])) + 1
                    ELSE met[i - 1]
  PROVE  EndFrom(n, as) = met[Len(as)]
  <1> DEFINE Met(f, i) == IF i = 0 THEN n
                         ELSE IF as[i] = <<"in", f[i - 1]>> THEN f[i - 1] + Len(StringAt(as[i])) + 1
                         ELSE f[i - 1]
             Eq(f) == f = [i \in 0 .. Len(as) |-> Met(f, i)]
             h == CHOOSE f : Eq(f)
  <1>1. EndFrom(n, as) = h[Len(as)]
    BY DEF EndFrom
  <1>2. PICK f : f = [i \in 0 .. Len(as) |-> met[i]]
    OBVIOUS
  <1>3. Eq(f)
    <2> SUFFICES ASSUME NEW i \in 0 .. Len(as) PROVE met[i] = Met(f, i)
      BY <1>2
    <2>1. CASE i = 0
      BY <2>1
    <2>2. CASE i /= 0
      <3>1. i \in 1 .. Len(as) /\ i - 1 \in 0 .. Len(as)
        BY <2>2, OneByOne, Zenon
      <3>2. f[i - 1] = met[i - 1]
        BY <1>2, <3>1, Zenon
      <3> QED  BY <2>2, <3>1, <3>2, Zenon
    <2> QED  BY <2>1, <2>2
  <1>4. Eq(h)
    <2> HIDE DEF Eq
    <2> QED  BY <1>3
  <1> HIDE DEF h
  <1>5. \A i \in 0 .. Len(as) : h[i] = Met(h, i)
    <2> HIDE DEF Met
    <2> QED  BY <1>4
  <1>zero. h[0] = n
    <2>1. 0 \in 0 .. Len(as) /\ Met(h, 0) = n
      BY OneByOne, Zenon
    <2> HIDE DEF Met
    <2> QED  BY <1>5, <2>1
  <1>next. ASSUME NEW i \in Nat, i + 1 <= Len(as), h[i] = met[i] PROVE h[i + 1] = met[i + 1]
    <2>1. i + 1 \in 1 .. Len(as) /\ i + 1 \in 0 .. Len(as) /\ i + 1 /= 0 /\ (i + 1) - 1 = i
      BY <1>next, OneByOne, Zenon
    <2>2. Met(h, i + 1) = IF as[i + 1] = <<"in", h[i]>> THEN h[i] + Len(StringAt(as[i + 1])) + 1
                         ELSE h[i]
      BY <2>1, Zenon
    <2> HIDE DEF Met
    <2>3. h[i + 1] = Met(h, i + 1)
      BY <1>5, <2>1, Zenon
    <2>4. met[i + 1] = IF as[i + 1] = <<"in", met[i]>> THEN met[i] + Len(StringAt(as[i + 1])) + 1
                       ELSE met[i]
      BY <2>1, Zenon
    <2> QED  BY <1>next, <2>2, <2>3, <2>4, Zenon
  <1> HIDE DEF Met, Eq
  <1> DEFINE Same == {i \in Nat : i <= Len(as) => h[i] = met[i]}
  <1>6. 0 \in Same
    BY <1>zero
  <1>7. ASSUME NEW i \in Nat, i \in Same PROVE i + 1 \in Same
    <2>1. i + 1 \in Nat /\ (i + 1 <= Len(as) => i <= Len(as))
      BY OneByOne, Zenon
    <2> QED  BY <1>7, <1>next, <2>1
  <1>8. Len(as) \in Same
    <2>1. \A i \in Nat : i \in Same
      <3> HIDE DEF Same
      <3> QED  BY <1>6, <1>7, NatInSet
    <2> HIDE DEF Same
    <2> QED  BY <2>1
  <1>9. Len(as) <= Len(as)
    BY OneByOne, Zenon
  <1> QED  BY <1>1, <1>8, <1>9

LEMMA EndFromPlaces ==
  ASSUME memory \in Seq(Nat), NEW n \in Nat \ {0}, NEW strs \in Seq(Seq(Chars)),
         Holds(memory, n, Laid(strs))
  PROVE  EndFrom(n, Places(n, strs)) = n + Len(Laid(strs))
  <1>1. PICK L \in Nat : L = Len(strs)
    BY LenProperties
  <1>2. strs \in Seq(Seq(Nat))
    BY CharsAreBytes
  <1> DEFINE Upto(i) == SubSeq(strs, 1, i)
             as == Places(n, strs)
  <1>3. PICK met : met = [i \in 0 .. L |-> n + Len(Laid(Upto(i)))]
    OBVIOUS
  <1>4. \A i \in 0 .. L : met[i] = n + Len(Laid(Upto(i)))
    BY <1>3, Zenon
  <1>5. met[0] = n
    <2>1. Upto(0) = <<>> /\ Len(<<>>) = 0
      BY SubSeqEmpty
    <2>2. n + 0 = n
      OBVIOUS
    <2>3. met[0] = n + Len(Laid(Upto(0)))
      BY <1>4, OneByOne, Zenon
    <2>4. Laid(Upto(0)) = <<>>
      BY <2>1, LaidEmpty, Zenon
    <2> HIDE DEF Upto
    <2> QED  BY <2>1, <2>2, <2>3, <2>4
  <1>6. DOMAIN as = 1 .. L
    BY <1>1, PlacesRead
  <1>7. Len(as) = L
    <2>1. as = [i \in 1 .. L |-> as[i]]
      BY <1>6 DEF Places
    <2> QED
      <3> HIDE DEF as
      <3> QED  BY <2>1
  <1>8. ASSUME NEW i \in 1 .. L
        PROVE  met[i] = IF as[i] = <<"in", met[i - 1]>> THEN met[i - 1] + Len(StringAt(as[i])) + 1
                        ELSE met[i - 1]
    <2>1. i \in 0 .. L /\ i - 1 \in 0 .. L
      OBVIOUS
    <2>2. met[i - 1] = n + Len(Laid(Upto(i - 1)))
      BY <1>4, <2>1, Zenon
    <2>3. as[i] = <<"in", met[i - 1]>> /\ StringAt(as[i]) = strs[i]
      <3>1. /\ as[i] = <<"in", n + Len(Laid(Upto(i - 1)))>>
            /\ StringAt(<<"in", n + Len(Laid(Upto(i - 1)))>>) = strs[i]
        BY <1>1, PlacesRead
      <3> HIDE DEF as, Upto
      <3> QED  BY <2>2, <3>1, Zenon
    <2>4. /\ Laid(Upto(i)) = Laid(Upto(i - 1)) \o Append(strs[i], NUL)
          /\ Upto(i - 1) \in Seq(Seq(Nat)) /\ strs[i] \in Seq(Nat)
      BY <1>1, <1>2, LaidSplit
    <2> HIDE DEF Upto, as
    <2>5. PICK x \in Seq(Nat) : x = Laid(Upto(i - 1)) /\ Append(strs[i], NUL) \in Seq(Nat)
      BY <2>4, LaidAppend
    <2>6. PICK a \in Nat, b \in Nat : a = Len(x) /\ b = Len(strs[i])
      BY <2>4, LenProperties
    <2>7. Len(x \o Append(strs[i], NUL)) = a + (b + 1)
      <3>1. Len(Append(strs[i], NUL)) = b + 1
        BY <2>4, <2>6, CharsAreBytes, AppendProperties
      <3> QED  BY <2>5, <2>6, <3>1, ConcatProperties
    <2>8. met[i] = n + (a + (b + 1)) /\ met[i - 1] = n + a
      BY <1>4, <2>1, <2>2, <2>4, <2>5, <2>6, <2>7, Zenon
    <2>9. n + (a + (b + 1)) = (n + a) + b + 1
      OBVIOUS
    <2> QED  BY <2>3, <2>6, <2>8, <2>9, Zenon
  <1>9. met[L] = n + Len(Laid(strs))
    <2>1. Upto(L) = strs
      BY <1>1, SubSeqFull
    <2> HIDE DEF Upto
    <2> QED  BY <1>4, <2>1, OneByOne, Zenon
  <1> HIDE DEF as
  <1>10. EndFrom(n, as) = met[Len(as)]
    BY <1>5, <1>7, <1>8, EndFromIs, Zenon
  <1> QED  BY <1>7, <1>9, <1>10 DEF as

(* Strings that are elsewhere are passed over.                             *)
LEMMA EndFromElsewhere ==
  ASSUME NEW n, NEW as, Len(as) \in Nat, \A i \in 1 .. Len(as) : as[i][1] /= "in"
  PROVE  EndFrom(n, as) = n
  <1>1. PICK met : met = [i \in 0 .. Len(as) |-> n]
    OBVIOUS
  <1>2. \A i \in 0 .. Len(as) : met[i] = n
    BY <1>1, Zenon
  <1>3. met[0] = n /\ met[Len(as)] = n
    <2>1. 0 \in 0 .. Len(as) /\ Len(as) \in 0 .. Len(as)
      BY OneByOne, Zenon
    <2> QED  BY <1>2, <2>1, Zenon
  <1>4. ASSUME NEW i \in 1 .. Len(as)
        PROVE  met[i] = IF as[i] = <<"in", met[i - 1]>> THEN met[i - 1] + Len(StringAt(as[i])) + 1
                        ELSE met[i - 1]
    <2>1. i \in 0 .. Len(as) /\ i - 1 \in 0 .. Len(as)
      BY OneByOne, Zenon
    <2>2. as[i] /= <<"in", met[i - 1]>>
      <3>1. \A x : <<"in", x>>[1] = "in"
        OBVIOUS
      <3> QED  BY <3>1, Zenon
    <2> QED  BY <1>2, <2>1, <2>2, Zenon
  <1>5. EndFrom(n, as) = met[Len(as)]
    <2>1. met[0] = n
      BY <1>3
    <2> QED  BY <1>4, <2>1, EndFromIs, Zenon
  <1> QED  BY <1>3, <1>5

Bytes == Nat \union {KEPT}

(* What smp_strcpyn writes of each string.                                 *)
Writes == [s \in Seq(Nat) |-> IF s = <<>> THEN <<KEPT>> ELSE Append(s, NUL)]

LEMMA CopiedIs ==
  ASSUME NEW strs \in Seq(Seq(Nat))
  PROVE  /\ Copied(strs) = FlattenSeq(Mapped(Writes, strs))
         /\ Writes \in [Seq(Nat) -> Seq(Bytes)]
         /\ \A s \in Seq(Nat) : /\ Len(Writes[s]) = Len(s) + 1
                                /\ s /= <<>> => Writes[s] = Append(s, NUL)
                                /\ s = <<>> => Writes[s] = <<KEPT>>
  <1>1. NUL \in Nat /\ KEPT \in Bytes /\ \A n \in Nat : n \in Bytes
    BY DEF NUL, KEPT, Bytes
  <1>2. ASSUME NEW s \in Seq(Nat)
        PROVE  /\ Writes[s] \in Seq(Bytes) /\ Len(Writes[s]) = Len(s) + 1
               /\ s /= <<>> => Writes[s] = Append(s, NUL)
               /\ s = <<>> => Writes[s] = <<KEPT>>
    <2>1. CASE s = <<>>
      <3>1. Writes[s] = <<KEPT>>
        BY <2>1 DEF Writes
      <3> QED  BY <1>1, <2>1, <3>1
    <2>2. CASE s /= <<>>
      <3>1. Writes[s] = Append(s, NUL)
        BY <2>2 DEF Writes
      <3>2. Append(s, NUL) \in Seq(Nat) /\ Len(Append(s, NUL)) = Len(s) + 1
        BY <1>1, AppendProperties
      <3>3. Append(s, NUL) \in Seq(Bytes)
        <4>1. Nat \subseteq Bytes
          BY <1>1
        <4> QED  BY <3>2, <4>1, SeqMonotonic
      <3> QED  BY <2>2, <3>1, <3>2, <3>3
    <2> QED  BY <2>1, <2>2
  <1>3. Writes \in [Seq(Nat) -> Seq(Bytes)]
    <2>1. Writes = [s \in Seq(Nat) |-> Writes[s]]
      BY DEF Writes
    <2> QED  BY <1>2, <2>1
  <1>4. \A i \in DOMAIN strs : strs[i] \in Seq(Nat)
    BY ElementOfSeq, LenProperties
  <1>5. Mapped(Writes, strs) = [i \in DOMAIN strs |-> IF strs[i] = <<>> THEN <<KEPT>>
                                                     ELSE Append(strs[i], NUL)]
    BY <1>4, Zenon DEF Mapped, Writes
  <1> QED  BY <1>2, <1>3, <1>5 DEF Copied

LEMMA CopiedAppend ==
  ASSUME NEW strs \in Seq(Seq(Nat)), NEW s \in Seq(Nat)
  PROVE  Copied(Append(strs, s)) = Copied(strs) \o Writes[s]
  <1>1. PICK e \in [Seq(Nat) -> Seq(Bytes)] : e = Writes
    BY CopiedIs, Zenon
  <1>2. /\ Mapped(e, strs) \in Seq(Seq(Bytes))
        /\ Mapped(e, Append(strs, s)) = Append(Mapped(e, strs), e[s])
    <2>1. \A x \in Seq(Nat) : e[x] \in Seq(Bytes)
      OBVIOUS
    <2> QED  BY <2>1, MappedType, MappedAppend, Zenon
  <1>3. e[s] \in Seq(Bytes) /\ Append(strs, s) \in Seq(Seq(Nat))
    BY AppendProperties
  <1>4. FlattenSeq(Append(Mapped(e, strs), e[s])) = FlattenSeq(Mapped(e, strs)) \o e[s]
    BY <1>2, <1>3, FlattenAppend
  <1>5. /\ Copied(strs) = FlattenSeq(Mapped(Writes, strs))
        /\ Copied(Append(strs, s)) = FlattenSeq(Mapped(Writes, Append(strs, s)))
    BY <1>3, CopiedIs
  <1> QED  BY <1>1, <1>2, <1>4, <1>5, Zenon

(* Of an empty string nothing is written, else what is laid.               *)
Fills(c, l) == /\ c \in Seq(Bytes) /\ l \in Seq(Nat) /\ Len(c) = Len(l)
                /\ \A k \in 1 .. Len(l) : c[k] = l[k] \/ (c[k] = KEPT /\ l[k] = NUL)

LEMMA FillsConcat ==
  ASSUME NEW c, NEW l, NEW d, NEW r, Fills(c, l), Fills(d, r)
  PROVE  Fills(c \o d, l \o r)
  <1>1. PICK a \in Nat, b \in Nat : a = Len(l) /\ b = Len(r) /\ Len(c) = a /\ Len(d) = b
    BY LenProperties DEF Fills
  <1>seqs. c \in Seq(Bytes) /\ d \in Seq(Bytes) /\ l \in Seq(Nat) /\ r \in Seq(Nat)
    BY DEF Fills
  <1>2. /\ c \o d \in Seq(Bytes) /\ Len(c \o d) = a + b
        /\ \A i \in 1 .. a + b : (c \o d)[i] = IF i <= a THEN c[i] ELSE d[i - a]
    <2>1. c \o d \in Seq(Bytes)
      BY <1>seqs, ConcatProperties, Zenon
    <2>2. /\ Len(c \o d) = Len(c) + Len(d)
          /\ \A i \in 1 .. Len(c) + Len(d) : (c \o d)[i] = IF i <= Len(c) THEN c[i] ELSE d[i - Len(c)]
      BY <1>seqs, ConcatProperties, Zenon
    <2> QED  BY <1>1, <2>1, <2>2, Zenon
  <1>3. /\ l \o r \in Seq(Nat) /\ Len(l \o r) = a + b
        /\ \A i \in 1 .. a + b : (l \o r)[i] = IF i <= a THEN l[i] ELSE r[i - a]
    BY <1>1, <1>seqs, ConcatProperties
  <1>4. ASSUME NEW k \in 1 .. a + b
        PROVE  (c \o d)[k] = (l \o r)[k] \/ ((c \o d)[k] = KEPT /\ (l \o r)[k] = NUL)
    <2>1. (k <= a => k \in 1 .. a) /\ (~(k <= a) => k - a \in 1 .. b)
      OBVIOUS
    <2> QED  BY <1>1, <1>2, <1>3, <2>1, Zenon DEF Fills
  <1> QED  BY <1>2, <1>3, <1>4 DEF Fills

LEMMA CopiedFills ==
  ASSUME NEW strs \in Seq(Seq(Nat))
  PROVE  Fills(Copied(strs), Laid(strs))
  <1>1. PICK L \in Nat : L = Len(strs)
    BY LenProperties
  <1> DEFINE Upto(m) == SubSeq(strs, 1, m)
             Can == {m \in Nat : m <= L => Fills(Copied(Upto(m)), Laid(Upto(m)))}
  <1>2. 0 \in Can
    <2>1. Upto(0) = <<>>
      BY SubSeqEmpty
    <2>2. Copied(<<>>) = <<>>
      <3>1. [i \in DOMAIN <<>> |-> IF <<>>[i] = <<>> THEN <<KEPT>> ELSE Append(<<>>[i], NUL)] = <<>>
        OBVIOUS
      <3> QED  BY <3>1, FlattenEmpty DEF Copied
    <2>3. Fills(<<>>, <<>>)
      BY EmptySeq DEF Fills
    <2> HIDE DEF Upto
    <2> QED  BY <2>1, <2>2, <2>3, LaidEmpty
  <1>3. ASSUME NEW m \in Nat, m \in Can PROVE m + 1 \in Can
    <2> SUFFICES ASSUME m + 1 <= L PROVE Fills(Copied(Upto(m + 1)), Laid(Upto(m + 1)))
      BY OneByOne, Zenon
    <2>1. m + 1 \in 1 .. L /\ (m + 1) - 1 = m /\ m <= L
      BY OneByOne, Zenon
    <2>2. Fills(Copied(Upto(m)), Laid(Upto(m)))
      BY <1>3, <2>1, Zenon
    <2>3. /\ Upto(m) \in Seq(Seq(Nat)) /\ strs[m + 1] \in Seq(Nat)
          /\ Upto(m + 1) = Append(Upto(m), strs[m + 1])
      <3>1. \A k \in 1 .. L : strs[k] \in Seq(Nat)
        BY <1>1, ElementOfSeq
      <3>2. SubSeq(strs, 1, (m + 1) - 1) \in Seq(Seq(Nat)) /\ strs[m + 1] \in Seq(Nat)
        BY <1>1, <2>1, LaidSplit, Zenon
      <3>3. SubSeq(strs, 1, m + 1) = Append(SubSeq(strs, 1, m), strs[m + 1])
        BY <1>1, <2>1
      <3> QED  BY <2>1, <3>2, <3>3, Zenon
    <2> HIDE DEF Upto, Can
    <2>4. PICK p \in Seq(Seq(Nat)), s \in Seq(Nat) : p = Upto(m) /\ s = strs[m + 1] /\ Upto(m + 1) = Append(p, s)
      BY <2>3, Zenon
    <2>5. Laid(Append(p, s)) = Laid(p) \o Append(s, NUL) /\ Append(s, NUL) \in Seq(Nat)
      BY LaidAppend
    <2>6. Copied(Append(p, s)) = Copied(p) \o Writes[s]
      BY CopiedAppend
    <2>7. Fills(Writes[s], Append(s, NUL))
      <3>1. /\ Writes \in [Seq(Nat) -> Seq(Bytes)] /\ Len(Writes[s]) = Len(s) + 1
            /\ s /= <<>> => Writes[s] = Append(s, NUL)
            /\ s = <<>> => Writes[s] = <<KEPT>>
        BY CopiedIs, <2>3, Zenon
      <3>2. Writes[s] \in Seq(Bytes) /\ Len(Append(s, NUL)) = Len(s) + 1
        BY <3>1, CharsAreBytes, AppendProperties
      <3>3. CASE s = <<>>
        <4>1. Append(s, NUL) = <<NUL>> /\ Writes[s] = <<KEPT>>
          BY <3>1, <3>3
        <4>2. Len(<<NUL>>) = 1 /\ <<NUL>>[1] = NUL /\ <<KEPT>>[1] = KEPT /\ Len(<<KEPT>>) = 1
          OBVIOUS
        <4>3. \A k \in 1 .. 1 : k = 1
          OBVIOUS
        <4> QED  BY <2>5, <3>2, <4>1, <4>2, <4>3, Zenon DEF Fills
      <3>4. CASE s /= <<>>
        <4>1. PICK w : w = Append(s, NUL) /\ w = Writes[s] /\ w \in Seq(Nat) /\ w \in Seq(Bytes)
          BY <2>5, <3>1, <3>2, <3>4, Zenon
        <4>2. Fills(w, w)
          BY <4>1 DEF Fills
        <4> QED  BY <4>1, <4>2, Zenon
      <3> QED  BY <3>3, <3>4
    <2>8. Fills(Copied(p) \o Writes[s], Laid(p) \o Append(s, NUL))
      BY <2>2, <2>4, <2>7, FillsConcat, Zenon
    <2> QED  BY <2>4, <2>5, <2>6, <2>8, Zenon
  <1>4. L \in Can
    <2>1. \A m \in Nat : m \in Can
      <3> HIDE DEF Can
      <3> QED  BY <1>2, <1>3, NatInSet
    <2> HIDE DEF Can
    <2> QED  BY <2>1
  <1>5. Upto(L) = strs
    BY <1>1, SubSeqFull
  <1>6. Fills(Copied(Upto(L)), Laid(Upto(L)))
    <2> HIDE DEF Upto
    <2> QED  BY <1>4, OneByOne, Zenon
  <1> HIDE DEF Upto
  <1> QED  BY <1>5, <1>6, Zenon

(* If none is empty that is all.                                           *)
LEMMA CopiedWhole ==
  ASSUME NEW strs \in Seq(Seq(Nat)), \A i \in 1 .. Len(strs) : strs[i] /= <<>>
  PROVE  Copied(strs) = Laid(strs)
  <1>1. DOMAIN strs = 1 .. Len(strs)
    BY LenProperties
  <1>2. [i \in DOMAIN strs |-> IF strs[i] = <<>> THEN <<KEPT>> ELSE Append(strs[i], NUL)]
          = [i \in DOMAIN strs |-> Append(strs[i], NUL)]
    BY <1>1, Zenon
  <1> QED  BY <1>2, Zenon DEF Copied, Laid

-----------------------------------------------------------------------------
(* The first string and those behind it.                                   *)
Before(w, strs) == <<w>> \o strs

LEMMA LaidCons ==
  ASSUME NEW w \in Seq(Nat), NEW strs \in Seq(Seq(Nat))
  PROVE  /\ Before(w, strs) \in Seq(Seq(Nat)) /\ Len(Before(w, strs)) = Len(strs) + 1
         /\ Before(w, strs)[1] = w
         /\ \A i \in 1 .. Len(strs) : Before(w, strs)[i + 1] = strs[i]
         /\ Laid(Before(w, strs)) = Append(w, NUL) \o Laid(strs)
         /\ Len(Laid(Before(w, strs))) = (Len(w) + 1) + Len(Laid(strs))
  <1>1. <<w>> \in Seq(Seq(Nat)) /\ Laid(<<w>>) = Append(w, NUL)
    BY LaidOne
  <1>2. Before(w, strs) \in Seq(Seq(Nat)) /\ Laid(Before(w, strs)) = Append(w, NUL) \o Laid(strs)
    BY <1>1, LaidConcat, Zenon DEF Before
  <1>3. PICK one \in Seq(Seq(Nat)) : one = <<w>> /\ Len(one) = 1 /\ one[1] = w
    BY <1>1
  <1>4. PICK L \in Nat : L = Len(strs)
    BY LenProperties
  <1>5. /\ Len(one \o strs) = 1 + L
        /\ \A i \in 1 .. 1 + L : (one \o strs)[i] = IF i <= 1 THEN one[i] ELSE strs[i - 1]
    BY <1>3, <1>4, ConcatProperties
  <1>6. /\ 1 + L = L + 1 /\ 1 \in 1 .. 1 + L /\ 1 <= 1
        /\ \A i \in 1 .. L : i + 1 \in 1 .. 1 + L /\ ~(i + 1 <= 1) /\ (i + 1) - 1 = i
    OBVIOUS
  <1>7. /\ Len(Before(w, strs)) = L + 1 /\ Before(w, strs)[1] = w
        /\ \A i \in 1 .. L : Before(w, strs)[i + 1] = strs[i]
    <2>1. (one \o strs)[1] = w
      BY <1>3, <1>5, <1>6, Zenon
    <2>2. ASSUME NEW i \in 1 .. L PROVE (one \o strs)[i + 1] = strs[i]
      <3>1. i + 1 \in 1 .. 1 + L /\ ~(i + 1 <= 1) /\ (i + 1) - 1 = i
        BY <1>6, Zenon
      <3> QED  BY <1>5, <3>1, Zenon
    <2> QED  BY <1>3, <1>5, <1>6, <2>1, <2>2, Zenon DEF Before
  <1>8. Append(w, NUL) \in Seq(Nat) /\ Len(Append(w, NUL)) = Len(w) + 1 /\ Laid(strs) \in Seq(Nat)
    <2>1. NUL \in Nat
      BY CharsAreBytes
    <2>2. Laid(strs) \in Seq(Nat)
      BY <1>1, LaidAppend
    <2> QED  BY <2>1, <2>2, AppendProperties
  <1>9. Len(Append(w, NUL) \o Laid(strs)) = (Len(w) + 1) + Len(Laid(strs))
    <2>1. PICK x \in Seq(Nat), y \in Seq(Nat) : x = Append(w, NUL) /\ y = Laid(strs)
      BY <1>8, Zenon
    <2>2. Len(x \o y) = Len(x) + Len(y)
      BY ConcatProperties
    <2> QED  BY <1>8, <2>1, <2>2, Zenon
  <1> QED  BY <1>2, <1>4, <1>7, <1>9, Zenon

LEMMA LaidEnds ==
  ASSUME NEW strs \in Seq(Seq(Nat)), Len(strs) /= 0
  PROVE  /\ Laid(strs) \in Seq(Nat) /\ Len(Laid(strs)) \in Nat \ {0}
         /\ Laid(strs)[Len(Laid(strs))] = NUL
  <1>1. PICK L \in Nat \ {0} : L = Len(strs) /\ L \in 1 .. L
    BY LenProperties
  <1>2. PICK p \in Seq(Seq(Nat)), s \in Seq(Nat) :
           Laid(SubSeq(strs, 1, L)) = Laid(p) \o Append(s, NUL)
    BY <1>1, LaidSplit
  <1>3. SubSeq(strs, 1, L) = strs
    BY <1>1, SubSeqFull
  <1>4. PICK x \in Seq(Nat), e \in Seq(Nat) :
           /\ Laid(strs) = x \o e /\ Len(e) = Len(s) + 1 /\ e[Len(s) + 1] = NUL
    <2>1. Laid(p) \in Seq(Nat) /\ Append(s, NUL) \in Seq(Nat)
      BY LaidAppend
    <2>2. Len(Append(s, NUL)) = Len(s) + 1 /\ Append(s, NUL)[Len(s) + 1] = NUL
      BY CharsAreBytes, AppendProperties
    <2> QED  BY <1>2, <1>3, <2>1, <2>2, Zenon
  <1>5. PICK a \in Nat, b \in Nat : a = Len(x) /\ b = Len(s)
    BY LenProperties
  <1>6. /\ x \o e \in Seq(Nat) /\ Len(x \o e) = a + (b + 1)
        /\ \A i \in 1 .. a + (b + 1) : (x \o e)[i] = IF i <= a THEN x[i] ELSE e[i - a]
    <2>1. /\ x \o e \in Seq(Nat) /\ Len(x \o e) = Len(x) + Len(e)
          /\ \A i \in 1 .. Len(x) + Len(e) : (x \o e)[i] = IF i <= Len(x) THEN x[i] ELSE e[i - Len(x)]
      BY ConcatProperties, Zenon
    <2> QED  BY <1>4, <1>5, <2>1, Zenon
  <1>7. /\ a + (b + 1) \in 1 .. a + (b + 1) /\ a + (b + 1) \in Nat \ {0}
        /\ ~(a + (b + 1) <= a) /\ (a + (b + 1)) - a = b + 1
    OBVIOUS
  <1> QED  BY <1>4, <1>5, <1>6, <1>7, Zenon

InPlace == {"in"} \X Nat

(* Where the strings are, none is past the bytes they take.                *)
LEMMA PlacesIn ==
  ASSUME NEW n \in Nat, NEW strs \in Seq(Seq(Nat))
  PROVE  /\ Places(n, strs) \in Seq(InPlace) /\ Len(Places(n, strs)) = Len(strs)
         /\ \A i \in 1 .. Len(strs) :
              LET p == n + Len(Laid(SubSeq(strs, 1, i - 1)))
              IN /\ Places(n, strs)[i] = <<"in", p>>
                 /\ p \in Nat /\ n <= p /\ p + 1 <= n + Len(Laid(strs))
  <1>1. PICK L \in Nat : L = Len(strs) /\ DOMAIN strs = 1 .. L
    BY LenProperties
  <1>2. ASSUME NEW i \in 1 .. L
        PROVE  LET p == n + Len(Laid(SubSeq(strs, 1, i - 1)))
               IN p \in Nat /\ n <= p /\ p + 1 <= n + Len(Laid(strs))
    <2>1. PICK p \in Seq(Seq(Nat)), u \in Seq(Seq(Nat)), z \in Seq(Seq(Nat)), s \in Seq(Nat) :
             /\ p = SubSeq(strs, 1, i - 1)
             /\ Laid(u) = Laid(p) \o Append(s, NUL) /\ Laid(strs) = Laid(u) \o Laid(z)
      BY <1>1, LaidSplit
    <2>2. PICK a \in Seq(Nat), b \in Seq(Nat), c \in Seq(Nat), d \in Seq(Nat) :
             a = Laid(p) /\ b = Append(s, NUL) /\ c = Laid(u) /\ d = Laid(z)
      BY LaidAppend, Zenon
    <2>3. Len(b) = Len(s) + 1
      BY <2>2, CharsAreBytes, AppendProperties
    <2>4. Len(a \o b) = Len(a) + Len(b) /\ Len(c \o d) = Len(c) + Len(d)
      BY ConcatProperties
    <2>5. Len(Laid(strs)) = (Len(a) + (Len(s) + 1)) + Len(d)
      BY <2>1, <2>2, <2>3, <2>4, Zenon
    <2>6. PICK h \in Nat, k \in Nat, l \in Nat : h = Len(a) /\ k = Len(s) /\ l = Len(d)
      BY LenProperties
    <2>7. n + h \in Nat /\ n <= n + h /\ (n + h) + 1 <= n + ((h + (k + 1)) + l)
      OBVIOUS
    <2> QED  BY <2>1, <2>2, <2>5, <2>6, <2>7, Zenon
  <1>3. \A i \in 1 .. L : Places(n, strs)[i] = <<"in", n + Len(Laid(SubSeq(strs, 1, i - 1)))>>
    BY <1>1, Zenon DEF Places
  <1>4. \A i \in 1 .. L : Places(n, strs)[i] \in InPlace
    <2>1. \A x \in Nat : <<"in", x>> \in InPlace
      BY DEF InPlace
    <2> QED  BY <1>2, <1>3, <2>1, Zenon
  <1>5. Places(n, strs) = [i \in 1 .. L |-> Places(n, strs)[i]]
    BY <1>1 DEF Places
  <1>6. Places(n, strs) \in Seq(InPlace) /\ Len(Places(n, strs)) = L
    <2>1. PICK f : f = Places(n, strs)
      BY Zenon
    <2>2. f \in [1 .. L -> InPlace]
      BY <1>4, <1>5, <2>1, Zenon
    <2>3. f \in Seq(InPlace) /\ Len(f) = L
      BY <2>2, IsSequence, Zenon
    <2> QED  BY <2>1, <2>3
  <1> QED  BY <1>1, <1>2, <1>3, <1>6, Zenon

LEMMA PlacesCons ==
  ASSUME NEW n \in Nat, NEW w \in Seq(Nat), NEW strs \in Seq(Seq(Nat))
  PROVE  /\ Places(n, Before(w, strs))[1] = <<"in", n>>
         /\ \A i \in 1 .. Len(strs) :
              Places(n, Before(w, strs))[i + 1] = Places((n + Len(w)) + 1, strs)[i]
  <1>1. PICK all \in Seq(Seq(Nat)), L \in Nat :
           /\ all = Before(w, strs) /\ L = Len(strs) /\ Len(all) = L + 1 /\ all[1] = w
           /\ \A i \in 1 .. L : all[i + 1] = strs[i]
    <2>1. Len(strs) \in Nat
      BY LenProperties
    <2>2. /\ Before(w, strs) \in Seq(Seq(Nat)) /\ Len(Before(w, strs)) = Len(strs) + 1
          /\ Before(w, strs)[1] = w
          /\ \A i \in 1 .. Len(strs) : Before(w, strs)[i + 1] = strs[i]
      BY LaidCons
    <2> QED  BY <2>1, <2>2, Zenon
  <1>2. \A i \in 1 .. L + 1 : Places(n, all)[i] = <<"in", n + Len(Laid(SubSeq(all, 1, i - 1)))>>
    <2>1. \A i \in 1 .. Len(all) :
            LET p == n + Len(Laid(SubSeq(all, 1, i - 1)))
            IN /\ Places(n, all)[i] = <<"in", p>>
               /\ p \in Nat /\ n <= p /\ p + 1 <= n + Len(Laid(all))
      BY PlacesIn
    <2>2. Len(all) = L + 1
      BY <1>1
    <2> QED  BY <2>1, <2>2, Zenon
  <1>3. Places(n, all)[1] = <<"in", n>>
    <2>1. 1 \in 1 .. L + 1 /\ 1 - 1 = 0 /\ n + 0 = n
      OBVIOUS
    <2>2. SubSeq(all, 1, 0) = <<>>
      BY SubSeqEmpty
    <2>3. Len(<<>>) = 0
      OBVIOUS
    <2>4. Places(n, all)[1] = <<"in", n + Len(Laid(SubSeq(all, 1, 1 - 1)))>>
      BY <1>2, <2>1
    <2>5. Len(Laid(SubSeq(all, 1, 1 - 1))) = 0
      BY <2>1, <2>2, <2>3, LaidEmpty
    <2> QED  BY <2>1, <2>4, <2>5
  <1>4. ASSUME NEW i \in 1 .. L
        PROVE  Places(n, all)[i + 1] = Places((n + Len(w)) + 1, strs)[i]
    <2>1. i + 1 \in 1 .. L + 1 /\ (i + 1) - 1 = i /\ i \in 1 .. L + 1
      OBVIOUS
    <2>2. PICK p \in Seq(Seq(Nat)) : p = SubSeq(strs, 1, i - 1)
      BY <1>1, LaidSplit
    <2>3. /\ Len(p) = i - 1 /\ \A k \in 1 .. i - 1 : p[k] = strs[k]
      BY <1>1, <2>2
    <2>4. PICK q \in Seq(Seq(Nat)) : q = SubSeq(all, 1, i) /\ Len(q) = i /\ \A k \in 1 .. i : q[k] = all[k]
      <3>1. SubSeq(all, 1, i) \in Seq(Seq(Nat))
        BY <1>1, <2>1, LaidSplit
      <3>2. Len(SubSeq(all, 1, i)) = i /\ \A k \in 1 .. i : SubSeq(all, 1, i)[k] = all[k]
        BY <1>1, <2>1
      <3> QED  BY <3>1, <3>2
    <2>5. /\ Before(w, p) \in Seq(Seq(Nat)) /\ Len(Before(w, p)) = Len(p) + 1
          /\ Before(w, p)[1] = w /\ \A k \in 1 .. Len(p) : Before(w, p)[k + 1] = p[k]
          /\ Len(Laid(Before(w, p))) = (Len(w) + 1) + Len(Laid(p))
      BY LaidCons
    <2>6. q = Before(w, p)
      <3>1. PICK b \in Seq(Seq(Nat)) : b = Before(w, p)
        BY <2>5
      <3>2. Len(b) = i
        <4>1. (i - 1) + 1 = i
          OBVIOUS
        <4> QED  BY <2>3, <2>5, <3>1, <4>1, Zenon
      <3>3. ASSUME NEW k \in 1 .. i PROVE q[k] = b[k]
        <4>1. CASE k = 1
          BY <1>1, <2>4, <2>5, <3>1, <4>1, Zenon
        <4>2. CASE k /= 1
          <5>1. k - 1 \in 1 .. i - 1 /\ (k - 1) + 1 = k /\ k - 1 \in 1 .. L
            BY <4>2
          <5>2. b[k] = strs[k - 1]
            BY <2>3, <2>5, <3>1, <5>1, Zenon
          <5>3. q[k] = strs[k - 1]
            BY <1>1, <2>4, <5>1, Zenon
          <5> QED  BY <5>2, <5>3
        <4> QED  BY <4>1, <4>2
      <3> QED  BY <2>4, <3>1, <3>2, <3>3, SeqEqual, Zenon
    <2>7. Places(n, all)[i + 1] = <<"in", n + ((Len(w) + 1) + Len(Laid(p)))>>
      <3>1. Places(n, all)[i + 1] = <<"in", n + Len(Laid(SubSeq(all, 1, (i + 1) - 1)))>>
        BY <1>2, <2>1
      <3>2. SubSeq(all, 1, (i + 1) - 1) = Before(w, p)
        BY <2>1, <2>4, <2>6, Zenon
      <3>3. Len(Laid(Before(w, p))) = (Len(w) + 1) + Len(Laid(p))
        BY <2>5
      <3> QED  BY <3>1, <3>2, <3>3, Zenon
    <2>8. PICK a \in Nat, b \in Nat : a = Len(w) /\ b = Len(Laid(p))
      <3>1. Laid(p) \in Seq(Nat)
        BY LaidAppend
      <3> QED  BY <3>1, LenProperties
    <2>9. n + ((a + 1) + b) = ((n + a) + 1) + b
      OBVIOUS
    <2>10. Places((n + a) + 1, strs)[i] = <<"in", ((n + a) + 1) + b>>
      <3>1. (n + a) + 1 \in Nat
        OBVIOUS
      <3> QED  BY <1>1, <2>2, <2>8, <3>1, PlacesIn, Zenon
    <2> QED  BY <2>7, <2>8, <2>9, <2>10, Zenon
  <1> QED  BY <1>1, <1>3, <1>4, Zenon

(* In a memory that ends in NUL, a string begins at every byte.            *)
LEMMA StringExists ==
  ASSUME memory \in Seq(Nat), memory[Len(memory)] = NUL, NEW p \in 1 .. Len(memory)
  PROVE  \E s \in Seq(Chars) : /\ StringAt(<<"in", p>>) = s /\ p + Len(s) <= Len(memory)
                               /\ memory[p + Len(s)] = NUL
                               /\ \A k \in p .. (p + Len(s)) - 1 : memory[k] /= NUL
  <1>1. PICK N \in Nat : N = Len(memory) /\ DOMAIN memory = 1 .. N
    BY LenProperties
  <1> DEFINE First(q, e) == memory[e] = NUL /\ \A k \in q .. e - 1 : memory[k] /= NUL
             Can == {d \in Nat : d < N => \E e \in N - d .. N : First(N - d, e)}
  <1>2. 0 \in Can
    <2>1. N - 0 = N /\ N \in N .. N /\ ~\E k \in N .. N - 1 : TRUE
      OBVIOUS
    <2> QED  BY <1>1, <2>1
  <1>3. ASSUME NEW d \in Nat, d \in Can PROVE d + 1 \in Can
    <2> SUFFICES ASSUME d + 1 < N PROVE \E e \in N - (d + 1) .. N : First(N - (d + 1), e)
      OBVIOUS
    <2>1. PICK q \in Nat : q = N - (d + 1) /\ q + 1 = N - d /\ q \in q .. N /\ ~\E k \in q .. q - 1 : TRUE
      OBVIOUS
    <2>2. CASE memory[q] = NUL
      BY <2>1, <2>2
    <2>3. CASE memory[q] /= NUL
      <3>1. PICK e \in q + 1 .. N : First(q + 1, e)
        BY <1>3, <2>1
      <3>2. e \in q .. N /\ \A k \in q .. e - 1 : k = q \/ k \in q + 1 .. e - 1
        BY <2>1
      <3>3. First(q, e)
        BY <2>3, <3>1, <3>2
      <3> HIDE DEF First
      <3> QED  BY <2>1, <3>2, <3>3
    <2> QED  BY <2>2, <2>3
  <1>4. PICK e \in p .. N : First(p, e)
    <2>1. N - p \in Nat /\ N - p < N /\ N - (N - p) = p
      BY <1>1
    <2>2. N - p \in Can
      <3>1. \A d \in Nat : d \in Can
        <4> HIDE DEF Can
        <4> QED  BY <1>2, <1>3, NatInSet
      <3> HIDE DEF Can
      <3> QED  BY <2>1, <3>1
    <2> HIDE DEF First
    <2> QED  BY <2>1, <2>2
  <1>5. PICK s \in Seq(Chars) : /\ Len(s) = e - p
                                /\ \A k \in 1 .. e - p : s[k] = memory[p + k - 1]
    <2>1. \A k \in p .. e - 1 : memory[k] \in Chars
      <3>1. \A k \in p .. e - 1 : k \in 1 .. N
        BY <1>1
      <3>2. \A k \in 1 .. N : memory[k] \in Nat
        BY <1>1, ElementOfSeq
      <3> QED  BY <1>4, <3>1, <3>2 DEF Chars
    <2>2. p \in Int /\ e - 1 \in Int /\ (e - 1) - p + 1 = e - p
          /\ e - p = IF p <= e - 1 THEN (e - 1) - p + 1 ELSE 0
      BY <1>1, <1>4
    <2>3. /\ SubSeq(memory, p, e - 1) \in Seq(Chars)
          /\ Len(SubSeq(memory, p, e - 1)) = IF p <= e - 1 THEN (e - 1) - p + 1 ELSE 0
          /\ \A k \in 1 .. (e - 1) - p + 1 : SubSeq(memory, p, e - 1)[k] = memory[p + k - 1]
      BY <2>1, <2>2, SubSeqProperties
    <2> QED  BY <2>2, <2>3, Zenon
  <1>6. p \in Nat \ {0} /\ e - p \in Nat /\ p + (e - p) = e /\ p + ((e - p) + 1) - 1 = e /\ e <= N
    BY <1>1
  <1>7. Holds(memory, p, Append(s, NUL))
    <2>1. s \in Seq(Nat) /\ NUL \in Nat
      BY CharsAreBytes
    <2>2. /\ Len(Append(s, NUL)) = (e - p) + 1 /\ Append(s, NUL)[(e - p) + 1] = NUL
          /\ \A k \in 1 .. e - p : Append(s, NUL)[k] = s[k]
      BY <1>5, <2>1, AppendProperties
    <2>3. ASSUME NEW k \in 1 .. (e - p) + 1 PROVE memory[p + k - 1] = Append(s, NUL)[k]
      <3>1. k \in 1 .. e - p \/ k = (e - p) + 1
        BY <1>6
      <3> QED  BY <1>4, <1>5, <1>6, <2>2, <3>1, Zenon
    <2> QED  BY <1>1, <1>6, <2>2, <2>3, Zenon DEF Holds
  <1>8. StringAt(<<"in", p>>) = s
    BY <1>6, <1>7, StringRead
  <1> HIDE DEF Can
  <1> QED  BY <1>1, <1>4, <1>5, <1>6, <1>8

(* What is written over the memory.                                        *)
LEMMA OverwrittenIs ==
  ASSUME memory \in Seq(Nat), NEW end, NEW s \in Seq(Bytes)
  PROVE  /\ Overwritten(end, s) \in Seq(Nat) /\ Len(Overwritten(end, s)) = Len(memory)
         /\ \A k \in 1 .. Len(memory) :
              Overwritten(end, s)[k] = IF k <= Len(s) /\ s[k] /= KEPT THEN s[k]
                                       ELSE IF k < end THEN NUL ELSE memory[k]
  <1>1. PICK N \in Nat : N = Len(memory) /\ DOMAIN memory = 1 .. N /\ \A k \in 1 .. N : memory[k] \in Nat
    BY LenProperties, ElementOfSeq
  <1>2. PICK f : f = Overwritten(end, s)
    BY Zenon
  <1>3. f = [k \in 1 .. N |-> IF k <= Len(s) /\ s[k] /= KEPT THEN s[k]
                              ELSE IF k < end THEN NUL ELSE memory[k]]
    BY <1>1, <1>2, Zenon DEF Overwritten
  <1>4. \A k \in 1 .. N : f[k] = IF k <= Len(s) /\ s[k] /= KEPT THEN s[k]
                                 ELSE IF k < end THEN NUL ELSE memory[k]
    BY <1>3, Zenon
  <1>5. ASSUME NEW k \in 1 .. N PROVE f[k] \in Nat
    <2>1. CASE k <= Len(s) /\ s[k] /= KEPT
      <3>1. k \in 1 .. Len(s)
        BY <2>1, LenProperties
      <3>2. s[k] \in Bytes
        BY <3>1, ElementOfSeq
      <3> QED  BY <1>4, <2>1, <3>2 DEF Bytes
    <2>2. CASE ~(k <= Len(s) /\ s[k] /= KEPT)
      BY <1>1, <1>4, <2>2, CharsAreBytes, Zenon
    <2> QED  BY <2>1, <2>2
  <1>6. f \in [1 .. N -> Nat]
    BY <1>3, <1>5
  <1> QED  BY <1>1, <1>2, <1>4, <1>6, IsSequence, Zenon

-----------------------------------------------------------------------------
(* The parameters and the variables the process was started with.          *)
GivenParams == SubSeq(started, 2, Len(argv))
GivenEnv == SubSeq(started, Len(argv) + 1, Len(started))

(* The name, or the last title, and the parameters.                        *)
Shown == Before(wanted, GivenParams)

Located(as) == \A i \in DOMAIN as : \/ as[i][1] = "in" /\ as[i][2] \in 1 .. Len(memory)
                                    \/ as[i][1] \in {"heap", "over"} /\ as[i][2] \in Seq(Nat)

(* Copies of the given strings, of which only the last may end too late or *)
(* have been changed.                                                      *)
Away(as, given) ==
  /\ DOMAIN as = 1 .. Len(given)
  /\ \A i \in 1 .. Len(given) :
       /\ as[i][1] \in {"heap", "over"}
       /\ i < Len(given) => as[i][1] = "heap"
       /\ i < Len(given) \/ as[i][1] /= "heap" => as[i][2] = given[i]

(* The memory has an end, and the name is at its beginning.                *)
MemoryEnds ==
  /\ memory \in Seq(Nat) /\ Len(memory) /= 0 /\ memory[Len(memory)] = NUL
  /\ argv \in Seq(InPlace) /\ Len(argv) /= 0 /\ argv[1] = <<"in", 1>>
  /\ \A i \in 1 .. Len(argv) : argv[i][2] \in 1 .. Len(memory)
  /\ Len(environ) \in Nat /\ DOMAIN environ = 1 .. Len(environ) /\ Located(environ)
  /\ started \in Seq(Seq(Chars)) /\ Len(argv) < Len(started)
  /\ wanted \in Seq(Chars) /\ smooth \in BOOLEAN

(* The parameters are where argv says, and the name does not reach them.   *)
ParamsInMemory ==
  (smooth \/ \A i \in 1 .. Len(GivenParams) : GivenParams[i] /= <<>>) =>
    \A i \in 1 .. Len(GivenParams) :
      /\ \E k \in 1 .. argv[i + 1][2] - 1 : memory[k] = NUL
      /\ Holds(memory, argv[i + 1][2], Append(GivenParams[i], NUL))

(* The environment follows the arguments, or has moved and left NULs.      *)
EnvInMemory ==
  LET end == 1 + Len(Laid(Shown))
  IN \/ /\ environ = Places(end, GivenEnv)
        /\ Holds(memory, end, Laid(GivenEnv))
        /\ Len(memory) + 1 = end + Len(Laid(GivenEnv))
     \/ /\ Away(environ, GivenEnv)
        /\ \A k \in 1 .. Len(memory) : end <= k + 1 => memory[k] = NUL

SmoothMemory ==
  smooth => /\ argv = Places(1, Shown)
            /\ Holds(memory, 1, Laid(Shown))
            /\ EnvInMemory

TitleInv == \/ TitleInit
            \/ MemoryEnds /\ ParamsInMemory /\ SmoothMemory

LEMMA GivenFacts ==
  ASSUME MemoryEnds
  PROVE  /\ GivenParams \in Seq(Seq(Chars)) /\ Len(GivenParams) = Len(argv) - 1
         /\ GivenEnv \in Seq(Seq(Chars)) /\ Len(GivenEnv) = Len(started) - Len(argv)
         /\ GivenParams \in Seq(Seq(Nat)) /\ GivenEnv \in Seq(Seq(Nat))
         /\ Len(GivenEnv) \in Nat \ {0} /\ Len(GivenParams) \in Nat
         /\ Shown \in Seq(Seq(Chars)) /\ Shown \in Seq(Seq(Nat))
         /\ Len(Shown) = Len(argv)
         /\ wanted \in Seq(Nat)
  <1>1. PICK n \in Nat \ {0}, S \in Nat : n = Len(argv) /\ S = Len(started) /\ n < S
    BY LenProperties DEF MemoryEnds
  <1>2. \A i \in 1 .. S : started[i] \in Seq(Chars)
    BY <1>1, ElementOfSeq DEF MemoryEnds
  <1>3. /\ 2 \in Int /\ n \in Int /\ n + 1 \in Int /\ S \in Int
        /\ \A i \in 2 .. n : i \in 1 .. S
        /\ \A i \in n + 1 .. S : i \in 1 .. S
        /\ n - 1 \in Nat /\ S - n \in Nat \ {0}
        /\ n - 1 = IF 2 <= n THEN n - 2 + 1 ELSE 0
        /\ S - n = IF n + 1 <= S THEN S - (n + 1) + 1 ELSE 0
        /\ (n - 1) + 1 = n
    BY <1>1
  <1>4. GivenParams \in Seq(Seq(Chars)) /\ Len(GivenParams) = n - 1
    <2>1. \A i \in 2 .. n : started[i] \in Seq(Chars)
      BY <1>2, <1>3, Zenon
    <2>2. /\ SubSeq(started, 2, n) \in Seq(Seq(Chars))
          /\ Len(SubSeq(started, 2, n)) = IF 2 <= n THEN n - 2 + 1 ELSE 0
      BY <1>3, <2>1, SubSeqProperties
    <2> QED  BY <1>1, <1>3, <2>2, Zenon DEF GivenParams
  <1>5. GivenEnv \in Seq(Seq(Chars)) /\ Len(GivenEnv) = S - n
    <2>1. \A i \in n + 1 .. S : started[i] \in Seq(Chars)
      BY <1>2, <1>3, Zenon
    <2>2. /\ SubSeq(started, n + 1, S) \in Seq(Seq(Chars))
          /\ Len(SubSeq(started, n + 1, S)) = IF n + 1 <= S THEN S - (n + 1) + 1 ELSE 0
      BY <1>3, <2>1, SubSeqProperties
    <2> QED  BY <1>1, <1>3, <2>2, Zenon DEF GivenEnv
  <1>6. GivenParams \in Seq(Seq(Nat)) /\ GivenEnv \in Seq(Seq(Nat)) /\ wanted \in Seq(Nat)
    BY <1>4, <1>5, CharsAreBytes DEF MemoryEnds
  <1>7. Shown \in Seq(Seq(Chars)) /\ Len(Shown) = n
    <2>1. Shown \in Seq(Seq(Nat)) /\ Len(Shown) = Len(GivenParams) + 1
      BY <1>6, LaidCons DEF Shown
    <2>2. <<wanted>> \in Seq(Seq(Chars))
      BY DEF MemoryEnds
    <2>3. Shown \in Seq(Seq(Chars))
      BY <1>4, <2>2, ConcatProperties DEF Shown, Before
    <2> QED  BY <1>3, <1>4, <2>1, <2>3
  <1> QED  BY <1>1, <1>3, <1>4, <1>5, <1>6, <1>7, CharsAreBytes, Zenon

LEMMA NameFacts ==
  ASSUME MemoryEnds
  PROVE  /\ NameLen \in Nat /\ NameLen + 1 <= Len(memory) /\ memory[NameLen + 1] = NUL
         /\ \A k \in 1 .. Len(memory) : memory[k] = NUL => NameLen + 1 <= k
  <1>1. 1 \in 1 .. Len(memory)
    BY LenProperties DEF MemoryEnds
  <1>2. PICK s \in Seq(Chars) : /\ StringAt(<<"in", 1>>) = s /\ 1 + Len(s) <= Len(memory)
                                /\ memory[1 + Len(s)] = NUL
                                /\ \A k \in 1 .. (1 + Len(s)) - 1 : memory[k] /= NUL
    BY <1>1, StringExists DEF MemoryEnds
  <1>3. NameLen = Len(s)
    BY <1>2 DEF NameLen, MemoryEnds
  <1>4. PICK n \in Nat : n = NameLen /\ 1 + n = n + 1 /\ (1 + n) - 1 = n
    BY <1>3, LenProperties
  <1>5. \A k \in 1 .. Len(memory) : k \in 1 .. n \/ n + 1 <= k
    BY <1>1, <1>4
  <1> QED  BY <1>2, <1>3, <1>4, <1>5, Zenon

(* An address in that memory is a place in it.                             *)
LEMMA InPlaceIs == \A a \in InPlace : a = <<"in", a[2]>> /\ a[1] = "in" /\ a[2] \in Nat
  BY DEF InPlace

LEMMA ParamsRead ==
  ASSUME MemoryEnds, ParamsInMemory,
         smooth \/ \A i \in 1 .. Len(GivenParams) : GivenParams[i] /= <<>>
  PROVE  Params = GivenParams
  <1>1. PICK L \in Nat : /\ L = Len(GivenParams) /\ L = Len(argv) - 1
                         /\ GivenParams \in Seq(Seq(Chars)) /\ DOMAIN GivenParams = 1 .. L
    BY GivenFacts, LenProperties
  <1>2. argv \in Seq(InPlace) /\ argv /= <<>>
    BY DEF MemoryEnds
  <1>3. /\ Tail(argv) \in Seq(InPlace) /\ Len(Tail(argv)) = L
        /\ \A i \in 1 .. L : Tail(argv)[i] = argv[i + 1]
    BY <1>1, <1>2, HeadTailProperties
  <1>4. DOMAIN Tail(argv) = 1 .. L
    BY <1>3, LenProperties
  <1>5. ASSUME NEW i \in 1 .. L PROVE StringAt(Tail(argv)[i]) = GivenParams[i]
    <2>1. Tail(argv)[i] = argv[i + 1] /\ argv[i + 1] \in InPlace
      BY <1>3, ElementOfSeq
    <2>2. PICK p \in Nat : argv[i + 1] = <<"in", p>> /\ argv[i + 1][2] = p
      BY <2>1, InPlaceIs, Zenon
    <2>3. i + 1 \in 1 .. Len(argv)
      BY <1>1, <1>2, LenProperties
    <2>4. p \in 1 .. Len(memory) /\ memory \in Seq(Nat)
      BY <2>2, <2>3 DEF MemoryEnds
    <2>5. p \in Nat \ {0}
      BY <2>4
    <2>6. Holds(memory, p, Append(GivenParams[i], NUL))
      BY <1>1, <2>2 DEF ParamsInMemory
    <2>7. GivenParams[i] \in Seq(Chars)
      BY <1>1, ElementOfSeq
    <2>8. StringAt(<<"in", p>>) = GivenParams[i]
      BY <2>4, <2>5, <2>6, <2>7, StringRead
    <2> QED  BY <2>1, <2>2, <2>8
  <1>6. Params = [i \in 1 .. L |-> StringAt(Tail(argv)[i])]
    BY <1>4 DEF Params, StringsAt
  <1>7. GivenParams = [i \in 1 .. L |-> GivenParams[i]]
    BY <1>1
  <1> QED  BY <1>5, <1>6, <1>7, Zenon

(* What the walks of smp_init_set_proc_title find as long as smooth.       *)
LEMMA SmoothFacts ==
  ASSUME MemoryEnds, SmoothMemory, smooth
  PROVE  /\ StringAt(argv[1]) = wanted /\ NameLen = Len(wanted)
         /\ ArgvLast = 1 + Len(Laid(Shown))
         /\ EnvLast \in Nat /\ Len(Laid(Shown)) <= EnvLast /\ EnvLast <= Len(memory)
         /\ Len(Laid(Shown)) \in Nat /\ Len(Laid(Shown)) <= Len(memory)
         /\ \A k \in 1 .. Len(memory) : EnvLast <= k => memory[k] = NUL
         /\ DOMAIN environ = 1 .. Len(GivenEnv)
         /\ \A i \in 1 .. Len(GivenEnv) :
              i < Len(GivenEnv) \/ environ[i][1] /= "heap" => StringAt(environ[i]) = GivenEnv[i]
         /\ \/ Away(environ, GivenEnv)
            \/ /\ environ[1][1] = "in" /\ CopySize \in Nat /\ Len(Laid(GivenEnv)) = CopySize + 1
               /\ \A i \in 1 .. Len(GivenEnv) : StringAt(environ[i]) = GivenEnv[i]
  <1> DEFINE LA == Len(Laid(Shown))
             LE == Len(Laid(GivenEnv))
  <1>1. /\ memory \in Seq(Nat) /\ Len(memory) \in Nat /\ memory[Len(memory)] = NUL
        /\ argv = Places(1, Shown) /\ Holds(memory, 1, Laid(Shown)) /\ EnvInMemory
        /\ 1 \in Nat \ {0} /\ argv[1] = <<"in", 1>> /\ wanted \in Seq(Chars)
    BY LenProperties DEF MemoryEnds, SmoothMemory
  <1>2. /\ Shown \in Seq(Seq(Chars)) /\ Shown \in Seq(Seq(Nat))
        /\ GivenEnv \in Seq(Seq(Chars)) /\ GivenEnv \in Seq(Seq(Nat))
        /\ GivenParams \in Seq(Seq(Nat)) /\ wanted \in Seq(Nat)
        /\ Len(GivenEnv) \in Nat \ {0} /\ DOMAIN GivenEnv = 1 .. Len(GivenEnv)
        /\ Len(Shown) /= 0
    <2>1. Len(argv) /= 0
      BY DEF MemoryEnds
    <2> QED  BY <2>1, GivenFacts, LenProperties
  <1>3. LA \in Nat /\ LE \in Nat /\ LA <= Len(memory)
    <2>1. Laid(Shown) \in Seq(Nat) /\ Laid(GivenEnv) \in Seq(Nat)
      BY <1>2, LaidAppend
    <2>2. LA \in Nat /\ LE \in Nat
      BY <2>1, LenProperties
    <2>3. 1 + LA - 1 <= Len(memory)
      BY <1>1, Zenon DEF Holds
    <2> HIDE DEF LA, LE
    <2> QED  BY <1>1, <2>2, <2>3
  <1>4. StringAt(argv[1]) = wanted
    <2>1. Holds(memory, 1, Append(wanted, NUL))
      <3>1. Laid(Shown) = Append(wanted, NUL) \o Laid(GivenParams)
        BY <1>2, LaidCons DEF Shown
      <3>2. Append(wanted, NUL) \in Seq(Nat) /\ Laid(GivenParams) \in Seq(Nat)
        BY <1>2, LaidAppend, CharsAreBytes, AppendProperties
      <3>3. PICK x \in Seq(Nat), y \in Seq(Nat) : x = Append(wanted, NUL) /\ y = Laid(GivenParams)
        BY <3>2, Zenon
      <3>4. Holds(memory, 1, x \o y) <=> Holds(memory, 1, x) /\ Holds(memory, 1 + Len(x), y)
        BY <1>1, HoldsParts
      <3> QED  BY <1>1, <3>1, <3>3, <3>4, Zenon
    <2> QED  BY <1>1, <2>1, StringRead
  <1>5. ArgvLast = 1 + LA
    BY <1>1, <1>2, EndFromPlaces, Zenon DEF ArgvLast
  <1>6. CASE /\ environ = Places(1 + LA, GivenEnv)
             /\ Holds(memory, 1 + LA, Laid(GivenEnv))
             /\ Len(memory) + 1 = (1 + LA) + LE
    <2>1. 1 + LA \in Nat \ {0} /\ 1 \in 1 .. Len(GivenEnv)
      BY <1>2, <1>3
    <2>2. EnvLast = ((1 + LA) + LE) - 1
      <3>1. EndFrom(1 + LA, Places(1 + LA, GivenEnv)) = (1 + LA) + LE
        BY <1>1, <1>2, <1>6, <2>1, EndFromPlaces, Zenon
      <3>2. environ = Places(1 + LA, GivenEnv)
        BY <1>6
      <3> HIDE DEF LA, LE
      <3>3. EnvLast = EndFrom(1 + LA, environ) - 1
        BY <1>5, Zenon DEF EnvLast
      <3>4. EndFrom(1 + LA, environ) = (1 + LA) + LE
        BY <3>1, <3>2
      <3> QED  BY <3>3, <3>4
    <2>3. EnvLast = Len(memory)
      <3> HIDE DEF LA, LE
      <3> QED  BY <1>1, <1>3, <1>6, <2>2
    <2>4. \A k \in 1 .. Len(memory) : EnvLast <= k => memory[k] = NUL
      <3>1. \A k \in 1 .. Len(memory) : Len(memory) <= k => k = Len(memory)
        BY <1>1
      <3> QED  BY <1>1, <2>3, <3>1, Zenon
    <2>5. /\ DOMAIN environ = 1 .. Len(GivenEnv)
          /\ \A i \in 1 .. Len(GivenEnv) :
               /\ environ[i] = <<"in", (1 + LA) + Len(Laid(SubSeq(GivenEnv, 1, i - 1)))>>
               /\ StringAt(environ[i]) = GivenEnv[i]
      <3>1. \A i \in 1 .. Len(GivenEnv) :
              /\ Places(1 + LA, GivenEnv)[i]
                   = <<"in", (1 + LA) + Len(Laid(SubSeq(GivenEnv, 1, i - 1)))>>
              /\ StringAt(<<"in", (1 + LA) + Len(Laid(SubSeq(GivenEnv, 1, i - 1)))>>) = GivenEnv[i]
        <4>1. PICK n \in Nat \ {0} : n = 1 + LA /\ Holds(memory, n, Laid(GivenEnv))
          BY <1>6, <2>1, Zenon
        <4>2. PICK g \in Seq(Seq(Chars)) : g = GivenEnv /\ Holds(memory, n, Laid(g))
          BY <1>2, <4>1, Zenon
        <4>mem. memory \in Seq(Nat)
          BY <1>1
        <4>3. ASSUME NEW i \in 1 .. Len(g)
              PROVE  /\ Places(n, g)[i] = <<"in", n + Len(Laid(SubSeq(g, 1, i - 1)))>>
                     /\ StringAt(<<"in", n + Len(Laid(SubSeq(g, 1, i - 1)))>>) = g[i]
          BY <4>mem, <4>2, PlacesRead
        <4> QED  BY <4>1, <4>2, <4>3, Zenon
      <3>2. DOMAIN Places(1 + LA, GivenEnv) = 1 .. Len(GivenEnv)
        BY <1>1, <1>2, <1>6, <2>1, PlacesRead
      <3> QED  BY <1>6, <3>1, <3>2, Zenon
    <2>6. environ[1][1] = "in" /\ CopySize \in Nat /\ LE = CopySize + 1
      <3>1. PICK p : p = (1 + LA) + Len(Laid(SubSeq(GivenEnv, 1, 1 - 1))) /\ environ[1] = <<"in", p>>
        BY <2>1, <2>5, Zenon
      <3>2. p = 1 + LA
        <4>1. SubSeq(GivenEnv, 1, 1 - 1) = <<>>
          BY <1>2
        <4>2. Len(Laid(<<>>)) = 0
          BY LaidEmpty, EmptySeq
        <4>3. p = (1 + LA) + 0
          BY <3>1, <4>1, <4>2, Zenon
        <4> HIDE DEF LA, LE
        <4> QED  BY <1>3, <4>3
      <3>3. environ[1][1] = "in" /\ environ[1][2] = p
        BY <3>1
      <3>4. LE /= 0
        BY <1>2, LaidEnds
      <3>5. CopySize = EnvLast - p
        BY <3>3 DEF CopySize
      <3>6. PICK x \in Nat, y \in Nat \ {0} : x = LA /\ y = LE
        BY <1>3, <3>4, Zenon
      <3>7. CopySize = (((1 + x) + y) - 1) - (1 + x)
        <4> HIDE DEF LA, LE
        <4> QED  BY <2>2, <3>2, <3>5, <3>6
      <3>8. CopySize \in Nat /\ y = CopySize + 1
        BY <3>7
      <3> QED  BY <3>3, <3>6, <3>8, Zenon
    <2> HIDE DEF LA, LE
    <2>8. EnvLast \in Nat /\ LA <= EnvLast /\ EnvLast <= Len(memory)
      BY <1>1, <1>3, <2>3
    <2> QED  BY <1>3, <1>4, <1>5, <2>4, <2>5, <2>6, <2>8, Zenon DEF NameLen, LA, LE
  <1>7. CASE /\ Away(environ, GivenEnv)
             /\ \A k \in 1 .. Len(memory) : 1 + LA <= k + 1 => memory[k] = NUL
    <2>1. DOMAIN environ = 1 .. Len(GivenEnv) /\ Len(environ) = Len(GivenEnv)
      <3>1. DOMAIN environ = 1 .. Len(GivenEnv) /\ DOMAIN environ = 1 .. Len(environ)
        BY <1>7 DEF Away, MemoryEnds
      <3>2. Len(environ) = Len(GivenEnv)
        <4>1. Len(environ) \in Nat
          BY DEF MemoryEnds
        <4> QED  BY <1>2, <3>1, <4>1
      <3> QED  BY <3>1, <3>2
    <2>2. "in" /= "heap" /\ "in" /= "over"
      OBVIOUS
    <2>3. \A i \in 1 .. Len(GivenEnv) : environ[i][1] /= "in"
      BY <1>7, <2>2 DEF Away
    <2>4. \A i \in 1 .. Len(GivenEnv) :
            i < Len(GivenEnv) \/ environ[i][1] /= "heap" => StringAt(environ[i]) = GivenEnv[i]
      BY <1>7, <2>3, Zenon DEF StringAt, Away
    <2>5. EndFrom(1 + LA, environ) = 1 + LA
      <3>1. Len(environ) \in Nat /\ \A i \in 1 .. Len(environ) : environ[i][1] /= "in"
        BY <1>2, <2>1, <2>3
      <3> QED  BY <3>1, EndFromElsewhere, Zenon
    <2>6. EnvLast = LA
      <3>1. EnvLast = (1 + LA) - 1
        BY <1>5, <2>5, Zenon DEF EnvLast
      <3> HIDE DEF LA, LE
      <3> QED  BY <1>3, <3>1
    <2>7. \A k \in 1 .. Len(memory) : EnvLast <= k => memory[k] = NUL
      <3>1. \A k \in 1 .. Len(memory) : LA <= k => 1 + LA <= k + 1
        BY <1>1, <1>3
      <3> QED  BY <1>7, <2>6, <3>1, Zenon
    <2> HIDE DEF LA, LE
    <2>9. EnvLast \in Nat /\ LA <= EnvLast /\ EnvLast <= Len(memory)
      BY <1>1, <1>3, <2>6
    <2> QED  BY <1>3, <1>4, <1>5, <1>7, <2>1, <2>4, <2>7, <2>9, Zenon DEF NameLen, LA, LE
  <1> QED  BY <1>1, <1>6, <1>7, Zenon DEF EnvInMemory

LEMMA TypeFromInv == TitleInv => TitleTypeOK
  <1>1. CASE TitleInit
    <2>1. \A S : <<>> \in Seq(S) /\ DOMAIN <<>> = {}
      OBVIOUS
    <2> QED  BY <1>1, <2>1 DEF TitleInit, TitleTypeOK
  <1>2. CASE MemoryEnds
    <2>1. wanted \in Seq(Nat) /\ started \in Seq(Seq(Nat))
      BY <1>2, CharsAreBytes DEF MemoryEnds
    <2>2. DOMAIN memory = 1 .. Len(memory) /\ DOMAIN argv = 1 .. Len(argv)
      BY <1>2, LenProperties DEF MemoryEnds
    <2>3. ASSUME NEW i \in DOMAIN argv PROVE argv[i][1] = "in" /\ argv[i][2] \in DOMAIN memory
      <3>1. argv[i] \in InPlace
        BY <1>2, <2>2, <2>3, ElementOfSeq DEF MemoryEnds
      <3> QED  BY <1>2, <2>2, <2>3, <3>1, InPlaceIs, Zenon DEF MemoryEnds
    <2>4. \A i \in DOMAIN environ : \/ environ[i][1] = "in" /\ environ[i][2] \in DOMAIN memory
                                    \/ /\ environ[i][1] \in {"heap", "over"}
                                       /\ environ[i][2] \in Seq(Nat)
      BY <1>2, <2>2 DEF MemoryEnds, Located
    <2> QED  BY <1>2, <2>1, <2>3, <2>4, Zenon DEF MemoryEnds, TitleTypeOK
  <1> QED  BY <1>1, <1>2 DEF TitleInv

LEMMA KeptFromInv == TitleInv => TitleKept
  <1> SUFFICES ASSUME MemoryEnds, ParamsInMemory, SmoothMemory PROVE TitleKept
    BY DEF TitleInv, TitleInit, TitleKept
  <1>1. DOMAIN GivenParams = 1 .. Len(GivenParams)
    BY GivenFacts, LenProperties
  <1>2. (smooth \/ \A i \in DOMAIN GivenParams : GivenParams[i] /= <<>>) => Params = GivenParams
    BY <1>1, ParamsRead
  <1>3. PICK n \in Nat \ {0}, S \in Nat : n = Len(argv) /\ S = Len(started) /\ n < S
    BY LenProperties DEF MemoryEnds
  <1>4. Len(GivenEnv) = S - n /\ \A i \in 1 .. S - n : GivenEnv[i] = started[n + i]
    <2>1. \A i \in n + 1 .. S : started[i] \in Seq(Chars)
      <3>1. \A i \in 1 .. S : started[i] \in Seq(Chars)
        BY <1>3, ElementOfSeq DEF MemoryEnds
      <3> QED  BY <3>1
    <2>2. \A i \in 1 .. S - (n + 1) + 1 : SubSeq(started, n + 1, S)[i] = started[(n + 1) + i - 1]
      <3>1. n + 1 \in Int /\ S \in Int
        OBVIOUS
      <3> QED  BY <2>1, <3>1, SubSeqProperties
    <2>3. \A i \in 1 .. S - n : i \in 1 .. S - (n + 1) + 1 /\ (n + 1) + i - 1 = n + i
      OBVIOUS
    <2>4. Len(GivenEnv) = S - n /\ GivenEnv = SubSeq(started, n + 1, S)
      <3>1. Len(GivenEnv) = Len(started) - Len(argv)
        BY GivenFacts
      <3> QED  BY <1>3, <3>1 DEF GivenEnv
    <2>5. \A i \in 1 .. S - n : GivenEnv[i] = started[n + i]
      <3> SUFFICES ASSUME NEW i \in 1 .. S - n PROVE GivenEnv[i] = started[n + i]
        OBVIOUS
      <3>1. GivenEnv[i] = started[(n + 1) + i - 1]
        BY <2>2, <2>3, <2>4
      <3> QED  BY <2>3, <3>1
    <2> QED  BY <2>4, <2>5
  <1>5. ASSUME smooth
        PROVE  /\ StringAt(argv[1]) = wanted /\ Len(environ) = S - n
               /\ \A i \in DOMAIN environ :
                    i < Len(environ) \/ environ[i][1] /= "heap" => StringAt(environ[i]) = started[n + i]
    <2>1. /\ StringAt(argv[1]) = wanted /\ DOMAIN environ = 1 .. Len(GivenEnv)
          /\ \A i \in 1 .. Len(GivenEnv) :
               i < Len(GivenEnv) \/ environ[i][1] /= "heap" => StringAt(environ[i]) = GivenEnv[i]
      BY <1>5, SmoothFacts
    <2>2. Len(environ) = S - n /\ DOMAIN environ = 1 .. S - n
      <3>1. DOMAIN environ = 1 .. Len(environ) /\ Len(environ) \in Nat
        BY DEF MemoryEnds
      <3>2. PICK d \in Nat : d = S - n
        BY <1>3
      <3>3. 1 .. d = DOMAIN environ
        BY <1>4, <2>1, <3>2, Zenon
      <3>4. PICK l \in Nat : l = Len(environ) /\ DOMAIN environ = 1 .. l
        BY <3>1, Zenon
      <3>5. l = d
        BY <3>3, <3>4
      <3> QED  BY <3>2, <3>3, <3>4, <3>5, Zenon
    <2>3. \A i \in 1 .. S - n :
            i < S - n \/ environ[i][1] /= "heap" => StringAt(environ[i]) = GivenEnv[i]
      BY <1>4, <2>1, Zenon
    <2>4. \A i \in 1 .. S - n :
            i < S - n \/ environ[i][1] /= "heap" => StringAt(environ[i]) = started[n + i]
      BY <1>4, <2>3, Zenon
    <2>5. \A i \in DOMAIN environ :
            i < Len(environ) \/ environ[i][1] /= "heap" => StringAt(environ[i]) = started[n + i]
      BY <2>2, <2>4, Zenon
    <2> QED  BY <2>1, <2>2, <2>5, Zenon
  <1> QED  BY <1>2, <1>3, <1>5, Zenon DEF TitleKept, GivenParams

-----------------------------------------------------------------------------
(* Bytes nothing is written to stay.                                       *)
LEMMA HoldsKept ==
  ASSUME NEW m, NEW mm, NEW n \in Nat, NEW s, Len(s) \in Nat, Holds(m, n, s),
         Len(mm) = Len(m), \A k \in n .. (n + Len(s)) - 1 : mm[k] = m[k]
  PROVE  Holds(mm, n, s)
  <1>1. n + Len(s) - 1 <= Len(mm)
    BY DEF Holds
  <1>2. ASSUME NEW k \in 1 .. Len(s) PROVE mm[n + k - 1] = s[k]
    <2>1. n + k - 1 \in n .. (n + Len(s)) - 1
      OBVIOUS
    <2>2. m[n + k - 1] = s[k]
      BY Zenon DEF Holds
    <2> QED  BY <2>1, <2>2
  <1> QED  BY <1>1, <1>2, Zenon DEF Holds

(* If the title and the parameters are in memory, each parameter is, and   *)
(* the title has its end before it.                                        *)
LEMMA BehindTitle ==
  ASSUME NEW m \in Seq(Nat), NEW w \in Seq(Nat), NEW strs \in Seq(Seq(Nat)),
         Holds(m, 1, Laid(Before(w, strs)))
  PROVE  \A i \in 1 .. Len(strs) :
           /\ \E k \in 1 .. Places(1, Before(w, strs))[i + 1][2] - 1 : m[k] = NUL
           /\ Holds(m, Places(1, Before(w, strs))[i + 1][2], Append(strs[i], NUL))
  <1>1. PICK a \in Nat, M \in Nat : a = Len(w) /\ M = Len(m)
    BY LenProperties
  <1>2. PICK x \in Seq(Nat), y \in Seq(Nat) :
           /\ x = Append(w, NUL) /\ y = Laid(strs) /\ Laid(Before(w, strs)) = x \o y
           /\ Len(x) = a + 1 /\ x[a + 1] = NUL
    <2>1. /\ Append(w, NUL) \in Seq(Nat) /\ Len(Append(w, NUL)) = a + 1
          /\ Append(w, NUL)[a + 1] = NUL
      BY <1>1, CharsAreBytes, AppendProperties
    <2>2. Laid(strs) \in Seq(Nat)
      BY LaidEmpty, LaidConcat, <2>1, LaidAppend
    <2>3. Laid(Before(w, strs)) = Append(w, NUL) \o Laid(strs)
      BY LaidCons
    <2> QED  BY <2>1, <2>2, <2>3, Zenon
  <1>3. Holds(m, 1, x) /\ Holds(m, 1 + (a + 1), y)
    <2>1. 1 \in Nat
      OBVIOUS
    <2>2. Holds(m, 1, x \o y) <=> Holds(m, 1, x) /\ Holds(m, 1 + Len(x), y)
      BY <1>1, <2>1, HoldsParts, Zenon
    <2> QED  BY <1>2, <2>2, Zenon
  <1>4. m[a + 1] = NUL
    <2>1. a + 1 \in 1 .. a + 1 /\ 1 + (a + 1) - 1 = a + 1
      OBVIOUS
    <2> QED  BY <1>2, <1>3, <2>1, Zenon DEF Holds
  <1>5. PICK n \in Nat \ {0} : n = 1 + (a + 1) /\ n = (1 + a) + 1 /\ a + 1 \in Nat /\ 1 \in Nat
    OBVIOUS
  <1>6. ASSUME NEW i \in 1 .. Len(strs)
        PROVE  /\ \E k \in 1 .. Places(1, Before(w, strs))[i + 1][2] - 1 : m[k] = NUL
               /\ Holds(m, Places(1, Before(w, strs))[i + 1][2], Append(strs[i], NUL))
    <2>1. Places(1, Before(w, strs))[i + 1] = Places(n, strs)[i]
      <3>1. (1 + Len(w)) + 1 = n
        BY <1>1, <1>5
      <3>2. Places(1, Before(w, strs))[i + 1] = Places((1 + Len(w)) + 1, strs)[i]
        BY <1>5, PlacesCons
      <3> QED  BY <3>1, <3>2
    <2>2. PICK p \in Nat : /\ Places(n, strs)[i] = <<"in", p>> /\ n <= p
      <3>1. n \in Nat
        OBVIOUS
      <3> QED  BY <3>1, PlacesIn
    <2>3. Holds(m, n, Laid(strs))
      BY <1>2, <1>3, <1>5, Zenon
    <2>4. PICK q : Places(n, strs)[i] = <<"in", q>> /\ Holds(m, q, Append(strs[i], NUL))
      BY <2>3, PlacesHold
    <2>5. p = q /\ Places(n, strs)[i][2] = p
      <3>1. Places(n, strs)[i][2] = p
        BY <2>2
      <3>2. Places(n, strs)[i][2] = q
        BY <2>4
      <3> QED  BY <3>1, <3>2
    <2>6. a + 1 \in 1 .. p - 1
      BY <1>5, <2>2
    <2> QED  BY <1>4, <2>1, <2>4, <2>5, <2>6, Zenon
  <1> QED  BY <1>6

-----------------------------------------------------------------------------
(* What the process is started with has the type of strings.               *)
LEMMA StrsTyped ==
  ASSUME NEW n \in Nat, NEW lens \in [1 .. n -> Nat], NEW c \in Nat
  PROVE  /\ Strs(lens, c) \in Seq(Seq(Chars)) /\ Len(Strs(lens, c)) = n
         /\ \A i \in 1 .. n : Len(Strs(lens, c)[i]) = lens[i]
  <1> DEFINE str(i) == [k \in 1 .. lens[i] |-> c + i]
  <1>1. ASSUME NEW i \in 1 .. n PROVE str(i) \in Seq(Chars) /\ Len(str(i)) = lens[i]
    <2>1. lens[i] \in Nat /\ c + i \in Chars
      BY DEF Chars, NUL
    <2>2. str(i) \in [1 .. lens[i] -> Chars]
      BY <2>1
    <2> QED  BY <2>1, <2>2, IsSequence, Zenon
  <1>2. Strs(lens, c) = [i \in 1 .. n |-> str(i)]
    BY DEF Strs
  <1> HIDE DEF str
  <1>3. Strs(lens, c) \in [1 .. n -> Seq(Chars)]
    BY <1>1, <1>2
  <1>4. \A i \in 1 .. n : Strs(lens, c)[i] = str(i)
    BY <1>2, Zenon
  <1>5. Strs(lens, c) \in Seq(Seq(Chars)) /\ Len(Strs(lens, c)) = n
    BY <1>3, IsSequence, Zenon
  <1> QED  BY <1>1, <1>4, <1>5, Zenon

(* A sequence of strings is its first before the others.                   *)
LEMMA FirstBefore ==
  ASSUME NEW strs \in Seq(Seq(Chars)), NEW n \in Nat \ {0}, Len(strs) = n
  PROVE  /\ SubSeq(strs, 2, n) \in Seq(Seq(Chars)) /\ Len(SubSeq(strs, 2, n)) = n - 1
         /\ strs[1] \in Seq(Chars) /\ strs = Before(strs[1], SubSeq(strs, 2, n))
         /\ Laid(strs) \in Seq(Nat)
  <1>1. /\ 2 \in Int /\ n \in Int /\ n - 1 \in Nat /\ (n - 1) + 1 = n /\ n - 2 + 1 = n - 1
        /\ n - 1 = IF 2 <= n THEN n - 2 + 1 ELSE 0
        /\ 1 \in 1 .. n /\ \A i \in 2 .. n : i \in 1 .. n
        /\ \A i \in 1 .. n : i = 1 \/ (i - 1 \in 1 .. n - 1 /\ (i - 1) + 1 = i /\ 2 + (i - 1) - 1 = i)
    OBVIOUS
  <1>2. \A i \in 1 .. n : strs[i] \in Seq(Chars)
    BY ElementOfSeq
  <1>3. PICK r : /\ r = SubSeq(strs, 2, n) /\ r \in Seq(Seq(Chars)) /\ Len(r) = n - 1
                 /\ \A i \in 1 .. n - 1 : r[i] = strs[2 + i - 1]
    <2>1. /\ SubSeq(strs, 2, n) \in Seq(Seq(Chars))
          /\ Len(SubSeq(strs, 2, n)) = IF 2 <= n THEN n - 2 + 1 ELSE 0
          /\ \A i \in 1 .. n - 2 + 1 : SubSeq(strs, 2, n)[i] = strs[2 + i - 1]
      <3>1. \A i \in 2 .. n : strs[i] \in Seq(Chars)
        BY <1>1, <1>2, Zenon
      <3> QED  BY <1>1, <3>1, SubSeqProperties
    <2>2. Len(SubSeq(strs, 2, n)) = n - 1 /\ n - 2 + 1 = n - 1
      BY <1>1, <2>1
    <2> QED  BY <2>1, <2>2
  <1>4. strs \in Seq(Seq(Nat)) /\ r \in Seq(Seq(Nat)) /\ strs[1] \in Seq(Nat)
    BY <1>1, <1>2, <1>3, CharsAreBytes
  <1>5. PICK b : /\ b = Before(strs[1], r) /\ b \in Seq(Seq(Nat)) /\ Len(b) = n
                 /\ b[1] = strs[1] /\ \A i \in 1 .. n - 1 : b[i + 1] = r[i]
    <2>1. /\ Before(strs[1], r) \in Seq(Seq(Nat)) /\ Len(Before(strs[1], r)) = Len(r) + 1
          /\ Before(strs[1], r)[1] = strs[1]
          /\ \A i \in 1 .. Len(r) : Before(strs[1], r)[i + 1] = r[i]
      BY <1>4, LaidCons
    <2>2. Len(Before(strs[1], r)) = n
      <3>1. (n - 1) + 1 = n
        OBVIOUS
      <3> QED  BY <1>3, <2>1, <3>1, Zenon
    <2>3. Len(r) = n - 1
      BY <1>3
    <2> QED  BY <2>1, <2>2, <2>3
  <1>6. ASSUME NEW i \in 1 .. n PROVE b[i] = strs[i]
    <2>1. CASE i = 1
      BY <1>5, <2>1
    <2>2. CASE i - 1 \in 1 .. n - 1 /\ (i - 1) + 1 = i /\ 2 + (i - 1) - 1 = i
      <3>1. b[(i - 1) + 1] = r[i - 1] /\ r[i - 1] = strs[2 + (i - 1) - 1]
        BY <1>3, <1>5, <2>2
      <3> QED  BY <2>2, <3>1
    <2> QED  BY <1>1, <2>1, <2>2
  <1>7. b = strs
    <2>1. b \in Seq(Seq(Nat)) /\ strs \in Seq(Seq(Nat)) /\ Len(b) = Len(strs) /\ Len(b) = n
      BY <1>4, <1>5
    <2> QED  BY <1>6, <2>1, SeqEqual, Zenon
  <1>8. Laid(strs) \in Seq(Nat)
    BY <1>4, LaidAppend
  <1> QED  BY <1>1, <1>2, <1>3, <1>5, <1>7, <1>8, Zenon

(* The process starts with a memory, parameters and an environment as they *)
(* are from then on.                                                       *)
LEMMA StartStep ==
  ASSUME NEW args \in Seq(Seq(Chars)), NEW envs \in Seq(Seq(Chars)),
         Len(args) /= 0, Len(envs) /= 0, ProcStart(args, envs)
  PROVE  (MemoryEnds /\ ParamsInMemory /\ SmoothMemory)'
  <1>1. PICK n \in Nat \ {0}, v \in Nat \ {0} : n = Len(args) /\ v = Len(envs)
    BY LenProperties
  <1>2. args \in Seq(Seq(Nat)) /\ envs \in Seq(Seq(Nat))
    BY CharsAreBytes
  <1>3. PICK la \in Seq(Nat), le \in Seq(Nat), a \in Nat \ {0}, e \in Nat \ {0} :
           la = Laid(args) /\ le = Laid(envs) /\ a = Len(la) /\ e = Len(le)
    BY <1>1, <1>2, LaidEnds
  <1>4. PICK all \in Seq(Seq(Chars)) :
           /\ all = args \o envs /\ Len(all) = n + v
           /\ \A i \in 1 .. n : all[i] = args[i]
           /\ \A i \in 1 .. v : all[n + i] = envs[i]
    <2>1. /\ args \o envs \in Seq(Seq(Chars)) /\ Len(args \o envs) = n + v
          /\ \A i \in 1 .. n + v : (args \o envs)[i] = IF i <= n THEN args[i] ELSE envs[i - n]
      BY <1>1, ConcatProperties
    <2>2. /\ \A i \in 1 .. n : i \in 1 .. n + v /\ i <= n
          /\ \A i \in 1 .. v : n + i \in 1 .. n + v /\ ~(n + i <= n) /\ (n + i) - n = i
      OBVIOUS
    <2>3. \A i \in 1 .. n : (args \o envs)[i] = args[i]
      BY <2>1, <2>2, Zenon
    <2>4. \A i \in 1 .. v : (args \o envs)[n + i] = envs[i]
      BY <2>1, <2>2, Zenon
    <2> QED  BY <2>1, <2>3, <2>4, Zenon
  <1>5. memory' = la \o le /\ memory' \in Seq(Nat) /\ Len(memory') = a + e /\ memory'[Len(memory')] = NUL
    <2>1. all \in Seq(Seq(Nat)) /\ Len(all) /= 0
      BY <1>1, <1>4, CharsAreBytes
    <2>2. Laid(all) \in Seq(Nat) /\ Laid(all)[Len(Laid(all))] = NUL
      BY <2>1, LaidEnds, Zenon
    <2>3. Laid(all) = la \o le
      BY <1>2, <1>3, <1>4, LaidConcat
    <2>4. Len(la \o le) = a + e
      BY <1>3, ConcatProperties
    <2> QED  BY <1>4, <2>2, <2>3, <2>4, Zenon DEF ProcStart
  <1>6. Holds(memory', 1, la) /\ Holds(memory', 1 + a, le)
    <2>1. Holds(memory', 1, la \o le)
      <3>1. Len(la \o le) = a + e /\ Len(memory') = a + e
        BY <1>3, <1>5, ConcatProperties
      <3>2. 1 + (a + e) - 1 <= a + e /\ \A k \in 1 .. a + e : 1 + k - 1 = k
        OBVIOUS
      <3> QED  BY <1>5, <3>1, <3>2, Zenon DEF Holds
    <2>2. 1 \in Nat /\ Len(memory') \in Nat
      BY <1>5
    <2>3. Holds(memory', 1, la \o le) <=> Holds(memory', 1, la) /\ Holds(memory', 1 + Len(la), le)
      BY <2>2, HoldsParts
    <2> QED  BY <1>3, <2>1, <2>3
  <1>7. PICK ps \in Seq(Seq(Chars)), w \in Seq(Chars) :
           /\ ps = SubSeq(args, 2, n) /\ w = args[1] /\ args = Before(w, ps) /\ Len(ps) = n - 1
    BY <1>1, FirstBefore
  <1>8. /\ argv' \in Seq(InPlace) /\ Len(argv') = n /\ argv' = Places(1, args)
        /\ argv'[1] = <<"in", 1>> /\ \A i \in 1 .. n : argv'[i][2] \in 1 .. a
    <2>1. argv' = Places(1, args) /\ 1 \in Nat
      BY DEF ProcStart
    <2>2. /\ Places(1, args) \in Seq(InPlace) /\ Len(Places(1, args)) = n
          /\ \A i \in 1 .. n :
               LET p == 1 + Len(Laid(SubSeq(args, 1, i - 1)))
               IN /\ Places(1, args)[i] = <<"in", p>>
                  /\ p \in Nat /\ 1 <= p /\ p + 1 <= 1 + a
      <3>1. /\ Places(1, args) \in Seq(InPlace) /\ Len(Places(1, args)) = Len(args)
            /\ \A i \in 1 .. Len(args) :
                 LET p == 1 + Len(Laid(SubSeq(args, 1, i - 1)))
                 IN /\ Places(1, args)[i] = <<"in", p>>
                    /\ p \in Nat /\ 1 <= p /\ p + 1 <= 1 + Len(Laid(args))
        BY <1>2, <2>1, PlacesIn
      <3>2. Len(args) = n /\ Len(Laid(args)) = a
        BY <1>1, <1>3
      <3> QED  BY <3>1, <3>2, Zenon
    <2>3. ASSUME NEW i \in 1 .. n PROVE Places(1, args)[i][2] \in 1 .. a
      <3>1. PICK p \in Nat : Places(1, args)[i] = <<"in", p>> /\ 1 <= p /\ p + 1 <= 1 + a
        BY <2>2, Zenon
      <3>2. p \in 1 .. a
        BY <3>1
      <3>3. <<"in", p>>[2] = p
        OBVIOUS
      <3> QED  BY <3>1, <3>2, <3>3, Zenon
    <2>4. w \in Seq(Nat) /\ ps \in Seq(Seq(Nat))
      BY CharsAreBytes
    <2>5. Places(1, Before(w, ps))[1] = <<"in", 1>>
      BY <2>1, <2>4, PlacesCons, Zenon
    <2> QED  BY <1>7, <2>1, <2>2, <2>3, <2>5, Zenon
  <1>9. /\ Len(environ') = v /\ DOMAIN environ' = 1 .. v /\ environ' = Places(1 + a, envs)
        /\ \A i \in 1 .. v : environ'[i][1] = "in" /\ environ'[i][2] \in 1 .. a + e
    <2>1. environ' = Places(1 + a, envs) /\ 1 + a \in Nat
      BY <1>3 DEF ProcStart
    <2>2. /\ Places(1 + a, envs) \in Seq(InPlace) /\ Len(Places(1 + a, envs)) = v
          /\ \A i \in 1 .. v :
               LET p == (1 + a) + Len(Laid(SubSeq(envs, 1, i - 1)))
               IN /\ Places(1 + a, envs)[i] = <<"in", p>>
                  /\ p \in Nat /\ 1 + a <= p /\ p + 1 <= (1 + a) + e
      <3>1. /\ Places(1 + a, envs) \in Seq(InPlace) /\ Len(Places(1 + a, envs)) = Len(envs)
            /\ \A i \in 1 .. Len(envs) :
                 LET p == (1 + a) + Len(Laid(SubSeq(envs, 1, i - 1)))
                 IN /\ Places(1 + a, envs)[i] = <<"in", p>>
                    /\ p \in Nat /\ 1 + a <= p /\ p + 1 <= (1 + a) + Len(Laid(envs))
        BY <1>2, <2>1, PlacesIn
      <3>2. Len(envs) = v /\ Len(Laid(envs)) = e
        BY <1>1, <1>3
      <3> QED  BY <3>1, <3>2, Zenon
    <2>3. ASSUME NEW i \in 1 .. v
          PROVE  Places(1 + a, envs)[i][1] = "in" /\ Places(1 + a, envs)[i][2] \in 1 .. a + e
      <3>1. PICK p \in Nat : Places(1 + a, envs)[i] = <<"in", p>> /\ 1 + a <= p /\ p + 1 <= (1 + a) + e
        BY <2>2, Zenon
      <3>2. p \in 1 .. a + e
        BY <3>1
      <3>3. <<"in", p>>[1] = "in" /\ <<"in", p>>[2] = p
        OBVIOUS
      <3> QED  BY <3>1, <3>2, <3>3, Zenon
    <2>4. DOMAIN environ' = 1 .. v
      BY <2>1, <2>2, LenProperties
    <2> QED  BY <2>1, <2>2, <2>3, <2>4, Zenon
  <1>10. GivenParams' = ps
    <2>1. \A i \in 2 .. n : all[i] = args[i]
      BY <1>4
    <2>2. SubSeq(all, 2, n) = SubSeq(args, 2, n)
      BY <1>1, <1>4, <2>1
    <2>3. GivenParams' = SubSeq(all, 2, n)
      BY <1>4, <1>8 DEF GivenParams, ProcStart
    <2> QED  BY <1>7, <2>2, <2>3
  <1>11. GivenEnv' = envs
    <2>1. GivenEnv' = SubSeq(all, n + 1, n + v)
      BY <1>4, <1>8 DEF GivenEnv, ProcStart
    <2>2. /\ SubSeq(all, n + 1, n + v) \in Seq(Seq(Chars)) /\ Len(SubSeq(all, n + 1, n + v)) = v
          /\ \A i \in 1 .. v : SubSeq(all, n + 1, n + v)[i] = all[n + i]
      <3>1. /\ n + 1 \in Int /\ n + v \in Int /\ n + 1 <= n + v /\ (n + v) - (n + 1) + 1 = v
            /\ \A i \in 1 .. v : (n + 1) + i - 1 = n + i
            /\ \A i \in n + 1 .. n + v : i \in 1 .. n + v
        OBVIOUS
      <3>2. \A i \in n + 1 .. n + v : all[i] \in Seq(Chars)
        BY <1>4, <3>1, ElementOfSeq
      <3>3. /\ SubSeq(all, n + 1, n + v) \in Seq(Seq(Chars))
            /\ Len(SubSeq(all, n + 1, n + v)) = IF n + 1 <= n + v THEN (n + v) - (n + 1) + 1 ELSE 0
            /\ \A i \in 1 .. (n + v) - (n + 1) + 1 : SubSeq(all, n + 1, n + v)[i] = all[(n + 1) + i - 1]
        BY <3>1, <3>2, SubSeqProperties
      <3> QED  BY <3>1, <3>3
    <2>3. \A i \in 1 .. v : SubSeq(all, n + 1, n + v)[i] = envs[i]
      BY <1>4, <2>2
    <2> QED  BY <1>1, <2>1, <2>2, <2>3, SeqEqual, Zenon
  <1>12. Shown' = args /\ wanted' = w /\ smooth' = TRUE /\ started' = all
    BY <1>4, <1>7, <1>10, Zenon DEF Shown, ProcStart
  <1>13. MemoryEnds'
    <2>1. a + e /= 0 /\ n < n + v /\ n /= 0 /\ v \in Nat /\ \A i \in 1 .. a : i \in 1 .. a + e
      OBVIOUS
    <2>2. Located(environ)'
      BY <1>5, <1>9, Zenon DEF Located
    <2> QED  BY <1>4, <1>5, <1>8, <1>9, <1>12, <2>1, <2>2, Zenon DEF MemoryEnds
  <1>14. SmoothMemory'
    <2>1. Len(memory') + 1 = (1 + a) + e
      BY <1>5
    <2> QED  BY <1>3, <1>5, <1>6, <1>8, <1>9, <1>11, <1>12, <2>1, Zenon DEF SmoothMemory, EnvInMemory
  <1>15. ParamsInMemory'
    <2>1. w \in Seq(Nat) /\ ps \in Seq(Seq(Nat))
      BY CharsAreBytes
    <2>2. \A i \in 1 .. Len(ps) :
            /\ \E k \in 1 .. Places(1, Before(w, ps))[i + 1][2] - 1 : memory'[k] = NUL
            /\ Holds(memory', Places(1, Before(w, ps))[i + 1][2], Append(ps[i], NUL))
      <3>1. PICK mm \in Seq(Nat) : mm = memory'
        BY <1>5
      <3>2. Holds(mm, 1, Laid(Before(w, ps)))
        BY <1>3, <1>6, <1>7, <3>1
      <3> QED  BY <2>1, <3>1, <3>2, BehindTitle, Zenon
    <2> QED  BY <1>7, <1>8, <1>10, <2>2, Zenon DEF ParamsInMemory
  <1> QED  BY <1>13, <1>14, <1>15

(* A string is read by where and at which byte it is, and nothing else.    *)
StringIn(where, at) ==
  IF where /= "in" THEN at
  ELSE LET end == CHOOSE e \in at .. Len(memory) :
                    /\ memory[e] = NUL
                    /\ \A k \in at .. e - 1 : memory[k] /= NUL
       IN SubSeq(memory, at, end - 1)

LEMMA SameAddress ==
  \A a, b : a[1] = b[1] /\ a[2] = b[2] => StringAt(a) = StringAt(b)
  <1>1. ASSUME NEW a PROVE StringAt(a) = StringIn(a[1], a[2])
    BY Zenon DEF StringAt, StringIn
  <1> QED  BY <1>1, Zenon

(* Of the copies of strings laid in memory, all but the last one end       *)
(* before a memory that is a byte shorter does.                            *)
LEMMA AllButLast ==
  ASSUME NEW strs \in Seq(Seq(Nat)), NEW c \in Nat, Len(Laid(strs)) = c + 1,
         NEW i \in 1 .. Len(strs)
  PROVE  /\ i < Len(strs) => Len(Laid(SubSeq(strs, 1, i))) <= c
         /\ ~(i < Len(strs)) => ~(Len(Laid(SubSeq(strs, 1, i))) <= c)
  <1>1. PICK L \in Nat : L = Len(strs) /\ i \in 1 .. L
    BY LenProperties
  <1>2. PICK a \in Seq(Seq(Nat)), b \in Seq(Seq(Nat)) :
           /\ a = SubSeq(strs, 1, i) /\ b = SubSeq(strs, i + 1, L)
           /\ Laid(strs) = Laid(a) \o Laid(b)
    BY <1>1, LaidSplit, Zenon
  <1>3. PICK x \in Nat, y \in Nat : x = Len(Laid(a)) /\ y = Len(Laid(b)) /\ x + y = c + 1
    <2>1. Laid(a) \in Seq(Nat) /\ Laid(b) \in Seq(Nat)
      BY LaidAppend
    <2>2. Len(Laid(a) \o Laid(b)) = Len(Laid(a)) + Len(Laid(b))
      BY <2>1, ConcatProperties
    <2> QED  BY <1>2, <2>1, <2>2, LenProperties, Zenon
  <1>4. ASSUME i < L PROVE y /= 0
    <2>1. \A k \in i + 1 .. L : k \in 1 .. L
      BY <1>1
    <2>2. \A k \in i + 1 .. L : strs[k] \in Seq(Nat)
      BY <1>1, <2>1, ElementOfSeq
    <2>3. i + 1 \in Int /\ L \in Int /\ L - (i + 1) + 1 /= 0 /\ i + 1 <= L
      BY <1>1, <1>4
    <2>4. Len(b) /= 0
      BY <1>2, <2>2, <2>3, SubSeqProperties
    <2> QED  BY <1>3, <2>4, LaidEnds
  <1>5. ASSUME ~(i < L) PROVE y = 0
    <2>1. b = <<>>
      BY <1>1, <1>2, <1>5
    <2> QED  BY <1>3, <2>1, LaidEmpty, EmptySeq
  <1> QED  BY <1>1, <1>2, <1>3, <1>4, <1>5

(* What the addresses of the given strings are read as.                    *)
LEMMA ReadBefore ==
  ASSUME NEW as, NEW L \in Nat, Len(as) = L, DOMAIN as = 1 .. L,
         NEW given \in Seq(Seq(Nat)), Len(given) = L,
         \A i \in 1 .. L : StringAt(as[i]) = given[i], NEW i \in 1 .. L
  PROVE  StringsAt(SubSeq(as, 1, i)) = SubSeq(given, 1, i)
  <1>1. SubSeq(as, 1, i) = [k \in 1 .. i |-> as[k]]
    OBVIOUS
  <1>2. SubSeq(given, 1, i) = [k \in 1 .. i |-> given[k]]
    OBVIOUS
  <1>3. \A k \in 1 .. i : k \in 1 .. L
    OBVIOUS
  <1>4. StringsAt(SubSeq(as, 1, i)) = [k \in 1 .. i |-> StringAt(as[k])]
    BY <1>1 DEF StringsAt
  <1> QED  BY <1>2, <1>3, <1>4

(* smp_cpy_environs leaves an address of every variable, whatever happens, *)
(* and, if smooth, copies of the variables, the last one without its end.  *)
LEMMA EnvCopied ==
  ASSUME MemoryEnds, NEW ok \in BOOLEAN, CpyEnvirons(ok)
  PROVE  /\ Len(environ') = Len(environ) /\ DOMAIN environ' = 1 .. Len(environ)
         /\ \A i \in 1 .. Len(environ) :
              \/ environ'[i][1] = "in" /\ environ'[i][2] \in 1 .. Len(memory)
              \/ environ'[i][1] \in {"heap", "over"} /\ environ'[i][2] \in Seq(Nat)
         /\ ok /\ smooth /\ SmoothMemory => Away(environ', GivenEnv)
  <1>1. PICK E \in Nat : E = Len(environ) /\ DOMAIN environ = 1 .. E
    BY DEF MemoryEnds
  <1>2. \A i \in 1 .. E : \/ environ[i][1] = "in" /\ environ[i][2] \in 1 .. Len(memory)
                          \/ environ[i][1] \in {"heap", "over"} /\ environ[i][2] \in Seq(Nat)
    BY <1>1 DEF MemoryEnds, Located
  <1>3. ASSUME NEW i \in 1 .. E PROVE StringAt(environ[i]) \in Seq(Nat)
    <2>1. CASE environ[i][1] = "in" /\ environ[i][2] \in 1 .. Len(memory)
      <3>1. PICK p \in 1 .. Len(memory) : environ[i][2] = p
        BY <2>1, Zenon
      <3>2. StringAt(<<"in", p>>) \in Seq(Chars)
        BY StringExists, Zenon DEF MemoryEnds
      <3>3. <<"in", p>>[1] = environ[i][1] /\ <<"in", p>>[2] = environ[i][2]
        BY <2>1, <3>1
      <3>4. StringAt(environ[i]) = StringAt(<<"in", p>>)
        BY <3>3, SameAddress
      <3> QED  BY <3>2, <3>4, CharsAreBytes
    <2>2. CASE environ[i][1] \in {"heap", "over"} /\ environ[i][2] \in Seq(Nat)
      <3>1. environ[i][1] /= "in"
        BY <2>2
      <3> QED  BY <2>2, <3>1, Zenon DEF StringAt
    <2> QED  BY <1>2, <2>1, <2>2
  <1> DEFINE Fit(i) == Len(Laid(StringsAt(SubSeq(environ, 1, i)))) <= CopySize
             Where(i) == IF Fit(i) THEN "heap" ELSE "over"
  <1>4. CASE environ' = [i \in 1 .. E |-> <<Where(i), StringAt(environ[i])>>]
    <2>1. \A i \in 1 .. E : environ'[i][1] = Where(i) /\ environ'[i][2] = StringAt(environ[i])
      <3> HIDE DEF Where
      <3> QED  BY <1>4
    <2>2. \A i \in 1 .. E : Where(i) \in {"heap", "over"}
      <3> HIDE DEF Fit
      <3> QED  OBVIOUS
    <2>3. Len(environ') = E /\ DOMAIN environ' = 1 .. E
      <3>1. environ' \in [1 .. E -> {"heap", "over"} \X Seq(Nat)]
        <4> HIDE DEF Where
        <4> QED  BY <1>3, <1>4, <2>2
      <3> QED  BY <3>1, IsSequence, Zenon
    <2>4. \A i \in 1 .. E : environ'[i][1] \in {"heap", "over"} /\ environ'[i][2] \in Seq(Nat)
      <3> HIDE DEF Where
      <3> QED  BY <1>3, <2>1, <2>2, Zenon
    <2>5. ASSUME smooth, SmoothMemory, environ[1][1] = "in" PROVE Away(environ', GivenEnv)
      <3>1. GivenEnv \in Seq(Seq(Nat)) /\ Len(GivenEnv) \in Nat \ {0} /\ "in" \notin {"heap", "over"}
        BY GivenFacts
      <3>2. /\ DOMAIN environ = 1 .. Len(GivenEnv) /\ ~Away(environ, GivenEnv)
            /\ \/ Away(environ, GivenEnv)
               \/ /\ CopySize \in Nat /\ Len(Laid(GivenEnv)) = CopySize + 1
                  /\ \A i \in 1 .. Len(GivenEnv) : StringAt(environ[i]) = GivenEnv[i]
        <4>1. 1 \in 1 .. Len(GivenEnv)
          BY <3>1
        <4>2. ~Away(environ, GivenEnv)
          BY <2>5, <3>1, <4>1, Zenon DEF Away
        <4> QED  BY <2>5, <4>2, SmoothFacts, Zenon
      <3>3. Len(GivenEnv) = E
        BY <1>1, <3>1, <3>2
      <3>4. /\ CopySize \in Nat /\ Len(Laid(GivenEnv)) = CopySize + 1
            /\ \A i \in 1 .. E : StringAt(environ[i]) = GivenEnv[i]
        BY <3>2, <3>3, Zenon
      <3>5. ASSUME NEW i \in 1 .. E
            PROVE  (i < E => Where(i) = "heap") /\ (~(i < E) => Where(i) = "over")
        <4>1. StringsAt(SubSeq(environ, 1, i)) = SubSeq(GivenEnv, 1, i)
          <5>1. \A k \in 1 .. E : StringAt(environ[k]) = GivenEnv[k]
            BY <3>4
          <5>2. GivenEnv \in Seq(Seq(Nat)) /\ Len(environ) = E
            BY <1>1, <3>1
          <5> QED  BY <1>1, <3>3, <5>1, <5>2, ReadBefore
        <4>2. (i < E => Fit(i)) /\ (~(i < E) => ~Fit(i))
          BY <3>1, <3>3, <3>4, <4>1, AllButLast, Zenon
        <4> HIDE DEF Fit
        <4> QED  BY <4>2
      <3> HIDE DEF Where
      <3> QED  BY <2>1, <2>2, <2>3, <3>3, <3>4, <3>5, Zenon DEF Away
    <2> HIDE DEF Where
    <2>6. ASSUME ok, smooth, SmoothMemory PROVE Away(environ', GivenEnv)
      <3>1. CASE environ[1][1] = "in"
        BY <2>5, <2>6, <3>1
      <3>2. CASE environ[1][1] /= "in"
        <4>1. environ' = environ
          BY <3>2, Zenon DEF CpyEnvirons
        <4>2. Away(environ, GivenEnv)
          BY <2>6, <3>2, SmoothFacts, Zenon
        <4> QED  BY <4>1, <4>2
      <3> QED  BY <3>1, <3>2
    <2> QED  BY <1>1, <2>3, <2>4, <2>6, Zenon
  <1>5. CASE environ' = environ /\ ~(ok /\ environ[1][1] = "in" /\ CopySize >= 0)
    <2>1. ASSUME ok, smooth, SmoothMemory PROVE Away(environ', GivenEnv)
      <3>1. Away(environ, GivenEnv) \/ (environ[1][1] = "in" /\ CopySize \in Nat)
        BY <2>1, SmoothFacts
      <3>2. CopySize \in Nat => CopySize >= 0
        OBVIOUS
      <3> QED  BY <1>5, <2>1, <3>1, <3>2, Zenon
    <2> QED  BY <1>1, <1>2, <1>5, <2>1, Zenon
  <1>6. \/ environ' = [i \in 1 .. E |-> <<Where(i), StringAt(environ[i])>>]
        \/ environ' = environ /\ ~(ok /\ environ[1][1] = "in" /\ CopySize >= 0)
    BY <1>1, Zenon DEF CpyEnvirons
  <1> QED  BY <1>4, <1>5, <1>6

LEMMA TitleTyped ==
  ASSUME NEW t \in Nat
  PROVE  /\ Title(t) \in Seq(Chars) /\ Title(t) \in Seq(Nat) /\ Title(t) \in Seq(Bytes)
         /\ Len(Title(t)) = t /\ \A k \in 1 .. t : Title(t)[k] = TITLE
  <1>1. Title(t) \in [1 .. t -> Chars]
    BY DEF Title, Chars, NUL, TITLE
  <1>2. Title(t) \in Seq(Chars) /\ Len(Title(t)) = t
    BY <1>1, IsSequence, Zenon
  <1>3. \A k \in 1 .. t : Title(t)[k] = TITLE
    BY DEF Title
  <1>4. Title(t) \in [1 .. t -> Bytes]
    BY <1>1 DEF Chars, Bytes
  <1>5. Title(t) \in Seq(Bytes)
    BY <1>4, IsSequence, Zenon
  <1> QED  BY <1>2, <1>3, <1>5, CharsAreBytes

(* A name of the same length leaves everything else where it was.          *)
LEMMA PlacesRenamed ==
  ASSUME NEW w \in Seq(Nat), NEW x \in Seq(Nat), Len(w) = Len(x), NEW strs \in Seq(Seq(Nat))
  PROVE  /\ Places(1, Before(w, strs)) = Places(1, Before(x, strs))
         /\ Len(Laid(Before(w, strs))) = Len(Laid(Before(x, strs)))
  <1>1. PICK L \in Nat : L = Len(strs)
    BY LenProperties
  <1>2. /\ Before(w, strs) \in Seq(Seq(Nat)) /\ Len(Before(w, strs)) = L + 1
        /\ Before(x, strs) \in Seq(Seq(Nat)) /\ Len(Before(x, strs)) = L + 1
        /\ Len(Laid(Before(w, strs))) = Len(Laid(Before(x, strs)))
    <2>1. /\ Before(w, strs) \in Seq(Seq(Nat)) /\ Len(Before(w, strs)) = Len(strs) + 1
          /\ Len(Laid(Before(w, strs))) = (Len(w) + 1) + Len(Laid(strs))
      BY LaidCons
    <2>2. /\ Before(x, strs) \in Seq(Seq(Nat)) /\ Len(Before(x, strs)) = Len(strs) + 1
          /\ Len(Laid(Before(x, strs))) = (Len(x) + 1) + Len(Laid(strs))
      BY LaidCons
    <2> QED  BY <1>1, <2>1, <2>2, Zenon
  <1>3. PICK p \in Seq(InPlace), q \in Seq(InPlace) :
           /\ p = Places(1, Before(w, strs)) /\ q = Places(1, Before(x, strs))
           /\ Len(p) = L + 1 /\ Len(q) = L + 1
    <2>1. 1 \in Nat
      OBVIOUS
    <2>2. /\ Places(1, Before(w, strs)) \in Seq(InPlace)
          /\ Len(Places(1, Before(w, strs))) = Len(Before(w, strs))
      BY <1>2, <2>1, PlacesIn
    <2>3. /\ Places(1, Before(x, strs)) \in Seq(InPlace)
          /\ Len(Places(1, Before(x, strs))) = Len(Before(x, strs))
      BY <1>2, <2>1, PlacesIn
    <2> QED  BY <1>2, <2>2, <2>3, Zenon
  <1>4. ASSUME NEW i \in 1 .. L + 1 PROVE p[i] = q[i]
    <2>0. 1 \in Nat
      OBVIOUS
    <2>1. CASE i = 1
      <3>1. Places(1, Before(w, strs))[1] = <<"in", 1>>
        BY <2>0, PlacesCons
      <3>2. Places(1, Before(x, strs))[1] = <<"in", 1>>
        BY <2>0, PlacesCons
      <3> QED  BY <1>3, <2>1, <3>1, <3>2, Zenon
    <2>2. CASE i /= 1
      <3>1. i - 1 \in 1 .. L /\ (i - 1) + 1 = i
        BY <2>2
      <3>2. p[(i - 1) + 1] = Places((1 + Len(w)) + 1, strs)[i - 1]
        BY <1>1, <1>3, <2>0, <3>1, PlacesCons, Zenon
      <3>3. q[(i - 1) + 1] = Places((1 + Len(x)) + 1, strs)[i - 1]
        BY <1>1, <1>3, <2>0, <3>1, PlacesCons, Zenon
      <3> QED  BY <3>1, <3>2, <3>3, Zenon
    <2> QED  BY <2>1, <2>2
  <1>5. p = q
    BY <1>3, <1>4, SeqEqual, Zenon
  <1> QED  BY <1>2, <1>3, <1>5, Zenon

(* A title in the place of the name changes no byte behind the name.       *)
LEMMA InPlaceBytes ==
  ASSUME MemoryEnds, NEW t \in Nat, TitleInPlace(t)
  PROVE  /\ memory' \in Seq(Nat) /\ Len(memory') = Len(memory)
         /\ t <= NameLen /\ NameLen + 1 \in Nat
         /\ \A k \in 1 .. Len(memory) : /\ k <= t => memory'[k] = TITLE
                                        /\ NameLen + 1 <= k => memory'[k] = memory[k]
  <1>1. PICK N \in Nat, M \in Nat : N = NameLen /\ M = Len(memory)
    BY NameFacts, LenProperties DEF MemoryEnds
  <1>2. t <= N /\ memory' = Overwritten(N + 1, Title(t))
    BY <1>1 DEF TitleInPlace
  <1>3. Title(t) \in Seq(Bytes) /\ Len(Title(t)) = t /\ \A k \in 1 .. t : Title(t)[k] = TITLE
    BY TitleTyped
  <1>4. /\ memory' \in Seq(Nat) /\ Len(memory') = M
        /\ \A k \in 1 .. M : memory'[k] = IF k <= t /\ Title(t)[k] /= KEPT THEN Title(t)[k]
                                          ELSE IF k < N + 1 THEN NUL ELSE memory[k]
    <2>1. memory \in Seq(Nat)
      BY DEF MemoryEnds
    <2> QED  BY <1>1, <1>2, <1>3, <2>1, OverwrittenIs, Zenon
  <1>5. ASSUME NEW k \in 1 .. M
        PROVE  (k <= t => memory'[k] = TITLE) /\ (N + 1 <= k => memory'[k] = memory[k])
    <2>1. (k <= t => k \in 1 .. t) /\ (N + 1 <= k => ~(k <= t) /\ ~(k < N + 1)) /\ TITLE /= KEPT
      BY <1>2 DEF TITLE, KEPT
    <2>2. ASSUME k <= t PROVE memory'[k] = TITLE
      <3>1. Title(t)[k] = TITLE
        BY <1>3, <2>1, <2>2
      <3> QED  BY <1>4, <2>1, <2>2, <3>1, Zenon
    <2>3. ASSUME N + 1 <= k PROVE memory'[k] = memory[k]
      BY <1>4, <2>1, <2>3, Zenon
    <2> QED  BY <2>2, <2>3
  <1>6. N + 1 \in Nat
    OBVIOUS
  <1> QED  BY <1>1, <1>2, <1>4, <1>5, <1>6, Zenon

LEMMA InPlaceStep ==
  ASSUME MemoryEnds, ParamsInMemory, SmoothMemory, NEW t \in Nat, TitleInPlace(t)
  PROVE  (MemoryEnds /\ ParamsInMemory /\ SmoothMemory)'
  <1>1. PICK N \in Nat, M \in Nat, mm \in Seq(Nat) :
           /\ N = NameLen /\ M = Len(memory) /\ mm = memory' /\ Len(mm) = M /\ t <= N
           /\ \A k \in 1 .. M : /\ k <= t => mm[k] = TITLE
                                /\ N + 1 <= k => mm[k] = memory[k]
    <2>1. NameLen \in Nat /\ Len(memory) \in Nat
      BY NameFacts, LenProperties DEF MemoryEnds
    <2> QED  BY <2>1, InPlaceBytes, Zenon
  <1>2. /\ N + 1 <= M /\ memory[N + 1] = NUL
        /\ \A k \in 1 .. M : memory[k] = NUL => N + 1 <= k
    BY <1>1, NameFacts
  <1>3. /\ argv' = argv /\ environ' = environ /\ started' = started
        /\ wanted' = Title(t) /\ smooth' = (smooth /\ t = N)
    BY <1>1 DEF TitleInPlace
  <1>4. GivenParams' = GivenParams /\ GivenEnv' = GivenEnv
    BY <1>3 DEF GivenParams, GivenEnv
  <1>5. ASSUME NEW p \in Nat, N + 1 <= p, NEW s \in Seq(Nat), Holds(memory, p, s)
        PROVE  Holds(mm, p, s)
    <2>1. PICK l \in Nat : l = Len(s)
      BY LenProperties
    <2>2. p + l - 1 <= M
      BY <1>1, <1>5, <2>1 DEF Holds
    <2>3. \A k \in p .. (p + l) - 1 : k \in 1 .. M /\ N + 1 <= k
      BY <1>5, <2>2
    <2>4. \A k \in p .. (p + l) - 1 : mm[k] = memory[k]
      BY <1>1, <2>3, Zenon
    <2> QED  BY <1>1, <1>5, <2>1, <2>4, HoldsKept, Zenon
  <1>6. MemoryEnds'
    <2>1. mm[M] = NUL /\ M /= 0
      <3>1. M \in 1 .. M /\ N + 1 <= M /\ M /= 0
        BY <1>2
      <3>2. memory[M] = NUL
        BY <1>1 DEF MemoryEnds
      <3> QED  BY <1>1, <3>1, <3>2
    <2>2. Title(t) \in Seq(Chars) /\ smooth' \in BOOLEAN
      BY <1>3, TitleTyped DEF MemoryEnds
    <2>3. Located(environ)'
      <3>1. Located(environ)
        BY DEF MemoryEnds
      <3> QED  BY <1>1, <1>3, <3>1, Zenon DEF Located
    <2> QED  BY <1>1, <1>3, <2>1, <2>2, <2>3, Zenon DEF MemoryEnds
  <1>7. ParamsInMemory'
    <2> SUFFICES ASSUME smooth' \/ \A i \in 1 .. Len(GivenParams) : GivenParams[i] /= <<>>,
                        NEW i \in 1 .. Len(GivenParams)
                 PROVE  /\ \E k \in 1 .. argv[i + 1][2] - 1 : mm[k] = NUL
                        /\ Holds(mm, argv[i + 1][2], Append(GivenParams[i], NUL))
      BY <1>1, <1>3, <1>4, Zenon DEF ParamsInMemory
    <2>1. PICK p \in 1 .. M : p = argv[i + 1][2]
      <3>1. Len(argv) \in Nat /\ Len(GivenParams) = Len(argv) - 1
        BY GivenFacts, LenProperties DEF MemoryEnds
      <3>2. i + 1 \in 1 .. Len(argv)
        BY <3>1
      <3> QED  BY <1>1, <3>2 DEF MemoryEnds
    <2>2. /\ \E k \in 1 .. p - 1 : memory[k] = NUL
          /\ Holds(memory, p, Append(GivenParams[i], NUL))
      BY <1>3, <2>1 DEF ParamsInMemory
    <2>3. PICK k \in 1 .. p - 1 : memory[k] = NUL
      BY <2>2
    <2>4. k \in 1 .. M /\ p \in Nat
      BY <2>1
    <2>5. N + 1 <= k
      BY <1>2, <2>3, <2>4
    <2>6. N + 1 <= p
      BY <2>5
    <2>7. Append(GivenParams[i], NUL) \in Seq(Nat)
      <3>1. GivenParams[i] \in Seq(Nat)
        BY GivenFacts, ElementOfSeq
      <3> QED  BY <3>1, CharsAreBytes, AppendProperties
    <2> QED  BY <1>1, <1>5, <2>1, <2>2, <2>3, <2>4, <2>5, <2>6, <2>7, Zenon
  <1>8. ASSUME smooth' PROVE /\ argv = Places(1, Before(Title(t), GivenParams))
                             /\ Holds(mm, 1, Laid(Before(Title(t), GivenParams)))
                             /\ EnvInMemory'
    <2>1. /\ smooth /\ t = N /\ Len(wanted) = t /\ argv = Places(1, Shown)
          /\ Holds(memory, 1, Laid(Shown)) /\ EnvInMemory
      BY <1>1, <1>3, <1>8, SmoothFacts DEF SmoothMemory
    <2>2. /\ wanted \in Seq(Nat) /\ GivenParams \in Seq(Seq(Nat)) /\ GivenEnv \in Seq(Seq(Nat))
          /\ Title(t) \in Seq(Nat) /\ Len(Title(t)) = t
      BY GivenFacts, TitleTyped
    <2>3. /\ Places(1, Shown) = Places(1, Before(Title(t), GivenParams))
          /\ Len(Laid(Shown)) = Len(Laid(Before(Title(t), GivenParams)))
      BY <2>1, <2>2, PlacesRenamed, Zenon DEF Shown
    <2>4. PICK x \in Seq(Nat), y \in Seq(Nat), z \in Seq(Nat), a \in Nat :
             /\ x = Append(wanted, NUL) /\ Len(x) = t + 1
             /\ z = Append(Title(t), NUL) /\ Len(z) = t + 1
             /\ z[t + 1] = NUL /\ \A k \in 1 .. t : z[k] = TITLE
             /\ y = Laid(GivenParams) /\ a = Len(y)
      <3>1. /\ Append(wanted, NUL) \in Seq(Nat) /\ Len(Append(wanted, NUL)) = t + 1
        BY <2>1, <2>2, CharsAreBytes, AppendProperties
      <3>2. /\ Append(Title(t), NUL) \in Seq(Nat) /\ Len(Append(Title(t), NUL)) = t + 1
            /\ Append(Title(t), NUL)[t + 1] = NUL
            /\ \A k \in 1 .. t : Append(Title(t), NUL)[k] = Title(t)[k]
        BY <2>2, CharsAreBytes, AppendProperties
      <3>3. \A k \in 1 .. t : Title(t)[k] = TITLE
        BY TitleTyped
      <3>4. Laid(GivenParams) \in Seq(Nat)
        BY <2>2, LaidAppend
      <3>5. PICK x \in Seq(Nat) : x = Append(wanted, NUL) /\ Len(x) = t + 1
        BY <3>1, Zenon
      <3>6. PICK z \in Seq(Nat) : /\ z = Append(Title(t), NUL) /\ Len(z) = t + 1
                                  /\ z[t + 1] = NUL /\ \A k \in 1 .. t : z[k] = TITLE
        BY <3>2, <3>3, Zenon
      <3>7. PICK y \in Seq(Nat), a \in Nat : y = Laid(GivenParams) /\ a = Len(y)
        BY <3>4, LenProperties
      <3> QED  BY <3>5, <3>6, <3>7, Zenon
    <2>5. Laid(Shown) = x \o y /\ Laid(Before(Title(t), GivenParams)) = z \o y
      BY <2>2, <2>4, LaidCons, Zenon DEF Shown
    <2>6. 1 \in Nat /\ 1 + (t + 1) \in Nat /\ N + 1 <= 1 + (t + 1)
      BY <2>1
    <2>7. Holds(memory, 1 + (t + 1), y)
      <3>1. Holds(memory, 1, x \o y) <=> Holds(memory, 1, x) /\ Holds(memory, 1 + Len(x), y)
        BY <1>1, <2>6, HoldsParts, Zenon
      <3> QED  BY <2>1, <2>4, <2>5, <3>1, Zenon
    <2>8. Holds(mm, 1, z)
      <3>1. 1 + (t + 1) - 1 <= M /\ \A k \in 1 .. t + 1 : 1 + k - 1 = k /\ k \in 1 .. M
        BY <1>1, <1>2, <2>1
      <3>2. mm[t + 1] = NUL
        <4>1. t + 1 \in 1 .. M /\ N + 1 <= t + 1
          BY <1>2, <2>1
        <4> QED  BY <1>1, <1>2, <2>1, <4>1, Zenon
      <3>3. \A k \in 1 .. t : mm[k] = TITLE
        <4>1. \A k \in 1 .. t : k \in 1 .. M /\ k <= t
          BY <1>1, <1>2
        <4> QED  BY <1>1, <4>1, Zenon
      <3>4. \A k \in 1 .. t + 1 : k \in 1 .. t \/ k = t + 1
        BY UpToNext
      <3>5. \A k \in 1 .. t + 1 : mm[k] = z[k]
        BY <2>4, <3>2, <3>3, <3>4, Zenon
      <3> QED  BY <1>1, <2>4, <3>1, <3>5, Zenon DEF Holds
    <2>9. Holds(mm, 1, z \o y)
      <3>1. Holds(mm, 1, z \o y) <=> Holds(mm, 1, z) /\ Holds(mm, 1 + Len(z), y)
        BY <1>1, <2>6, HoldsParts, Zenon
      <3>2. Holds(mm, 1 + (t + 1), y)
        BY <1>5, <2>6, <2>7, Zenon
      <3> QED  BY <2>4, <2>8, <3>1, <3>2, Zenon
    <2>10. PICK e \in Nat : e = 1 + Len(Laid(Shown)) /\ N + 1 <= e /\ \A k \in Nat : e <= k + 1 => N + 1 <= k
      <3>1. Len(Laid(Shown)) = (t + 1) + a
        <4>1. Len(x \o y) = Len(x) + Len(y)
          BY ConcatProperties
        <4> QED  BY <2>4, <2>5, <4>1, Zenon
      <3>2. 1 + ((t + 1) + a) \in Nat /\ N + 1 <= 1 + ((t + 1) + a)
            /\ \A k \in Nat : 1 + ((t + 1) + a) <= k + 1 => N + 1 <= k
        BY <2>1
      <3> QED  BY <3>1, <3>2
    <2>11. EnvInMemory'
      <3>1. 1 + Len(Laid(Shown))' = e
        BY <1>3, <1>4, <2>3, <2>10, Zenon DEF Shown
      <3>2. CASE /\ environ = Places(e, GivenEnv)
                 /\ Holds(memory, e, Laid(GivenEnv))
                 /\ Len(memory) + 1 = e + Len(Laid(GivenEnv))
        <4>1. Laid(GivenEnv) \in Seq(Nat)
          BY <2>2, LaidAppend
        <4>2. Holds(mm, e, Laid(GivenEnv))
          BY <1>5, <2>10, <3>2, <4>1, Zenon
        <4> QED  BY <1>1, <1>3, <1>4, <3>1, <3>2, <4>2, Zenon DEF EnvInMemory
      <3>3. CASE /\ Away(environ, GivenEnv)
                 /\ \A k \in 1 .. Len(memory) : e <= k + 1 => memory[k] = NUL
        <4>1. \A k \in 1 .. M : k \in Nat
          OBVIOUS
        <4>2. \A k \in 1 .. M : e <= k + 1 => mm[k] = NUL
          BY <1>1, <2>10, <3>3, <4>1, Zenon
        <4> QED  BY <1>1, <1>3, <1>4, <3>1, <3>3, <4>2, Zenon DEF EnvInMemory
      <3> QED  BY <2>1, <2>10, <3>2, <3>3, Zenon DEF EnvInMemory
    <2> QED  BY <2>1, <2>3, <2>5, <2>9, <2>11
  <1>9. SmoothMemory'
    BY <1>1, <1>3, <1>4, <1>8, Zenon DEF SmoothMemory, Shown
  <1> QED  BY <1>6, <1>7, <1>9

(* A memory that is written over has l at its beginning if l is written    *)
(* with the end of each string, or if what is not written is NUL already.  *)
LEMMA WrittenOver ==
  ASSUME memory \in Seq(Nat), Len(memory) /= 0, memory[Len(memory)] = NUL,
         NEW e, NEW c, NEW l, Fills(c, l), Len(l) <= Len(memory),
         Len(l) = Len(memory) => l[Len(l)] = NUL
  PROVE  /\ Overwritten(e, c) \in Seq(Nat) /\ Len(Overwritten(e, c)) = Len(memory)
         /\ Overwritten(e, c)[Len(memory)] = NUL
         /\ c = l => Holds(Overwritten(e, c), 1, l)
         /\ e \in Nat /\ (\A k \in 1 .. Len(memory) : e <= k => memory[k] = NUL) =>
              /\ Holds(Overwritten(e, c), 1, l)
              /\ \A k \in 1 .. Len(memory) : Len(l) + 1 <= k => Overwritten(e, c)[k] = NUL
  <1>1. PICK M \in Nat \ {0}, n \in Nat :
           /\ M = Len(memory) /\ n = Len(l) /\ Len(c) = n /\ c \in Seq(Bytes) /\ l \in Seq(Nat)
           /\ n <= M /\ (n = M => l[M] = NUL)
           /\ \A k \in 1 .. n : c[k] = l[k] \/ (c[k] = KEPT /\ l[k] = NUL)
    BY LenProperties DEF Fills
  <1>2. PICK mm \in Seq(Nat) :
           /\ mm = Overwritten(e, c) /\ Len(mm) = M
           /\ \A k \in 1 .. M : mm[k] = IF k <= n /\ c[k] /= KEPT THEN c[k]
                                        ELSE IF k < e THEN NUL ELSE memory[k]
    <2>1. /\ Overwritten(e, c) \in Seq(Nat) /\ Len(Overwritten(e, c)) = Len(memory)
          /\ \A k \in 1 .. Len(memory) :
               Overwritten(e, c)[k] = IF k <= Len(c) /\ c[k] /= KEPT THEN c[k]
                                      ELSE IF k < e THEN NUL ELSE memory[k]
      BY <1>1, OverwrittenIs
    <2> QED  BY <1>1, <2>1, Zenon
  <1>3. \A k \in 1 .. n : l[k] /= KEPT
    <2>1. \A k \in 1 .. n : l[k] \in Nat
      BY <1>1, ElementOfSeq
    <2> QED  BY <2>1 DEF KEPT
  <1>4. \A k \in 1 .. M : (k <= n => k \in 1 .. n) /\ (n + 1 <= k => ~(k <= n))
    OBVIOUS
  <1>5. M \in 1 .. M /\ (M <= n => n = M)
    BY <1>1
  <1>6. mm[M] = NUL
    <2>1. memory[M] = NUL
      BY <1>1
    <2>2. CASE M <= n /\ c[M] /= KEPT
      BY <1>1, <1>2, <1>4, <1>5, <2>2, Zenon
    <2>3. CASE ~(M <= n /\ c[M] /= KEPT)
      BY <1>2, <1>5, <2>1, <2>3, Zenon
    <2> QED  BY <2>2, <2>3
  <1>7. ASSUME \A k \in 1 .. n : mm[k] = l[k] PROVE Holds(mm, 1, l)
    <2>1. 1 + n - 1 <= M /\ \A k \in 1 .. n : 1 + k - 1 = k
      BY <1>1
    <2> QED  BY <1>1, <1>2, <1>7, <2>1, Zenon DEF Holds
  <1>8. \A k \in 1 .. n : k \in 1 .. M /\ k <= n
    BY <1>1
  <1>9. ASSUME c = l PROVE Holds(mm, 1, l)
    <2>1. \A k \in 1 .. n : mm[k] = l[k]
      BY <1>2, <1>3, <1>8, <1>9, Zenon
    <2> QED  BY <1>7, <2>1
  <1>10. ASSUME e \in Nat, \A k \in 1 .. M : e <= k => memory[k] = NUL
         PROVE  Holds(mm, 1, l) /\ \A k \in 1 .. M : n + 1 <= k => mm[k] = NUL
    <2>1. \A k \in 1 .. M : ~(k < e) => e <= k
      BY <1>10
    <2>2. \A k \in 1 .. M : ~(k <= n /\ c[k] /= KEPT) => mm[k] = NUL
      BY <1>2, <1>10, <2>1, Zenon
    <2>3. ASSUME NEW k \in 1 .. n PROVE mm[k] = l[k]
      <3>1. CASE c[k] = l[k]
        BY <1>2, <1>3, <1>8, <3>1, Zenon
      <3>2. CASE c[k] = KEPT /\ l[k] = NUL
        BY <1>8, <2>2, <3>2, Zenon
      <3> QED  BY <1>1, <3>1, <3>2
    <2>4. Holds(mm, 1, l)
      BY <1>7, <2>3
    <2> QED  BY <1>4, <2>2, <2>4, Zenon
  <1> QED  BY <1>1, <1>2, <1>6, <1>9, <1>10, Zenon

LEMMA FirstPlace ==
  \A w \in Seq(Nat), strs \in Seq(Seq(Nat)) : Places(1, Before(w, strs))[1] = <<"in", 1>>
  <1> TAKE w \in Seq(Nat), strs \in Seq(Seq(Nat))
  <1>1. 1 \in Nat
    OBVIOUS
  <1> QED  BY <1>1, PlacesCons

(* A title alone is behind no parameter, and NULs are behind it.           *)
LEMMA AloneStep ==
  ASSUME MemoryEnds, ParamsInMemory, SmoothMemory,
         NEW t \in Nat, NEW okEnv \in BOOLEAN, TitleAlone(t, okEnv)
  PROVE  (MemoryEnds /\ ParamsInMemory /\ SmoothMemory)'
  <1>1. PICK M \in Nat : /\ M = Len(memory) /\ t < M /\ memory \in Seq(Nat) /\ M /= 0
                         /\ memory[M] = NUL
    BY LenProperties DEF TitleAlone, MemoryEnds
  <1>2. /\ argv' = argv /\ started' = started /\ wanted' = Title(t)
        /\ smooth' = (smooth /\ okEnv) /\ CpyEnvirons(okEnv) /\ Len(argv) = 1
        /\ memory' = Overwritten(EnvLast, Title(t))
    BY DEF TitleAlone
  <1>3. /\ Title(t) \in Seq(Chars) /\ Title(t) \in Seq(Nat) /\ Title(t) \in Seq(Bytes)
        /\ Len(Title(t)) = t
    BY TitleTyped
  <1>4. Fills(Title(t), Title(t))
    BY <1>3 DEF Fills
  <1>5. PICK mm \in Seq(Nat) :
           /\ mm = memory' /\ Len(mm) = M /\ mm[M] = NUL
           /\ Holds(mm, 1, Title(t))
           /\ EnvLast \in Nat /\ (\A k \in 1 .. M : EnvLast <= k => memory[k] = NUL) =>
                \A k \in 1 .. M : t + 1 <= k => mm[k] = NUL
    <2>1. t <= M /\ t /= M
      BY <1>1
    <2> HIDE DEF Holds
    <2>2. /\ Overwritten(EnvLast, Title(t)) \in Seq(Nat)
          /\ Len(Overwritten(EnvLast, Title(t))) = Len(memory)
          /\ Overwritten(EnvLast, Title(t))[Len(memory)] = NUL
          /\ Holds(Overwritten(EnvLast, Title(t)), 1, Title(t))
          /\ EnvLast \in Nat /\ (\A k \in 1 .. Len(memory) : EnvLast <= k => memory[k] = NUL) =>
               \A k \in 1 .. Len(memory) : t + 1 <= k => Overwritten(EnvLast, Title(t))[k] = NUL
      BY <1>1, <1>3, <1>4, <2>1, WrittenOver
    <2> QED  BY <1>1, <1>2, <2>2, Zenon
  <1>6. GivenParams' = GivenParams /\ GivenEnv' = GivenEnv /\ GivenParams = <<>> /\ Len(GivenParams) = 0
    <2>1. GivenParams \in Seq(Seq(Nat)) /\ Len(GivenParams) = 0
      BY <1>2, GivenFacts
    <2>2. GivenParams = <<>>
      BY <2>1, EmptySeq
    <2> QED  BY <1>2, <2>1, <2>2 DEF GivenParams, GivenEnv
  <1>7. MemoryEnds'
    <2>1. /\ Len(environ') \in Nat /\ DOMAIN environ' = 1 .. Len(environ')
          /\ Located(environ)'
      <3>1. /\ Len(environ') = Len(environ) /\ DOMAIN environ' = 1 .. Len(environ) /\ Len(environ) \in Nat
            /\ \A i \in 1 .. Len(environ) :
                 \/ environ'[i][1] = "in" /\ environ'[i][2] \in 1 .. Len(memory)
                 \/ environ'[i][1] \in {"heap", "over"} /\ environ'[i][2] \in Seq(Nat)
        BY <1>2, EnvCopied DEF MemoryEnds
      <3> QED  BY <1>1, <1>5, <3>1, Zenon DEF Located
    <2>2. smooth' \in BOOLEAN
      BY <1>2 DEF MemoryEnds
    <2> QED  BY <1>1, <1>2, <1>3, <1>5, <2>1, <2>2, Zenon DEF MemoryEnds
  <1>8. ParamsInMemory'
    <2>1. ~\E i \in 1 .. 0 : TRUE
      OBVIOUS
    <2> QED  BY <1>6, <2>1, Zenon DEF ParamsInMemory
  <1>9. ASSUME smooth' PROVE /\ argv = Places(1, Before(Title(t), <<>>))
                             /\ Holds(mm, 1, Laid(Before(Title(t), <<>>)))
                             /\ EnvInMemory'
    <2>1. smooth /\ okEnv
      BY <1>2, <1>9
    <2>2. \A k \in 1 .. M : t + 1 <= k => mm[k] = NUL
      BY <1>1, <1>5, <2>1, SmoothFacts
    <2>3. <<>> \in Seq(Seq(Nat)) /\ Len(<<>>) = 0
      OBVIOUS
    <2>4. PICK b \in Seq(Seq(Nat)) : b = Before(Title(t), <<>>) /\ Len(b) = 1
      <3>1. Before(Title(t), <<>>) \in Seq(Seq(Nat)) /\ Len(Before(Title(t), <<>>)) = Len(<<>>) + 1
        BY <1>3, <2>3, LaidCons
      <3> QED  BY <2>3, <3>1
    <2>5. PICK x \in Seq(Nat) : /\ x = Append(Title(t), NUL) /\ Len(x) = t + 1 /\ x[t + 1] = NUL
                                /\ \A k \in 1 .. t : x[k] = Title(t)[k]
      <3>1. /\ Append(Title(t), NUL) \in Seq(Nat) /\ Len(Append(Title(t), NUL)) = t + 1
            /\ Append(Title(t), NUL)[t + 1] = NUL
            /\ \A k \in 1 .. t : Append(Title(t), NUL)[k] = Title(t)[k]
        BY <1>3, CharsAreBytes, AppendProperties
      <3> QED  BY <3>1, Zenon
    <2>6. Laid(b) = x
      <3>1. Laid(Before(Title(t), <<>>)) = Append(Title(t), NUL) \o Laid(<<>>)
        BY <1>3, <2>3, LaidCons
      <3>2. x \o <<>> = x
        BY ConcatEmptySeq
      <3> QED  BY <2>4, <2>5, <3>1, <3>2, LaidEmpty, Zenon
    <2>7. Holds(mm, 1, x)
      <3>1. /\ 1 + (t + 1) - 1 <= M /\ \A k \in 1 .. t + 1 : 1 + k - 1 = k
            /\ t + 1 \in 1 .. M /\ t + 1 <= t + 1
        BY <1>1
      <3>2. \A k \in 1 .. t : mm[k] = x[k]
        <4>1. \A k \in 1 .. t : 1 + k - 1 = k
          OBVIOUS
        <4> QED  BY <1>3, <1>5, <2>5, <4>1, Zenon DEF Holds
      <3>3. mm[t + 1] = x[t + 1]
        BY <2>2, <2>5, <3>1, Zenon
      <3>4. \A k \in 1 .. t + 1 : mm[k] = x[k]
        BY <3>2, <3>3, UpToNext, Zenon
      <3>5. \A k \in 1 .. t + 1 : mm[1 + k - 1] = x[k]
        BY <3>1, <3>4
      <3>6. 1 + Len(x) - 1 <= Len(mm)
        BY <1>5, <2>5, <3>1
      <3> QED  BY <2>5, <3>5, <3>6, Zenon DEF Holds
    <2>8. argv = Places(1, b)
      <3>1. argv \in Seq(InPlace) /\ argv[1] = <<"in", 1>> /\ 1 \in Nat
        BY DEF MemoryEnds
      <3>2. Places(1, b) \in Seq(InPlace) /\ Len(Places(1, b)) = 1
        BY <2>4, <3>1, PlacesIn
      <3>3. Places(1, b)[1] = <<"in", 1>>
        <4>1. Places(1, Before(Title(t), <<>>))[1] = <<"in", 1>>
          BY <1>3, <2>3, FirstPlace, Zenon
        <4> QED  BY <2>4, <4>1, Zenon
      <3>4. \A i \in 1 .. 1 : i = 1
        OBVIOUS
      <3>5. \A i \in 1 .. 1 : argv[i] = Places(1, b)[i]
        BY <3>1, <3>3, <3>4, Zenon
      <3> QED  BY <1>2, <3>1, <3>2, <3>5, SeqEqual, Zenon
    <2>9. EnvInMemory'
      <3>1. (1 + Len(Laid(Shown)))' = 1 + (t + 1)
        BY <1>2, <1>6, <2>4, <2>5, <2>6, Zenon DEF Shown
      <3>2. Away(environ', GivenEnv)
        BY <1>2, <2>1, EnvCopied
      <3>3. \A k \in 1 .. M : 1 + (t + 1) <= k + 1 => t + 1 <= k
        OBVIOUS
      <3>4. \A k \in 1 .. M : 1 + (t + 1) <= k + 1 => mm[k] = NUL
        BY <2>2, <3>3, Zenon
      <3> QED  BY <1>5, <1>6, <3>1, <3>2, <3>4, Zenon DEF EnvInMemory
    <2> QED  BY <2>4, <2>6, <2>7, <2>8, <2>9, Zenon
  <1>10. SmoothMemory'
    BY <1>2, <1>5, <1>6, <1>9, Zenon DEF SmoothMemory, Shown
  <1> QED  BY <1>7, <1>8, <1>10

(* The parameters are strings, whatever the memory holds.                  *)
LEMMA ParamsTyped ==
  ASSUME MemoryEnds
  PROVE  Params \in Seq(Seq(Chars)) /\ Len(Params) = Len(argv) - 1
  <1>1. PICK L \in Nat : L = Len(argv) - 1 /\ L + 1 = Len(argv)
    <2>1. Len(argv) \in Nat \ {0}
      BY LenProperties DEF MemoryEnds
    <2> QED  BY <2>1
  <1>2. argv \in Seq(InPlace) /\ argv /= <<>>
    BY DEF MemoryEnds
  <1>3. /\ Tail(argv) \in Seq(InPlace) /\ Len(Tail(argv)) = L
        /\ \A i \in 1 .. L : Tail(argv)[i] = argv[i + 1]
    BY <1>1, <1>2, HeadTailProperties
  <1>4. DOMAIN Tail(argv) = 1 .. L
    BY <1>3, LenProperties
  <1>5. ASSUME NEW i \in 1 .. L PROVE StringAt(Tail(argv)[i]) \in Seq(Chars)
    <2>1. i + 1 \in 1 .. Len(argv)
      BY <1>1
    <2>2. PICK p \in 1 .. Len(memory) : argv[i + 1][2] = p
      BY <2>1 DEF MemoryEnds
    <2>3. argv[i + 1] = <<"in", p>>
      BY <1>2, <2>1, <2>2, ElementOfSeq, InPlaceIs
    <2>4. StringAt(<<"in", p>>) \in Seq(Chars)
      BY StringExists, Zenon DEF MemoryEnds
    <2> QED  BY <1>3, <2>3, <2>4
  <1>6. Params = [i \in 1 .. L |-> StringAt(Tail(argv)[i])]
    BY <1>4 DEF Params, StringsAt
  <1>7. Params \in [1 .. L -> Seq(Chars)]
    BY <1>5, <1>6
  <1>8. Params \in Seq(Seq(Chars)) /\ Len(Params) = L
    BY <1>7, IsSequence, Zenon
  <1> QED  BY <1>1, <1>8

(* The title and the parameters as smp_reset_proc_titel lays them down.    *)
LEMMA ResetLaid ==
  ASSUME MemoryEnds, NEW t \in Nat, NEW okEnv \in BOOLEAN, NEW okArgv \in BOOLEAN,
         TitleAndParams(t, okEnv, okArgv), okArgv /\ ArgvLast > argv[2][2]
  PROVE  LET all == Before(Title(t), Params)
         IN /\ memory' \in Seq(Nat) /\ Len(memory') = Len(memory)
            /\ memory'[Len(memory)] = NUL
            /\ argv' = Places(1, all)
            /\ argv' \in Seq(InPlace) /\ Len(argv') = Len(argv) /\ argv'[1] = <<"in", 1>>
            /\ \A i \in 1 .. Len(argv) : argv'[i][2] \in 1 .. Len(memory)
            /\ (\A i \in 1 .. Len(Params) : Params[i] /= <<>>) => Holds(memory', 1, Laid(all))
            /\ EnvLast \in Nat /\ (\A k \in 1 .. Len(memory) : EnvLast <= k => memory[k] = NUL) =>
                 /\ Holds(memory', 1, Laid(all))
                 /\ \A k \in 1 .. Len(memory) : Len(Laid(all)) + 1 <= k => memory'[k] = NUL
  <1>1. /\ Params \in Seq(Seq(Nat)) /\ Len(Params) = Len(argv) - 1 /\ Len(argv) \in Nat \ {0}
        /\ Title(t) \in Seq(Nat) /\ Len(Title(t)) = t /\ t /= 0
        /\ Len(memory) \in Nat /\ memory \in Seq(Nat) /\ Len(memory) /= 0 /\ memory[Len(memory)] = NUL
    <2>1. t /= 0
      BY NameFacts DEF TitleAndParams
    <2>2. Len(argv) \in Nat \ {0} /\ Len(memory) \in Nat
      BY LenProperties DEF MemoryEnds
    <2> QED  BY <2>1, <2>2, ParamsTyped, TitleTyped, CharsAreBytes DEF MemoryEnds
  <1>2. PICK all \in Seq(Seq(Nat)) :
           /\ all = Before(Title(t), Params) /\ Len(all) = Len(argv)
           /\ all[1] = Title(t) /\ \A i \in 1 .. Len(Params) : all[i + 1] = Params[i]
    <2>1. /\ Before(Title(t), Params) \in Seq(Seq(Nat))
          /\ Len(Before(Title(t), Params)) = Len(Params) + 1
          /\ Before(Title(t), Params)[1] = Title(t)
          /\ \A i \in 1 .. Len(Params) : Before(Title(t), Params)[i + 1] = Params[i]
      BY <1>1, LaidCons
    <2>2. Len(Params) + 1 = Len(argv)
      BY <1>1
    <2> QED  BY <2>1, <2>2, Zenon
  <1>3. /\ Len(Laid(all)) <= Len(memory)
        /\ memory' = Overwritten(EnvLast, Copied(all)) /\ argv' = Places(1, all)
    BY <1>2 DEF TitleAndParams, Before
  <1>4. Fills(Copied(all), Laid(all))
    BY CopiedFills
  <1>5. PICK l, c : /\ l \in Seq(Nat) /\ l = Laid(all) /\ c = Copied(all) /\ Len(l) \in Nat
                   /\ l[Len(l)] = NUL /\ Len(l) <= Len(memory) /\ Fills(c, l)
    <2>1. Laid(all) \in Seq(Nat) /\ Len(Laid(all)) \in Nat \ {0} /\ Laid(all)[Len(Laid(all))] = NUL
      BY <1>1, <1>2, LaidEnds
    <2> QED  BY <1>3, <1>4, <2>1, Zenon
  <1>6. /\ memory' \in Seq(Nat) /\ Len(memory') = Len(memory)
        /\ memory'[Len(memory)] = NUL
        /\ c = l => Holds(memory', 1, l)
        /\ EnvLast \in Nat /\ (\A k \in 1 .. Len(memory) : EnvLast <= k => memory[k] = NUL) =>
             /\ Holds(memory', 1, l)
             /\ \A k \in 1 .. Len(memory) : Len(l) + 1 <= k => memory'[k] = NUL
    <2>1. PICK e : e = EnvLast
      OBVIOUS
    <2>2. /\ Overwritten(e, c) \in Seq(Nat) /\ Len(Overwritten(e, c)) = Len(memory)
          /\ Overwritten(e, c)[Len(memory)] = NUL
          /\ c = l => Holds(Overwritten(e, c), 1, l)
          /\ e \in Nat /\ (\A k \in 1 .. Len(memory) : e <= k => memory[k] = NUL) =>
               /\ Holds(Overwritten(e, c), 1, l)
               /\ \A k \in 1 .. Len(memory) : Len(l) + 1 <= k => Overwritten(e, c)[k] = NUL
      BY <1>1, <1>5, WrittenOver
    <2> QED  BY <1>3, <1>5, <2>1, <2>2, Zenon
  <1>7. ASSUME \A i \in 1 .. Len(Params) : Params[i] /= <<>> PROVE Holds(memory', 1, l)
    <2>1. ASSUME NEW i \in 1 .. Len(all) PROVE all[i] /= <<>>
      <3>1. CASE i = 1
        <4>1. Title(t) /= <<>>
          BY <1>1, EmptySeq
        <4> QED  BY <1>2, <3>1, <4>1
      <3>2. CASE i /= 1
        <4>1. i - 1 \in 1 .. Len(Params) /\ (i - 1) + 1 = i
          BY <1>1, <1>2, <3>2
        <4>2. all[(i - 1) + 1] = Params[i - 1]
          BY <1>2, <4>1, Zenon
        <4> QED  BY <1>7, <4>1, <4>2
      <3> QED  BY <3>1, <3>2
    <2>2. Copied(all) = Laid(all)
      BY <2>1, CopiedWhole
    <2> QED  BY <1>5, <1>6, <2>2
  <1>8. /\ argv' \in Seq(InPlace) /\ Len(argv') = Len(argv) /\ argv'[1] = <<"in", 1>>
        /\ \A i \in 1 .. Len(argv) : argv'[i][2] \in 1 .. Len(memory)
    <2>1. 1 \in Nat
      OBVIOUS
    <2>2. /\ Places(1, all) \in Seq(InPlace) /\ Len(Places(1, all)) = Len(argv)
          /\ \A i \in 1 .. Len(argv) :
               LET p == 1 + Len(Laid(SubSeq(all, 1, i - 1)))
               IN /\ Places(1, all)[i] = <<"in", p>>
                  /\ p \in Nat /\ 1 <= p /\ p + 1 <= 1 + Len(l)
      BY <1>2, <1>5, <2>1, PlacesIn
    <2>3. ASSUME NEW i \in 1 .. Len(argv) PROVE Places(1, all)[i][2] \in 1 .. Len(memory)
      <3>1. PICK p \in Nat : Places(1, all)[i] = <<"in", p>> /\ 1 <= p /\ p + 1 <= 1 + Len(l)
        BY <2>2, Zenon
      <3>2. p \in 1 .. Len(memory)
        BY <1>1, <1>5, <3>1
      <3> QED  BY <3>1, <3>2
    <2>4. Places(1, Before(Title(t), Params))[1] = <<"in", 1>>
      BY <1>1, <2>1, PlacesCons
    <2> QED  BY <1>2, <1>3, <2>2, <2>3, <2>4, Zenon
  <1> QED  BY <1>2, <1>3, <1>5, <1>6, <1>7, <1>8, Zenon

(* The end of the last string and what is behind it.                       *)
LEMMA FromTheEnd ==
  \A x, k \in Nat : 1 + x <= k + 1 => x + 1 <= k \/ (k = x /\ 1 + k - 1 = k)
  OBVIOUS

(* A title and the parameters behind it: the parameters stay.              *)
LEMMA ParamsStep ==
  ASSUME MemoryEnds, ParamsInMemory, SmoothMemory,
         NEW t \in Nat, NEW okEnv \in BOOLEAN, NEW okArgv \in BOOLEAN,
         TitleAndParams(t, okEnv, okArgv)
  PROVE  (MemoryEnds /\ ParamsInMemory /\ SmoothMemory)'
  <1>1. PICK M \in Nat, A \in Nat : /\ M = Len(memory) /\ A = Len(argv) /\ A > 1
                                    /\ Len(GivenParams) = A - 1 /\ A - 1 \in Nat
    <2>1. Len(memory) \in Nat /\ Len(argv) \in Nat /\ Len(argv) > 1
      BY LenProperties DEF TitleAndParams, MemoryEnds
    <2>2. Len(argv) - 1 \in Nat
      BY <2>1
    <2> QED  BY <2>1, <2>2, GivenFacts, Zenon
  <1>2. /\ started' = started /\ wanted' = Title(t) /\ Title(t) \in Seq(Chars)
        /\ smooth' = (smooth /\ okEnv /\ okArgv) /\ CpyEnvirons(okEnv)
    BY TitleTyped DEF TitleAndParams
  <1>3. /\ Len(environ') = Len(environ) /\ DOMAIN environ' = 1 .. Len(environ) /\ Len(environ) \in Nat
        /\ \A i \in 1 .. Len(environ) :
             \/ environ'[i][1] = "in" /\ environ'[i][2] \in 1 .. M
             \/ environ'[i][1] \in {"heap", "over"} /\ environ'[i][2] \in Seq(Nat)
    BY <1>1, <1>2, EnvCopied DEF MemoryEnds
  <1>4. smooth' \in BOOLEAN /\ (smooth' => smooth)
    BY <1>2 DEF MemoryEnds
  <1>5. CASE okArgv /\ ArgvLast > argv[2][2]
    <2>1. PICK mm, all :
             /\ mm \in Seq(Nat) /\ mm = memory' /\ all = Before(Title(t), Params) /\ Len(mm) = M /\ mm[M] = NUL
             /\ argv' = Places(1, all)
             /\ argv' \in Seq(InPlace) /\ Len(argv') = A /\ argv'[1] = <<"in", 1>>
             /\ \A i \in 1 .. A : argv'[i][2] \in 1 .. M
             /\ (\A i \in 1 .. Len(Params) : Params[i] /= <<>>) => Holds(mm, 1, Laid(all))
             /\ EnvLast \in Nat /\ (\A k \in 1 .. M : EnvLast <= k => memory[k] = NUL) =>
                  /\ Holds(mm, 1, Laid(all))
                  /\ \A k \in 1 .. M : Len(Laid(all)) + 1 <= k => mm[k] = NUL
      BY <1>1, <1>5, ResetLaid, Zenon
    <2>2. GivenParams' = GivenParams /\ GivenEnv' = GivenEnv
      BY <1>1, <1>2, <2>1 DEF GivenParams, GivenEnv
    <2>3. MemoryEnds'
      <3>1. Located(environ)'
        BY <1>3, <2>1, Zenon DEF Located
      <3>2. M /= 0 /\ A /= 0 /\ started \in Seq(Seq(Chars)) /\ A < Len(started)
        BY <1>1 DEF MemoryEnds
      <3> QED  BY <1>2, <1>3, <1>4, <2>1, <3>1, <3>2, Zenon DEF MemoryEnds
    <2>4. ASSUME smooth \/ \A i \in 1 .. Len(GivenParams) : GivenParams[i] /= <<>>
          PROVE  /\ Params = GivenParams /\ all = Before(Title(t), GivenParams)
                 /\ Holds(mm, 1, Laid(all))
      <3>1. Params = GivenParams
        BY <2>4, ParamsRead
      <3>2. CASE smooth
        BY <1>1, <2>1, <3>1, <3>2, SmoothFacts, Zenon
      <3>3. CASE \A i \in 1 .. Len(GivenParams) : GivenParams[i] /= <<>>
        BY <2>1, <3>1, <3>3, Zenon
      <3> QED  BY <2>4, <3>2, <3>3
    <2>5. ParamsInMemory'
      <3> SUFFICES ASSUME smooth' \/ \A i \in 1 .. Len(GivenParams) : GivenParams[i] /= <<>>
                   PROVE  \A i \in 1 .. Len(GivenParams) :
                            /\ \E k \in 1 .. argv'[i + 1][2] - 1 : mm[k] = NUL
                            /\ Holds(mm, argv'[i + 1][2], Append(GivenParams[i], NUL))
        BY <2>1, <2>2, Zenon DEF ParamsInMemory
      <3>1. all = Before(Title(t), GivenParams) /\ Holds(mm, 1, Laid(all))
        BY <1>4, <2>4
      <3>2. Title(t) \in Seq(Nat) /\ GivenParams \in Seq(Seq(Nat)) /\ mm \in Seq(Nat)
        BY <2>1, TitleTyped, GivenFacts
      <3>3. Holds(mm, 1, Laid(Before(Title(t), GivenParams)))
        BY <3>1, Zenon
      <3>4. \A i \in 1 .. Len(GivenParams) :
              /\ \E k \in 1 .. Places(1, Before(Title(t), GivenParams))[i + 1][2] - 1 : mm[k] = NUL
              /\ Holds(mm, Places(1, Before(Title(t), GivenParams))[i + 1][2],
                       Append(GivenParams[i], NUL))
        BY <3>2, <3>3, BehindTitle
      <3> QED  BY <2>1, <3>1, <3>4, Zenon
    <2>6. ASSUME smooth' PROVE /\ Shown' = all /\ Holds(mm, 1, Laid(all)) /\ EnvInMemory'
      <3>1. smooth /\ okEnv /\ all = Before(Title(t), GivenParams) /\ Holds(mm, 1, Laid(all))
        BY <1>2, <2>4, <2>6
      <3>2. Shown' = all
        BY <1>2, <2>2, <3>1, Zenon DEF Shown
      <3>3. \A k \in 1 .. M : Len(Laid(all)) + 1 <= k => mm[k] = NUL
        BY <1>1, <2>1, <3>1, SmoothFacts, Zenon
      <3>4. Away(environ', GivenEnv)
        BY <1>2, <3>1, EnvCopied
      <3>5. PICK x \in Nat : x = Len(Laid(all)) /\ mm[x] = NUL /\ x \in 1 .. x /\ 1 + x - 1 = x
        <4>1. all \in Seq(Seq(Nat)) /\ Len(all) /= 0
          <5>1. /\ all \in Seq(Seq(Nat)) /\ Len(all) = Len(GivenParams) + 1
            BY <3>1, TitleTyped, GivenFacts, LaidCons
          <5> QED  BY <1>1, <5>1
        <4>2. PICK x \in Nat \ {0} : x = Len(Laid(all)) /\ Laid(all)[x] = NUL
          BY <4>1, LaidEnds
        <4>3. x \in 1 .. x /\ 1 + x - 1 = x
          OBVIOUS
        <4>4. mm[x] = NUL
          BY <3>1, <4>2, <4>3 DEF Holds
        <4> QED  BY <4>2, <4>3, <4>4
      <3>6. \A k \in 1 .. M : 1 + Len(Laid(all)) <= k + 1 => mm[k] = NUL
        <4>1. \A k \in 1 .. M : k \in Nat
          OBVIOUS
        <4> QED  BY <3>3, <3>5, <4>1, FromTheEnd, Zenon
      <3> QED  BY <2>1, <2>2, <3>1, <3>2, <3>4, <3>6, Zenon DEF EnvInMemory
    <2>7. SmoothMemory'
      BY <2>1, <2>6, Zenon DEF SmoothMemory
    <2> QED  BY <2>3, <2>5, <2>7
  <1>6. CASE ~(okArgv /\ ArgvLast > argv[2][2])
    <2>1. memory' = memory /\ argv' = argv
      BY <1>6 DEF TitleAndParams
    <2>2. GivenParams' = GivenParams
      BY <1>2, <2>1 DEF GivenParams
    <2>3. MemoryEnds'
      <3>1. Located(environ)'
        BY <1>1, <1>3, <2>1, Zenon DEF Located
      <3> QED  BY <1>2, <1>3, <1>4, <2>1, <3>1, Zenon DEF MemoryEnds
    <2>4. ParamsInMemory'
      BY <1>4, <2>1, <2>2, Zenon DEF ParamsInMemory
    <2>5. ~smooth'
      <3> SUFFICES ASSUME smooth' PROVE FALSE
        OBVIOUS
      <3>1. smooth /\ okArgv /\ argv = Places(1, Shown)
        BY <1>2 DEF SmoothMemory
      <3>2. ArgvLast = 1 + Len(Laid(Shown)) /\ Len(Laid(Shown)) \in Nat
        BY <3>1, SmoothFacts
      <3>3. PICK p \in Nat : argv[2] = <<"in", p>> /\ p + 1 <= 1 + Len(Laid(Shown))
        <4>1. Shown \in Seq(Seq(Nat)) /\ Len(Shown) = A /\ 2 \in 1 .. A /\ 1 \in Nat
          BY <1>1, GivenFacts
        <4>2. LET p == 1 + Len(Laid(SubSeq(Shown, 1, 2 - 1)))
              IN /\ Places(1, Shown)[2] = <<"in", p>>
                 /\ p \in Nat /\ 1 <= p /\ p + 1 <= 1 + Len(Laid(Shown))
          BY <4>1, PlacesIn
        <4> QED  BY <3>1, <4>2, Zenon
      <3>4. argv[2][2] = p
        BY <3>3
      <3>5. 1 + Len(Laid(Shown)) > p
        BY <3>2, <3>3
      <3> QED  BY <1>6, <3>1, <3>2, <3>4, <3>5
    <2>6. SmoothMemory'
      BY <2>5 DEF SmoothMemory
    <2> QED  BY <2>3, <2>4, <2>6
  <1> QED  BY <1>5, <1>6

(* Only the last copy can be changed by who uses the bytes behind it.      *)
LEMMA ReusedStep ==
  ASSUME MemoryEnds, ParamsInMemory, SmoothMemory, HeapReused
  PROVE  (MemoryEnds /\ ParamsInMemory /\ SmoothMemory)'
  <1>1. /\ memory' = memory /\ argv' = argv /\ started' = started /\ wanted' = wanted
        /\ smooth' = smooth
    BY DEF HeapReused
  <1>2. PICK E \in Nat : E = Len(environ) /\ DOMAIN environ = 1 .. E
    BY DEF MemoryEnds
  <1>3. PICK c \in 1 .. E :
           /\ environ[c][1] = "over"
           /\ environ' = [environ EXCEPT ![c] = <<"heap", Append(environ[c][2], TITLE)>>]
    BY <1>2 DEF HeapReused
  <1>4. /\ DOMAIN environ' = 1 .. E
        /\ environ'[c][1] = "heap" /\ environ'[c][2] = Append(environ[c][2], TITLE)
        /\ \A i \in 1 .. E : i /= c => environ'[i] = environ[i]
    BY <1>2, <1>3
  <1>5. environ[c][2] \in Seq(Nat)
    <2>1. "over" /= "in"
      OBVIOUS
    <2> QED  BY <1>2, <1>3, <2>1, Zenon DEF MemoryEnds, Located
  <1>6. Located(environ)'
    <2>1. Append(environ[c][2], TITLE) \in Seq(Nat)
      BY <1>5, AppendProperties DEF TITLE
    <2>2. "heap" \in {"heap", "over"}
      OBVIOUS
    <2>3. ASSUME NEW i \in 1 .. E
          PROVE  \/ environ'[i][1] = "in" /\ environ'[i][2] \in 1 .. Len(memory)
                 \/ environ'[i][1] \in {"heap", "over"} /\ environ'[i][2] \in Seq(Nat)
      <3>1. CASE i = c
        BY <1>4, <2>1, <2>2, <3>1, Zenon
      <3>2. CASE i /= c
        BY <1>2, <1>4, <3>2, Zenon DEF MemoryEnds, Located
      <3> QED  BY <3>1, <3>2
    <2> QED  BY <1>1, <1>4, <2>3, Zenon DEF Located
  <1>7. Len(environ') = E
    <2>1. environ' \in [1 .. E -> {environ'[i] : i \in 1 .. E}]
      <3>1. environ' = [i \in 1 .. E |-> environ'[i]]
        BY <1>2, <1>3, <1>4
      <3> QED  BY <3>1
    <2> QED  BY <2>1, IsSequence, Zenon
  <1>8. MemoryEnds'
    BY <1>1, <1>2, <1>4, <1>6, <1>7, Zenon DEF MemoryEnds
  <1>9. GivenParams' = GivenParams /\ GivenEnv' = GivenEnv /\ Shown' = Shown
    BY <1>1 DEF GivenParams, GivenEnv, Shown
  <1>10. ParamsInMemory'
    BY <1>1, <1>9, Zenon DEF ParamsInMemory
  <1>11. ASSUME smooth PROVE EnvInMemory'
    <2>1. GivenEnv \in Seq(Seq(Nat)) /\ Shown \in Seq(Seq(Nat)) /\ Len(GivenEnv) \in Nat
      BY GivenFacts
    <2>2. environ /= Places(1 + Len(Laid(Shown)), GivenEnv)
      <3>1. ASSUME environ = Places(1 + Len(Laid(Shown)), GivenEnv) PROVE FALSE
        <4>1. environ[c] = <<"in", (1 + Len(Laid(Shown))) + Len(Laid(SubSeq(GivenEnv, 1, c - 1)))>>
          <5>1. DOMAIN Places(1 + Len(Laid(Shown)), GivenEnv) = DOMAIN GivenEnv
            BY DEF Places
          <5>2. c \in DOMAIN GivenEnv
            BY <1>2, <3>1, <5>1
          <5> QED  BY <3>1, <5>2, Zenon DEF Places
        <4>2. environ[c][1] = "in"
          BY <4>1
        <4>3. "in" /= "over"
          OBVIOUS
        <4> QED  BY <1>3, <4>2, <4>3
      <3> QED  BY <3>1
    <2>3. /\ Away(environ, GivenEnv)
          /\ \A k \in 1 .. Len(memory) : 1 + Len(Laid(Shown)) <= k + 1 => memory[k] = NUL
      BY <1>11, <2>2, Zenon DEF SmoothMemory, EnvInMemory
    <2>4. Len(GivenEnv) = E /\ DOMAIN environ = 1 .. Len(GivenEnv)
      <3>1. DOMAIN environ = 1 .. Len(GivenEnv)
        BY <2>3 DEF Away
      <3> QED  BY <1>2, <2>1, <3>1
    <2>5. "over" /= "heap" /\ "heap" \in {"heap", "over"}
      OBVIOUS
    <2>6. ~(c < E)
      BY <1>3, <2>3, <2>4, <2>5, Zenon DEF Away
    <2>7. Away(environ', GivenEnv)
      <3>1. ASSUME NEW i \in 1 .. E
            PROVE  /\ environ'[i][1] \in {"heap", "over"}
                   /\ i < E => environ'[i][1] = "heap"
                   /\ i < E \/ environ'[i][1] /= "heap" => environ'[i][2] = GivenEnv[i]
        <4>1. CASE i = c
          BY <1>4, <2>5, <2>6, <4>1, Zenon
        <4>2. CASE i /= c
          BY <1>4, <2>3, <2>4, <4>2, Zenon DEF Away
        <4> QED  BY <4>1, <4>2
      <3> QED  BY <1>4, <2>4, <3>1, Zenon DEF Away
    <2> QED  BY <1>1, <1>9, <2>3, <2>7, Zenon DEF EnvInMemory
  <1>12. SmoothMemory'
    BY <1>1, <1>9, <1>11, Zenon DEF SmoothMemory
  <1> QED  BY <1>8, <1>10, <1>12

LEMMA TitleInvStart == TitleInit => TitleInv
  BY DEF TitleInv

LEMMA TitleInvStep == TitleInv /\ [TitleNext]_titleVars => TitleInv'
  <1> SUFFICES ASSUME TitleInv, [TitleNext]_titleVars PROVE TitleInv'
    OBVIOUS
  <1> USE TitleAssumption
  <1>1. CASE UNCHANGED titleVars
    BY <1>1, Zenon DEF titleVars, TitleInv, TitleInit, MemoryEnds, ParamsInMemory, SmoothMemory,
       EnvInMemory, Located, GivenParams, GivenEnv, Shown
  <1>2. ASSUME NEW n \in 1 .. MaxArgc, NEW m \in 1 .. MaxEnv,
               NEW a \in [1 .. n -> 0 .. MaxChars], NEW e \in [1 .. m -> 1 .. MaxChars],
               ProcStart(Strs(a, TITLE), Strs(e, TITLE + n))
        PROVE  TitleInv'
    <2>1. n \in Nat /\ m \in Nat /\ n /= 0 /\ m /= 0 /\ TITLE \in Nat /\ TITLE + n \in Nat
      BY DEF TITLE
    <2>2. a \in [1 .. n -> Nat] /\ e \in [1 .. m -> Nat]
      OBVIOUS
    <2>3. Strs(a, TITLE) \in Seq(Seq(Chars)) /\ Len(Strs(a, TITLE)) /= 0
      <3>1. PICK c \in Nat : c = TITLE
        BY <2>1
      <3>2. Strs(a, c) \in Seq(Seq(Chars)) /\ Len(Strs(a, c)) = n
        BY <2>1, <2>2, StrsTyped
      <3> QED  BY <2>1, <3>1, <3>2
    <2>4. Strs(e, TITLE + n) \in Seq(Seq(Chars)) /\ Len(Strs(e, TITLE + n)) /= 0
      <3>1. PICK c \in Nat : c = TITLE + n
        BY <2>1
      <3>2. Strs(e, c) \in Seq(Seq(Chars)) /\ Len(Strs(e, c)) = m
        BY <2>1, <2>2, StrsTyped
      <3> QED  BY <2>1, <3>1, <3>2
    <2> QED  BY <1>2, <2>3, <2>4, StartStep DEF TitleInv
  <1>3. ASSUME NEW t \in 0 .. Len(memory), TitleInPlace(t) PROVE TitleInv'
    <2>1. t \in Nat /\ MemoryEnds /\ ParamsInMemory /\ SmoothMemory
      BY <1>3 DEF TitleInv, TitleInit, TitleInPlace
    <2> QED  BY <1>3, <2>1, InPlaceStep DEF TitleInv
  <1>4. ASSUME NEW t \in 0 .. Len(memory), NEW okEnv \in BOOLEAN, TitleAlone(t, okEnv)
        PROVE  TitleInv'
    <2>1. t \in Nat /\ MemoryEnds /\ ParamsInMemory /\ SmoothMemory
      BY <1>4 DEF TitleInv, TitleInit, TitleAlone
    <2> QED  BY <1>4, <2>1, AloneStep DEF TitleInv
  <1>5. ASSUME NEW t \in 0 .. Len(memory), NEW okEnv \in BOOLEAN, NEW okArgv \in BOOLEAN,
               TitleAndParams(t, okEnv, okArgv)
        PROVE  TitleInv'
    <2>1. t \in Nat /\ MemoryEnds /\ ParamsInMemory /\ SmoothMemory
      BY <1>5 DEF TitleInv, TitleInit, TitleAndParams
    <2> QED  BY <1>5, <2>1, ParamsStep DEF TitleInv
  <1>6. ASSUME HeapReused PROVE TitleInv'
    <2>1. MemoryEnds /\ ParamsInMemory /\ SmoothMemory
      <3>1. \A x : environ /= <<>> \/ x \notin DOMAIN environ
        OBVIOUS
      <3> QED  BY <1>6, <3>1 DEF TitleInv, TitleInit, HeapReused
    <2> QED  BY <1>6, <2>1, ReusedStep DEF TitleInv
  <1> QED  BY <1>1, <1>2, <1>3, <1>4, <1>5, <1>6, Zenon DEF TitleNext

(* The inductive invariant of the process title: the memory ends in NUL,   *)
(* the parameters are in it behind the name's end, and, as long as smooth, *)
(* the title, the parameters and the environment are one behind the other, *)
(* or NULs follow and the environment has been copied, where only the last *)
(* copy ends behind the memory made for them.                              *)
THEOREM TitleInvariant == TitleSpec => []TitleInv
  BY TitleInvStart, TitleInvStep, PTL DEF TitleSpec

(* Every address smp_set_proc_titel leaves is a byte of the memory or that *)
(* of a copy, which may end behind the memory made for the copies.         *)
THEOREM TitleTyping == TitleSpec => []TitleTypeOK
  BY TitleInvariant, TypeFromInv, PTL

(* However often smp_set_proc_titel is called, the parameters are kept, and *)
(* as long as smooth the title asked for is shown and every variable but    *)
(* the last is kept; the last, until its copy's end is used.                *)
THEOREM ParamsKept == TitleSpec => []TitleKept
  BY TitleInvariant, KeptFromInv, PTL
=============================================================================
