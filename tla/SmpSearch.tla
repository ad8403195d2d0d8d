------------------------------ MODULE SmpSearch -----------------------------
(***************************************************************************)
(* The Boyer-Moore search of smp_linux/smp_string/smp_BoyerMoore.c, one    *)
(* alignment of the pattern with the text a step, and smp_str_split of     *)
(* smp_string.c, which cuts a text where the search finds a delimiter.     *)
(*                                                                         *)
(* Patterns are not empty, shorter than SMP_BM_SIZE, and of characters     *)
(* below 128, as the tables need: a pattern's other characters would be    *)
(* written outside them.  A text may have those too; they are negative     *)
(* where char is signed, and what the search then reads is whatever is in  *)
(* the memory before the table.  Texts and patterns are functions from 0.  *)
(* A call for which there is no memory gives NULL and is left out.         *)
(***************************************************************************)
EXTENDS Integers, Sequences, FiniteSets, FiniteSetsExt

CONSTANTS
  Letters,   (* the characters below 128 that occur *)
  High,      (* those above, which only texts have *)
  Stray,     (* the ints that may be in the memory before BMbc; none with *)
             (* which j overflows                                         *)
  MaxSubstr, (* bound: the length of a pattern *)
  MaxText,   (* bound: the length of a text *)
  MaxLimit   (* bound: the limit the caller gives *)

ASSUME SearchAssumption == /\ {MaxSubstr, MaxText, MaxLimit} \subseteq Nat \ {0}
                           /\ High \intersect Letters = {}
                           /\ Stray \subseteq Int

VARIABLES
  searchPhase, (* "none", "search" or "found" *)
  asked,       (* the limit smp_str_split was given, 0 for other callers *)
  substr,      (* the pattern, or the delimiter *)
  text,
  limit,       (* sub_point[0] before the search *)
  tables,      (* BMbc and BMgs *)
  j,           (* where the pattern is laid on the text *)
  points,      (* sub_point[1], sub_point[2], ... *)
  amount       (* sub_point[0] once the search has returned *)

searchVars == <<searchPhase, asked, substr, text, limit, tables, j, points, amount>>

(* For operators named Mutant..., see SmpArray. *)

Strings(chars, n) == UNION {[0 .. k - 1 -> chars] : k \in 0 .. n}
Texts == Strings(Letters \union High, MaxText)
StrLen(s) == Cardinality(DOMAIN s)

SearchInit == /\ searchPhase = "none" /\ asked = 0
              /\ substr = <<>> /\ text = <<>> /\ limit = 0
              /\ tables = <<>> /\ j = 0 /\ points = <<>> /\ amount = 0

(* smp_bm_badchar: how far a letter is from the pattern's last one. *)
BadChar(s) == [c \in Letters |->
                 LET m == StrLen(s)
                     at == {k \in 0 .. m - 2 : s[k] = c}
                 IN IF at = {} THEN m ELSE m - 1 - Max(at)]

(***************************************************************************)
(* smp_bm_suffix: from the right, the length of the longest common suffix  *)
(* of s and of its part up to k.  A result is kept with the part it was    *)
(* read from, from succ down to just after miss, and used for the others   *)
(* in that part.                                                           *)
(***************************************************************************)
Suffix(s) ==
  LET m == StrLen(s)
      at[k \in 0 .. m - 1] ==
        IF k = m - 1 THEN [succ |-> 0, miss |-> m - 1, len |-> m]
        ELSE LET old == at[k + 1]
                 known == at[k + m - (old.succ + 1)].len
             IN IF k > old.miss /\ known < k - old.miss
                THEN [old EXCEPT !.len = known]
                ELSE LET from == IF k < old.miss THEN k ELSE old.miss
                         miss == Max({-1} \union {q \in 0 .. from : s[q] /= s[q + m - (k + 1)]})
                     IN [succ |-> k, miss |-> miss, len |-> k - miss]
  IN [k \in 0 .. m - 1 |-> at[k].len]

(***************************************************************************)
(* smp_bm_good_suffix: how far to move when the letters after k match.     *)
(* The rightmost other place of the matched suffix wins; else the longest  *)
(* prefix of s that ends it.                                               *)
(***************************************************************************)
MutantGoodSuffix(s) ==
  LET m == StrLen(s)
      suff == Suffix(s)
      other(k) == {q \in 0 .. m - 2 : m - 1 - suff[q] = k}
  IN [k \in 0 .. m - 1 |-> IF other(k) /= {} THEN m - 1 - Max(other(k)) ELSE m]

GoodSuffix(s) ==
  LET m == StrLen(s)
      suff == Suffix(s)
      other(k) == {q \in 0 .. m - 2 : m - 1 - suff[q] = k}
      prefix(k) == {q \in 0 .. m - 1 : suff[q] = q + 1 /\ k < m - 1 - q}
  IN [k \in 0 .. m - 1 |->
        IF other(k) /= {} THEN m - 1 - Max(other(k))
        ELSE IF prefix(k) /= {} THEN m - 1 - Max(prefix(k)) ELSE m]

Patterns == Strings(Letters, MaxSubstr) \ Strings(Letters, 0)

Tables == [s \in Patterns |-> [bc |-> BadChar(s), gs |-> GoodSuffix(s)]]

Begin(s, t, n) ==
  /\ searchPhase' = "search"
  /\ substr' = s /\ text' = t /\ limit' = n
  /\ tables' = Tables[s]
  /\ j' = 0 /\ points' = <<>> /\ amount' = 0

(* smp_BoyerMoore(s, t, n); smp_bm_substr_exist with n = 2. *)
SearchBegin(s, t, n) == asked' = 0 /\ n > 0 /\ Begin(s, t, n)

(* smp_str_split(t, s, n): the rest after n - 1 delimiters is not cut, and *)
(* with n = 1 the search, and so the call, gives NULL.                     *)
SplitBegin(s, t, n) == asked' = n /\ n > 1 /\ Begin(s, t, n - 1)

Fits == j <= StrLen(text) - StrLen(substr)

(* The places at which the pattern differs from the text. *)
Differs == {k \in DOMAIN substr : substr[k] /= text[k + j]}

SearchMatch ==
  /\ searchPhase = "search" /\ Fits /\ Differs = {}
  /\ points' = Append(points, j)
  /\ j' = j + tables.gs[0]
  /\ \/ /\ Len(points) + 1 < limit
        /\ UNCHANGED <<searchPhase, amount>>
     \/ /\ Len(points) + 1 >= limit
        /\ searchPhase' = "found"
        /\ amount' = limit
  /\ UNCHANGED <<asked, substr, text, limit, tables>>

(* What BMbc may hold for a character of the text. *)
BadEntries(c) == IF c \in High THEN Stray ELSE {tables.bc[c]}

SearchMismatch ==
  /\ searchPhase = "search" /\ Fits /\ Differs /= {}
  /\ LET i == Max(Differs)
     IN \E entry \in BadEntries(text[i + j]) :
          j' = j + Max({entry - StrLen(substr) + 1 + i, tables.gs[i]})
  /\ UNCHANGED <<searchPhase, asked, substr, text, limit, tables, points, amount>>

SearchEnd ==
  /\ searchPhase = "search" /\ ~Fits
  /\ searchPhase' = "found"
  /\ amount' = Len(points)
  /\ UNCHANGED <<asked, substr, text, limit, tables, j, points>>

(* The caller gives the points, or the pieces, back. *)
SearchReturn ==
  /\ searchPhase = "found"
  /\ searchPhase' = "none" /\ asked' = 0
  /\ substr' = <<>> /\ text' = <<>> /\ limit' = 0
  /\ tables' = <<>> /\ j' = 0 /\ points' = <<>> /\ amount' = 0

SearchNext ==
  \/ /\ searchPhase = "none"
     /\ \E s \in Patterns, t \in Texts, n \in 1 .. MaxLimit :
          SearchBegin(s, t, n) \/ SplitBegin(s, t, n)
  \/ SearchMatch \/ SearchMismatch \/ SearchEnd \/ SearchReturn

SearchSpec == SearchInit /\ [][SearchNext]_searchVars

(* smp_bm_substr_exist. *)
SubstrExist == amount > 0

(* A piece of a split text; one of length 0 has no data, but for the whole. *)
Piece(from, len) == [from |-> from, len |-> len]

MutantSplit ==
  LET d == StrLen(substr)
      last == points[amount] + d
  IN IF amount = 0 THEN <<Piece(0, StrLen(text))>>
     ELSE [k \in 1 .. amount |->
             IF k = 1 THEN Piece(0, points[1])
             ELSE Piece(points[k - 1] + d, points[k] - (points[k - 1] + d))]
          \o <<Piece(last, StrLen(text) - last)>>

(***************************************************************************)
(* __smp_str_split: the pieces between the delimiters found, where two     *)
(* that overlap have an empty one between them.                            *)
(***************************************************************************)
Split ==
  LET d == StrLen(substr)
      last == points[amount] + d
      between(k) == points[k] - (points[k - 1] + d)
  IN IF amount = 0 THEN <<Piece(0, StrLen(text))>>
     ELSE [k \in 1 .. amount |->
             IF k = 1 THEN Piece(0, points[1])
             ELSE Piece(points[k - 1] + d, IF between(k) <= 0 THEN 0 ELSE between(k))]
          \o <<Piece(last, StrLen(text) - last)>>
-----------------------------------------------------------------------------
(***************************************************************************)
(* Properties.                                                             *)
(***************************************************************************)

(* Every variable has its type. *)
SearchTypeOK ==
  /\ searchPhase \in {"none", "search", "found"}
  /\ {asked, limit, j, amount} \subseteq Nat
  /\ substr \in Strings(Letters, MaxSubstr) /\ text \in Texts
  /\ points \in Seq(Nat)

(* Where the pattern occurs. *)
Occurs == {p \in 0 .. StrLen(text) - StrLen(substr) :
             \A k \in DOMAIN substr : substr[k] = text[p + k]}

(* The tables have an entry for every character of the text. *)
Plain == \A k \in DOMAIN text : text[k] \notin High

(***************************************************************************)
(* The search stores occurrences of the pattern only, in order, and no     *)
(* more than there is room for, and when it returns their number; each     *)
(* step of it moves the pattern on, so that it ends.  In a text that has   *)
(* only characters below 128, it moves past no occurrence: those found are *)
(* all there are before the place it is at, the count is short of the      *)
(* limit only if there are no others, and smp_bm_substr_exist is right.    *)
(***************************************************************************)
NoneSkipped ==
  searchPhase /= "none" =>
    LET found == {points[k] : k \in DOMAIN points}
        passed == {p \in Occurs : p < j}
    IN /\ found \subseteq passed
       /\ \A k \in 1 .. Len(points) - 1 : points[k] < points[k + 1]
       /\ Len(points) <= limit
       /\ \A k \in DOMAIN tables.gs : tables.gs[k] > 0
       /\ searchPhase = "found" => amount = Len(points)
       /\ Plain => /\ found = passed
                   /\ searchPhase = "found" => /\ amount < limit => Cardinality(Occurs) = amount
                                               /\ SubstrExist <=> Occurs /= {}

Covered(q) == {q.from + k : k \in 0 .. q.len - 1}

(***************************************************************************)
(* The pieces of a split text lie in the text in order, none shares a      *)
(* letter with another or with a delimiter found, and pieces and           *)
(* delimiters are the whole text; there are at most as many as the caller  *)
(* asked for, which is the room they have.                                 *)
(***************************************************************************)
SplitCovers ==
  (searchPhase = "found" /\ asked > 0) =>
    LET delims == UNION {Covered(Piece(points[k], StrLen(substr))) : k \in DOMAIN points}
        pieces == {Covered(Split[k]) : k \in DOMAIN Split}
    IN /\ Len(Split) <= asked
       /\ UNION pieces = DOMAIN text \ delims
       /\ \A k \in DOMAIN Split : Split[k].len >= 0
       /\ \A k \in 1 .. Len(Split) - 1 :
            Split[k].len > 0 => \A l \in k + 1 .. Len(Split) :
                                  Split[l].len > 0 => Split[k].from + Split[k].len <= Split[l].from
=============================================================================
