------------------------------ MODULE SmpTitle ------------------------------
(***************************************************************************)
(* smp_set_proc_titel of smp_linux/smp_system/smp_system.c, called any     *)
(* number of times.  The title is written where the process was given its  *)
(* arguments and, behind them, its environment; both are copied first.     *)
(*                                                                         *)
(* The program itself changes neither, and asks for no title that does not *)
(* fit.  An address is <<"in", n>>, the n-th byte of that memory,          *)
(* <<"heap", s>>, a copy of s that nothing writes to again, or             *)
(* <<"over", s>>, one that does not end in the memory the copies were      *)
(* given: it reads s until that byte is used.  What writing such a copy    *)
(* does to the data of the allocator is not modelled.  Copies whose length *)
(* comes out negative, or as the distance of two memories, cannot be made. *)
(***************************************************************************)
EXTENDS Integers, Sequences, SequencesExt

CONSTANTS
  MaxArgc, (* bound: how many arguments, the program's name included *)
  MaxEnv,  (* bound: how many variables in the environment *)
  MaxChars (* bound: the length of each of them *)

ASSUME TitleAssumption == {MaxArgc, MaxEnv, MaxChars} \subseteq Nat \ {0}

NUL == 0
TITLE == 1 (* the character titles are made of, which differ in length *)
KEPT == -1 (* a byte that is not written *)

VARIABLES
  memory,   (* the bytes the process was started with, <<>> before *)
  argv,     (* the addresses of the arguments, the name's first *)
  environ,  (* those of the variables *)
  started,  (* history: the strings they were at the start *)
  wanted,   (* history: the name, or the last title asked for *)
  smooth    (* history: no title was shorter than what it replaced, and *)
            (* no memory was refused                                    *)

titleVars == <<memory, argv, environ, started, wanted, smooth>>

(* For operators named Mutant..., see SmpArray. *)

TitleInit == /\ memory = <<>> /\ argv = <<>> /\ environ = <<>>
             /\ started = <<>> /\ wanted = <<>> /\ smooth = TRUE

(* Strings in memory, each with its end, one behind the other. *)
Laid(strs) == FlattenSeq([i \in DOMAIN strs |-> Append(strs[i], NUL)])

(* Their addresses when the first one's is n. *)
Places(n, strs) == [i \in DOMAIN strs |-> <<"in", n + Len(Laid(SubSeq(strs, 1, i - 1)))>>]

StringAt(a) ==
  IF a[1] /= "in" THEN a[2]
  ELSE LET end == CHOOSE e \in a[2] .. Len(memory) :
                    /\ memory[e] = NUL
                    /\ \A k \in a[2] .. e - 1 : memory[k] /= NUL
       IN SubSeq(memory, a[2], end - 1)

StringsAt(as) == [i \in DOMAIN as |-> StringAt(as[i])]

NameLen == Len(StringAt(argv[1]))
Params == StringsAt(Tail(argv))

(* The process starts; no two of its strings share a character. *)
ProcStart(args, envs) ==
  /\ memory' = Laid(args \o envs)
  /\ argv' = Places(1, args)
  /\ environ' = Places(1 + Len(Laid(args)), envs)
  /\ started' = args \o envs
  /\ wanted' = args[1]
  /\ smooth' = TRUE

MutantEndFrom(n, as) ==
  LET last[i \in 0 .. Len(as)] ==
        IF i = 0 THEN n
        ELSE IF as[i] = <<"in", last[i - 1]>> THEN last[i - 1] + Len(StringAt(as[i]))
        ELSE last[i - 1]
  IN last[Len(as)]

(* smp_init_set_proc_title: the end of the strings that follow each other  *)
(* from byte n on; those that are elsewhere are passed over.               *)
EndFrom(n, as) ==
  LET last[i \in 0 .. Len(as)] ==
        IF i = 0 THEN n
        ELSE IF as[i] = <<"in", last[i - 1]>> THEN last[i - 1] + Len(StringAt(as[i])) + 1
        ELSE last[i - 1]
  IN last[Len(as)]

ArgvLast == EndFrom(1, argv)
EnvLast == EndFrom(ArgvLast, environ) - 1

(* The bytes before end set to NUL, and then s written at the beginning. *)
Overwritten(end, s) ==
  [k \in DOMAIN memory |-> IF k <= Len(s) /\ s[k] /= KEPT THEN s[k]
                          ELSE IF k < end THEN NUL ELSE memory[k]]

(* The same strings as smp_strcpyn writes them: of an empty one, nothing. *)
Copied(strs) == FlattenSeq([i \in DOMAIN strs |->
                              IF strs[i] = <<>> THEN <<KEPT>> ELSE Append(strs[i], NUL)])

Title(t) == [k \in 1 .. t |-> TITLE]

(* A title that fits in the place of the name, or of the title before. *)
TitleInPlace(t) ==
  /\ memory /= <<>>
  /\ t <= NameLen
  /\ memory' = Overwritten(NameLen + 1, Title(t))
  /\ wanted' = Title(t)
  /\ smooth' = (smooth /\ t = NameLen)
  /\ UNCHANGED <<argv, environ, started>>

CopySize == EnvLast - environ[1][2]

(* smp_cpy_environs, ok if it gets its memory; the caller does not look.   *)
CpyEnvirons(ok) ==
  environ' = IF ok /\ environ[1][1] = "in" /\ CopySize >= 0
             THEN [i \in DOMAIN environ |->
                     <<IF Len(Laid(StringsAt(SubSeq(environ, 1, i)))) <= CopySize
                       THEN "heap" ELSE "over", StringAt(environ[i])>>]
             ELSE environ

(* Whoever has the bytes behind the copies of the variables writes there.  *)
HeapReused ==
  /\ \E i \in DOMAIN environ :
       /\ environ[i][1] = "over"
       /\ environ' = [environ EXCEPT ![i] = <<"heap", Append(@[2], TITLE)>>]
  /\ UNCHANGED <<memory, argv, started, wanted, smooth>>

(* smp_reset_proc_titel without parameters. *)
TitleAlone(t, okEnv) ==
  /\ Len(argv) = 1
  /\ NameLen < t /\ t < Len(memory)
  /\ CpyEnvirons(okEnv)
  /\ memory' = Overwritten(EnvLast, Title(t))
  /\ wanted' = Title(t)
  /\ smooth' = (smooth /\ okEnv)
  /\ UNCHANGED <<argv, started>>

(* smp_reset_proc_titel with parameters, which are copied and then put     *)
(* behind the title; if they cannot be copied, the title is not set.       *)
TitleAndParams(t, okEnv, okArgv) ==
  /\ Len(argv) > 1
  /\ NameLen < t /\ Len(Laid(<<Title(t)>> \o Params)) <= Len(memory)
  /\ CpyEnvirons(okEnv)
  /\ IF okArgv /\ ArgvLast > argv[2][2]
     THEN /\ memory' = Overwritten(EnvLast, Copied(<<Title(t)>> \o Params))
          /\ argv' = Places(1, <<Title(t)>> \o Params)
     ELSE UNCHANGED <<memory, argv>>
  /\ wanted' = Title(t)
  /\ smooth' = (smooth /\ okEnv /\ okArgv)
  /\ UNCHANGED started

(* Strings of these lengths, of characters after c. *)
Strs(lens, c) == [i \in DOMAIN lens |-> [k \in 1 .. lens[i] |-> c + i]]

TitleNext ==
  \/ /\ memory = <<>>
     /\ \E n \in 1 .. MaxArgc, m \in 1 .. MaxEnv :
          \E a \in [1 .. n -> 0 .. MaxChars], e \in [1 .. m -> 1 .. MaxChars] :
            a[1] > 0 /\ ProcStart(Strs(a, TITLE), Strs(e, TITLE + n))
  \/ \E t \in 0 .. Len(memory) :
       \/ TitleInPlace(t)
       \/ \E okEnv, okArgv \in BOOLEAN : TitleAlone(t, okEnv) \/ TitleAndParams(t, okEnv, okArgv)
  \/ HeapReused

TitleSpec == TitleInit /\ [][TitleNext]_titleVars
-----------------------------------------------------------------------------
(***************************************************************************)
(* Properties.                                                             *)
(***************************************************************************)

(* Every variable has its type. *)
TitleTypeOK ==
  /\ memory \in Seq(Nat) /\ wanted \in Seq(Nat) /\ started \in Seq(Seq(Nat))
  /\ \A as \in {argv, environ} : \A i \in DOMAIN as :
       \/ as[i][1] = "in" /\ as[i][2] \in DOMAIN memory
       \/ as[i][1] \in {"heap", "over"} /\ as[i][2] \in Seq(Nat)
  /\ smooth \in BOOLEAN

(***************************************************************************)
(* However often and to whatever the title is set, and whatever memory is  *)
(* refused, the process finds its parameters as they were; an empty one    *)
(* may not be, once smooth is gone.  As long as no title is shorter than   *)
(* the one before and no memory is refused, the title shown is the last    *)
(* one asked for, and of the environment it may have been written over     *)
(* every variable but the last is as it was.  The last one is as well as   *)
(* long as it has not been copied, or nobody has used the byte its copy    *)
(* ends at.                                                                *)
(***************************************************************************)
TitleKept ==
  memory /= <<>> =>
    LET params == SubSeq(started, 2, Len(argv))
    IN /\ (smooth \/ \A i \in DOMAIN params : params[i] /= <<>>) => Params = params
       /\ smooth => /\ StringAt(argv[1]) = wanted
                    /\ Len(environ) = Len(started) - Len(argv)
                    /\ \A i \in DOMAIN environ :
                         i < Len(environ) \/ environ[i][1] /= "heap" =>
                           StringAt(environ[i]) = started[Len(argv) + i]

(***************************************************************************)
(* What smp_cpy_environs is said to do: the environment is copied, and as  *)
(* long as smooth the process finds all of it.  It does not: the memory is *)
(* a byte short, and the last variable ends behind it.                     *)
(***************************************************************************)
EnvKept ==
  memory /= <<>> /\ smooth => StringsAt(environ) = SubSeq(started, Len(argv) + 1, Len(started))
=============================================================================
