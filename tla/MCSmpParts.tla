----------------------------- MODULE MCSmpParts -----------------------------
(***************************************************************************)
(* The array, the list, the stack, the text search and the process title   *)
(* for TLC.  None of them uses another: the first step decides which of    *)
(* them the run is about, and the others stay as they were.                *)
(***************************************************************************)
EXTENDS SmpArray, SmpList, SmpStack, SmpSearch, SmpTitle

ArrayUnused == ArrayInit /\ UNCHANGED arrayVars
ListUnused == ListInit /\ UNCHANGED listVars
StackUnused == StackInit /\ UNCHANGED stackVars
SearchUnused == SearchInit /\ UNCHANGED searchVars
TitleUnused == TitleInit /\ UNCHANGED titleVars

Init == ArrayInit /\ ListInit /\ StackInit /\ SearchInit /\ TitleInit

Next == \/ ListUnused /\ StackUnused /\ SearchUnused /\ TitleUnused /\ ArrayNext
        \/ ArrayUnused /\ StackUnused /\ SearchUnused /\ TitleUnused /\ ListNext
        \/ ArrayUnused /\ ListUnused /\ SearchUnused /\ TitleUnused /\ StackNext
        \/ ArrayUnused /\ ListUnused /\ StackUnused /\ TitleUnused /\ SearchNext
        \/ ArrayUnused /\ ListUnused /\ StackUnused /\ SearchUnused /\ TitleNext

Spec == Init /\ [][Next]_<<arrayVars, listVars, stackVars, searchVars, titleVars>>
=============================================================================
