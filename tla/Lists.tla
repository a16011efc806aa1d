-------------------------------- MODULE Lists --------------------------------
(***************************************************************************)
(* The lists of programs/libs/dll as sequences: what dll_remove and        *)
(* dll_add_after do to them.  Module Dll shows that the macros do it.      *)
(***************************************************************************)
EXTENDS Integers, Sequences

\* dll_remove of the i-th element.
Without(s, i) == SubSeq(s, 1, i - 1) \o SubSeq(s, i + 1, Len(s))

\* dll_add_after of e behind the i-th element, dll_add_first when i = 0.
After(s, i, e) == SubSeq(s, 1, i) \o <<e>> \o SubSeq(s, i + 1, Len(s))
=============================================================================
