------------------------------ MODULE Regions ------------------------------
(***************************************************************************)
(* The virtual regions of an enclave (enclave_t.regions) and add_region,   *)
(* which adds the range of one ADD_REGION or ADD_STACK ioctl               *)
(* (modules/libraries/enclave/src/internal/enclave.c).  A region is backed *)
(* by the caller's memory at src; the pages src, src + 1, ... are mapped   *)
(* at start, start + 1, ...                                                *)
(*                                                                         *)
(* One action per iteration of the loop.  The pointers reg_iter and prev   *)
(* are positions in the list: reg_iter = Len(regions) + 1 and prev = 0 are *)
(* NULL.  Addresses are counted in pages.                                  *)
(***************************************************************************)
EXTENDS Integers, Sequences, Lists

CONSTANTS
  Requests   \* the ranges user space asks for

VARIABLES
  regions,   \* the list, in order
  pc,        \* "idle", "loop" (in add_region) or "insert" (after the loop)
  req,       \* the argument of the call
  e_reg,     \* the new region, which grows as it is merged
  reg_iter, prev,
  ret,       \* the last value returned: 0 or -1
  accepted   \* history: the requests that returned 0

vars == <<regions, pc, req, e_reg, reg_iter, prev, ret, accepted>>

\* Protection flags, without TE_USER; a set stands for the mask.
Flags == SUBSET {"read", "write", "exec"}

Region == [start: Nat, end: Nat, src: Nat, flags: Flags,
           tpe: {"Shared", "Confidential"}]

ASSUME RequestsAssumption == Requests \subseteq Region

TypeOK ==
  /\ regions \in Seq(Region)
  /\ pc \in {"idle", "loop", "insert"}
  /\ req \in Requests
  /\ e_reg \in Region
  /\ reg_iter \in 1 .. Len(regions) + 1
  /\ prev \in 0 .. Len(regions)
  /\ ret \in {0, -1}
  /\ accepted \subseteq Requests

Init ==
  /\ regions = <<>>
  /\ pc = "idle"
  /\ req \in Requests /\ e_reg = req
  /\ reg_iter = 1 /\ prev = 0
  /\ ret = 0
  /\ accepted = {}

-----------------------------------------------------------------------------
\* A slip: only one of the two ways to overlap is tested.
overlap_left(s1, e1, s2, e2) == s1 <= s2 /\ s2 < e1

overlap(s1, e1, s2, e2) == (s1 <= s2 /\ s2 < e1) \/ (s2 <= s1 /\ s1 < e2)

region_check(r) ==
  /\ r.start < r.end
  /\ r.flags # {}
  /\ ~({"write", "exec"} \subseteq r.flags)

Return(result) ==
  /\ pc' = "idle"
  /\ ret' = result
  /\ accepted' = IF result = 0 THEN accepted \cup {req} ELSE accepted

Call(r) ==
  /\ pc = "idle"
  /\ req' = r /\ e_reg' = r
  /\ reg_iter' = 1 /\ prev' = 0
  /\ IF region_check(r) THEN pc' = "loop" /\ ret' = ret
                        ELSE pc' = "idle" /\ ret' = -1
  /\ UNCHANGED <<regions, accepted>>

InLoop == pc = "loop" /\ reg_iter <= Len(regions)

it == regions[reg_iter]

Overlaps == overlap(it.start, it.end, e_reg.start, e_reg.end)

SameAttributes == it.tpe = e_reg.tpe /\ it.flags = e_reg.flags

Size(r) == r.end - r.start

Reject ==
  /\ InLoop
  /\ Overlaps
  /\ Return(-1)
  /\ UNCHANGED <<regions, req, e_reg, reg_iter, prev>>

\* A slip: the loop always goes to the end of the list.
Behind_never == FALSE

\* The element is behind the new region and has other attributes; or the list
\* has come to its end.
Behind == it.start > e_reg.end \/ (it.start = e_reg.end /\ ~SameAttributes)

Stop ==
  /\ pc = "loop"
  /\ reg_iter = Len(regions) + 1 \/ (InLoop /\ ~Overlaps /\ Behind)
  /\ pc' = "insert"
  /\ UNCHANGED <<regions, req, e_reg, reg_iter, prev, ret, accepted>>

\* The element continues the new region, at src too: it takes the region in.
ContinuedBy == /\ it.start = e_reg.end
               /\ it.src = e_reg.src + Size(e_reg)
               /\ SameAttributes

MergeIntoNext ==
  /\ InLoop /\ ~Overlaps
  /\ ContinuedBy
  /\ regions' = [regions EXCEPT ![reg_iter] =
                   [@ EXCEPT !.start = e_reg.start, !.src = e_reg.src]]
  /\ Return(0)
  /\ UNCHANGED <<req, e_reg, reg_iter, prev>>

\* The new region continues the element, at src too.
Continues == /\ it.end = e_reg.start
             /\ e_reg.src = it.src + Size(it)
             /\ SameAttributes

\* A slip: reg_iter is moved twice.
Skip_twice ==
  /\ InLoop /\ ~Overlaps /\ ~Behind /\ ~ContinuedBy /\ ~Continues
  /\ prev' = reg_iter
  /\ reg_iter' = reg_iter + 2
  /\ UNCHANGED <<regions, pc, req, e_reg, ret, accepted>>

\* A slip: "continue" in place of "goto next".
Skip_without_next ==
  /\ InLoop /\ ~Overlaps /\ ~Behind /\ ~ContinuedBy /\ ~Continues
  /\ UNCHANGED vars

\* Everything else goes on to the next element: the element before the region,
\* and also a neighbour on either side whose src is not contiguous.
Skip ==
  /\ InLoop /\ ~Overlaps /\ ~Behind /\ ~ContinuedBy /\ ~Continues
  /\ prev' = reg_iter
  /\ reg_iter' = reg_iter + 1
  /\ UNCHANGED <<regions, pc, req, e_reg, ret, accepted>>

\* A slip: the next element is not looked at before the merge.
NextOverlaps_ignored == FALSE

NextOverlaps ==
  /\ reg_iter < Len(regions)
  /\ overlap(it.start, e_reg.end, regions[reg_iter + 1].start, regions[reg_iter + 1].end)

RejectMerge ==
  /\ InLoop /\ ~Overlaps /\ Continues
  /\ NextOverlaps
  /\ Return(-1)
  /\ UNCHANGED <<regions, req, e_reg, reg_iter, prev>>

\* The new region takes the element in: its start moves, its src does not.
MergePrevious ==
  /\ InLoop /\ ~Overlaps /\ Continues
  /\ ~NextOverlaps
  /\ e_reg' = [e_reg EXCEPT !.start = it.start]
  /\ regions' = Without(regions, reg_iter)
  /\ IF prev # 0 THEN reg_iter' = prev /\ prev' = prev - 1
                 ELSE reg_iter' = 1 /\ prev' = 0
  /\ UNCHANGED <<pc, req, ret, accepted>>

Insert ==
  /\ pc = "insert"
  /\ regions' = After(regions, prev, e_reg)
  /\ Return(0)
  /\ UNCHANGED <<req, e_reg, reg_iter, prev>>

Step == Reject \/ Stop \/ MergeIntoNext \/ Skip \/ RejectMerge \/ MergePrevious \/ Insert

Next == (\E r \in Requests : Call(r)) \/ Step

\* Kernel code that does not wait: once called, it runs.
Spec == Init /\ [][Next]_vars /\ WF_vars(Step)

-----------------------------------------------------------------------------
PagesOf(r) == r.start .. (r.end - 1)

\* Requests that add_region can put in order, whichever comes first: two of them that
\* touch and have equal attributes also touch in memory, and no three follow each
\* other.  The caller decides whether they do (see MCRegions).
Touch(a, b) ==
  /\ region_check(a) /\ region_check(b)
  /\ a.end = b.start /\ a.tpe = b.tpe /\ a.flags = b.flags

Contiguous(asked) == \A a, b \in asked : Touch(a, b) => b.src = a.src + Size(a)

Unchained(asked) == \A a, b, c \in asked : ~(Touch(a, b) /\ Touch(b, c))

\* "Check there is no overlap with other regions" (enclave.c:191) and the
\* driver's test "Overlap accepted." (test_driver/src/main.c:93): of two
\* requests that overlap, one is refused.
NoOverlapAccepted ==
  \A a, b \in accepted : a # b => PagesOf(a) \cap PagesOf(b) = {}

\* "We keep the list sorted and attempt to merge regions whenever possible"
\* (enclave.c:192).
Sorted ==
  pc = "idle" => \A i, j \in DOMAIN regions : i < j => regions[i].end <= regions[j].start

\* Merging loses nothing and invents nothing: between calls every accepted page
\* is in the list, in one region, with the flags and the type it was asked for.
Attributed(r) == {<<p, r.flags, r.tpe>> : p \in PagesOf(r)}

CoversAccepted ==
  pc = "idle" =>
    /\ UNION {Attributed(regions[i]) : i \in DOMAIN regions}
         = UNION {Attributed(a) : a \in accepted}
    /\ \A i, j \in DOMAIN regions :
         i # j => PagesOf(regions[i]) \cap PagesOf(regions[j]) = {}

\* "Contiguous, we merge only if the src is also contiguous" (enclave.c:211):
\* a merged region still maps every page to the memory it was asked for with.
SrcOf(r) == {<<p, r.src + (p - r.start)>> : p \in PagesOf(r)}

SrcPreserved ==
  pc = "idle" =>
    UNION {SrcOf(regions[i]) : i \in DOMAIN regions} \subseteq UNION {SrcOf(a) : a \in accepted}

\* The loop, which may go backwards, ends.
Terminates == pc # "idle" ~> pc = "idle"
=============================================================================
