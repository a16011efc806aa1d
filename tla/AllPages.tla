------------------------------ MODULE AllPages ------------------------------
(***************************************************************************)
(* enclave_t.all_pages, the physical memory of an enclave, and             *)
(* add_merge_global, which inserts a range into it                         *)
(* (modules/libraries/enclave/src/internal/enclave.c).  The list is kept   *)
(* sorted and maximally merged; commit_enclave transfers one capability    *)
(* per element, delete_enclave revokes one per element.                    *)
(*                                                                         *)
(* One action per iteration of the loop.  The pointers iter and prev are   *)
(* positions in the list: iter = Len(pages) + 1 and prev = 0 are NULL.     *)
(***************************************************************************)
EXTENDS Integers, Sequences, Lists

CONSTANTS
  MaxAddr,   \* physical pages are 0 .. MaxAddr - 1
  Tpe        \* capability types

ASSUME MaxAddrAssumption == MaxAddr \in Nat

VARIABLES
  pages,     \* all_pages, in list order
  pc,        \* "idle", "loop" (in add_merge_global) or "insert" (after the loop)
  req,       \* the range the call was made with
  reg,       \* the parameter "region", which grows as it is merged
  iter, prev,
  ret        \* the last value returned: 0 or -1

vars == <<pages, pc, req, reg, iter, prev, ret>>

Addr == 0 .. MaxAddr

PaRegion == [start: Addr, end: Addr, tpe: Tpe]

TypeOK ==
  /\ pages \in Seq(PaRegion)
  /\ pc \in {"idle", "loop", "insert"}
  /\ req \in PaRegion /\ reg \in PaRegion
  /\ iter \in 1 .. Len(pages) + 1
  /\ prev \in 0 .. Len(pages)
  /\ ret \in {0, -1}

Init ==
  /\ pages = <<>>
  /\ pc = "idle"
  /\ req \in PaRegion /\ req.start = 0 /\ req.end = 0
  /\ reg = req
  /\ iter = 1 /\ prev = 0
  /\ ret = 0

-----------------------------------------------------------------------------
\* A slip: contiguous ranges count as overlapping.
overlap_closed(s1, e1, s2, e2) == (s1 <= s2 /\ s2 <= e1) \/ (s2 <= s1 /\ s1 <= e2)

overlap(s1, e1, s2, e2) == (s1 <= s2 /\ s2 < e1) \/ (s2 <= s1 /\ s1 < e2)

\* A call of add_merge_global, by allocate or by build_enclave_cr3.
Call(r) ==
  /\ pc = "idle"
  /\ r.start < r.end
  /\ req' = r /\ reg' = r
  /\ iter' = 1 /\ prev' = 0
  /\ pc' = "loop"
  /\ UNCHANGED <<pages, ret>>

Return(result) ==
  /\ pc' = "idle"
  /\ ret' = result

InLoop == pc = "loop" /\ iter <= Len(pages)

it == pages[iter]

Overlaps == overlap(it.start, it.end, reg.start, reg.end)

\* The region overlaps an element.
Reject ==
  /\ InLoop
  /\ Overlaps
  /\ Return(-1)
  /\ UNCHANGED <<pages, req, reg, iter, prev>>

\* A slip: the loop also ends at an element that could be merged.
Stop_at_contiguous ==
  /\ pc = "loop"
  /\ iter = Len(pages) + 1 \/ (InLoop /\ ~Overlaps /\ it.start >= reg.end)
  /\ pc' = "insert"
  /\ UNCHANGED <<pages, req, reg, iter, prev, ret>>

\* The element is behind the region and cannot be merged with it; or the list
\* has come to its end.
Stop ==
  /\ pc = "loop"
  /\ \/ iter = Len(pages) + 1
     \/ /\ InLoop /\ ~Overlaps
        /\ it.start > reg.end \/ (it.start = reg.end /\ it.tpe # reg.tpe)
  /\ pc' = "insert"
  /\ UNCHANGED <<pages, req, reg, iter, prev, ret>>

\* The element continues the region: it takes the region in.
MergeIntoNext ==
  /\ InLoop /\ ~Overlaps
  /\ it.start = reg.end /\ it.tpe = reg.tpe
  /\ pages' = [pages EXCEPT ![iter] = [@ EXCEPT !.start = reg.start]]
  /\ Return(0)
  /\ UNCHANGED <<req, reg, iter, prev>>

\* A slip: iter is moved twice.
Skip_twice ==
  /\ InLoop /\ ~Overlaps
  /\ it.end < reg.start \/ (it.end = reg.start /\ it.tpe # reg.tpe)
  /\ prev' = iter
  /\ iter' = iter + 2
  /\ UNCHANGED <<pages, pc, req, reg, ret>>

\* A slip: "continue" in place of "goto next".
Skip_without_next ==
  /\ InLoop /\ ~Overlaps
  /\ it.end < reg.start \/ (it.end = reg.start /\ it.tpe # reg.tpe)
  /\ UNCHANGED vars

\* The element is before the region and cannot be merged with it.
Skip ==
  /\ InLoop /\ ~Overlaps
  /\ it.end < reg.start \/ (it.end = reg.start /\ it.tpe # reg.tpe)
  /\ prev' = iter
  /\ iter' = iter + 1
  /\ UNCHANGED <<pages, pc, req, reg, ret>>

\* The region continues the element.
Continues ==
  /\ InLoop /\ ~Overlaps
  /\ ~(it.start = reg.end /\ it.tpe = reg.tpe)
  /\ it.end = reg.start /\ it.tpe = reg.tpe

\* A slip: the next element is not looked at before the merge.
NextOverlaps_ignored == FALSE

NextOverlaps ==
  /\ iter < Len(pages)
  /\ overlap(it.start, reg.end, pages[iter + 1].start, pages[iter + 1].end)

RejectMerge ==
  /\ Continues
  /\ NextOverlaps
  /\ Return(-1)
  /\ UNCHANGED <<pages, req, reg, iter, prev>>

\* The region takes the element in, and the loop goes one element back.
MergePrevious ==
  /\ Continues
  /\ ~NextOverlaps
  /\ reg' = [reg EXCEPT !.start = it.start]
  /\ pages' = Without(pages, iter)
  /\ IF prev # 0 THEN iter' = prev /\ prev' = prev - 1
                 ELSE iter' = 1 /\ prev' = 0
  /\ UNCHANGED <<pc, req, ret>>

\* After the loop: the region goes behind prev.
Insert ==
  /\ pc = "insert"
  /\ pages' = After(pages, prev, reg)
  /\ Return(0)
  /\ UNCHANGED <<req, reg, iter, prev>>

Next ==
  \/ \E r \in PaRegion : Call(r)
  \/ Reject \/ Stop \/ MergeIntoNext \/ Skip \/ RejectMerge \/ MergePrevious
  \/ Insert

\* The loop is straight-line kernel code: once called, it runs.
Spec == Init /\ [][Next]_vars
FairSpec == Spec /\ WF_vars(Reject \/ Stop \/ MergeIntoNext \/ Skip \/ RejectMerge
                            \/ MergePrevious \/ Insert)

-----------------------------------------------------------------------------
\* Between calls the list is sorted, its elements are disjoint, and no two
\* neighbours could be one element: so each maximal run of pages of a type is
\* granted by one capability, and revoked by one.
Before(a, b) == a.end < b.start \/ (a.end = b.start /\ a.tpe # b.tpe)

SortedAndMerged ==
  pc = "idle" =>
    /\ \A i \in DOMAIN pages : pages[i].start < pages[i].end
    /\ \A i, j \in DOMAIN pages : i < j => Before(pages[i], pages[j])

\* A rejected range leaves the pages as they were, although earlier iterations
\* may have taken elements out of the list (enclave.c:537 "There is an overlap
\* with the next element."): as a set of typed pages the list changes only by
\* adding the whole range of a call that returns 0.
PagesOf(r) == (r.start .. (r.end - 1)) \X {r.tpe}

Absorbed == IF pc = "idle" THEN {} ELSE (reg.start .. (req.start - 1)) \X {reg.tpe}

PagesIn(list) == UNION {PagesOf(list[i]) : i \in DOMAIN list}

Typed == PagesIn(pages) \cup Absorbed

Abstract == INSTANCE PageTypes WITH typed <- Typed

AbstractSpec == Abstract!Spec

\* add_merge_global fails for no other reason than an overlap: a rejection means
\* that some page of the range was there already.
RejectsOnlyOverlap ==
  [][pc # "idle" /\ pc' = "idle" /\ ret' = -1 =>
       \E p \in req.start .. (req.end - 1), t \in Tpe : <<p, t>> \in Typed]_vars

\* The loop, which may go backwards, ends.
Terminates == pc # "idle" ~> pc = "idle"
=============================================================================
