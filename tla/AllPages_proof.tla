--------------------------- MODULE AllPages_proof ---------------------------
(***************************************************************************)
(* add_merge_global keeps all_pages sorted and maximally merged, rejects a *)
(* range only if some page of it is there already, and implements          *)
(* PageTypes: for memory of any size and lists of any length.              *)
(*                                                                         *)
(* The loop takes an element out of the list before it has seen what is    *)
(* behind it.  The invariant says why it cannot regret that (Committed):   *)
(* from then on no element overlaps the region any more, so that the call  *)
(* cannot be rejected.                                                     *)
(***************************************************************************)
EXTENDS AllPages, Lists_proof

-----------------------------------------------------------------------------
\* The list is sorted at every iteration, not only between calls.
Sorted ==
  /\ \A i \in DOMAIN pages : pages[i].start < pages[i].end
  /\ \A i, j \in DOMAIN pages : i < j => Before(pages[i], pages[j])

\* The region is the requested range and what was merged in front of it.
Grown ==
  /\ reg.end = req.end /\ reg.tpe = req.tpe
  /\ reg.start <= req.start /\ req.start < req.end

\* What the loop has passed is before the region.
Passed == prev = iter - 1 /\ \A j \in 1 .. iter - 1 : Before(pages[j], reg)

\* What follows the place of insertion is behind the region.
Behind == \A j \in iter .. Len(pages) : Before(reg, pages[j])

\* Once an element was merged, nothing overlaps the region.
Committed ==
  reg.start # req.start =>
    \A j \in DOMAIN pages : pages[j].end <= reg.start \/ reg.end <= pages[j].start

\* The inductive invariant.
PInv ==
  /\ TypeOK
  /\ Sorted
  /\ pc # "idle" => Grown /\ Passed /\ Committed
  /\ pc = "insert" => Behind

-----------------------------------------------------------------------------
\* The element under the pointer, as a record of numbers.
LEMMA ElementFacts ==
  ASSUME TypeOK, NEW i \in DOMAIN pages
  PROVE  /\ pages[i] \in PaRegion /\ i \in 1 .. Len(pages) /\ Len(pages) \in Nat
         /\ pages[i].start \in Addr /\ pages[i].end \in Addr /\ pages[i].tpe \in Tpe
         /\ pages[i].start \in Int /\ pages[i].end \in Int
<1>1. pages[i] \in PaRegion /\ i \in 1 .. Len(pages) /\ Len(pages) \in Nat
  BY DEF TypeOK
<1>2. pages[i].start \in Addr /\ pages[i].end \in Addr /\ pages[i].tpe \in Tpe
  BY <1>1 DEF PaRegion
<1> QED
  BY <1>1, <1>2, MaxAddrAssumption DEF Addr

LEMMA RegionFacts ==
  ASSUME TypeOK
  PROVE  /\ reg \in PaRegion /\ reg.start \in Addr /\ reg.end \in Addr /\ reg.tpe \in Tpe
         /\ reg.start \in Int /\ reg.end \in Int
         /\ req \in PaRegion /\ req.start \in Addr /\ req.end \in Addr /\ req.tpe \in Tpe
         /\ req.start \in Int /\ req.end \in Int
<1>1. reg \in PaRegion /\ req \in PaRegion
  BY DEF TypeOK
<1>2. /\ reg.start \in Addr /\ reg.end \in Addr /\ reg.tpe \in Tpe
      /\ req.start \in Addr /\ req.end \in Addr /\ req.tpe \in Tpe
  BY <1>1 DEF PaRegion
<1> QED
  BY <1>1, <1>2, MaxAddrAssumption DEF Addr

\* Inside the loop the pointer is at an element.
LEMMA InLoopFacts ==
  ASSUME PInv, InLoop
  PROVE  /\ iter \in DOMAIN pages /\ it = pages[iter] /\ it.start < it.end
         /\ it.start \in Int /\ it.end \in Int /\ it.start \in Addr /\ it.end \in Addr
         /\ it.tpe \in Tpe /\ it \in PaRegion
         /\ pc = "loop" /\ Grown /\ Passed /\ Committed
<1>1. iter \in DOMAIN pages
  BY DEF PInv, TypeOK, InLoop
<1> QED
  BY <1>1, ElementFacts DEF PInv, Sorted, it, InLoop

-----------------------------------------------------------------------------
LEMMA InitPages == Init => PInv
<1> SUFFICES ASSUME Init PROVE PInv
  OBVIOUS
<1>1. TypeOK
  BY DEF Init, TypeOK
<1> QED
  BY <1>1 DEF Init, PInv, Sorted

LEMMA CallPages ==
  ASSUME PInv, NEW r \in PaRegion, Call(r)
  PROVE  PInv'
<1>1. TypeOK'
  BY DEF PInv, TypeOK, Call
<1>2. Sorted'
  BY DEF PInv, Sorted, Before, Call
<1>3. Grown'
  BY RegionFacts DEF Grown, Call, PInv, PaRegion, Addr
<1>4. Passed' /\ Committed'
  BY DEF Passed, Committed, Call
<1> QED
  BY <1>1, <1>2, <1>3, <1>4 DEF PInv, Call

\* A rejection changes nothing.
LEMMA RejectPages ==
  ASSUME PInv, Reject \/ RejectMerge
  PROVE  PInv'
<1>1. pages' = pages /\ pc' = "idle" /\ ret' = -1 /\ UNCHANGED <<req, reg, iter, prev>>
  BY DEF Reject, RejectMerge, Return
<1>2. TypeOK' /\ Sorted'
  BY <1>1 DEF PInv, TypeOK, Sorted, Before
<1> QED
  BY <1>1, <1>2 DEF PInv

\* The loop stops in front of the first element behind the region.
LEMMA StopPages ==
  ASSUME PInv, Stop
  PROVE  PInv'
<1>1. /\ pc = "loop" /\ pc' = "insert" /\ UNCHANGED <<pages, req, reg, iter, prev, ret>>
      /\ Grown /\ Passed /\ Committed
  BY DEF Stop, PInv
<1>2. TypeOK' /\ Sorted' /\ Grown' /\ Passed' /\ Committed'
  BY <1>1 DEF PInv, TypeOK, Sorted, Grown, Passed, Committed, Before
<1>3. Behind
  <2>1. CASE iter = Len(pages) + 1
    BY <2>1 DEF Behind, PInv, TypeOK
  <2>2. CASE /\ InLoop
             /\ it.start > reg.end \/ (it.start = reg.end /\ it.tpe # reg.tpe)
    <3> SUFFICES ASSUME NEW j \in iter .. Len(pages) PROVE Before(reg, pages[j])
      BY DEF Behind
    <3>1. /\ iter \in DOMAIN pages /\ it = pages[iter] /\ it.start < it.end
          /\ it.start \in Int /\ it.end \in Int /\ reg.end \in Int
      BY <2>2, InLoopFacts, RegionFacts DEF PInv
    <3>2. j \in DOMAIN pages /\ pages[j].start \in Int
      BY <3>1, ElementFacts DEF PInv, TypeOK
    <3>3. CASE j = iter
      BY <2>2, <3>1, <3>3 DEF Before
    <3>4. CASE j > iter
      <4>1. Before(it, pages[j])
        BY <3>1, <3>2, <3>4 DEF PInv, Sorted
      <4> QED
        BY <2>2, <3>1, <3>2, <4>1 DEF Before
    <3> QED
      BY <3>1, <3>3, <3>4
  <2> QED
    BY <2>1, <2>2 DEF Stop
<1>4. Behind'
  BY <1>1, <1>3 DEF Behind, Before
<1> QED
  BY <1>2, <1>4 DEF PInv

LEMMA SkipPages ==
  ASSUME PInv, Skip
  PROVE  PInv'
<1>1. /\ InLoop /\ prev' = iter /\ iter' = iter + 1 /\ UNCHANGED <<pages, pc, req, reg, ret>>
      /\ Before(it, reg)
  BY DEF Skip, Before
<1>2. /\ iter \in DOMAIN pages /\ it = pages[iter] /\ pc = "loop" /\ Grown /\ Passed /\ Committed
  BY <1>1, InLoopFacts
<1>3. TypeOK'
  BY <1>1, <1>2 DEF PInv, TypeOK
<1>4. Sorted' /\ Grown' /\ Committed'
  BY <1>1, <1>2 DEF PInv, Sorted, Grown, Committed, Before
<1>5. Passed'
  <2>1. \A j \in 1 .. iter : Before(pages[j], reg)
    BY <1>1, <1>2 DEF Passed, PInv, TypeOK
  <2>2. prev' = iter' - 1 /\ 1 .. iter' - 1 = 1 .. iter
    BY <1>1 DEF PInv, TypeOK
  <2> QED
    BY <1>1, <2>1, <2>2 DEF Passed, Before
<1> QED
  BY <1>1, <1>2, <1>3, <1>4, <1>5 DEF PInv

\* The element takes the region in: it stays between its neighbours.
LEMMA MergeIntoNextPages ==
  ASSUME PInv, MergeIntoNext
  PROVE  PInv'
<1> DEFINE e == [it EXCEPT !.start = reg.start]
<1>1. /\ InLoop /\ it.start = reg.end /\ it.tpe = reg.tpe
      /\ pages' = [pages EXCEPT ![iter] = e]
      /\ pc' = "idle" /\ ret' = 0 /\ UNCHANGED <<req, reg, iter, prev>>
  BY DEF MergeIntoNext, Return, it
<1>2. /\ iter \in DOMAIN pages /\ it = pages[iter] /\ it.start < it.end
      /\ it.start \in Int /\ it.end \in Int /\ it.end \in Addr /\ it \in PaRegion
      /\ Grown /\ Passed /\ reg.start \in Addr /\ reg.start \in Int /\ reg.end \in Int
      /\ req.start \in Int
  BY <1>1, InLoopFacts, RegionFacts DEF PInv
<1>3. e \in PaRegion /\ e.start = reg.start /\ e.end = it.end /\ e.tpe = it.tpe
  BY <1>2 DEF PaRegion
<1> HIDE DEF e
<1>4. /\ pages' \in Seq(PaRegion) /\ Len(pages') = Len(pages) /\ DOMAIN pages' = DOMAIN pages
      /\ pages'[iter] = e /\ \A j \in DOMAIN pages : j # iter => pages'[j] = pages[j]
  BY <1>1, <1>2, <1>3 DEF PInv, TypeOK
<1>5. TypeOK'
  BY <1>1, <1>4 DEF PInv, TypeOK
<1>6. \A i \in DOMAIN pages : pages'[i].start < pages'[i].end
  BY <1>1, <1>2, <1>3, <1>4 DEF PInv, Sorted, Grown
<1>7. ASSUME NEW i \in DOMAIN pages, NEW j \in DOMAIN pages, i < j
      PROVE  Before(pages'[i], pages'[j])
  <2>0. Before(pages[i], pages[j]) /\ i \in Int /\ j \in Int /\ iter \in Int
    BY <1>7 DEF PInv, Sorted, TypeOK
  <2>1. CASE i = iter
    BY <1>2, <1>3, <1>4, <1>7, <2>0, <2>1 DEF Before
  <2>2. CASE j = iter
    <3>1. Before(pages[i], reg)
      <4>1. i \in 1 .. iter - 1
        BY <1>7, <2>0, <2>2 DEF PInv, TypeOK
      <4> QED
        BY <1>2, <4>1 DEF Passed
    <3> QED
      BY <1>1, <1>3, <1>4, <1>7, <2>0, <2>2, <3>1 DEF Before
  <2>3. CASE i # iter /\ j # iter
    BY <1>4, <2>0, <2>3
  <2> QED
    BY <2>1, <2>2, <2>3
<1>8. Sorted'
  BY <1>4, <1>6, <1>7 DEF Sorted, Before
<1> QED
  BY <1>1, <1>5, <1>8 DEF PInv

\* Where the region continues an element, nothing before the next element overlaps
\* the two together.
LEMMA ContinuesFacts ==
  ASSUME PInv, Continues
  PROVE  /\ InLoop /\ it.end = reg.start /\ it.tpe = reg.tpe
         /\ ~NextOverlaps => \A j \in DOMAIN pages : j > iter => reg.end <= pages[j].start
         /\ NextOverlaps =>
              /\ iter + 1 \in DOMAIN pages
              /\ reg.start <= pages[iter + 1].start /\ pages[iter + 1].start < reg.end
<1>1. InLoop /\ it.end = reg.start /\ it.tpe = reg.tpe
  BY DEF Continues
<1>2. /\ iter \in DOMAIN pages /\ it = pages[iter] /\ it.start < it.end
      /\ it.start \in Int /\ it.end \in Int /\ reg.end \in Int /\ reg.start \in Int
      /\ Len(pages) \in Nat /\ DOMAIN pages = 1 .. Len(pages) /\ iter \in Int
      /\ reg.start < reg.end
  BY <1>1, InLoopFacts, RegionFacts DEF PInv, TypeOK, Grown
<1>3. ASSUME iter < Len(pages)
      PROVE  /\ iter + 1 \in DOMAIN pages
             /\ pages[iter + 1].start \in Int /\ pages[iter + 1].end \in Int
             /\ pages[iter + 1].start < pages[iter + 1].end
             /\ it.end <= pages[iter + 1].start
  <2>1. iter + 1 \in DOMAIN pages /\ iter < iter + 1
    BY <1>2, <1>3
  <2>2. /\ pages[iter + 1].start \in Int /\ pages[iter + 1].end \in Int
        /\ pages[iter + 1].start < pages[iter + 1].end
    BY <2>1, ElementFacts DEF PInv, Sorted
  <2>3. Before(it, pages[iter + 1])
    BY <1>2, <2>1 DEF PInv, Sorted
  <2> QED
    BY <1>2, <2>1, <2>2, <2>3 DEF Before
<1>4. ASSUME ~NextOverlaps, NEW j \in DOMAIN pages, j > iter
      PROVE  reg.end <= pages[j].start
  <2>1. iter < Len(pages)
    BY <1>2, <1>4
  <2>2. reg.end <= pages[iter + 1].start
    BY <1>2, <1>3, <1>4, <2>1 DEF NextOverlaps, overlap
  <2>3. CASE j = iter + 1
    BY <2>2, <2>3
  <2>4. CASE j > iter + 1
    <3>1. Before(pages[iter + 1], pages[j])
      BY <1>3, <2>1, <2>4 DEF PInv, Sorted
    <3>2. pages[j].start \in Int
      BY ElementFacts DEF PInv
    <3> QED
      BY <1>2, <1>3, <2>1, <2>2, <3>1, <3>2 DEF Before
  <2> QED
    BY <1>2, <1>4, <2>3, <2>4
<1>5. ASSUME NextOverlaps
      PROVE  /\ iter + 1 \in DOMAIN pages
             /\ reg.start <= pages[iter + 1].start /\ pages[iter + 1].start < reg.end
  BY <1>1, <1>2, <1>3, <1>5 DEF NextOverlaps, overlap
<1> QED
  BY <1>1, <1>4, <1>5

\* The region takes the element in: the element before it is before the region.
LEMMA MergePreviousPages ==
  ASSUME PInv, MergePrevious
  PROVE  PInv'
<1>1. /\ Continues /\ ~NextOverlaps /\ reg' = [reg EXCEPT !.start = it.start]
      /\ pages' = Without(pages, iter) /\ UNCHANGED <<pc, req, ret>>
      /\ IF prev # 0 THEN iter' = prev /\ prev' = prev - 1 ELSE iter' = 1 /\ prev' = 0
  BY DEF MergePrevious
<1>2. /\ InLoop /\ it.end = reg.start /\ it.tpe = reg.tpe
      /\ \A j \in DOMAIN pages : j > iter => reg.end <= pages[j].start
  BY <1>1, ContinuesFacts
<1>3. /\ iter \in 1 .. Len(pages) /\ it = pages[iter] /\ it.start < it.end
      /\ it.start \in Int /\ it.end \in Int /\ it.start \in Addr
      /\ Grown /\ Passed /\ pc = "loop" /\ prev = iter - 1 /\ prev \in Int
      /\ DOMAIN pages = 1 .. Len(pages) /\ Len(pages) \in Nat /\ iter \in DOMAIN pages
  BY <1>2, InLoopFacts DEF PInv, TypeOK, Passed
<1>4. /\ reg \in PaRegion /\ reg.start \in Int /\ reg.end \in Int /\ req.start \in Int
  BY RegionFacts DEF PInv
<1>5. reg' \in PaRegion /\ reg'.start = it.start /\ reg'.end = reg.end /\ reg'.tpe = reg.tpe
  BY <1>1, <1>3, <1>4 DEF PaRegion
<1>6. /\ pages' \in Seq(PaRegion) /\ Len(pages') = Len(pages) - 1
      /\ DOMAIN pages' = 1 .. Len(pages) - 1
      /\ \A j \in 1 .. Len(pages) - 1 : pages'[j] = IF j < iter THEN pages[j] ELSE pages[j + 1]
  <2>1. pages \in Seq(PaRegion)
    BY DEF PInv, TypeOK
  <2>2. /\ pages' \in Seq(PaRegion) /\ Len(pages') = Len(pages) - 1
        /\ \A j \in 1 .. Len(pages) - 1 :
             pages'[j] = IF j < iter THEN pages[j] ELSE pages[j + 1]
    <3>1. pages \in Seq(PaRegion) /\ iter \in 1 .. Len(pages)
      BY <1>3, <2>1
    <3>2. /\ Without(pages, iter) \in Seq(PaRegion)
          /\ Len(Without(pages, iter)) = Len(pages) - 1
          /\ \A j \in 1 .. Len(pages) - 1 :
               Without(pages, iter)[j] = IF j < iter THEN pages[j] ELSE pages[j + 1]
      BY <3>1, WithoutElement, Zenon
    <3> QED
      BY <1>1, <3>2, Zenon
  <2> QED
    BY <2>2
<1>7. TypeOK'
  <2>1. iter' \in 1 .. Len(pages') + 1 /\ prev' \in 0 .. Len(pages') /\ prev' = iter' - 1
    BY <1>1, <1>3, <1>6
  <2> QED
    BY <1>1, <1>5, <1>6, <2>1 DEF PInv, TypeOK
<1>8. Sorted'
  <2>1. ASSUME NEW i \in DOMAIN pages' PROVE pages'[i].start < pages'[i].end
    <3>1. \E k \in DOMAIN pages : pages'[i] = pages[k]
      <4>1. CASE i < iter
        BY <1>3, <1>6, <4>1
      <4>2. CASE ~(i < iter)
        <5>1. i + 1 \in DOMAIN pages /\ pages'[i] = pages[i + 1]
          BY <1>3, <1>6, <4>2
        <5> QED
          BY <5>1
      <4> QED
        BY <4>1, <4>2
    <3> QED
      BY <3>1 DEF PInv, Sorted
  <2>2. ASSUME NEW i \in DOMAIN pages', NEW j \in DOMAIN pages', i < j
        PROVE  Before(pages'[i], pages'[j])
    <3> DEFINE m == IF i < iter THEN i ELSE i + 1
               n == IF j < iter THEN j ELSE j + 1
    <3>1. m \in DOMAIN pages /\ n \in DOMAIN pages /\ m < n
      <4>1. /\ i \in 1 .. Len(pages) - 1 /\ j \in 1 .. Len(pages) - 1 /\ i < j
            /\ iter \in 1 .. Len(pages) /\ Len(pages) \in Nat
        BY <1>3, <1>6, <2>2
      <4>2. m \in 1 .. Len(pages) /\ n \in 1 .. Len(pages) /\ m < n
        BY <4>1
      <4> QED
        BY <1>3, <4>2
    <3>2. pages'[i] = pages[m] /\ pages'[j] = pages[n]
      BY <1>6
    <3> HIDE DEF m, n
    <3>3. Before(pages[m], pages[n])
      BY <3>1 DEF PInv, Sorted
    <3> QED
      BY <3>2, <3>3
  <2> QED
    BY <2>1, <2>2 DEF Sorted, Before
<1>9. Grown'
  BY <1>1, <1>2, <1>3, <1>4, <1>5 DEF Grown
<1>10. \A j \in 1 .. iter - 1 : Before(pages[j], it)
  BY <1>3 DEF PInv, Sorted
<1>11. \A j \in 1 .. iter - 1 : Before(pages'[j], reg') /\ pages'[j].end <= reg'.start
  <2> SUFFICES ASSUME NEW j \in 1 .. iter - 1
               PROVE  Before(pages'[j], reg') /\ pages'[j].end <= reg'.start
    OBVIOUS
  <2>1. pages'[j] = pages[j] /\ j \in DOMAIN pages
    BY <1>3, <1>6
  <2>2. Before(pages[j], it) /\ pages[j].end \in Int
    BY <1>10, <2>1, ElementFacts DEF PInv
  <2> QED
    BY <1>2, <1>3, <1>5, <2>1, <2>2 DEF Before
<1>12. Passed'
  <2>1. prev' = iter' - 1 /\ 1 .. iter' - 1 \subseteq 1 .. iter - 1
    BY <1>1, <1>3
  <2> QED
    BY <1>11, <2>1 DEF Passed, Before
<1>13. Committed'
  <2> SUFFICES ASSUME NEW j \in DOMAIN pages'
               PROVE  pages'[j].end <= reg'.start \/ reg'.end <= pages'[j].start
    BY DEF Committed
  <2>1. CASE j < iter
    <3>1. j \in 1 .. iter - 1
      BY <1>3, <1>6, <2>1
    <3> QED
      BY <1>11, <3>1
  <2>2. CASE ~(j < iter)
    <3>1. j + 1 \in DOMAIN pages /\ j + 1 > iter /\ pages'[j] = pages[j + 1]
      BY <1>3, <1>6, <2>2
    <3> QED
      BY <1>2, <1>5, <3>1
  <2> QED
    BY <2>1, <2>2
<1> QED
  BY <1>1, <1>3, <1>7, <1>8, <1>9, <1>12, <1>13 DEF PInv

\* The region goes between what is before it and what is behind it.
LEMMA InsertPages ==
  ASSUME PInv, Insert
  PROVE  PInv'
<1>1. /\ pc = "insert" /\ pages' = After(pages, prev, reg) /\ pc' = "idle" /\ ret' = 0
      /\ UNCHANGED <<req, reg, iter, prev>> /\ Grown /\ Passed /\ Behind
  BY DEF Insert, Return, PInv
<1>2. /\ pages \in Seq(PaRegion) /\ Len(pages) \in Nat /\ DOMAIN pages = 1 .. Len(pages)
      /\ prev \in 0 .. Len(pages) /\ iter = prev + 1 /\ reg \in PaRegion
      /\ reg.start \in Int /\ reg.end \in Int /\ req.start \in Int
  BY <1>1, RegionFacts DEF PInv, TypeOK, Passed
<1>3. /\ pages' \in Seq(PaRegion) /\ Len(pages') = Len(pages) + 1
      /\ \A j \in 1 .. Len(pages) + 1 :
           pages'[j] = IF j <= prev THEN pages[j] ELSE IF j = prev + 1 THEN reg ELSE pages[j - 1]
  <2>1. pages \in Seq(PaRegion) /\ reg \in PaRegion /\ prev \in 0 .. Len(pages)
    BY <1>2
  <2>2. IsAfter(PaRegion, pages, prev, reg, pages')
    BY <1>1, <2>1, AfterElement
  <2> QED
    BY <2>2 DEF IsAfter
<1>4. DOMAIN pages' = 1 .. Len(pages) + 1
  BY <1>3
<1>5. TypeOK'
  BY <1>1, <1>2, <1>3 DEF PInv, TypeOK
<1>6. reg.start < reg.end
  BY <1>1, <1>2 DEF Grown
<1>7. ASSUME NEW i \in DOMAIN pages' PROVE pages'[i].start < pages'[i].end
  <2>1. CASE i <= prev
    BY <1>2, <1>3, <1>4, <2>1 DEF PInv, Sorted
  <2>2. CASE i = prev + 1
    BY <1>2, <1>3, <1>4, <1>6, <2>2
  <2>3. CASE i > prev + 1
    <3>1. i - 1 \in DOMAIN pages /\ pages'[i] = pages[i - 1]
      BY <1>2, <1>3, <1>4, <2>3
    <3> QED
      BY <3>1 DEF PInv, Sorted
  <2> QED
    BY <1>2, <1>4, <2>1, <2>2, <2>3
<1>8. ASSUME NEW i \in DOMAIN pages', NEW j \in DOMAIN pages', i < j
      PROVE  Before(pages'[i], pages'[j])
  <2> DEFINE m == IF i <= prev THEN i ELSE i - 1
             n == IF j <= prev THEN j ELSE j - 1
  <2>1. CASE i = prev + 1
    <3>1. j - 1 \in iter .. Len(pages) /\ pages'[i] = reg /\ pages'[j] = pages[j - 1]
      BY <1>2, <1>3, <1>4, <1>8, <2>1
    <3> QED
      BY <1>1, <3>1 DEF Behind
  <2>2. CASE j = prev + 1
    <3>1. i \in 1 .. iter - 1 /\ pages'[j] = reg /\ pages'[i] = pages[i]
      BY <1>2, <1>3, <1>4, <1>8, <2>2
    <3> QED
      BY <1>1, <3>1 DEF Passed
  <2>3. CASE i # prev + 1 /\ j # prev + 1
    <3>1. m \in DOMAIN pages /\ n \in DOMAIN pages /\ m < n
      BY <1>2, <1>4, <1>8, <2>3
    <3>2. pages'[i] = pages[m] /\ pages'[j] = pages[n]
      BY <1>2, <1>3, <1>4, <2>3
    <3> HIDE DEF m, n
    <3>3. Before(pages[m], pages[n])
      BY <3>1 DEF PInv, Sorted
    <3> QED
      BY <3>2, <3>3
  <2> QED
    BY <2>1, <2>2, <2>3
<1>9. Sorted'
  BY <1>7, <1>8 DEF Sorted, Before
<1> QED
  BY <1>1, <1>5, <1>9 DEF PInv

LEMMA PagesInvariance == Spec => []PInv
<1>1. PInv /\ [Next]_vars => PInv'
  <2> SUFFICES ASSUME PInv, [Next]_vars PROVE PInv'
    OBVIOUS
  <2>1. CASE UNCHANGED vars
    BY <2>1 DEF vars, PInv, TypeOK, Sorted, Grown, Passed, Behind, Committed, Before
  <2>2. CASE Next
    BY <2>2, CallPages, RejectPages, StopPages, SkipPages, MergeIntoNextPages,
       MergePreviousPages, InsertPages DEF Next
  <2> QED
    BY <2>1, <2>2
<1> QED
  BY <1>1, InitPages, PTL DEF Spec

-----------------------------------------------------------------------------
\* The pointers of add_merge_global stay inside the list, however far back a merge
\* sends them, and the ranges inside the memory.
THEOREM TypeCorrect == Spec => []TypeOK
<1>1. PInv => TypeOK
  BY DEF PInv
<1> QED
  BY <1>1, PagesInvariance, PTL

\* Between calls of add_merge_global the list is sorted, disjoint and maximally merged.
THEOREM StaysSortedAndMerged == Spec => []SortedAndMerged
<1>1. PInv => SortedAndMerged
  BY DEF PInv, Sorted, SortedAndMerged
<1> QED
  BY <1>1, PagesInvariance, PTL

-----------------------------------------------------------------------------
\* The page p is in a list, with type t.
InList(ps, p, t) == \E i \in DOMAIN ps : ps[i].start <= p /\ p < ps[i].end /\ t = ps[i].tpe

Listed(p, t) == InList(pages, p, t)

\* It was absorbed into the region.
Taken(p, t) == pc # "idle" /\ reg.start <= p /\ p < req.start /\ t = reg.tpe

\* A range of pages, page by page.
LEMMA RangePages ==
  ASSUME NEW s \in Int, NEW e \in Int, NEW u \in Tpe
  PROVE  /\ (s .. (e - 1)) \X {u} \subseteq Int \X Tpe
         /\ \A p \in Int, t \in Tpe :
              <<p, t>> \in (s .. (e - 1)) \X {u} <=> s <= p /\ p < e /\ t = u
OBVIOUS

\* The pages of a list, page by page.
LEMMA ListPages ==
  ASSUME NEW ps \in Seq(PaRegion)
  PROVE  /\ PagesIn(ps) \subseteq Int \X Tpe
         /\ \A p \in Int, t \in Tpe :
              <<p, t>> \in PagesIn(ps) <=> InList(ps, p, t)
<1>1. ASSUME NEW i \in DOMAIN ps
      PROVE  ps[i].start \in Int /\ ps[i].end \in Int /\ ps[i].tpe \in Tpe
  <2>1. ps[i] \in PaRegion
    OBVIOUS
  <2>2. ps[i].start \in Addr /\ ps[i].end \in Addr /\ ps[i].tpe \in Tpe
    BY <2>1 DEF PaRegion
  <2> QED
    BY <2>2, MaxAddrAssumption DEF Addr
<1>2. ASSUME NEW i \in DOMAIN ps
      PROVE  /\ PagesOf(ps[i]) \subseteq Int \X Tpe
             /\ \A p \in Int, t \in Tpe :
                  <<p, t>> \in PagesOf(ps[i]) <=>
                    ps[i].start <= p /\ p < ps[i].end /\ t = ps[i].tpe
  BY <1>1, RangePages DEF PagesOf
<1>3. ASSUME NEW p \in Int, NEW t \in Tpe
      PROVE  <<p, t>> \in PagesIn(ps) <=> InList(ps, p, t)
  BY <1>2 DEF InList, PagesIn
<1>4. PagesIn(ps) \subseteq Int \X Tpe
  BY <1>2, Zenon DEF PagesIn
<1> QED
  BY <1>3, <1>4

\* The set of typed pages, page by page, before and after a step.
LEMMA TypedPages ==
  ASSUME TypeOK
  PROVE  /\ Typed \subseteq Int \X Tpe
         /\ \A p \in Int, t \in Tpe : <<p, t>> \in Typed <=> Listed(p, t) \/ Taken(p, t)
<1>1. /\ reg.start \in Int /\ req.start \in Int /\ reg.tpe \in Tpe
      /\ pages \in Seq(PaRegion)
  BY MaxAddrAssumption DEF TypeOK, PaRegion, Addr
<1>2. /\ PagesIn(pages) \subseteq Int \X Tpe
      /\ \A p \in Int, t \in Tpe : <<p, t>> \in PagesIn(pages) <=> Listed(p, t)
  BY <1>1, ListPages DEF Listed
<1>3. /\ Absorbed \subseteq Int \X Tpe
      /\ \A p \in Int, t \in Tpe : <<p, t>> \in Absorbed <=> Taken(p, t)
  BY <1>1, RangePages DEF Absorbed, Taken
<1>4. Typed = PagesIn(pages) \cup Absorbed
  BY DEF Typed
<1> QED
  BY <1>2, <1>3, <1>4

LEMMA TypedPagesNext ==
  ASSUME TypeOK'
  PROVE  /\ Typed' \subseteq Int \X Tpe
         /\ \A p \in Int, t \in Tpe : <<p, t>> \in Typed' <=> Listed(p, t)' \/ Taken(p, t)'
<1>1. /\ reg'.start \in Int /\ req'.start \in Int /\ reg'.tpe \in Tpe
      /\ pages' \in Seq(PaRegion)
  BY MaxAddrAssumption DEF TypeOK, PaRegion, Addr
<1>2. /\ PagesIn(pages') \subseteq Int \X Tpe
      /\ \A p \in Int, t \in Tpe : <<p, t>> \in PagesIn(pages') <=> Listed(p, t)'
  BY <1>1, ListPages DEF Listed
<1>3. /\ Absorbed' \subseteq Int \X Tpe
      /\ \A p \in Int, t \in Tpe : <<p, t>> \in Absorbed' <=> Taken(p, t)'
  BY <1>1, RangePages DEF Absorbed, Taken
<1>4. Typed' = PagesIn(pages') \cup Absorbed'
  BY DEF Typed, PagesIn, PagesOf
<1> QED
  BY <1>2, <1>3, <1>4

\* Nothing changes if no page changes.
LEMMA SamePages ==
  ASSUME TypeOK, TypeOK',
         \A p \in Int, t \in Tpe : Listed(p, t)' \/ Taken(p, t)' <=> Listed(p, t) \/ Taken(p, t)
  PROVE  Typed' = Typed
<1>1. \A p \in Int, t \in Tpe : <<p, t>> \in Typed' <=> <<p, t>> \in Typed
  BY TypedPages, TypedPagesNext
<1>2. Typed' \subseteq Int \X Tpe /\ Typed \subseteq Int \X Tpe
  BY TypedPages, TypedPagesNext
<1> HIDE DEF Typed
<1> QED
  BY <1>1, <1>2

\* The whole range is added if none of it was there and it is what changes.
LEMMA AddedPages ==
  ASSUME PInv, TypeOK', pc # "idle",
         \A p \in Int, t \in Tpe :
           Listed(p, t) \/ Taken(p, t) => ~(req.start <= p /\ p < req.end),
         \A p \in Int, t \in Tpe :
           Listed(p, t)' \/ Taken(p, t)' <=>
             \/ Listed(p, t) \/ Taken(p, t)
             \/ req.start <= p /\ p < req.end /\ t = req.tpe
  PROVE  Abstract!Next
<1>1. /\ req.start \in Int /\ req.end \in Int /\ req.tpe \in Tpe /\ req.start < req.end
      /\ req.start \in 0 .. MaxAddr /\ req.end \in 0 .. MaxAddr
  BY RegionFacts DEF PInv, Grown, Addr
<1>2. ASSUME NEW p \in Abstract!Range(req.start, req.end), NEW u \in Tpe
      PROVE  <<p, u>> \notin Typed
  <2>1. p \in Int /\ req.start <= p /\ p < req.end
    BY <1>1 DEF Abstract!Range
  <2> QED
    BY <2>1, TypedPages DEF PInv
<1> DEFINE A == Abstract!Range(req.start, req.end) \X {req.tpe}
<1>3. /\ A \subseteq Int \X Tpe
      /\ \A p \in Int, t \in Tpe :
           <<p, t>> \in A <=> req.start <= p /\ p < req.end /\ t = req.tpe
  BY <1>1 DEF Abstract!Range
<1>4. Typed' = Typed \cup A
  <2>1. \A p \in Int, t \in Tpe : <<p, t>> \in Typed' <=> <<p, t>> \in Typed \cup A
    BY <1>3, TypedPages, TypedPagesNext DEF PInv
  <2>2. Typed' \subseteq Int \X Tpe /\ Typed \subseteq Int \X Tpe
    BY TypedPages, TypedPagesNext DEF PInv
  <2> HIDE DEF A, Typed
  <2> QED
    BY <1>3, <2>1, <2>2
<1>5. Abstract!Add(req.start, req.end, req.tpe)
  BY <1>2, <1>4 DEF Abstract!Add
<1> QED
  BY <1>1, <1>5 DEF Abstract!Next

\* A page of the requested range that is not in the list was not there before.
LEMMA RangeIsFree ==
  ASSUME PInv, pc # "idle",
         \A j \in DOMAIN pages : pages[j].end <= reg.start \/ reg.end <= pages[j].start
  PROVE  \A p \in Int, t \in Tpe :
           Listed(p, t) \/ Taken(p, t) => ~(req.start <= p /\ p < req.end)
<1>1. /\ reg.end = req.end /\ reg.start <= req.start /\ reg.start \in Int /\ reg.end \in Int
      /\ req.start \in Int
      /\ \A j \in DOMAIN pages : pages[j].start \in Int /\ pages[j].end \in Int
  BY RegionFacts, ElementFacts DEF PInv, Grown
<1> QED
  BY <1>1 DEF Listed, InList, Taken

\* A call can be rejected only before it has merged anything, and only because a page
\* of the range is in the list.
LEMMA Rejected ==
  ASSUME PInv, Reject \/ RejectMerge
  PROVE  /\ reg.start = req.start /\ pc # "idle"
         /\ \E p \in req.start .. (req.end - 1), t \in Tpe : Listed(p, t)
<1>1. /\ pc # "idle" /\ InLoop
  BY DEF Reject, RejectMerge, Continues, InLoop
<1>2. /\ iter \in DOMAIN pages /\ it = pages[iter] /\ it.start < it.end
      /\ it.start \in Int /\ it.end \in Int /\ it.tpe \in Tpe /\ Grown /\ Committed
      /\ reg.start \in Int /\ reg.end \in Int /\ req.start \in Int
      /\ reg.end = req.end /\ reg.start < reg.end
  BY <1>1, InLoopFacts, RegionFacts DEF PInv, Grown
<1>3. CASE Reject
  <2>1. it.start < reg.end /\ reg.start < it.end
    BY <1>2, <1>3 DEF Reject, Overlaps, overlap
  <2>2. reg.start = req.start
    BY <1>2, <2>1 DEF Committed
  <2>3. PICK p \in Int : p = IF it.start <= reg.start THEN reg.start ELSE it.start
    BY <1>2
  <2>4. p \in req.start .. (req.end - 1) /\ it.start <= p /\ p < it.end
    BY <1>2, <2>1, <2>2, <2>3
  <2>5. Listed(p, it.tpe)
    BY <1>2, <2>4 DEF Listed, InList
  <2> QED
    BY <1>1, <1>2, <2>2, <2>4, <2>5
<1>4. CASE RejectMerge
  <2> DEFINE n == iter + 1
  <2>1. /\ it.end = reg.start /\ n \in DOMAIN pages
        /\ reg.start <= pages[n].start /\ pages[n].start < reg.end
    BY <1>4, ContinuesFacts DEF RejectMerge
  <2>2. /\ pages[n].start \in Int /\ pages[n].end \in Int /\ pages[n].tpe \in Tpe
        /\ pages[n].start < pages[n].end
    BY <2>1, ElementFacts DEF PInv, Sorted
  <2> HIDE DEF n
  <2>3. reg.start = req.start
    BY <1>2, <2>1, <2>2 DEF Committed
  <2>4. Listed(pages[n].start, pages[n].tpe)
    BY <2>1, <2>2 DEF Listed, InList
  <2>5. pages[n].start \in req.start .. (req.end - 1)
    BY <1>2, <2>1, <2>2, <2>3
  <2> QED
    BY <1>1, <2>2, <2>3, <2>4, <2>5
<1> QED
  BY <1>3, <1>4

-----------------------------------------------------------------------------
\* Steps that leave the list and the merged part alone are invisible.
LEMMA CallTyped ==
  ASSUME PInv, NEW r \in PaRegion, Call(r)
  PROVE  Typed' = Typed
<1>1. TypeOK' /\ TypeOK
  BY CallPages DEF PInv
<1>2. \A p \in Int, t \in Tpe : ~Taken(p, t) /\ ~Taken(p, t)' /\ (Listed(p, t)' <=> Listed(p, t))
  <2>1. pages' = pages /\ pc = "idle" /\ reg'.start = req'.start /\ req'.start \in Int
    BY <1>1, MaxAddrAssumption DEF Call, TypeOK, PaRegion, Addr
  <2> QED
    BY <2>1 DEF Listed, InList, Taken
<1> QED
  BY <1>1, <1>2, SamePages

LEMMA QuietTyped ==
  ASSUME PInv, Stop \/ Skip
  PROVE  Typed' = Typed
<1>1. TypeOK' /\ TypeOK
  BY StopPages, SkipPages DEF PInv
<1>2. UNCHANGED <<pages, req, reg>> /\ pc # "idle" /\ pc' # "idle"
  BY DEF Stop, Skip, InLoop
<1>3. \A p \in Int, t \in Tpe : (Taken(p, t)' <=> Taken(p, t)) /\ (Listed(p, t)' <=> Listed(p, t))
  BY <1>2 DEF Listed, InList, Taken
<1> QED
  BY <1>1, <1>3, SamePages

\* A rejected call has merged nothing that would be lost.
LEMMA RejectTyped ==
  ASSUME PInv, Reject \/ RejectMerge
  PROVE  Typed' = Typed
<1>1. TypeOK' /\ TypeOK
  BY RejectPages DEF PInv
<1>2. UNCHANGED <<pages, req, reg>> /\ pc' = "idle" /\ reg.start = req.start
  BY Rejected DEF Reject, RejectMerge, Return
<1>3. req.start \in Int
  BY <1>1, RegionFacts
<1>4. \A p \in Int, t \in Tpe : ~Taken(p, t)' /\ ~Taken(p, t) /\ (Listed(p, t)' <=> Listed(p, t))
  BY <1>2, <1>3 DEF Listed, InList, Taken
<1> QED
  BY <1>1, <1>4, SamePages

\* What a merge takes out of the list is in the region.
LEMMA MergePreviousTyped ==
  ASSUME PInv, MergePrevious
  PROVE  Typed' = Typed
<1>1. TypeOK' /\ TypeOK
  BY MergePreviousPages DEF PInv
<1>2. /\ Continues /\ reg' = [reg EXCEPT !.start = it.start]
      /\ pages' = Without(pages, iter) /\ req' = req /\ pc' = pc
  BY DEF MergePrevious
<1>3. InLoop /\ it.end = reg.start /\ it.tpe = reg.tpe
  BY <1>2, ContinuesFacts
<1>4. /\ iter \in 1 .. Len(pages) /\ it = pages[iter] /\ it.start < it.end
      /\ it.start \in Int /\ it.end \in Int /\ pc # "idle" /\ reg.start <= req.start
      /\ Len(pages) \in Nat /\ DOMAIN pages = 1 .. Len(pages) /\ pages \in Seq(PaRegion)
  BY <1>1, <1>3, InLoopFacts DEF TypeOK, Grown
<1>5. reg \in PaRegion /\ reg.start \in Int /\ req.start \in Int
  BY <1>1, RegionFacts
<1>6. reg'.start = it.start /\ reg'.tpe = reg.tpe
  BY <1>2, <1>5 DEF PaRegion
<1>7. /\ DOMAIN pages' = 1 .. Len(pages) - 1
      /\ \A j \in 1 .. Len(pages) - 1 : pages'[j] = IF j < iter THEN pages[j] ELSE pages[j + 1]
  <2>1. /\ pages' \in Seq(PaRegion) /\ Len(pages') = Len(pages) - 1
        /\ \A j \in 1 .. Len(pages) - 1 :
             pages'[j] = IF j < iter THEN pages[j] ELSE pages[j + 1]
    <3>1. pages \in Seq(PaRegion) /\ iter \in 1 .. Len(pages)
      BY <1>4
    <3>2. /\ Without(pages, iter) \in Seq(PaRegion)
          /\ Len(Without(pages, iter)) = Len(pages) - 1
          /\ \A j \in 1 .. Len(pages) - 1 :
               Without(pages, iter)[j] = IF j < iter THEN pages[j] ELSE pages[j + 1]
      BY <3>1, WithoutElement, Zenon
    <3> QED
      BY <1>2, <3>2, Zenon
  <2> QED
    BY <2>1
<1>8. ASSUME NEW p \in Int, NEW t \in Tpe
      PROVE  Listed(p, t)' \/ Taken(p, t)' <=> Listed(p, t) \/ Taken(p, t)
  <2> DEFINE In(r) == r.start <= p /\ p < r.end /\ t = r.tpe
  <2>1. Listed(p, t) <=> \E i \in 1 .. Len(pages) : In(pages[i])
    BY <1>4 DEF Listed, InList
  <2>2. Listed(p, t)' <=> \E i \in 1 .. Len(pages) - 1 : In(pages'[i])
    BY <1>7 DEF Listed, InList
  <2>3. Taken(p, t)' <=> Taken(p, t) \/ In(it)
    BY <1>2, <1>3, <1>4, <1>5, <1>6 DEF Taken
  <2> HIDE DEF In
  <2>4. ASSUME Listed(p, t) PROVE Listed(p, t)' \/ In(it)
    <3>1. PICK i \in 1 .. Len(pages) : In(pages[i])
      BY <2>1, <2>4
    <3>2. CASE i = iter
      BY <1>4, <3>1, <3>2
    <3>3. CASE i < iter
      <4>1. i \in 1 .. Len(pages) - 1 /\ pages'[i] = pages[i]
        BY <1>4, <1>7, <3>3
      <4> QED
        BY <2>2, <3>1, <4>1
    <3>4. CASE i > iter
      <4>1. i - 1 \in 1 .. Len(pages) - 1 /\ pages'[i - 1] = pages[i]
        BY <1>4, <1>7, <3>4
      <4> QED
        BY <2>2, <3>1, <4>1
    <3> QED
      BY <1>4, <3>2, <3>3, <3>4
  <2>5. ASSUME Listed(p, t)' PROVE Listed(p, t)
    <3>1. PICK i \in 1 .. Len(pages) - 1 : In(pages'[i])
      BY <2>2, <2>5
    <3>2. \E j \in 1 .. Len(pages) : pages[j] = pages'[i]
      BY <1>4, <1>7
    <3> QED
      BY <2>1, <3>1, <3>2
  <2>6. In(it) => Listed(p, t)
    BY <1>4, <2>1
  <2> QED
    BY <2>3, <2>4, <2>5, <2>6
<1> QED
  BY <1>1, <1>8, SamePages

\* The element that takes the region in gains the range and what was merged.
LEMMA MergeIntoNextTyped ==
  ASSUME PInv, MergeIntoNext
  PROVE  Abstract!Next
<1> DEFINE e == [it EXCEPT !.start = reg.start]
<1>1. /\ InLoop /\ it.start = reg.end /\ it.tpe = reg.tpe
      /\ pages' = [pages EXCEPT ![iter] = e]
      /\ pc' = "idle" /\ pc # "idle"
  BY DEF MergeIntoNext, Return, it, InLoop
<1>2. /\ iter \in DOMAIN pages /\ it = pages[iter] /\ it.start < it.end
      /\ it.start \in Int /\ it.end \in Int /\ it \in PaRegion
      /\ Grown /\ Passed /\ reg.start \in Int /\ reg.end \in Int
      /\ req.start \in Int /\ req.end \in Int
  BY <1>1, InLoopFacts, RegionFacts DEF PInv
<1>3. e.start = reg.start /\ e.end = it.end /\ e.tpe = it.tpe
  BY <1>2 DEF PaRegion
<1> HIDE DEF e
<1>4. /\ DOMAIN pages' = DOMAIN pages
      /\ pages'[iter] = e /\ \A j \in DOMAIN pages : j # iter => pages'[j] = pages[j]
  BY <1>1, <1>2
<1>5. TypeOK'
  BY MergeIntoNextPages DEF PInv
<1>6. ASSUME NEW j \in DOMAIN pages
      PROVE  pages[j].end <= reg.start \/ reg.end <= pages[j].start
  <2>0. /\ j \in Int /\ iter \in Int /\ j >= 1 /\ pages[j].start \in Int /\ pages[j].end \in Int
    BY ElementFacts DEF PInv, TypeOK
  <2>1. CASE j < iter
    <3>1. Before(pages[j], reg)
      BY <1>2, <2>0, <2>1 DEF Passed
    <3> QED
      BY <1>2, <2>0, <3>1 DEF Before
  <2>2. CASE j = iter
    BY <1>1, <1>2, <2>2
  <2>3. CASE j > iter
    <3>1. Before(it, pages[j])
      BY <1>2, <2>0, <2>3 DEF PInv, Sorted
    <3> QED
      BY <1>1, <1>2, <2>0, <3>1 DEF Before
  <2> QED
    BY <2>0, <2>1, <2>2, <2>3
<1>7. \A p \in Int, t \in Tpe :
        Listed(p, t) \/ Taken(p, t) => ~(req.start <= p /\ p < req.end)
  BY <1>1, <1>6, RangeIsFree
<1>8. ASSUME NEW p \in Int, NEW t \in Tpe
      PROVE  Listed(p, t)' \/ Taken(p, t)' <=>
               \/ Listed(p, t) \/ Taken(p, t)
               \/ req.start <= p /\ p < req.end /\ t = req.tpe
  <2> DEFINE In(r) == r.start <= p /\ p < r.end /\ t = r.tpe
             Other == \E j \in DOMAIN pages : j # iter /\ In(pages[j])
  <2>1. Listed(p, t) <=> Other \/ In(it)
    BY <1>2 DEF Listed, InList
  <2>2. Listed(p, t)' <=> Other \/ In(e)
    BY <1>2, <1>4 DEF Listed, InList
  <2>3. ~Taken(p, t)'
    BY <1>1 DEF Taken
  <2>4. In(e) <=> In(it) \/ Taken(p, t) \/ (req.start <= p /\ p < req.end /\ t = req.tpe)
    BY <1>1, <1>2, <1>3 DEF Taken, Grown
  <2> HIDE DEF In, Other
  <2> QED
    BY <2>1, <2>2, <2>3, <2>4
<1> QED
  BY <1>1, <1>5, <1>7, <1>8, AddedPages

\* So does the region that goes into the list.
LEMMA InsertTyped ==
  ASSUME PInv, Insert
  PROVE  Abstract!Next
<1>1. /\ pc = "insert" /\ pages' = After(pages, prev, reg) /\ pc' = "idle"
      /\ Grown /\ Passed /\ Behind
  BY DEF Insert, Return, PInv
<1>2. /\ pages \in Seq(PaRegion) /\ Len(pages) \in Nat /\ DOMAIN pages = 1 .. Len(pages)
      /\ prev \in 0 .. Len(pages) /\ iter = prev + 1 /\ reg \in PaRegion
      /\ reg.start \in Int /\ reg.end \in Int /\ req.start \in Int /\ req.end \in Int
  BY <1>1, RegionFacts DEF PInv, TypeOK, Passed
<1>3. /\ DOMAIN pages' = 1 .. Len(pages) + 1
      /\ \A j \in 1 .. Len(pages) + 1 :
           pages'[j] = IF j <= prev THEN pages[j] ELSE IF j = prev + 1 THEN reg ELSE pages[j - 1]
  <2>1. pages \in Seq(PaRegion) /\ reg \in PaRegion /\ prev \in 0 .. Len(pages)
    BY <1>2
  <2>2. IsAfter(PaRegion, pages, prev, reg, pages')
    BY <1>1, <2>1, AfterElement
  <2> QED
    BY <2>2 DEF IsAfter
<1>4. TypeOK'
  BY InsertPages DEF PInv
<1>5. ASSUME NEW j \in DOMAIN pages
      PROVE  pages[j].end <= reg.start \/ reg.end <= pages[j].start
  <2>0. j \in 1 .. Len(pages) /\ pages[j].start \in Int /\ pages[j].end \in Int
    BY ElementFacts DEF PInv
  <2>1. CASE j <= prev
    <3>1. Before(pages[j], reg)
      BY <1>1, <1>2, <2>0, <2>1 DEF Passed
    <3> QED
      BY <1>2, <2>0, <3>1 DEF Before
  <2>2. CASE j > prev
    <3>1. Before(reg, pages[j])
      BY <1>1, <1>2, <2>0, <2>2 DEF Behind
    <3> QED
      BY <1>2, <2>0, <3>1 DEF Before
  <2> QED
    BY <1>2, <2>0, <2>1, <2>2
<1>6. \A p \in Int, t \in Tpe :
        Listed(p, t) \/ Taken(p, t) => ~(req.start <= p /\ p < req.end)
  BY <1>1, <1>5, RangeIsFree
<1>7. ASSUME NEW p \in Int, NEW t \in Tpe
      PROVE  Listed(p, t)' \/ Taken(p, t)' <=>
               \/ Listed(p, t) \/ Taken(p, t)
               \/ req.start <= p /\ p < req.end /\ t = req.tpe
  <2> DEFINE In(r) == r.start <= p /\ p < r.end /\ t = r.tpe
  <2>1. Listed(p, t) <=> \E j \in 1 .. Len(pages) : In(pages[j])
    BY <1>2 DEF Listed, InList
  <2>2. Listed(p, t)' <=> \E j \in 1 .. Len(pages) + 1 : In(pages'[j])
    BY <1>3 DEF Listed, InList
  <2>3. ~Taken(p, t)'
    BY <1>1 DEF Taken
  <2>4. In(reg) <=> Taken(p, t) \/ (req.start <= p /\ p < req.end /\ t = req.tpe)
    BY <1>1, <1>2 DEF Taken, Grown
  <2> HIDE DEF In
  <2>5. Listed(p, t)' <=> Listed(p, t) \/ In(reg)
    <3>1. ASSUME NEW j \in 1 .. Len(pages), In(pages[j])
          PROVE  \E k \in 1 .. Len(pages) + 1 : In(pages'[k])
      <4>1. CASE j <= prev
        <5>1. j \in 1 .. Len(pages) + 1 /\ pages'[j] = pages[j]
          BY <1>2, <1>3, <4>1
        <5> QED
          BY <3>1, <5>1
      <4>2. CASE j > prev
        <5>1. j + 1 \in 1 .. Len(pages) + 1 /\ pages'[j + 1] = pages[j]
          BY <1>2, <1>3, <4>2
        <5> QED
          BY <3>1, <5>1
      <4> QED
        BY <1>2, <4>1, <4>2
    <3>2. In(reg) => \E k \in 1 .. Len(pages) + 1 : In(pages'[k])
      <4>1. prev + 1 \in 1 .. Len(pages) + 1 /\ pages'[prev + 1] = reg
        BY <1>2, <1>3
      <4> QED
        BY <4>1
    <3>3. ASSUME NEW k \in 1 .. Len(pages) + 1
          PROVE  pages'[k] = reg \/ \E j \in 1 .. Len(pages) : pages'[k] = pages[j]
      <4>1. CASE k <= prev
        BY <1>2, <1>3, <4>1
      <4>2. CASE k = prev + 1
        BY <1>2, <1>3, <4>2
      <4>3. CASE k > prev + 1
        <5>1. k - 1 \in 1 .. Len(pages) /\ pages'[k] = pages[k - 1]
          BY <1>2, <1>3, <4>3
        <5> QED
          BY <5>1
      <4> QED
        BY <1>2, <4>1, <4>2, <4>3
    <3> QED
      BY <2>1, <2>2, <3>1, <3>2, <3>3
  <2> QED
    BY <2>3, <2>4, <2>5
<1> QED
  BY <1>1, <1>4, <1>6, <1>7, AddedPages

-----------------------------------------------------------------------------
\* add_merge_global adds a range whole or not at all: as a set of typed pages the list
\* changes only by the range of a call that succeeds, no page of which was there.
THEOREM PagesImplementTypes == Spec => AbstractSpec
<1>1. Init => Abstract!Init
  BY DEF Init, Abstract!Init, Typed, PagesIn, Absorbed
<1>2. PInv /\ [Next]_vars => [Abstract!Next]_Typed
  <2> SUFFICES ASSUME PInv, [Next]_vars PROVE Abstract!Next \/ Typed' = Typed
    OBVIOUS
  <2>1. CASE UNCHANGED vars
    BY <2>1 DEF vars, Typed, PagesIn, PagesOf, Absorbed
  <2>2. CASE Next
    BY <2>2, CallTyped, QuietTyped, RejectTyped, MergePreviousTyped, MergeIntoNextTyped,
       InsertTyped DEF Next
  <2> QED
    BY <2>1, <2>2
<1> QED
  BY <1>1, <1>2, PagesInvariance, PTL DEF Spec, AbstractSpec, Abstract!Spec

\* A call of add_merge_global that returns -1 was for a range some page of which was
\* there already, with whatever type, also when it is rejected after a merge was tried.
THEOREM RejectionMeansOverlap == Spec => RejectsOnlyOverlap
<1>1. ASSUME PInv, [Next]_vars, pc # "idle", pc' = "idle", ret' = -1
      PROVE  \E p \in req.start .. (req.end - 1), t \in Tpe : <<p, t>> \in Typed
  <2>1. Reject \/ RejectMerge
    <3>1. ~UNCHANGED vars /\ \A r \in PaRegion : ~Call(r)
      BY <1>1 DEF vars, Call
    <3>2. ~Stop /\ ~Skip /\ ~MergePrevious /\ ~MergeIntoNext /\ ~Insert
      BY <1>1 DEF Stop, Skip, MergePrevious, MergeIntoNext, Insert, Return
    <3> QED
      BY <1>1, <3>1, <3>2 DEF Next
  <2>2. PICK p \in req.start .. (req.end - 1), t \in Tpe : Listed(p, t)
    BY <1>1, <2>1, Rejected
  <2>3. p \in Int
    BY <1>1, RegionFacts DEF PInv
  <2>4. <<p, t>> \in Typed
    BY <1>1, <2>2, <2>3, TypedPages DEF PInv
  <2> QED
    BY <2>2, <2>4
<1>2. PInv /\ [Next]_vars =>
        [pc # "idle" /\ pc' = "idle" /\ ret' = -1 =>
           \E p \in req.start .. (req.end - 1), t \in Tpe : <<p, t>> \in Typed]_vars
  BY <1>1
<1> QED
  BY <1>2, PagesInvariance, PTL DEF Spec, RejectsOnlyOverlap
=============================================================================
