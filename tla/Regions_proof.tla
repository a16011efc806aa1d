---------------------------- MODULE Regions_proof ----------------------------
(***************************************************************************)
(* add_region keeps the regions of an enclave sorted, accepts no overlap   *)
(* and covers exactly what it accepted, for any number of requests at any  *)
(* addresses that are Contiguous and Unchained.                            *)
(*                                                                         *)
(* The two conditions are what the loop silently relies on: a neighbour    *)
(* with equal attributes and another src, and one whose src was lost in an *)
(* earlier merge, are skipped as if they were in front of the new region   *)
(* (enclave.c:213).  Under them every element and the new region are a     *)
(* request or two requests joined (Piece), so that neighbours with equal   *)
(* attributes are always merged (Joined).                                  *)
(***************************************************************************)
EXTENDS Regions, Lists_proof

-----------------------------------------------------------------------------
\* The pointer prev is the one behind reg_iter.
PrevInv == pc # "idle" => prev = reg_iter - 1

\* The list is sorted at every iteration, not only between calls.
ListSorted ==
  /\ \A i \in DOMAIN regions : regions[i].start < regions[i].end
  /\ \A i, j \in DOMAIN regions : i < j => regions[i].end <= regions[j].start

\* A request, or two requests joined.
Piece(r) ==
  \/ r \in Requests /\ region_check(r)
  \/ \E a, b \in Requests :
       /\ Touch(a, b)
       /\ r.start = a.start /\ r.end = b.end /\ r.flags = a.flags /\ r.tpe = a.tpe

Pieces == \A i \in DOMAIN regions : Piece(regions[i])

\* The new region is the request, and what was merged in front of it.
Grown ==
  /\ Piece(e_reg) /\ region_check(req)
  /\ e_reg.end = req.end /\ e_reg.flags = req.flags /\ e_reg.tpe = req.tpe
  /\ e_reg.start <= req.start

\* What the loop has passed is before the new region.
Passed == \A j \in 1 .. reg_iter - 1 : regions[j].end <= e_reg.start

\* What follows the place of insertion is behind it.
Following == \A j \in reg_iter .. Len(regions) : e_reg.end <= regions[j].start

\* Once an element was merged, nothing overlaps the new region.
Committed ==
  e_reg.start # req.start =>
    \A j \in DOMAIN regions : regions[j].end <= e_reg.start \/ e_reg.end <= regions[j].start

\* The page p is in a region, with flags f and type t.
In(r, p, f, t) == r.start <= p /\ p < r.end /\ f = r.flags /\ t = r.tpe

Listed(p, f, t) == \E i \in DOMAIN regions : In(regions[i], p, f, t)
Taken(p, f, t) ==
  pc # "idle" /\ e_reg.start <= p /\ p < req.start /\ f = e_reg.flags /\ t = e_reg.tpe
Granted(p, f, t) == \E a \in accepted : In(a, p, f, t)

\* What was accepted is in the list, except what has been merged into the new region.
Covered == \A p \in Int : \A f, t : Listed(p, f, t) \/ Taken(p, f, t) <=> Granted(p, f, t)

Checked == \A a \in accepted : region_check(a)

\* Two different requests that were accepted have no page in common.
Apart == \A a, b \in accepted : a # b => a.end <= b.start \/ b.end <= a.start

\* The inductive invariants: of the types, and of the order.
TInv == TypeOK /\ PrevInv

OrderInv ==
  /\ ListSorted /\ Pieces
  /\ pc # "idle" => Grown /\ Passed /\ Committed
  /\ pc = "insert" => Following

RInv == TInv /\ OrderInv /\ Covered /\ Checked /\ Apart

-----------------------------------------------------------------------------
\* A region as a record of numbers.
LEMMA RecordFacts ==
  ASSUME NEW r \in Region
  PROVE  /\ r.start \in Nat /\ r.end \in Nat /\ r.src \in Nat
         /\ r.start \in Int /\ r.end \in Int /\ r.src \in Int
BY DEF Region

LEMMA ElementFacts ==
  ASSUME TypeOK, NEW i \in DOMAIN regions
  PROVE  /\ regions[i] \in Region /\ i \in 1 .. Len(regions) /\ Len(regions) \in Nat
         /\ regions[i].start \in Int /\ regions[i].end \in Int
<1>1. regions[i] \in Region /\ i \in 1 .. Len(regions) /\ Len(regions) \in Nat
  BY DEF TypeOK
<1> QED
  BY <1>1, RecordFacts

LEMMA NewRegionFacts ==
  ASSUME TypeOK
  PROVE  /\ e_reg \in Region /\ e_reg.start \in Int /\ e_reg.end \in Int
         /\ req \in Region /\ req.start \in Int /\ req.end \in Int
<1>1. e_reg \in Region /\ req \in Region
  BY RequestsAssumption DEF TypeOK
<1> QED
  BY <1>1, RecordFacts

\* A region that begins elsewhere.
LEMMA Widened ==
  ASSUME NEW r \in Region, NEW s \in Nat
  PROVE  /\ [r EXCEPT !.start = s] \in Region
         /\ [r EXCEPT !.start = s].start = s
         /\ [r EXCEPT !.start = s].end = r.end
         /\ [r EXCEPT !.start = s].flags = r.flags
         /\ [r EXCEPT !.start = s].tpe = r.tpe
BY DEF Region

\* The positions of a list, and of a part of it.
LEMMA Positions ==
  ASSUME NEW n \in Nat, NEW i \in 1 .. n + 1, NEW k \in 1 .. i
  PROVE  /\ i - 1 \in 0 .. n
         /\ \A j \in 1 .. k - 1 : j \in 1 .. i - 1
OBVIOUS

\* The list without the element under the pointer, and with the new region in it.
LEMMA MergedList ==
  ASSUME TInv, MergePrevious
  PROVE  /\ reg_iter \in 1 .. Len(regions) /\ Len(regions) \in Nat
         /\ regions' \in Seq(Region) /\ Len(regions') = Len(regions) - 1
         /\ DOMAIN regions = 1 .. Len(regions) /\ DOMAIN regions' = 1 .. Len(regions) - 1
         /\ \A j \in 1 .. Len(regions) - 1 :
              regions'[j] = IF j < reg_iter THEN regions[j] ELSE regions[j + 1]
         /\ prev = reg_iter - 1 /\ prev' = reg_iter' - 1
         /\ reg_iter' \in 1 .. reg_iter /\ reg_iter' \in 1 .. Len(regions') + 1
<1>1. /\ regions \in Seq(Region) /\ reg_iter \in 1 .. Len(regions) /\ Len(regions) \in Nat
      /\ prev = reg_iter - 1 /\ regions' = Without(regions, reg_iter)
      /\ IF prev # 0 THEN reg_iter' = prev /\ prev' = prev - 1
                     ELSE reg_iter' = 1 /\ prev' = 0
  BY DEF MergePrevious, InLoop, TInv, TypeOK, PrevInv
<1>2. /\ regions' \in Seq(Region) /\ Len(regions') = Len(regions) - 1
      /\ \A j \in 1 .. Len(regions) - 1 :
           regions'[j] = IF j < reg_iter THEN regions[j] ELSE regions[j + 1]
  <2>1. regions \in Seq(Region) /\ reg_iter \in 1 .. Len(regions)
    BY <1>1
  <2>2. /\ Without(regions, reg_iter) \in Seq(Region)
        /\ Len(Without(regions, reg_iter)) = Len(regions) - 1
        /\ \A j \in 1 .. Len(regions) - 1 :
             Without(regions, reg_iter)[j] = IF j < reg_iter THEN regions[j] ELSE regions[j + 1]
    BY <2>1, WithoutElement, Zenon
  <2> QED
    BY <1>1, <2>2, Zenon
<1>3. DOMAIN regions = 1 .. Len(regions) /\ DOMAIN regions' = 1 .. Len(regions) - 1
  BY <1>1, <1>2
<1>4. /\ prev' = reg_iter' - 1 /\ reg_iter' \in 1 .. reg_iter
      /\ reg_iter' \in 1 .. Len(regions)
  BY <1>1
<1> QED
  BY <1>1, <1>2, <1>3, <1>4

LEMMA InsertedList ==
  ASSUME TInv, Insert
  PROVE  /\ prev \in 0 .. Len(regions) /\ Len(regions) \in Nat /\ reg_iter = prev + 1
         /\ regions' \in Seq(Region) /\ Len(regions') = Len(regions) + 1
         /\ DOMAIN regions = 1 .. Len(regions) /\ DOMAIN regions' = 1 .. Len(regions) + 1
         /\ \A j \in 1 .. Len(regions) + 1 :
              regions'[j] = IF j <= prev THEN regions[j]
                            ELSE IF j = prev + 1 THEN e_reg ELSE regions[j - 1]
<1>1. /\ regions \in Seq(Region) /\ e_reg \in Region /\ prev \in 0 .. Len(regions)
      /\ Len(regions) \in Nat /\ reg_iter = prev + 1
  BY DEF Insert, TInv, TypeOK, PrevInv
<1>2. IsAfter(Region, regions, prev, e_reg, regions')
  <2>1. regions \in Seq(Region) /\ e_reg \in Region /\ prev \in 0 .. Len(regions)
    BY <1>1
  <2>2. regions' = After(regions, prev, e_reg)
    BY DEF Insert
  <2> QED
    BY <2>1, <2>2, AfterElement
<1>3. /\ regions' \in Seq(Region) /\ Len(regions') = Len(regions) + 1
      /\ \A j \in 1 .. Len(regions) + 1 :
           regions'[j] = IF j <= prev THEN regions[j]
                         ELSE IF j = prev + 1 THEN e_reg ELSE regions[j - 1]
  BY <1>2 DEF IsAfter
<1>4. DOMAIN regions = 1 .. Len(regions) /\ DOMAIN regions' = 1 .. Len(regions) + 1
  BY <1>1, <1>3
<1> QED
  BY <1>1, <1>3, <1>4

LEMMA WidenedList ==
  ASSUME TInv, MergeIntoNext
  PROVE  /\ reg_iter \in DOMAIN regions /\ it = regions[reg_iter] /\ it \in Region
         /\ regions' \in Seq(Region) /\ Len(regions') = Len(regions)
         /\ DOMAIN regions' = DOMAIN regions
         /\ regions'[reg_iter].start = e_reg.start /\ regions'[reg_iter].end = it.end
         /\ regions'[reg_iter].flags = it.flags /\ regions'[reg_iter].tpe = it.tpe
         /\ \A j \in DOMAIN regions : j # reg_iter => regions'[j] = regions[j]
<1> DEFINE e == [it EXCEPT !.start = e_reg.start, !.src = e_reg.src]
<1>1. /\ regions \in Seq(Region) /\ reg_iter \in DOMAIN regions /\ it = regions[reg_iter]
      /\ e_reg \in Region
  BY DEF MergeIntoNext, InLoop, TInv, TypeOK, it
<1>2. it \in Region /\ e_reg.start \in Nat /\ e_reg.src \in Nat
  BY <1>1, RecordFacts
<1>3. /\ e \in Region /\ e.start = e_reg.start /\ e.end = it.end
      /\ e.flags = it.flags /\ e.tpe = it.tpe
  BY <1>2 DEF Region
<1>4. regions' = [regions EXCEPT ![reg_iter] = e]
  BY <1>1 DEF MergeIntoNext
<1> HIDE DEF e
<1>5. /\ regions' \in Seq(Region) /\ Len(regions') = Len(regions)
      /\ DOMAIN regions' = DOMAIN regions /\ regions'[reg_iter] = e
      /\ \A j \in DOMAIN regions : j # reg_iter => regions'[j] = regions[j]
  BY <1>1, <1>3, <1>4
<1> QED
  BY <1>1, <1>2, <1>3, <1>5

-----------------------------------------------------------------------------
\* A call returns, and perhaps changes the list without making it shorter.
LEMMA ReturnTypes ==
  ASSUME TInv, NEW result \in {0, -1}, Return(result), regions' \in Seq(Region),
         Len(regions') >= Len(regions), UNCHANGED <<req, e_reg, reg_iter, prev>>
  PROVE  TInv'
<1>1. /\ reg_iter \in 1 .. Len(regions) + 1 /\ prev \in 0 .. Len(regions)
      /\ Len(regions) \in Nat /\ Len(regions') \in Nat
  BY DEF TInv, TypeOK
<1>2. reg_iter' \in 1 .. Len(regions') + 1 /\ prev' \in 0 .. Len(regions')
  BY <1>1
<1>3. accepted' \subseteq Requests
  BY DEF TInv, TypeOK, Return
<1> QED
  BY <1>2, <1>3 DEF TInv, TypeOK, PrevInv, Return

LEMMA TypeInit == Init => TInv
BY RequestsAssumption DEF Init, TInv, TypeOK, PrevInv

LEMMA TypeStep ==
  ASSUME TInv, [Next]_vars
  PROVE  TInv'
<1>1. ASSUME NEW r \in Requests, Call(r) PROVE TInv'
  BY <1>1, RequestsAssumption DEF Call, TInv, TypeOK, PrevInv
<1>2. CASE Reject \/ RejectMerge
  BY <1>2, ReturnTypes DEF Reject, RejectMerge, TInv, TypeOK
<1>3. CASE Stop
  BY <1>3 DEF Stop, TInv, TypeOK, PrevInv
<1>4. CASE Skip
  BY <1>4 DEF Skip, InLoop, TInv, TypeOK, PrevInv
<1>5. CASE MergeIntoNext
  <2>1. regions' \in Seq(Region) /\ Len(regions') = Len(regions) /\ Len(regions) \in Nat
    BY <1>5, WidenedList DEF TInv, TypeOK
  <2> QED
    BY <1>5, <2>1, ReturnTypes DEF MergeIntoNext
<1>6. CASE MergePrevious
  <2>1. /\ regions' \in Seq(Region) /\ prev' = reg_iter' - 1
        /\ reg_iter' \in 1 .. Len(regions') + 1
    BY <1>6, MergedList
  <2>2. e_reg' \in Region
    <3>1. reg_iter \in DOMAIN regions /\ it = regions[reg_iter]
      BY <1>6 DEF MergePrevious, InLoop, TInv, TypeOK, it
    <3>2. it.start \in Nat /\ e_reg \in Region
      BY <3>1, RecordFacts DEF TInv, TypeOK
    <3> QED
      BY <1>6, <3>2, Widened DEF MergePrevious
  <2>3. prev' \in 0 .. Len(regions')
    <3>1. Len(regions') \in Nat /\ reg_iter' \in 1 .. reg_iter'
      BY <2>1
    <3> QED
      BY <2>1, <3>1, Positions, Zenon
  <2> QED
    BY <1>6, <2>1, <2>2, <2>3 DEF MergePrevious, TInv, TypeOK, PrevInv
<1>7. CASE Insert
  <2>1. regions' \in Seq(Region) /\ Len(regions') = Len(regions) + 1 /\ Len(regions) \in Nat
    BY <1>7, InsertedList
  <2> QED
    BY <1>7, <2>1, ReturnTypes DEF Insert
<1>8. CASE UNCHANGED vars
  BY <1>8 DEF vars, TInv, TypeOK, PrevInv
<1> QED
  BY <1>1, <1>2, <1>3, <1>4, <1>5, <1>6, <1>7, <1>8 DEF Next, Step

-----------------------------------------------------------------------------
\* The region as the loop sees it: not empty, and between two addresses.
LEMMA PieceNotEmpty ==
  ASSUME NEW r \in Region, Piece(r)
  PROVE  r.start < r.end
<1>1. CASE r \in Requests /\ region_check(r)
  BY <1>1 DEF region_check
<1>2. CASE \E a, b \in Requests : Touch(a, b) /\ r.start = a.start /\ r.end = b.end
  <2>1. PICK a \in Requests, b \in Requests : Touch(a, b) /\ r.start = a.start /\ r.end = b.end
    BY <1>2
  <2>2. a.start \in Int /\ a.end \in Int /\ b.start \in Int /\ b.end \in Int
    BY RecordFacts, RequestsAssumption
  <2> QED
    BY <2>1, <2>2 DEF Touch, region_check
<1> QED
  BY <1>1, <1>2 DEF Piece

\* Neighbours with equal attributes are two requests: with one of them joined
\* already, three requests would follow each other.
LEMMA Joined ==
  ASSUME Contiguous(Requests), Unchained(Requests),
         NEW x \in Region, NEW y \in Region, Piece(x), Piece(y),
         x.end = y.start, x.tpe = y.tpe, x.flags = y.flags
  PROVE  /\ x \in Requests /\ y \in Requests /\ Touch(x, y)
         /\ y.src = x.src + Size(x)
<1>1. ASSUME NEW a \in Requests, NEW b \in Requests, Touch(a, b), x.end = b.end,
             x.flags = a.flags, x.tpe = a.tpe
      PROVE  FALSE
  <2>1. CASE y \in Requests /\ region_check(y)
    <3>1. Touch(b, y)
      BY <1>1, <2>1 DEF Touch
    <3> QED
      BY <1>1, <2>1, <3>1 DEF Unchained
  <2>2. ASSUME NEW c \in Requests, NEW d \in Requests, Touch(c, d), y.start = c.start,
               y.flags = c.flags, y.tpe = c.tpe
        PROVE  FALSE
    <3>1. Touch(b, c)
      BY <1>1, <2>2 DEF Touch
    <3> QED
      BY <1>1, <3>1 DEF Unchained
  <2> QED
    BY <2>1, <2>2 DEF Piece
<1>2. x \in Requests /\ region_check(x)
  BY <1>1 DEF Piece
<1>3. ASSUME NEW c \in Requests, NEW d \in Requests, Touch(c, d), y.start = c.start,
             y.flags = c.flags, y.tpe = c.tpe
      PROVE  FALSE
  <2>1. Touch(x, c)
    BY <1>2, <1>3 DEF Touch
  <2> QED
    BY <1>2, <1>3, <2>1 DEF Unchained
<1>4. y \in Requests /\ region_check(y)
  BY <1>3 DEF Piece
<1>5. Touch(x, y)
  BY <1>2, <1>4 DEF Touch
<1> QED
  BY <1>2, <1>4, <1>5 DEF Contiguous

\* The loop looks at an element.
LEMMA InLoopFacts ==
  ASSUME TInv, OrderInv, InLoop
  PROVE  /\ reg_iter \in DOMAIN regions /\ it = regions[reg_iter] /\ it.start < it.end
         /\ it \in Region /\ it.start \in Int /\ it.end \in Int /\ Piece(it)
         /\ e_reg \in Region /\ e_reg.start \in Int /\ e_reg.end \in Int
         /\ e_reg.start < e_reg.end /\ req.start \in Int /\ req.end \in Int
         /\ pc = "loop" /\ Grown /\ Passed /\ Committed
         /\ DOMAIN regions = 1 .. Len(regions) /\ Len(regions) \in Nat
<1>1. reg_iter \in DOMAIN regions /\ DOMAIN regions = 1 .. Len(regions) /\ Len(regions) \in Nat
  BY DEF TInv, TypeOK, InLoop
<1>2. pc = "loop" /\ Grown /\ Passed /\ Committed
  BY DEF OrderInv, InLoop
<1>3. /\ e_reg \in Region /\ e_reg.start \in Int /\ e_reg.end \in Int
      /\ req.start \in Int /\ req.end \in Int
  BY NewRegionFacts DEF TInv
<1>4. /\ it = regions[reg_iter] /\ it \in Region /\ it.start \in Int /\ it.end \in Int
      /\ it.start < it.end /\ Piece(it)
  BY <1>1, ElementFacts DEF TInv, OrderInv, ListSorted, Pieces, it
<1>5. e_reg.start < e_reg.end
  BY <1>2, <1>3, PieceNotEmpty DEF Grown
<1> QED
  BY <1>1, <1>2, <1>3, <1>4, <1>5

\* What the loop skips is before the new region: a neighbour behind it is merged.
LEMMA SkippedIsBefore ==
  ASSUME Contiguous(Requests), Unchained(Requests), TInv, OrderInv,
         InLoop, ~Overlaps, ~Behind, ~ContinuedBy
  PROVE  it.end <= e_reg.start
<1>1. SUFFICES ASSUME e_reg.end <= it.start PROVE FALSE
  BY InLoopFacts DEF Overlaps, overlap
<1>2. it.start = e_reg.end /\ SameAttributes
  BY <1>1, InLoopFacts DEF Behind
<1>3. it.src = e_reg.src + Size(e_reg)
  BY <1>2, InLoopFacts, Joined DEF SameAttributes, Grown
<1> QED
  BY <1>2, <1>3 DEF ContinuedBy

\* Where the new region continues an element, the test of the next element decides
\* whether anything further on overlaps the two together.
LEMMA ContinuesFacts ==
  ASSUME TInv, OrderInv, InLoop, Continues
  PROVE  /\ ~NextOverlaps => \A j \in DOMAIN regions : j > reg_iter => e_reg.end <= regions[j].start
         /\ NextOverlaps =>
              /\ reg_iter + 1 \in DOMAIN regions
              /\ e_reg.start <= regions[reg_iter + 1].start
              /\ regions[reg_iter + 1].start < e_reg.end
<1>1. it.end = e_reg.start
  BY DEF Continues
<1>2. /\ reg_iter \in DOMAIN regions /\ it = regions[reg_iter] /\ it.start < it.end
      /\ it.start \in Int /\ it.end \in Int /\ e_reg.end \in Int /\ e_reg.start \in Int
      /\ Len(regions) \in Nat /\ DOMAIN regions = 1 .. Len(regions) /\ reg_iter \in Int
      /\ e_reg.start < e_reg.end
  BY InLoopFacts
<1>3. ASSUME reg_iter < Len(regions)
      PROVE  /\ reg_iter + 1 \in DOMAIN regions
             /\ regions[reg_iter + 1].start \in Int /\ regions[reg_iter + 1].end \in Int
             /\ regions[reg_iter + 1].start < regions[reg_iter + 1].end
             /\ it.end <= regions[reg_iter + 1].start
  <2>1. reg_iter + 1 \in DOMAIN regions /\ reg_iter < reg_iter + 1
    BY <1>2, <1>3
  <2>2. /\ regions[reg_iter + 1].start \in Int /\ regions[reg_iter + 1].end \in Int
        /\ regions[reg_iter + 1].start < regions[reg_iter + 1].end
    BY <2>1, ElementFacts DEF TInv, OrderInv, ListSorted
  <2>3. it.end <= regions[reg_iter + 1].start
    BY <1>2, <2>1 DEF OrderInv, ListSorted
  <2> QED
    BY <2>1, <2>2, <2>3
<1>4. ASSUME ~NextOverlaps, NEW j \in DOMAIN regions, j > reg_iter
      PROVE  e_reg.end <= regions[j].start
  <2>1. reg_iter < Len(regions)
    BY <1>2, <1>4
  <2>2. e_reg.end <= regions[reg_iter + 1].start
    BY <1>1, <1>2, <1>3, <1>4, <2>1 DEF NextOverlaps, overlap
  <2>3. CASE j = reg_iter + 1
    BY <2>2, <2>3
  <2>4. CASE j > reg_iter + 1
    <3>1. regions[reg_iter + 1].end <= regions[j].start
      BY <1>3, <2>1, <2>4 DEF OrderInv, ListSorted
    <3>2. regions[j].start \in Int
      BY ElementFacts DEF TInv
    <3> QED
      BY <1>2, <1>3, <2>1, <2>2, <3>1, <3>2
  <2> QED
    BY <1>2, <1>4, <2>3, <2>4
<1>5. ASSUME NextOverlaps
      PROVE  /\ reg_iter + 1 \in DOMAIN regions
             /\ e_reg.start <= regions[reg_iter + 1].start
             /\ regions[reg_iter + 1].start < e_reg.end
  BY <1>1, <1>2, <1>3, <1>5 DEF NextOverlaps, overlap
<1> QED
  BY <1>4, <1>5

\* A call is rejected only before it has merged anything.
LEMMA RejectedEarly ==
  ASSUME TInv, OrderInv, Reject \/ RejectMerge
  PROVE  e_reg.start = req.start
<1>1. InLoop
  BY DEF Reject, RejectMerge
<1>2. CASE Reject
  <2>1. it.start < e_reg.end /\ e_reg.start < it.end
    BY <1>1, <1>2, InLoopFacts DEF Reject, Overlaps, overlap
  <2> QED
    BY <1>1, <2>1, InLoopFacts DEF Committed
<1>3. CASE RejectMerge
  <2> DEFINE n == reg_iter + 1
  <2>1. /\ n \in DOMAIN regions /\ e_reg.start <= regions[n].start
        /\ regions[n].start < e_reg.end
    BY <1>1, <1>3, ContinuesFacts DEF RejectMerge
  <2>2. /\ regions[n].start \in Int /\ regions[n].end \in Int
        /\ regions[n].start < regions[n].end
    BY <2>1, ElementFacts DEF TInv, OrderInv, ListSorted
  <2> HIDE DEF n
  <2>3. e_reg.start \in Int /\ e_reg.end \in Int /\ Committed
    BY <1>1, InLoopFacts
  <2> QED
    BY <2>1, <2>2, <2>3 DEF Committed
<1> QED
  BY <1>2, <1>3

-----------------------------------------------------------------------------
LEMMA CallOrder ==
  ASSUME TInv, OrderInv, NEW r \in Requests, Call(r)
  PROVE  OrderInv'
<1>1. ListSorted' /\ Pieces'
  BY DEF Call, OrderInv, ListSorted, Pieces, Piece
<1>2. Passed' /\ Committed'
  BY DEF Passed, Committed, Call
<1>3. CASE region_check(r)
  <2>1. r.start \in Int
    BY RecordFacts, RequestsAssumption
  <2>2. Grown'
    BY <1>3, <2>1 DEF Grown, Call, Piece
  <2> QED
    BY <1>1, <1>2, <1>3, <2>2 DEF OrderInv, Call
<1>4. CASE ~region_check(r)
  BY <1>1, <1>4 DEF OrderInv, Call
<1> QED
  BY <1>3, <1>4

LEMMA RejectOrder ==
  ASSUME OrderInv, Reject \/ RejectMerge
  PROVE  OrderInv'
<1>1. regions' = regions /\ pc' = "idle"
  BY DEF Reject, RejectMerge, Return
<1> QED
  BY <1>1 DEF OrderInv, ListSorted, Pieces, Piece

\* The loop stops in front of the first element behind the new region.
LEMMA StopOrder ==
  ASSUME TInv, OrderInv, Stop
  PROVE  OrderInv'
<1>1. /\ pc = "loop" /\ pc' = "insert" /\ UNCHANGED <<regions, req, e_reg, reg_iter>>
      /\ Grown /\ Passed /\ Committed
  BY DEF Stop, OrderInv
<1>2. ListSorted' /\ Pieces' /\ Grown' /\ Passed' /\ Committed'
  BY <1>1 DEF OrderInv, ListSorted, Pieces, Piece, Grown, Passed, Committed
<1>3. Following
  <2>1. CASE reg_iter = Len(regions) + 1
    BY <2>1 DEF Following, TInv, TypeOK
  <2>2. CASE InLoop /\ Behind
    <3> SUFFICES ASSUME NEW j \in reg_iter .. Len(regions) PROVE e_reg.end <= regions[j].start
      BY DEF Following
    <3>1. /\ reg_iter \in DOMAIN regions /\ it = regions[reg_iter] /\ it.start < it.end
          /\ it.start \in Int /\ it.end \in Int /\ e_reg.end \in Int
          /\ DOMAIN regions = 1 .. Len(regions)
      BY <2>2, InLoopFacts
    <3>2. j \in DOMAIN regions /\ regions[j].start \in Int
      BY <3>1, ElementFacts DEF TInv
    <3>3. e_reg.end <= it.start
      BY <2>2, <3>1 DEF Behind
    <3>4. CASE j > reg_iter
      <4>1. it.end <= regions[j].start
        BY <3>1, <3>2, <3>4 DEF OrderInv, ListSorted
      <4> QED
        BY <3>1, <3>2, <3>3, <4>1
    <3> QED
      BY <3>1, <3>3, <3>4
  <2> QED
    BY <2>1, <2>2 DEF Stop
<1>4. Following'
  BY <1>1, <1>3 DEF Following
<1> QED
  BY <1>2, <1>4 DEF OrderInv

LEMMA SkipOrder ==
  ASSUME Contiguous(Requests), Unchained(Requests), TInv, OrderInv, Skip
  PROVE  OrderInv'
<1>1. /\ InLoop /\ reg_iter' = reg_iter + 1 /\ UNCHANGED <<regions, pc, req, e_reg>>
      /\ it.end <= e_reg.start
  BY SkippedIsBefore DEF Skip
<1>2. reg_iter \in DOMAIN regions /\ it = regions[reg_iter] /\ pc = "loop" /\ Passed
  BY <1>1, InLoopFacts
<1>3. ListSorted' /\ Pieces' /\ Grown' /\ Committed'
  BY <1>1, <1>2 DEF OrderInv, ListSorted, Pieces, Piece, Grown, Committed
<1>4. Passed'
  <2>1. 1 .. reg_iter' - 1 = (1 .. reg_iter - 1) \cup {reg_iter}
    BY <1>1 DEF TInv, TypeOK
  <2> QED
    BY <1>1, <1>2, <2>1 DEF Passed
<1> QED
  BY <1>1, <1>2, <1>3, <1>4 DEF OrderInv

\* The element takes the new region in: two requests, joined, between its neighbours.
LEMMA MergeIntoNextOrder ==
  ASSUME Contiguous(Requests), Unchained(Requests), TInv, OrderInv, MergeIntoNext
  PROVE  OrderInv'
<1>1. InLoop /\ ContinuedBy /\ pc' = "idle"
  BY DEF MergeIntoNext, Return
<1>2. /\ it.start = e_reg.end /\ it.tpe = e_reg.tpe /\ it.flags = e_reg.flags
  BY <1>1 DEF ContinuedBy, SameAttributes
<1>3. /\ reg_iter \in DOMAIN regions /\ it = regions[reg_iter] /\ it.start < it.end
      /\ it \in Region /\ it.start \in Int /\ it.end \in Int /\ Piece(it)
      /\ e_reg \in Region /\ e_reg.start \in Int /\ e_reg.end \in Int
      /\ e_reg.start < e_reg.end /\ Grown /\ Passed
      /\ DOMAIN regions = 1 .. Len(regions) /\ Len(regions) \in Nat
  BY <1>1, InLoopFacts
<1>4. /\ DOMAIN regions' = DOMAIN regions
      /\ regions'[reg_iter].start = e_reg.start /\ regions'[reg_iter].end = it.end
      /\ regions'[reg_iter].flags = it.flags /\ regions'[reg_iter].tpe = it.tpe
      /\ \A j \in DOMAIN regions : j # reg_iter => regions'[j] = regions[j]
  BY WidenedList
<1>5. e_reg \in Requests /\ it \in Requests /\ Touch(e_reg, it)
  BY <1>2, <1>3, Joined DEF Grown
<1>6. Pieces'
  <2>1. Piece(regions'[reg_iter])
    BY <1>2, <1>4, <1>5 DEF Piece
  <2>2. \A j \in DOMAIN regions : Piece(regions'[j])
    BY <1>4, <2>1 DEF OrderInv, Pieces
  <2> QED
    BY <1>4, <2>2 DEF Pieces, Piece
<1>7. \A i \in DOMAIN regions : regions'[i].start < regions'[i].end
  BY <1>2, <1>3, <1>4 DEF OrderInv, ListSorted
<1>8. ASSUME NEW i \in DOMAIN regions, NEW j \in DOMAIN regions, i < j
      PROVE  regions'[i].end <= regions'[j].start
  <2>0. regions[i].end <= regions[j].start /\ i \in Int /\ j \in Int /\ reg_iter \in Int
    BY <1>3, <1>8 DEF OrderInv, ListSorted
  <2>1. CASE i = reg_iter
    BY <1>3, <1>4, <1>8, <2>0, <2>1
  <2>2. CASE j = reg_iter
    <3>1. regions[i].end <= e_reg.start
      BY <1>3, <1>8, <2>0, <2>2 DEF Passed
    <3> QED
      BY <1>4, <1>8, <2>0, <2>2, <3>1
  <2>3. CASE i # reg_iter /\ j # reg_iter
    BY <1>4, <2>0, <2>3
  <2> QED
    BY <2>1, <2>2, <2>3
<1>9. ListSorted'
  BY <1>4, <1>7, <1>8 DEF ListSorted
<1> QED
  BY <1>1, <1>6, <1>9 DEF OrderInv

\* The new region takes the element in, and two requests are joined again.
LEMMA MergePreviousOrder ==
  ASSUME Contiguous(Requests), Unchained(Requests), TInv, OrderInv, MergePrevious
  PROVE  OrderInv'
<1>1. /\ InLoop /\ Continues /\ ~NextOverlaps /\ e_reg' = [e_reg EXCEPT !.start = it.start]
      /\ UNCHANGED <<pc, req>>
  BY DEF MergePrevious
<1>2. /\ it.end = e_reg.start /\ it.tpe = e_reg.tpe /\ it.flags = e_reg.flags
      /\ \A j \in DOMAIN regions : j > reg_iter => e_reg.end <= regions[j].start
  BY <1>1, ContinuesFacts DEF Continues, SameAttributes
<1>3. /\ reg_iter \in DOMAIN regions /\ it = regions[reg_iter] /\ it.start < it.end
      /\ it \in Region /\ it.start \in Int /\ it.end \in Int /\ Piece(it)
      /\ e_reg \in Region /\ e_reg.start \in Int /\ e_reg.end \in Int
      /\ e_reg.start < e_reg.end /\ req.start \in Int /\ Grown /\ pc = "loop"
  BY <1>1, InLoopFacts
<1>4. /\ reg_iter \in 1 .. Len(regions) /\ Len(regions) \in Nat
      /\ DOMAIN regions = 1 .. Len(regions) /\ DOMAIN regions' = 1 .. Len(regions) - 1
      /\ \A j \in 1 .. Len(regions) - 1 :
           regions'[j] = IF j < reg_iter THEN regions[j] ELSE regions[j + 1]
      /\ reg_iter' \in 1 .. reg_iter
  BY MergedList
<1>5. /\ e_reg'.start = it.start /\ e_reg'.end = e_reg.end
      /\ e_reg'.flags = e_reg.flags /\ e_reg'.tpe = e_reg.tpe
  <2>1. it.start \in Nat
    BY <1>3, RecordFacts
  <2> QED
    BY <1>1, <1>3, <2>1, Widened
<1>6. it \in Requests /\ e_reg \in Requests /\ Touch(it, e_reg)
  BY <1>2, <1>3, Joined DEF Grown
<1>7. Grown'
  <2>1. Piece(e_reg')
    BY <1>2, <1>5, <1>6 DEF Piece
  <2>2. Piece(e_reg)'
    BY <2>1 DEF Piece
  <2>3. it.start <= req.start
    BY <1>2, <1>3 DEF Grown
  <2> QED
    BY <1>1, <1>3, <1>5, <2>2, <2>3 DEF Grown
<1>8. ASSUME NEW j \in DOMAIN regions'
      PROVE  \E k \in DOMAIN regions : regions'[j] = regions[k]
  <2>1. CASE j < reg_iter
    BY <1>4, <2>1
  <2>2. CASE ~(j < reg_iter)
    <3>1. j + 1 \in DOMAIN regions /\ regions'[j] = regions[j + 1]
      BY <1>4, <2>2
    <3> QED
      BY <3>1
  <2> QED
    BY <2>1, <2>2
<1>9. Pieces'
  <2>1. \A j \in DOMAIN regions' : Piece(regions'[j])
    BY <1>8 DEF OrderInv, Pieces
  <2> QED
    BY <2>1 DEF Pieces, Piece
<1>10. ListSorted'
  <2>1. \A j \in DOMAIN regions' : regions'[j].start < regions'[j].end
    BY <1>8 DEF OrderInv, ListSorted
  <2>2. ASSUME NEW i \in DOMAIN regions', NEW j \in DOMAIN regions', i < j
        PROVE  regions'[i].end <= regions'[j].start
    <3> DEFINE m == IF i < reg_iter THEN i ELSE i + 1
               n == IF j < reg_iter THEN j ELSE j + 1
    <3>1. m \in DOMAIN regions /\ n \in DOMAIN regions /\ m < n
      <4>1. /\ i \in 1 .. Len(regions) - 1 /\ j \in 1 .. Len(regions) - 1 /\ i < j
            /\ reg_iter \in 1 .. Len(regions) /\ Len(regions) \in Nat
        BY <1>4, <2>2
      <4>2. m \in 1 .. Len(regions) /\ n \in 1 .. Len(regions) /\ m < n
        BY <4>1
      <4> QED
        BY <1>4, <4>2
    <3>2. regions'[i] = regions[m] /\ regions'[j] = regions[n]
      BY <1>4
    <3> HIDE DEF m, n
    <3>3. regions[m].end <= regions[n].start
      BY <3>1 DEF OrderInv, ListSorted
    <3> QED
      BY <3>2, <3>3
  <2> QED
    BY <2>1, <2>2 DEF ListSorted
<1>11. \A j \in 1 .. reg_iter - 1 : regions'[j].end <= e_reg'.start
  <2> SUFFICES ASSUME NEW j \in 1 .. reg_iter - 1 PROVE regions'[j].end <= e_reg'.start
    OBVIOUS
  <2>1. regions'[j] = regions[j] /\ j \in DOMAIN regions /\ j < reg_iter
    BY <1>4
  <2>2. regions[j].end <= it.start
    BY <1>3, <2>1 DEF OrderInv, ListSorted
  <2> QED
    BY <1>5, <2>1, <2>2
<1>12. Passed'
  <2>1. reg_iter \in 1 .. Len(regions) + 1
    BY <1>4
  <2>2. \A j \in 1 .. reg_iter' - 1 : j \in 1 .. reg_iter - 1
    BY <1>4, <2>1, Positions, Zenon
  <2> QED
    BY <1>11, <2>2 DEF Passed
<1>13. Committed'
  <2> SUFFICES ASSUME NEW j \in DOMAIN regions'
               PROVE  regions'[j].end <= e_reg'.start \/ e_reg'.end <= regions'[j].start
    BY DEF Committed
  <2>1. CASE j < reg_iter
    <3>1. j \in 1 .. reg_iter - 1
      BY <1>4, <2>1
    <3> QED
      BY <1>11, <3>1
  <2>2. CASE ~(j < reg_iter)
    <3>1. j + 1 \in DOMAIN regions /\ j + 1 > reg_iter /\ regions'[j] = regions[j + 1]
      BY <1>4, <2>2
    <3> QED
      BY <1>2, <1>5, <3>1
  <2> QED
    BY <2>1, <2>2
<1> QED
  BY <1>1, <1>3, <1>7, <1>9, <1>10, <1>12, <1>13 DEF OrderInv

\* The new region goes between what is before it and what is behind it.
LEMMA InsertOrder ==
  ASSUME TInv, OrderInv, Insert
  PROVE  OrderInv'
<1>1. pc = "insert" /\ pc' = "idle" /\ Grown /\ Passed /\ Following
  BY DEF Insert, Return, OrderInv
<1>2. /\ prev \in 0 .. Len(regions) /\ Len(regions) \in Nat /\ reg_iter = prev + 1
      /\ DOMAIN regions = 1 .. Len(regions) /\ DOMAIN regions' = 1 .. Len(regions) + 1
      /\ \A j \in 1 .. Len(regions) + 1 :
           regions'[j] = IF j <= prev THEN regions[j]
                         ELSE IF j = prev + 1 THEN e_reg ELSE regions[j - 1]
  BY InsertedList
<1>3. e_reg.start < e_reg.end
  BY <1>1, NewRegionFacts, PieceNotEmpty DEF Grown, TInv
<1>4. ASSUME NEW j \in DOMAIN regions'
      PROVE  regions'[j] = e_reg \/ \E k \in DOMAIN regions : regions'[j] = regions[k]
  <2>1. CASE j <= prev
    BY <1>2, <2>1
  <2>2. CASE j = prev + 1
    BY <1>2, <2>2
  <2>3. CASE j > prev + 1
    <3>1. j - 1 \in DOMAIN regions /\ regions'[j] = regions[j - 1]
      BY <1>2, <2>3
    <3> QED
      BY <3>1
  <2> QED
    BY <1>2, <2>1, <2>2, <2>3
<1>5. Pieces'
  <2>1. \A j \in DOMAIN regions' : Piece(regions'[j])
    BY <1>1, <1>4 DEF OrderInv, Pieces, Grown
  <2> QED
    BY <2>1 DEF Pieces, Piece
<1>6. \A j \in DOMAIN regions' : regions'[j].start < regions'[j].end
  BY <1>3, <1>4 DEF OrderInv, ListSorted
<1>7. ASSUME NEW i \in DOMAIN regions', NEW j \in DOMAIN regions', i < j
      PROVE  regions'[i].end <= regions'[j].start
  <2> DEFINE m == IF i <= prev THEN i ELSE i - 1
             n == IF j <= prev THEN j ELSE j - 1
  <2>1. CASE i = prev + 1
    <3>1. j - 1 \in reg_iter .. Len(regions) /\ regions'[i] = e_reg /\ regions'[j] = regions[j - 1]
      BY <1>2, <1>7, <2>1
    <3> QED
      BY <1>1, <3>1 DEF Following
  <2>2. CASE j = prev + 1
    <3>1. i \in 1 .. reg_iter - 1 /\ regions'[j] = e_reg /\ regions'[i] = regions[i]
      BY <1>2, <1>7, <2>2
    <3> QED
      BY <1>1, <3>1 DEF Passed
  <2>3. CASE i # prev + 1 /\ j # prev + 1
    <3>1. m \in DOMAIN regions /\ n \in DOMAIN regions /\ m < n
      BY <1>2, <1>7, <2>3
    <3>2. regions'[i] = regions[m] /\ regions'[j] = regions[n]
      BY <1>2, <2>3
    <3> HIDE DEF m, n
    <3>3. regions[m].end <= regions[n].start
      BY <3>1 DEF OrderInv, ListSorted
    <3> QED
      BY <3>2, <3>3
  <2> QED
    BY <2>1, <2>2, <2>3
<1>8. ListSorted'
  BY <1>6, <1>7 DEF ListSorted
<1> QED
  BY <1>1, <1>5, <1>8 DEF OrderInv

LEMMA OrderStep ==
  ASSUME Contiguous(Requests), Unchained(Requests), TInv, OrderInv, [Next]_vars
  PROVE  OrderInv'
<1>1. CASE UNCHANGED vars
  BY <1>1 DEF vars, OrderInv, ListSorted, Pieces, Piece, Grown, Passed, Committed, Following
<1>2. CASE Next
  BY <1>2, CallOrder, RejectOrder, StopOrder, SkipOrder, MergeIntoNextOrder,
     MergePreviousOrder, InsertOrder DEF Next, Step
<1> QED
  BY <1>1, <1>2

-----------------------------------------------------------------------------
CoverInv == Covered /\ Checked /\ Apart

\* A call that has neither changed what is covered nor accepted anything.
LEMMA SameCover ==
  ASSUME CoverInv, accepted' = accepted,
         \A p \in Int : \A f, t : Listed(p, f, t)' \/ Taken(p, f, t)'
                               <=> Listed(p, f, t) \/ Taken(p, f, t)
  PROVE  CoverInv'
<1>1. \A p \in Int : \A f, t : Granted(p, f, t)' <=> Granted(p, f, t)
  BY DEF Granted, In
<1>2. Covered'
  <2> SUFFICES ASSUME NEW p \in Int, NEW f, NEW t
               PROVE  Listed(p, f, t)' \/ Taken(p, f, t)' <=> Granted(p, f, t)'
    BY DEF Covered
  <2>1. Listed(p, f, t) \/ Taken(p, f, t) <=> Granted(p, f, t)
    BY DEF CoverInv, Covered
  <2> QED
    BY <1>1, <2>1
<1> QED
  BY <1>2 DEF CoverInv, Checked, Apart, region_check

\* A call that succeeds, of which no page was there.
LEMMA AddedCover ==
  ASSUME TInv, OrderInv, CoverInv, pc # "idle", Return(0),
         \A j \in DOMAIN regions : regions[j].end <= e_reg.start \/ e_reg.end <= regions[j].start,
         \A p \in Int : \A f, t :
           Listed(p, f, t)' <=> Listed(p, f, t) \/ Taken(p, f, t) \/ In(req, p, f, t)
  PROVE  CoverInv'
<1>1. /\ accepted' = accepted \cup {req} /\ pc' = "idle" /\ Grown
      /\ e_reg.start <= req.start /\ e_reg.end = req.end /\ region_check(req)
      /\ e_reg.start \in Int /\ req.start \in Int /\ req.end \in Int /\ req.start < req.end
  BY NewRegionFacts DEF Return, TInv, OrderInv, Grown, region_check
<1>2. Covered'
  <2> SUFFICES ASSUME NEW p \in Int, NEW f, NEW t
               PROVE  Listed(p, f, t)' \/ Taken(p, f, t)' <=> Granted(p, f, t)'
    BY DEF Covered
  <2>1. Listed(p, f, t) \/ Taken(p, f, t) <=> Granted(p, f, t)
    BY DEF CoverInv, Covered
  <2>2. Granted(p, f, t)' <=> Granted(p, f, t) \/ In(req, p, f, t)
    BY <1>1 DEF Granted, In
  <2>3. ~Taken(p, f, t)'
    BY <1>1 DEF Taken
  <2> QED
    BY <2>1, <2>2, <2>3
<1>3. Checked'
  <2>1. \A a \in accepted' : region_check(a)
    BY <1>1 DEF CoverInv, Checked
  <2> QED
    BY <2>1 DEF Checked, region_check
<1>4. ASSUME NEW a \in accepted
      PROVE  a.end <= req.start \/ req.end <= a.start
  <2>1. a.start \in Int /\ a.end \in Int /\ a.start < a.end
    BY RecordFacts, RequestsAssumption DEF TInv, TypeOK, CoverInv, Checked, region_check
  <2>2. SUFFICES ASSUME req.start < a.end, a.start < req.end PROVE FALSE
    BY <1>1, <2>1
  <2>3. PICK p \in Int : p = IF a.start <= req.start THEN req.start ELSE a.start
    BY <1>1, <2>1
  <2>4. a.start <= p /\ p < a.end /\ req.start <= p /\ p < req.end
    BY <1>1, <2>1, <2>2, <2>3
  <2>5. Listed(p, a.flags, a.tpe) \/ Taken(p, a.flags, a.tpe)
    <3>1. Granted(p, a.flags, a.tpe)
      BY <2>4 DEF Granted, In
    <3> QED
      BY <3>1 DEF CoverInv, Covered
  <2>6. ~Taken(p, a.flags, a.tpe)
    BY <1>1, <2>4 DEF Taken
  <2>7. PICK i \in DOMAIN regions : regions[i].start <= p /\ p < regions[i].end
    BY <2>5, <2>6 DEF Listed, In
  <2>8. regions[i].start \in Int /\ regions[i].end \in Int
    BY ElementFacts DEF TInv
  <2> QED
    BY <1>1, <2>4, <2>7, <2>8
<1>5. Apart'
  BY <1>1, <1>4 DEF CoverInv, Apart
<1> QED
  BY <1>2, <1>3, <1>5 DEF CoverInv

LEMMA CallCover ==
  ASSUME TInv, CoverInv, NEW r \in Requests, Call(r)
  PROVE  CoverInv'
<1>1. regions' = regions /\ accepted' = accepted /\ pc = "idle" /\ e_reg' = r /\ req' = r
  BY DEF Call
<1>2. r.start \in Int
  BY RecordFacts, RequestsAssumption
<1>3. \A p \in Int : \A f, t :
        ~Taken(p, f, t) /\ ~Taken(p, f, t)' /\ (Listed(p, f, t)' <=> Listed(p, f, t))
  BY <1>1, <1>2 DEF Listed, Taken, In
<1> QED
  BY <1>1, <1>3, SameCover

\* A rejected call has merged nothing that would be lost.
LEMMA RejectCover ==
  ASSUME TInv, OrderInv, CoverInv, Reject \/ RejectMerge
  PROVE  CoverInv'
<1>1. /\ UNCHANGED <<regions, req, e_reg, accepted>> /\ pc' = "idle"
      /\ e_reg.start = req.start /\ req.start \in Int
  BY RejectedEarly, NewRegionFacts DEF Reject, RejectMerge, Return, TInv
<1>2. \A p \in Int : \A f, t :
        ~Taken(p, f, t) /\ ~Taken(p, f, t)' /\ (Listed(p, f, t)' <=> Listed(p, f, t))
  BY <1>1 DEF Listed, Taken, In
<1> QED
  BY <1>1, <1>2, SameCover

LEMMA QuietCover ==
  ASSUME CoverInv, Stop \/ Skip
  PROVE  CoverInv'
<1>1. UNCHANGED <<regions, req, e_reg, accepted>> /\ pc # "idle" /\ pc' # "idle"
  BY DEF Stop, Skip, InLoop
<1>2. \A p \in Int : \A f, t :
        (Taken(p, f, t)' <=> Taken(p, f, t)) /\ (Listed(p, f, t)' <=> Listed(p, f, t))
  BY <1>1 DEF Listed, Taken, In
<1> QED
  BY <1>1, <1>2, SameCover

\* What a merge takes out of the list is in the new region.
LEMMA MergePreviousCover ==
  ASSUME TInv, OrderInv, CoverInv, MergePrevious
  PROVE  CoverInv'
<1>1. /\ InLoop /\ Continues /\ e_reg' = [e_reg EXCEPT !.start = it.start]
      /\ UNCHANGED <<pc, req, accepted>>
  BY DEF MergePrevious
<1>2. it.end = e_reg.start /\ it.tpe = e_reg.tpe /\ it.flags = e_reg.flags
  BY <1>1 DEF Continues, SameAttributes
<1>3. /\ it = regions[reg_iter] /\ it.start < it.end
      /\ it \in Region /\ it.start \in Int /\ it.end \in Int
      /\ e_reg \in Region /\ e_reg.start \in Int /\ req.start \in Int
      /\ e_reg.start <= req.start /\ pc # "idle"
  BY <1>1, InLoopFacts DEF Grown
<1>4. /\ reg_iter \in 1 .. Len(regions) /\ Len(regions) \in Nat
      /\ DOMAIN regions = 1 .. Len(regions) /\ DOMAIN regions' = 1 .. Len(regions) - 1
      /\ \A j \in 1 .. Len(regions) - 1 :
           regions'[j] = IF j < reg_iter THEN regions[j] ELSE regions[j + 1]
  BY MergedList
<1>5. /\ e_reg'.start = it.start /\ e_reg'.flags = e_reg.flags /\ e_reg'.tpe = e_reg.tpe
  <2>1. it.start \in Nat
    BY <1>3, RecordFacts
  <2> QED
    BY <1>1, <1>3, <2>1, Widened
<1>6. ASSUME NEW p \in Int, NEW f, NEW t
      PROVE  Listed(p, f, t)' \/ Taken(p, f, t)' <=> Listed(p, f, t) \/ Taken(p, f, t)
  <2> DEFINE Has(r) == In(r, p, f, t)
  <2>1. Listed(p, f, t) <=> \E i \in 1 .. Len(regions) : Has(regions[i])
    BY <1>4 DEF Listed
  <2>2. Listed(p, f, t)' <=> \E i \in 1 .. Len(regions) - 1 : Has(regions'[i])
    BY <1>4 DEF Listed, In
  <2>3. Taken(p, f, t)' <=> Taken(p, f, t) \/ Has(it)
    BY <1>1, <1>2, <1>3, <1>5 DEF Taken, In
  <2> HIDE DEF Has
  <2>4. ASSUME Listed(p, f, t) PROVE Listed(p, f, t)' \/ Has(it)
    <3>1. PICK i \in 1 .. Len(regions) : Has(regions[i])
      BY <2>1, <2>4
    <3>2. CASE i = reg_iter
      BY <1>3, <3>1, <3>2
    <3>3. CASE i < reg_iter
      <4>1. i \in 1 .. Len(regions) - 1 /\ regions'[i] = regions[i]
        BY <1>4, <3>3
      <4> QED
        BY <2>2, <3>1, <4>1
    <3>4. CASE i > reg_iter
      <4>1. i - 1 \in 1 .. Len(regions) - 1 /\ regions'[i - 1] = regions[i]
        BY <1>4, <3>4
      <4> QED
        BY <2>2, <3>1, <4>1
    <3> QED
      BY <1>4, <3>2, <3>3, <3>4
  <2>5. ASSUME Listed(p, f, t)' PROVE Listed(p, f, t)
    <3>1. PICK i \in 1 .. Len(regions) - 1 : Has(regions'[i])
      BY <2>2, <2>5
    <3>2. \E j \in 1 .. Len(regions) : regions[j] = regions'[i]
      BY <1>4
    <3> QED
      BY <2>1, <3>1, <3>2
  <2>6. Has(it) => Listed(p, f, t)
    BY <1>3, <1>4, <2>1
  <2> QED
    BY <2>3, <2>4, <2>5, <2>6
<1> QED
  BY <1>1, <1>6, SameCover

\* The element that takes the new region in gains the request and what was merged.
LEMMA MergeIntoNextCover ==
  ASSUME TInv, OrderInv, CoverInv, MergeIntoNext
  PROVE  CoverInv'
<1>1. InLoop /\ ContinuedBy /\ Return(0) /\ pc # "idle"
  BY DEF MergeIntoNext, InLoop
<1>2. it.start = e_reg.end /\ it.tpe = e_reg.tpe /\ it.flags = e_reg.flags
  BY <1>1 DEF ContinuedBy, SameAttributes
<1>3. /\ reg_iter \in DOMAIN regions /\ it = regions[reg_iter] /\ it.start < it.end
      /\ it.start \in Int /\ it.end \in Int /\ e_reg.start \in Int /\ e_reg.end \in Int
      /\ e_reg.start < e_reg.end /\ req.start \in Int /\ req.end \in Int
      /\ DOMAIN regions = 1 .. Len(regions) /\ Len(regions) \in Nat
      /\ Grown /\ Passed /\ req.start < req.end
  BY <1>1, InLoopFacts DEF Grown, region_check
<1>4. /\ DOMAIN regions' = DOMAIN regions
      /\ regions'[reg_iter].start = e_reg.start /\ regions'[reg_iter].end = it.end
      /\ regions'[reg_iter].flags = it.flags /\ regions'[reg_iter].tpe = it.tpe
      /\ \A j \in DOMAIN regions : j # reg_iter => regions'[j] = regions[j]
  BY WidenedList
<1>5. ASSUME NEW j \in DOMAIN regions
      PROVE  regions[j].end <= e_reg.start \/ e_reg.end <= regions[j].start
  <2>0. j \in Int /\ reg_iter \in Int /\ j >= 1 /\ regions[j].start \in Int
    BY <1>3, ElementFacts DEF TInv
  <2>1. CASE j < reg_iter
    BY <1>3, <2>0, <2>1 DEF Passed
  <2>2. CASE j = reg_iter
    BY <1>2, <1>3, <2>2
  <2>3. CASE j > reg_iter
    <3>1. it.end <= regions[j].start
      BY <1>3, <2>0, <2>3 DEF OrderInv, ListSorted
    <3> QED
      BY <1>2, <1>3, <2>0, <3>1
  <2> QED
    BY <2>0, <2>1, <2>2, <2>3
<1>6. ASSUME NEW p \in Int, NEW f, NEW t
      PROVE  Listed(p, f, t)' <=> Listed(p, f, t) \/ Taken(p, f, t) \/ In(req, p, f, t)
  <2> DEFINE Other == \E j \in DOMAIN regions : j # reg_iter /\ In(regions[j], p, f, t)
             e == regions'[reg_iter]
  <2>1. Listed(p, f, t) <=> Other \/ In(it, p, f, t)
    BY <1>3 DEF Listed
  <2>2. Listed(p, f, t)' <=> Other \/ In(e, p, f, t)
    BY <1>3, <1>4 DEF Listed, In
  <2>3. In(e, p, f, t) <=> In(it, p, f, t) \/ Taken(p, f, t) \/ In(req, p, f, t)
    BY <1>1, <1>2, <1>3, <1>4 DEF Taken, Grown, In
  <2> HIDE DEF Other, e
  <2> QED
    BY <2>1, <2>2, <2>3
<1> QED
  BY <1>1, <1>5, <1>6, AddedCover

\* So does the new region that goes into the list.
LEMMA InsertCover ==
  ASSUME TInv, OrderInv, CoverInv, Insert
  PROVE  CoverInv'
<1>1. pc # "idle" /\ Return(0) /\ Grown /\ Passed /\ Following
  BY DEF Insert, OrderInv
<1>2. /\ prev \in 0 .. Len(regions) /\ Len(regions) \in Nat /\ reg_iter = prev + 1
      /\ DOMAIN regions = 1 .. Len(regions) /\ DOMAIN regions' = 1 .. Len(regions) + 1
      /\ \A j \in 1 .. Len(regions) + 1 :
           regions'[j] = IF j <= prev THEN regions[j]
                         ELSE IF j = prev + 1 THEN e_reg ELSE regions[j - 1]
  BY InsertedList
<1>3. /\ e_reg.start \in Int /\ e_reg.end \in Int /\ req.start \in Int /\ req.end \in Int
      /\ req.start < req.end
  BY <1>1, NewRegionFacts DEF TInv, Grown, region_check
<1>4. ASSUME NEW j \in DOMAIN regions
      PROVE  regions[j].end <= e_reg.start \/ e_reg.end <= regions[j].start
  <2>1. j \in 1 .. reg_iter - 1 \/ j \in reg_iter .. Len(regions)
    BY <1>2
  <2> QED
    BY <1>1, <2>1 DEF Passed, Following
<1>5. ASSUME NEW p \in Int, NEW f, NEW t
      PROVE  Listed(p, f, t)' <=> Listed(p, f, t) \/ Taken(p, f, t) \/ In(req, p, f, t)
  <2> DEFINE Has(r) == In(r, p, f, t)
  <2>1. Listed(p, f, t) <=> \E j \in 1 .. Len(regions) : Has(regions[j])
    BY <1>2 DEF Listed
  <2>2. Listed(p, f, t)' <=> \E j \in 1 .. Len(regions) + 1 : Has(regions'[j])
    BY <1>2 DEF Listed, In
  <2>3. Has(e_reg) <=> Taken(p, f, t) \/ In(req, p, f, t)
    BY <1>1, <1>3 DEF Taken, Grown, In
  <2> HIDE DEF Has
  <2>4. ASSUME NEW j \in 1 .. Len(regions), Has(regions[j])
        PROVE  \E k \in 1 .. Len(regions) + 1 : Has(regions'[k])
    <3>1. CASE j <= prev
      <4>1. j \in 1 .. Len(regions) + 1 /\ regions'[j] = regions[j]
        BY <1>2, <3>1
      <4> QED
        BY <2>4, <4>1
    <3>2. CASE j > prev
      <4>1. j + 1 \in 1 .. Len(regions) + 1 /\ regions'[j + 1] = regions[j]
        BY <1>2, <3>2
      <4> QED
        BY <2>4, <4>1
    <3> QED
      BY <1>2, <3>1, <3>2
  <2>5. Has(e_reg) => \E k \in 1 .. Len(regions) + 1 : Has(regions'[k])
    <3>1. prev + 1 \in 1 .. Len(regions) + 1 /\ regions'[prev + 1] = e_reg
      BY <1>2
    <3> QED
      BY <3>1
  <2>6. ASSUME NEW k \in 1 .. Len(regions) + 1
        PROVE  regions'[k] = e_reg \/ \E j \in 1 .. Len(regions) : regions'[k] = regions[j]
    <3>1. CASE k <= prev
      BY <1>2, <3>1
    <3>2. CASE k = prev + 1
      BY <1>2, <3>2
    <3>3. CASE k > prev + 1
      <4>1. k - 1 \in 1 .. Len(regions) /\ regions'[k] = regions[k - 1]
        BY <1>2, <3>3
      <4> QED
        BY <4>1
    <3> QED
      BY <1>2, <3>1, <3>2, <3>3
  <2> QED
    BY <2>1, <2>2, <2>3, <2>4, <2>5, <2>6
<1> QED
  BY <1>1, <1>4, <1>5, AddedCover

LEMMA CoverStep ==
  ASSUME TInv, OrderInv, CoverInv, [Next]_vars
  PROVE  CoverInv'
<1>1. CASE UNCHANGED vars
  <2>1. \A p \in Int : \A f, t :
          (Taken(p, f, t)' <=> Taken(p, f, t)) /\ (Listed(p, f, t)' <=> Listed(p, f, t))
    BY <1>1 DEF vars, Listed, Taken, In
  <2> QED
    BY <1>1, <2>1, SameCover DEF vars
<1>2. CASE Next
  BY <1>2, CallCover, RejectCover, QuietCover, MergePreviousCover, MergeIntoNextCover,
     InsertCover DEF Next, Step
<1> QED
  BY <1>1, <1>2

-----------------------------------------------------------------------------
\* For any requests at all, the pointers of add_region stay inside the list, however
\* far back a merge sends them.
THEOREM TypeCorrect == Spec => []TypeOK
<1>1. TInv /\ [Next]_vars => TInv'
  BY TypeStep
<1>2. TInv => TypeOK
  BY DEF TInv
<1> QED
  BY <1>1, <1>2, TypeInit, PTL DEF Spec

LEMMA RegionsInvariance ==
  ASSUME Contiguous(Requests), Unchained(Requests)
  PROVE  Spec => []RInv
<1>1. Init => RInv
  <2> SUFFICES ASSUME Init PROVE RInv
    OBVIOUS
  <2>1. regions = <<>> /\ pc = "idle" /\ accepted = {}
    BY DEF Init
  <2>2. OrderInv
    BY <2>1 DEF OrderInv, ListSorted, Pieces
  <2>3. CoverInv
    BY <2>1 DEF CoverInv, Covered, Checked, Apart, Listed, Taken, Granted
  <2> QED
    BY <2>2, <2>3, TypeInit DEF RInv, CoverInv
<1>2. RInv /\ [Next]_vars => RInv'
  <2> SUFFICES ASSUME RInv, [Next]_vars PROVE RInv'
    OBVIOUS
  <2>1. TInv' /\ OrderInv' /\ CoverInv'
    BY TypeStep, OrderStep, CoverStep DEF RInv, CoverInv
  <2> QED
    BY <2>1 DEF RInv, CoverInv
<1> QED
  BY <1>1, <1>2, PTL DEF Spec

\* Between calls of add_region the list is sorted.
THEOREM StaysSorted ==
  ASSUME Contiguous(Requests), Unchained(Requests)
  PROVE  Spec => []Sorted
<1>1. RInv => Sorted
  BY DEF RInv, OrderInv, ListSorted, Sorted
<1> QED
  BY <1>1, RegionsInvariance, PTL

\* Of two requests that overlap add_region refuses one, although it compares the second
\* only with the elements in front of the place where it stops.
THEOREM OverlapIsRefused ==
  ASSUME Contiguous(Requests), Unchained(Requests)
  PROVE  Spec => []NoOverlapAccepted
<1>1. RInv => NoOverlapAccepted
  <2> SUFFICES ASSUME RInv, NEW a \in accepted, NEW b \in accepted, a # b
               PROVE  PagesOf(a) \cap PagesOf(b) = {}
    BY DEF NoOverlapAccepted
  <2>1. a.start \in Int /\ a.end \in Int /\ b.start \in Int /\ b.end \in Int
    BY RecordFacts, RequestsAssumption DEF RInv, TInv, TypeOK
  <2>2. a.end <= b.start \/ b.end <= a.start
    BY DEF RInv, Apart
  <2> QED
    BY <2>1, <2>2 DEF PagesOf
<1> QED
  BY <1>1, RegionsInvariance, PTL

\* The list covers what was accepted, page by page and with the flags and the type
\* asked for, and no page twice, whatever was merged in between.
THEOREM AcceptedIsCovered ==
  ASSUME Contiguous(Requests), Unchained(Requests)
  PROVE  Spec => []CoversAccepted
<1>1. RInv => CoversAccepted
  <2> SUFFICES ASSUME RInv, pc = "idle"
               PROVE  /\ UNION {Attributed(regions[i]) : i \in DOMAIN regions}
                           = UNION {Attributed(a) : a \in accepted}
                      /\ \A i, j \in DOMAIN regions :
                           i # j => PagesOf(regions[i]) \cap PagesOf(regions[j]) = {}
    BY DEF CoversAccepted
  <2>1. \A i \in DOMAIN regions : regions[i].start \in Int /\ regions[i].end \in Int
    BY ElementFacts DEF RInv, TInv
  <2>2. \A a \in accepted : a.start \in Int /\ a.end \in Int
    BY RecordFacts, RequestsAssumption DEF RInv, TInv, TypeOK
  <2>3. \A p \in Int : \A f, t : Listed(p, f, t) <=> Granted(p, f, t)
    BY DEF RInv, Covered, Taken
  <2>4. ASSUME NEW r, r.start \in Int, r.end \in Int, NEW x
        PROVE  x \in Attributed(r) <=>
                 \E p \in Int : In(r, p, r.flags, r.tpe) /\ x = <<p, r.flags, r.tpe>>
    BY <2>4 DEF Attributed, PagesOf, In
  <2>5. ASSUME NEW x
        PROVE  x \in UNION {Attributed(regions[i]) : i \in DOMAIN regions}
                 <=> \E p \in Int : \E f, t : Listed(p, f, t) /\ x = <<p, f, t>>
    <3>1. x \in UNION {Attributed(regions[i]) : i \in DOMAIN regions}
            <=> \E i \in DOMAIN regions : x \in Attributed(regions[i])
      OBVIOUS
    <3> QED
      BY <2>1, <2>4, <3>1 DEF Listed, In
  <2>6. ASSUME NEW x
        PROVE  x \in UNION {Attributed(a) : a \in accepted}
                 <=> \E p \in Int : \E f, t : Granted(p, f, t) /\ x = <<p, f, t>>
    <3>1. x \in UNION {Attributed(a) : a \in accepted}
            <=> \E a \in accepted : x \in Attributed(a)
      OBVIOUS
    <3> QED
      BY <2>2, <2>4, <3>1 DEF Granted, In
  <2>7. \A x : x \in UNION {Attributed(regions[i]) : i \in DOMAIN regions}
            <=> x \in UNION {Attributed(a) : a \in accepted}
    BY <2>3, <2>5, <2>6
  <2>8. ASSUME NEW i \in DOMAIN regions, NEW j \in DOMAIN regions, i # j
        PROVE  PagesOf(regions[i]) \cap PagesOf(regions[j]) = {}
    <3>1. i \in Int /\ j \in Int
      BY ElementFacts DEF RInv, TInv
    <3>2. regions[i].end <= regions[j].start \/ regions[j].end <= regions[i].start
      BY <2>8, <3>1 DEF RInv, OrderInv, ListSorted
    <3> QED
      BY <2>1, <3>2 DEF PagesOf
  <2> QED
    BY <2>7, <2>8, Zenon
<1> QED
  BY <1>1, RegionsInvariance, PTL
=============================================================================
