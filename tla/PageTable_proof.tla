--------------------------- MODULE PageTable_proof ---------------------------
(***************************************************************************)
(* For any number of levels and entries, any regions and any pages of the  *)
(* process: the page tables that build_enclave_cr3 makes form one tree at  *)
(* every step, a finished table maps each region to the pages that were    *)
(* collected for it and nothing else, and these pages are in all_pages.    *)
(***************************************************************************)
EXTENDS PageTable, Lists_proof, FiniteSetTheorems

-----------------------------------------------------------------------------
\* The beginnings of Size: what its recursion computes up to n.
SizesTo(n) == {f \in [0 .. n -> Nat \ {0}] :
                 f[0] = 1 /\ \A i \in 1 .. n : f[i] = Entries * f[i - 1]}

LEMMA Product ==
  ASSUME NEW a \in Nat, NEW b \in Nat
  PROVE  a * b \in Nat /\ (a # 0 /\ b # 0 => a * b # 0)
OBVIOUS

LEMMA SizesExist ==
  ASSUME NEW n \in Nat
  PROVE  \E f : f \in SizesTo(n)
<1> DEFINE S == {k \in Nat : ~\E f : f \in SizesTo(k)}
<1>1. SUFFICES ASSUME S # {} PROVE FALSE
  OBVIOUS
<1>2. PICK m \in S : \A k \in S : m <= k
  <2>1. S \in SUBSET Nat
    OBVIOUS
  <2> HIDE DEF S
  <2> QED
    BY <1>1, <2>1, LeastElement
<1>3. m \in Nat /\ ~\E f : f \in SizesTo(m)
  BY <1>2
<1>4. CASE m = 0
  <2>1. [i \in 0 .. 0 |-> 1] \in SizesTo(0)
    BY DEF SizesTo
  <2> QED
    BY <1>3, <1>4, <2>1
<1>5. CASE m # 0
  <2>1. m - 1 \in Nat /\ m - 1 \notin S
    BY <1>2, <1>3, <1>5
  <2>2. PICK f : f \in SizesTo(m - 1)
    BY <2>1
  <2>3. /\ f \in [0 .. m - 1 -> Nat \ {0}] /\ f[0] = 1
        /\ \A i \in 1 .. m - 1 : f[i] = Entries * f[i - 1]
    BY <2>2 DEF SizesTo
  <2> DEFINE g == [i \in 0 .. m |-> IF i = m THEN Entries * f[m - 1] ELSE f[i]]
  <2>4. Entries * f[m - 1] \in Nat \ {0}
    <3>1. f[m - 1] \in Nat \ {0} /\ Entries \in Nat \ {0}
      BY <2>1, <2>3, ShapeAssumption
    <3> QED
      BY <3>1, Product
  <2>5. g \in [0 .. m -> Nat \ {0}]
    BY <1>3, <2>3, <2>4
  <2>6. g[0] = 1
    BY <1>3, <1>5, <2>3
  <2>7. ASSUME NEW i \in 1 .. m PROVE g[i] = Entries * g[i - 1]
    <3>1. CASE i = m
      BY <1>3, <1>5, <3>1
    <3>2. CASE i # m
      <4>1. i \in 1 .. m - 1 /\ i \in 0 .. m /\ i - 1 \in 0 .. m /\ i - 1 # m
        BY <1>3, <3>2
      <4> QED
        BY <2>3, <3>2, <4>1
    <3> QED
      BY <3>1, <3>2
  <2>8. g \in SizesTo(m)
    <3> HIDE DEF g
    <3> QED
      BY <2>5, <2>6, <2>7 DEF SizesTo
  <2> QED
    BY <1>3, <2>8
<1> QED
  BY <1>4, <1>5

LEMMA SizesAgree ==
  ASSUME NEW n \in Nat, NEW m \in Nat, NEW f \in SizesTo(n), NEW g \in SizesTo(m),
         NEW i \in Nat, i <= n, i <= m
  PROVE  f[i] = g[i]
<1> DEFINE S == {k \in Nat : k <= n /\ k <= m /\ f[k] # g[k]}
<1>1. SUFFICES ASSUME S # {} PROVE FALSE
  OBVIOUS
<1>2. PICK k \in S : \A j \in S : k <= j
  <2>1. S \in SUBSET Nat
    OBVIOUS
  <2> HIDE DEF S
  <2> QED
    BY <1>1, <2>1, LeastElement
<1>3. k \in Nat /\ k <= n /\ k <= m /\ f[k] # g[k]
  BY <1>2
<1>4. /\ f[0] = 1 /\ \A j \in 1 .. n : f[j] = Entries * f[j - 1]
      /\ g[0] = 1 /\ \A j \in 1 .. m : g[j] = Entries * g[j - 1]
  BY DEF SizesTo
<1>5. k # 0
  BY <1>3, <1>4
<1>6. k - 1 \in Nat /\ k - 1 <= n /\ k - 1 <= m /\ k - 1 \notin S
  BY <1>2, <1>3, <1>5
<1>7. f[k - 1] = g[k - 1]
  BY <1>6
<1>8. k \in 1 .. n /\ k \in 1 .. m
  BY <1>3, <1>5
<1> QED
  BY <1>3, <1>4, <1>7, <1>8

\* Size is what its definition says.
LEMMA SizeUnfolds == Size = [l \in Nat |-> IF l = 0 THEN 1 ELSE Entries * Size[l - 1]]
<1> DEFINE of(l) == CHOOSE f : f \in SizesTo(l)
           F == [l \in Nat |-> of(l)[l]]
<1>1. \A l \in Nat : of(l) \in SizesTo(l)
  BY SizesExist
<1> HIDE DEF of
<1>2. F[0] = 1
  BY <1>1 DEF SizesTo
<1>3. ASSUME NEW l \in Nat, l # 0 PROVE F[l] = Entries * F[l - 1]
  <2>1. l - 1 \in Nat /\ l \in 1 .. l /\ l - 1 <= l
    BY <1>3
  <2>2. of(l)[l] = Entries * of(l)[l - 1]
    BY <1>1, <2>1 DEF SizesTo
  <2>3. of(l)[l - 1] = of(l - 1)[l - 1]
    BY <1>1, <2>1, SizesAgree
  <2> QED
    BY <2>1, <2>2, <2>3
<1>4. F = [l \in Nat |-> IF l = 0 THEN 1 ELSE Entries * F[l - 1]]
  <2>1. \A l \in Nat : F[l] = IF l = 0 THEN 1 ELSE Entries * F[l - 1]
    BY <1>2, <1>3
  <2>2. F = [l \in Nat |-> F[l]]
    OBVIOUS
  <2> HIDE DEF F
  <2> QED
    BY <2>1, <2>2, Zenon
<1>5. \E f : f = [l \in Nat |-> IF l = 0 THEN 1 ELSE Entries * f[l - 1]]
  <2> HIDE DEF F
  <2> QED
    BY <1>4
<1> QED
  BY <1>5, Zenon DEF Size

\* An entry of a level covers Entries entries of the level below it, and a page at least.
LEMMA SizeFacts ==
  /\ Size[0] = 1
  /\ \A l \in Nat : Size[l] \in Nat \ {0} /\ Size[l + 1] = Entries * Size[l]
<1>1. \A l \in Nat : Size[l] = IF l = 0 THEN 1 ELSE Entries * Size[l - 1]
  <2> HIDE DEF Size
  <2> QED
    BY SizeUnfolds, Zenon
<1>2. Size[0] = 1
  BY <1>1
<1>3. ASSUME NEW l \in Nat PROVE Size[l + 1] = Entries * Size[l]
  <2>1. l + 1 \in Nat /\ l + 1 # 0 /\ (l + 1) - 1 = l
    OBVIOUS
  <2> QED
    BY <1>1, <2>1
<1> DEFINE S == {k \in Nat : Size[k] \notin Nat \ {0}}
<1>4. S = {}
  <2>1. SUFFICES ASSUME S # {} PROVE FALSE
    OBVIOUS
  <2>2. PICK k \in S : \A j \in S : k <= j
    <3>1. S \in SUBSET Nat
      OBVIOUS
    <3> HIDE DEF S
    <3> QED
      BY <2>1, <3>1, LeastElement
  <2>3. k \in Nat /\ k # 0 /\ Size[k] \notin Nat \ {0}
    BY <1>2, <2>2
  <2>4. k - 1 \in Nat /\ k - 1 \notin S
    BY <2>2, <2>3
  <2>5. Size[k - 1] \in Nat \ {0} /\ Entries \in Nat \ {0}
    BY <2>4, ShapeAssumption
  <2>6. Size[k] = Entries * Size[k - 1]
    BY <1>1, <2>3
  <2> QED
    BY <2>3, <2>5, <2>6, Product
<1> QED
  BY <1>2, <1>3, <1>4

-----------------------------------------------------------------------------
Table == [0 .. Entries - 1 -> Entry]

\* The activations that work on tables of T.
Walks(T) == [table: T, level: 0 .. Levels - 1, start: VA, i: 0 .. Entries]

\* The indices of an activation do not go back, and one that waits for a recursive
\* call has an entry to go on from.
StackInv ==
  /\ \A j \in DOMAIN stack : get_index(stack[j].start, stack[j].level) <= stack[j].i
  /\ \A j \in DOMAIN stack : j # 1 => stack[j].i < Entries

\* The root is the first table, and a walk has one.
WalkInv ==
  /\ pc = "walk" => stack # <<>> /\ cr3 # 0
  /\ pc \in {"walk", "merge"} => r \in DOMAIN regions
  /\ pc \in {"collect", "root"} => tables = <<>> /\ stack = <<>>
  /\ cr3 = IF tables = <<>> THEN 0 ELSE 1

Present(n, i) == "P" \in tables[n][i].bits

\* Tables have levels: an entry of a leaf is a frame, any other leads one level down,
\* or to physical page 0.
TableLevels(lev) ==
  /\ cr3 # 0 => lev[cr3] = Levels - 1
  /\ \A n \in DOMAIN tables, i \in 0 .. Entries - 1 : Present(n, i) =>
       \/ lev[n] = 0 /\ tables[n][i].to \in Frame
       \/ lev[n] # 0 /\ tables[n][i].to = 0
       \/ /\ lev[n] # 0 /\ tables[n][i].to \in DOMAIN tables
          /\ lev[tables[n][i].to] = lev[n] - 1

\* An activation is at the level of its table.
Levelled(lev) ==
  /\ TableLevels(lev)
  /\ \A j \in DOMAIN stack : lev[stack[j].table] = stack[j].level

LevelInv == \E lev \in [DOMAIN tables -> 0 .. Levels - 1] : Levelled(lev)

\* The entry i of table n leads to table m.
Leads(n, i, m) == tables[n][i].to = m /\ Present(n, i)

\* Every table but the root is in one entry.
TreeInv ==
  /\ \A n \in DOMAIN tables, i \in 0 .. Entries - 1 : cr3 # 0 => ~Leads(n, i, cr3)
  /\ \A m \in DOMAIN tables : m # cr3 =>
       \E n \in DOMAIN tables, i \in 0 .. Entries - 1 : Leads(n, i, m)
  /\ \A m, n, k \in DOMAIN tables, i, j \in 0 .. Entries - 1 :
       Leads(n, i, m) /\ Leads(k, j, m) => n = k /\ i = j

\* The inductive invariant.
IInv == TypeOK /\ StackInv /\ WalkInv /\ LevelInv /\ TreeInv

-----------------------------------------------------------------------------
\* get_index and curr_va are indices and addresses.
LEMMA IndexFacts ==
  ASSUME NEW addr \in Nat, NEW level \in Nat
  PROVE  get_index(addr, level) \in 0 .. Entries - 1
<1>1. Size[level] \in Nat \ {0} /\ Entries \in Nat \ {0}
  BY SizeFacts, ShapeAssumption
<1>2. addr \div Size[level] \in Nat
  BY <1>1
<1> QED
  BY <1>1, <1>2 DEF get_index

LEMMA WalksFacts ==
  ASSUME NEW T, NEW a \in Walks(T)
  PROVE  a.start \in Nat /\ a.level \in Nat /\ a.i \in Nat
<1>1. a.start \in VA /\ a.level \in 0 .. Levels - 1 /\ a.i \in 0 .. Entries
  BY DEF Walks
<1>2. Size[Levels] \in Nat /\ Levels \in Nat /\ Entries \in Nat
  BY SizeFacts, ShapeAssumption
<1>3. VA \subseteq Nat /\ 0 .. Levels - 1 \subseteq Nat /\ 0 .. Entries \subseteq Nat
  BY <1>2 DEF VA
<1> QED
  BY <1>1, <1>3

LEMMA AddressFacts ==
  ASSUME NEW T, NEW a \in Walks(T), get_index(a.start, a.level) <= a.i
  PROVE  curr_va(a) \in Nat
<1>1. a.start \in Nat /\ a.level \in Nat /\ a.i \in Nat
  BY WalksFacts
<1>2. Size[a.level] \in Nat \ {0} /\ get_index(a.start, a.level) \in Nat
  <2>1. Size[a.level] \in Nat \ {0}
    BY <1>1, SizeFacts, Zenon
  <2>2. get_index(a.start, a.level) \in 0 .. Entries - 1
    BY <1>1, IndexFacts, Zenon
  <2> QED
    BY <2>1, <2>2
<1> DEFINE s == Size[a.level]
           g == get_index(a.start, a.level)
           va == a.start + (a.i - g) * s
<1>3. curr_va(a) = IF a.i = g THEN va ELSE (va \div s) * s
  BY DEF curr_va
<1> HIDE DEF s, g
<1>4. a.i - g \in Nat /\ s \in Nat \ {0}
  BY <1>1, <1>2 DEF s, g
<1>5. va \in Nat
  BY <1>1, <1>4, Product
<1> HIDE DEF va
<1>6. va \div s \in Nat
  BY <1>4, <1>5
<1>7. (va \div s) * s \in Nat
  BY <1>4, <1>6, Product
<1> QED
  BY <1>3, <1>5, <1>7

\* The regions, as numbers.
LEMMA RegionFacts ==
  ASSUME TypeOK
  PROVE  /\ Len(regions) \in Nat /\ DOMAIN regions = 1 .. Len(regions)
         /\ \A k \in DOMAIN regions : regions[k].start \in VA
                                   /\ regions[k].end \in 0 .. Size[Levels]
<1>1. regions \in Seq(Region)
  BY LayoutsAssumption DEF TypeOK
<1>2. Size[Levels] \in Nat \ {0}
  BY SizeFacts, ShapeAssumption
<1>3. Len(regions) \in Nat /\ DOMAIN regions = 1 .. Len(regions)
  BY <1>1
<1>4. ASSUME NEW k \in DOMAIN regions
      PROVE  regions[k].start \in VA /\ regions[k].end \in 0 .. Size[Levels]
  <2>1. regions[k] \in Region
    BY <1>1
  <2>2. regions[k].start \in VA /\ regions[k].end \in VA \cup {Size[Levels]}
    BY <2>1 DEF Region
  <2>3. VA \cup {Size[Levels]} \subseteq 0 .. Size[Levels]
    BY <1>2 DEF VA
  <2> QED
    BY <2>2, <2>3
<1> QED
  BY <1>3, <1>4

\* A walk is at an activation, and an iteration at an entry of its table.
LEMMA ActFacts ==
  ASSUME TypeOK, StackInv, WalkInv, pc = "walk"
  PROVE  /\ stack \in Seq(Walks(DOMAIN tables)) /\ stack # <<>> /\ 1 \in DOMAIN stack
         /\ act \in Walks(DOMAIN tables) /\ act = stack[1]
         /\ r \in DOMAIN regions /\ cr3 # 0
         /\ InRange(act) => act.i \in 0 .. Entries - 1 /\ curr_va(act) \in VA
<1>1. stack \in Seq(Walks(DOMAIN tables)) /\ stack # <<>>
  BY DEF TypeOK, WalkInv, Walks
<1>2. 1 \in DOMAIN stack /\ act = stack[1] /\ act \in Walks(DOMAIN tables)
  BY <1>1 DEF act
<1>3. r \in DOMAIN regions /\ cr3 # 0
  BY DEF WalkInv
<1>4. curr_va(act) \in Nat
  <2>1. get_index(act.start, act.level) <= act.i
    BY <1>2 DEF StackInv
  <2> HIDE DEF act
  <2> QED
    BY <1>2, <2>1, AddressFacts
<1>5. ASSUME InRange(act) PROVE act.i \in 0 .. Entries - 1 /\ curr_va(act) \in VA
  <2>1. act.i < Entries /\ curr_va(act) < regions[r].end
    BY <1>5 DEF InRange
  <2>2. act.i \in 0 .. Entries /\ Entries \in Nat
    BY <1>2, ShapeAssumption DEF Walks
  <2>3. regions[r].end \in 0 .. Size[Levels] /\ Size[Levels] \in Nat
    BY <1>3, RegionFacts, SizeFacts, ShapeAssumption
  <2> HIDE DEF act
  <2> QED
    BY <1>4, <2>1, <2>2, <2>3 DEF VA
<1> QED
  BY <1>1, <1>2, <1>3, <1>5

\* The next iteration: only the index of the innermost activation changes.
LEMMA AdvancedStack ==
  ASSUME NEW T, NEW s \in Seq(Walks(T)), s # <<>>, s[1].i < Entries
  PROVE  /\ Advanced(s) \in Seq(Walks(T)) /\ DOMAIN Advanced(s) = DOMAIN s /\ Advanced(s) # <<>>
         /\ Advanced(s)[1].i = s[1].i + 1
         /\ \A j \in DOMAIN s :
              /\ Advanced(s)[j].table = s[j].table /\ Advanced(s)[j].level = s[j].level
              /\ Advanced(s)[j].start = s[j].start
              /\ j # 1 => Advanced(s)[j].i = s[j].i
<1> DEFINE a == [s[1] EXCEPT !.i = s[1].i + 1]
<1>1. 1 \in DOMAIN s /\ s[1] \in Walks(T)
  OBVIOUS
<1>2. /\ a \in Walks(T) /\ a.i = s[1].i + 1 /\ a.table = s[1].table /\ a.level = s[1].level
      /\ a.start = s[1].start
  <2>1. ASSUME NEW b \in Walks(T), b.i < Entries
        PROVE  /\ [b EXCEPT !.i = b.i + 1] \in Walks(T)
               /\ [b EXCEPT !.i = b.i + 1].i = b.i + 1
               /\ [b EXCEPT !.i = b.i + 1].table = b.table
               /\ [b EXCEPT !.i = b.i + 1].level = b.level
               /\ [b EXCEPT !.i = b.i + 1].start = b.start
    <3>1. b.i \in 0 .. Entries
      BY DEF Walks
    <3>2. b.i + 1 \in 0 .. Entries
      BY <2>1, <3>1, ShapeAssumption
    <3> QED
      BY <3>2 DEF Walks
  <2> QED
    BY <1>1, <2>1
<1>3. Advanced(s) = [s EXCEPT ![1] = a]
  BY <1>1 DEF Advanced
<1> HIDE DEF a
<1>4. /\ Advanced(s) \in Seq(Walks(T)) /\ DOMAIN Advanced(s) = DOMAIN s /\ Advanced(s) # <<>>
      /\ Advanced(s)[1] = a /\ \A j \in DOMAIN s : j # 1 => Advanced(s)[j] = s[j]
  BY <1>1, <1>2, <1>3
<1> QED
  BY <1>2, <1>4

\* u is s with one more activation in front.
IsPushed(W, u, a, s) ==
  /\ u \in Seq(W) /\ DOMAIN u = 1 .. Len(s) + 1 /\ u[1] = a
  /\ \A j \in 2 .. Len(s) + 1 : j - 1 \in DOMAIN s /\ u[j] = s[j - 1]

\* A recursive call.
LEMMA PushedStack ==
  ASSUME NEW W, NEW s \in Seq(W), NEW a \in W
  PROVE  IsPushed(W, <<a>> \o s, a, s)
BY DEF IsPushed

\* u is s without its first activation, and not empty.
IsPopped(W, u, s) ==
  /\ u \in Seq(W) /\ u # <<>> /\ 1 \in DOMAIN u
  /\ \A j \in DOMAIN u : j + 1 # 1 /\ j + 1 \in DOMAIN s /\ u[j] = s[j + 1]

\* A return: the caller is the innermost activation again.
LEMMA PoppedStack ==
  ASSUME NEW W, NEW s \in Seq(W), s # <<>>, Len(s) # 1
  PROVE  IsPopped(W, Tail(s), s)
<1>1. Len(s) \in Nat \ {0, 1} /\ DOMAIN s = 1 .. Len(s)
  OBVIOUS
<1>2. Tail(s) \in Seq(W) /\ Len(Tail(s)) = Len(s) - 1
  OBVIOUS
<1>3. DOMAIN Tail(s) = 1 .. Len(s) - 1
  BY <1>2
<1>4. \A j \in 1 .. Len(s) - 1 : Tail(s)[j] = s[j + 1]
  OBVIOUS
<1>5. 1 \in DOMAIN Tail(s) /\ Tail(s) # <<>>
  <2>1. 1 \in 1 .. Len(s) - 1
    BY <1>1
  <2>2. DOMAIN <<>> = {}
    OBVIOUS
  <2> QED
    BY <1>3, <2>1, <2>2, Zenon
<1>6. \A j \in DOMAIN Tail(s) : j + 1 # 1 /\ j + 1 \in DOMAIN s
  BY <1>1, <1>3
<1> QED
  BY <1>2, <1>3, <1>4, <1>5, <1>6 DEF IsPopped

\* us is ts with one entry set.
IsSet(us, ts, n, i, e) ==
  /\ us \in Seq(Table) /\ Len(us) = Len(ts) /\ DOMAIN us = DOMAIN ts
  /\ \A k \in DOMAIN ts, j \in 0 .. Entries - 1 :
       us[k][j] = IF k = n /\ j = i THEN e ELSE ts[k][j]

\* What the mapper does to the tables.
LEMMA SetEntry ==
  ASSUME NEW ts \in Seq(Table), NEW n \in DOMAIN ts, NEW i \in 0 .. Entries - 1, NEW e \in Entry
  PROVE  IsSet([ts EXCEPT ![n][i] = e], ts, n, i, e)
<1> DEFINE t == [ts[n] EXCEPT ![i] = e]
<1>1. ts[n] \in Table
  OBVIOUS
<1>2. t \in Table /\ \A j \in 0 .. Entries - 1 : t[j] = IF j = i THEN e ELSE ts[n][j]
  BY <1>1 DEF Table
<1>3. [ts EXCEPT ![n][i] = e] = [ts EXCEPT ![n] = t]
  BY <1>1
<1> HIDE DEF t
<1>4. /\ [ts EXCEPT ![n] = t] \in Seq(Table) /\ Len([ts EXCEPT ![n] = t]) = Len(ts)
      /\ DOMAIN [ts EXCEPT ![n] = t] = DOMAIN ts
      /\ \A k \in DOMAIN ts : [ts EXCEPT ![n] = t][k] = IF k = n THEN t ELSE ts[k]
  BY <1>2
<1>5. ASSUME NEW k \in DOMAIN ts, NEW j \in 0 .. Entries - 1
      PROVE  [ts EXCEPT ![n] = t][k][j] = IF k = n /\ j = i THEN e ELSE ts[k][j]
  BY <1>2, <1>4
<1> QED
  BY <1>3, <1>4, <1>5, Zenon DEF IsSet

-----------------------------------------------------------------------------
\* Steps that leave the tables and the walk alone.
LEMMA SameTables ==
  ASSUME StackInv, LevelInv, TreeInv, UNCHANGED <<tables, cr3, stack>>
  PROVE  StackInv' /\ LevelInv' /\ TreeInv'
<1>1. StackInv'
  BY DEF StackInv, get_index
<1>2. LevelInv'
  <2>1. PICK lev \in [DOMAIN tables -> 0 .. Levels - 1] : Levelled(lev)
    BY DEF LevelInv
  <2>2. Levelled(lev)'
    BY <2>1 DEF Levelled, TableLevels, Present
  <2> QED
    BY <2>2 DEF LevelInv
<1>3. TreeInv'
  BY DEF TreeInv, Leads, Present
<1> QED
  BY <1>1, <1>2, <1>3

LEMMA InitTables == Init => IInv
<1> SUFFICES ASSUME Init PROVE IInv
  OBVIOUS
<1>1. /\ regions \in Layouts /\ regions \in Seq(Region) /\ Len(regions) \in Nat
      /\ tables = <<>> /\ stack = <<>> /\ cr3 = 0 /\ pc = "collect" /\ r = 1 /\ pa = 1
      /\ all_pages = {} /\ pmap = [k \in DOMAIN regions |-> <<>>]
      /\ pas = [k \in DOMAIN regions |-> <<>>]
  BY LayoutsAssumption DEF Init
<1>2. TypeOK
  <2>1. tables \in Seq([0 .. Entries - 1 -> Entry]) /\ cr3 \in 0 .. Len(tables)
    BY <1>1
  <2>2. stack \in Seq([table: DOMAIN tables, level: 0 .. Levels - 1, start: VA, i: 0 .. Entries])
    BY <1>1
  <2>3. r \in 1 .. Len(regions) + 1 /\ pa \in Nat \ {0}
    BY <1>1
  <2> QED
    BY <1>1, <2>1, <2>2, <2>3 DEF TypeOK
<1>3. StackInv /\ WalkInv
  BY <1>1 DEF StackInv, WalkInv
<1>4. LevelInv
  <2>1. [n \in DOMAIN tables |-> 0] \in [DOMAIN tables -> 0 .. Levels - 1]
    BY <1>1
  <2>2. Levelled([n \in DOMAIN tables |-> 0])
    BY <1>1 DEF Levelled, TableLevels
  <2> QED
    BY <2>1, <2>2 DEF LevelInv
<1>5. TreeInv
  BY <1>1 DEF TreeInv
<1> QED
  BY <1>2, <1>3, <1>4, <1>5 DEF IInv

\* The callbacks of the kernel's page walker.
LEMMA CollectStep ==
  ASSUME IInv, (\E f \in Frame : pte_entry(f)) \/ hugetlb_entry \/ pte_hole
  PROVE  IInv'
<1>1. /\ Collecting /\ UNCHANGED <<regions, all_pages, tables, cr3, r, pa, stack>>
      /\ pc = "collect" /\ pc' \in {"collect", "failed"}
  BY DEF pte_entry, hugetlb_entry, pte_hole, Collecting
<1>2. r \in DOMAIN regions
  BY <1>1, RegionFacts DEF Collecting, IInv, TypeOK
<1>3. /\ pmap' \in [DOMAIN regions -> Seq(Frame \cup {"huge"})]
      /\ pas' \in [DOMAIN regions -> Seq(Frame)]
  <2>1. /\ pmap \in [DOMAIN regions -> Seq(Frame \cup {"huge"})]
        /\ pas \in [DOMAIN regions -> Seq(Frame)]
    BY DEF IInv, TypeOK
  <2>2. /\ \A f \in Frame : Append(pmap[r], f) \in Seq(Frame \cup {"huge"})
        /\ Append(pmap[r], "huge") \in Seq(Frame \cup {"huge"})
        /\ \A f \in Frame : Append(pas[r], f) \in Seq(Frame)
    BY <1>2, <2>1
  <2>3. CASE \E f \in Frame : pte_entry(f)
    <3>1. PICK f \in Frame : pte_entry(f)
      BY <2>3
    <3>2. /\ pmap' = [pmap EXCEPT ![r] = Append(pmap[r], f)]
          /\ pas' \in {pas, [pas EXCEPT ![r] = Append(pas[r], f)]}
      BY <1>2, <2>1, <3>1 DEF pte_entry
    <3> QED
      BY <1>2, <2>1, <2>2, <3>2
  <2>4. CASE hugetlb_entry
    <3>1. pmap' = [pmap EXCEPT ![r] = Append(pmap[r], "huge")] /\ pas' = pas
      BY <1>2, <2>1, <2>4 DEF hugetlb_entry
    <3> QED
      BY <1>2, <2>1, <2>2, <3>1
  <2>5. CASE pte_hole
    BY <2>1, <2>5 DEF pte_hole
  <2> QED
    BY <2>3, <2>4, <2>5
<1>4. TypeOK'
  BY <1>1, <1>3 DEF IInv, TypeOK, Final
<1>5. WalkInv'
  BY <1>1 DEF IInv, WalkInv
<1> QED
  BY <1>1, <1>4, <1>5, SameTables DEF IInv

LEMMA CollectedStep ==
  ASSUME IInv, Collected
  PROVE  IInv'
<1>1. /\ pc = "collect" /\ UNCHANGED <<regions, pmap, pas, all_pages, tables, cr3, pa, stack>>
      /\ pc' \in {"collect", "root"}
      /\ (r <= Len(regions) /\ r' = r + 1) \/ r' = 1
  BY DEF Collected
<1>2. r' \in 1 .. Len(regions) + 1
  BY <1>1, RegionFacts DEF IInv, TypeOK
<1>3. TypeOK'
  BY <1>1, <1>2 DEF IInv, TypeOK
<1>4. WalkInv'
  BY <1>1 DEF IInv, WalkInv
<1> QED
  BY <1>1, <1>3, <1>4, SameTables DEF IInv

LEMMA DoneStep ==
  ASSUME IInv, Done \/ MapError
  PROVE  IInv'
<1>1. /\ UNCHANGED <<regions, pmap, pas, all_pages, tables, cr3, r, pa, stack>>
      /\ pc' \in Final
  BY DEF Done, MapError, Final
<1>2. TypeOK'
  BY <1>1 DEF IInv, TypeOK
<1>3. WalkInv'
  BY <1>1 DEF IInv, WalkInv, Final
<1> QED
  BY <1>1, <1>2, <1>3, SameTables DEF IInv

LEMMA MergeStep ==
  ASSUME IInv, Merge
  PROVE  IInv'
<1>1. PICK k \in 0 .. Len(pas[r]) :
        /\ pc = "merge" /\ UNCHANGED <<regions, pmap, pas, tables, cr3, pa, stack>>
        /\ all_pages' = MergePages(all_pages, k)
        /\ (pc' = "region" /\ r' = r + 1) \/ (pc' = "failed" /\ r' = r)
  BY DEF Merge
<1>2. r \in DOMAIN regions /\ pas \in [DOMAIN regions -> Seq(Frame)] /\ all_pages \subseteq Frame
  BY <1>1 DEF IInv, WalkInv, TypeOK
<1>3. r' \in 1 .. Len(regions) + 1
  BY <1>1, <1>2, RegionFacts DEF IInv
<1>4. all_pages' \subseteq Frame
  <2>1. \A j \in 1 .. k : pas[r][j] \in Frame
    BY <1>2
  <2> QED
    BY <1>1, <1>2, <2>1 DEF MergePages
<1>5. TypeOK'
  BY <1>1, <1>3, <1>4 DEF IInv, TypeOK, Final
<1>6. WalkInv'
  BY <1>1 DEF IInv, WalkInv
<1> QED
  BY <1>1, <1>5, <1>6, SameTables DEF IInv

\* The root is the first table, empty and with no entry that leads to it.
LEMMA AllocateRootStep ==
  ASSUME IInv, AllocateRoot
  PROVE  IInv'
<1>1. /\ pc = "root" /\ pc' = "region" /\ UNCHANGED <<regions, pmap, pas, all_pages, r, pa, stack>>
      /\ tables = <<>> /\ stack = <<>>
      /\ \/ cr3' = 1 /\ tables' = Append(tables, Empty)
         \/ cr3' = 0 /\ tables' = tables
  BY DEF AllocateRoot, allocate, IInv, WalkInv
<1>2. CASE cr3' = 0 /\ tables' = tables
  <2>1. cr3 = 0
    BY <1>1 DEF IInv, WalkInv
  <2>2. TypeOK'
    BY <1>1, <1>2, <2>1 DEF IInv, TypeOK
  <2>3. WalkInv'
    BY <1>1, <1>2, <2>1 DEF IInv, WalkInv
  <2> QED
    BY <1>1, <1>2, <2>1, <2>2, <2>3, SameTables DEF IInv
<1>3. CASE cr3' = 1 /\ tables' = Append(tables, Empty)
  <2>1. tables' = <<Empty>> /\ Empty \in Table
    BY <1>1, <1>3 DEF Empty, Table, Entry
  <2>2. /\ tables' \in Seq(Table) /\ Len(tables') = 1 /\ DOMAIN tables' = {1}
        /\ tables' # <<>> /\ \A i \in 0 .. Entries - 1 : tables'[1][i].bits = {}
    BY <2>1 DEF Empty
  <2>3. stack' \in Seq(Walks(DOMAIN tables'))
    BY <1>1
  <2>4. TypeOK'
    <3>1. cr3' \in 0 .. Len(tables')
      BY <1>3, <2>2
    <3> QED
      BY <1>1, <2>2, <2>3, <3>1 DEF IInv, TypeOK, Table, Walks
  <2>5. StackInv' /\ WalkInv'
    BY <1>1, <1>3, <2>2 DEF IInv, StackInv, WalkInv
  <2>6. \A n \in DOMAIN tables', i \in 0 .. Entries - 1 : ~Present(n, i)'
    BY <2>2 DEF Present
  <2>7. LevelInv'
    <3> DEFINE lev == [n \in {1} |-> Levels - 1]
    <3>1. lev \in [DOMAIN tables' -> 0 .. Levels - 1] /\ lev[1] = Levels - 1
      BY <2>2, ShapeAssumption
    <3> HIDE DEF lev
    <3>2. Levelled(lev)'
      BY <1>1, <1>3, <2>6, <3>1 DEF Levelled, TableLevels
    <3> QED
      BY <3>1, <3>2 DEF LevelInv
  <2>8. TreeInv'
    BY <1>3, <2>2, <2>6 DEF TreeInv, Leads
  <2> QED
    BY <2>4, <2>5, <2>7, <2>8 DEF IInv
<1> QED
  BY <1>1, <1>2, <1>3

-----------------------------------------------------------------------------
\* An activation starts at the entry of its address.
LEMMA ActivationFacts ==
  ASSUME NEW T, NEW to \in T, NEW level \in 0 .. Levels - 1, NEW va \in VA
  PROVE  /\ Activation(to, level, va) \in Walks(T)
         /\ Activation(to, level, va).table = to /\ Activation(to, level, va).level = level
         /\ Activation(to, level, va).start = va
         /\ Activation(to, level, va).i = get_index(va, level)
         /\ get_index(va, level) \in 0 .. Entries - 1
<1>1. level \in Nat /\ va \in Nat
  BY ShapeAssumption, SizeFacts DEF VA
<1>2. get_index(va, level) \in 0 .. Entries - 1
  BY <1>1, IndexFacts, Zenon
<1>3. get_index(va, level) \in 0 .. Entries
  BY <1>2, ShapeAssumption
<1> QED
  BY <1>2, <1>3 DEF Activation, Walks

\* A walk starts with the root at the highest level.
LEMMA MapRegionStep ==
  ASSUME IInv, map_region
  PROVE  IInv'
<1>1. /\ pc = "region" /\ r <= Len(regions) /\ pa' = 1
      /\ UNCHANGED <<regions, pmap, pas, all_pages, tables, cr3, r>>
  BY DEF map_region
<1>2. r \in DOMAIN regions /\ regions[r].start \in VA
  BY <1>1, RegionFacts DEF IInv, TypeOK
<1>3. CASE cr3 = 0
  <2>1. pc' = "wild" /\ stack' = stack
    BY <1>3 DEF map_region
  <2>2. TypeOK'
    BY <1>1, <2>1 DEF IInv, TypeOK, Final
  <2>3. WalkInv'
    BY <1>1, <2>1 DEF IInv, WalkInv
  <2> QED
    BY <1>1, <2>1, <2>2, <2>3, SameTables DEF IInv
<1>4. CASE cr3 # 0
  <2> DEFINE a == Activation(cr3, Levels - 1, regions[r].start)
  <2>1. pc' = "walk" /\ stack' = <<a>>
    BY <1>4 DEF map_region
  <2>2. cr3 \in DOMAIN tables /\ Levels - 1 \in 0 .. Levels - 1
    BY <1>4, ShapeAssumption DEF IInv, TypeOK
  <2>3. /\ a \in Walks(DOMAIN tables) /\ a.table = cr3 /\ a.level = Levels - 1
        /\ a.start = regions[r].start /\ a.i = get_index(a.start, a.level)
        /\ a.i \in 0 .. Entries - 1
    BY <1>2, <2>2, ActivationFacts
  <2> HIDE DEF a
  <2>4. /\ stack' \in Seq(Walks(DOMAIN tables)) /\ DOMAIN stack' = {1}
        /\ stack'[1] = a /\ stack' # <<>>
    BY <2>1, <2>3
  <2>5. TypeOK'
    BY <1>1, <2>1, <2>4 DEF IInv, TypeOK, Walks
  <2>6. StackInv'
    <3>1. get_index(a.start, a.level) <= a.i
      BY <2>3
    <3> QED
      BY <2>4, <3>1 DEF StackInv, get_index
  <2>7. WalkInv'
    BY <1>1, <1>2, <1>4, <2>1, <2>4 DEF IInv, WalkInv
  <2>8. LevelInv'
    <3>1. PICK lev \in [DOMAIN tables -> 0 .. Levels - 1] : Levelled(lev)
      BY DEF IInv, LevelInv
    <3>2. Levelled(lev)'
      BY <1>1, <1>4, <2>3, <2>4, <3>1 DEF Levelled, TableLevels, Present
    <3> QED
      BY <1>1, <3>2 DEF LevelInv
  <2>9. TreeInv'
    BY <1>1 DEF IInv, TreeInv, Leads, Present
  <2> QED
    BY <2>5, <2>6, <2>7, <2>8, <2>9 DEF IInv
<1> QED
  BY <1>3, <1>4

\* The stack after a step that changes at most its head, goes one down, or returns.
StackStep(T) ==
  /\ stack' \in Seq(Walks(T))
  /\ \A j \in DOMAIN stack' :
       /\ get_index(stack'[j].start, stack'[j].level) <= stack'[j].i
       /\ j # 1 => stack'[j].i < Entries

\* The next iteration of an activation.
LEMMA AdvanceKeeps ==
  ASSUME NEW T, NEW s \in Seq(Walks(T)), s # <<>>, s[1].i < Entries, stack' = Advanced(s),
         \A j \in DOMAIN s : /\ get_index(s[j].start, s[j].level) <= s[j].i
                             /\ j # 1 => s[j].i < Entries
  PROVE  /\ StackStep(T) /\ stack' # <<>> /\ DOMAIN stack' = DOMAIN s
         /\ stack'[1].i = s[1].i + 1
         /\ \A j \in DOMAIN s :
              /\ stack'[j].table = s[j].table /\ stack'[j].level = s[j].level
              /\ stack'[j].start = s[j].start
              /\ j # 1 => stack'[j].i = s[j].i
<1>1. /\ stack' \in Seq(Walks(T)) /\ DOMAIN stack' = DOMAIN s /\ stack' # <<>>
      /\ stack'[1].i = s[1].i + 1
      /\ \A j \in DOMAIN s :
           /\ stack'[j].table = s[j].table /\ stack'[j].level = s[j].level
           /\ stack'[j].start = s[j].start
           /\ j # 1 => stack'[j].i = s[j].i
  BY AdvancedStack
<1>2. ASSUME NEW j \in DOMAIN s
      PROVE  /\ get_index(stack'[j].start, stack'[j].level) <= stack'[j].i
             /\ j # 1 => stack'[j].i < Entries
  <2>1. CASE j = 1
    <3>1. s[1] \in Walks(T)
      OBVIOUS
    <3>2. s[1].i \in Nat /\ s[1].start \in Nat /\ s[1].level \in Nat
      BY <3>1, WalksFacts, Zenon
    <3>3. get_index(s[1].start, s[1].level) \in 0 .. Entries - 1
      BY <3>2, IndexFacts, Zenon
    <3>4. get_index(s[1].start, s[1].level) <= s[1].i + 1
      <4>1. get_index(s[1].start, s[1].level) <= s[1].i
        BY <2>1
      <4> QED
        BY <3>2, <3>3, <4>1
    <3> QED
      BY <1>1, <2>1, <3>4
  <2>2. CASE j # 1
    BY <1>1, <2>2
  <2> QED
    BY <2>1, <2>2
<1> QED
  BY <1>1, <1>2 DEF StackStep

\* The entry that a walk looks at.
LEMMA EntryFacts ==
  ASSUME IInv, pc = "walk", InRange(act)
  PROVE  /\ act.table \in DOMAIN tables /\ act.i \in 0 .. Entries - 1
         /\ act.i < Entries /\ act.level \in 0 .. Levels - 1 /\ curr_va(act) \in VA
         /\ entry = tables[act.table][act.i] /\ entry \in Entry
<1>1. act \in Walks(DOMAIN tables) /\ act.i \in 0 .. Entries - 1 /\ curr_va(act) \in VA
  BY ActFacts DEF IInv
<1> HIDE DEF act
<1>2. act.table \in DOMAIN tables /\ act.level \in 0 .. Levels - 1
  BY <1>1 DEF Walks
<1>3. tables[act.table] \in Table
  BY <1>2 DEF IInv, TypeOK, Table
<1>4. tables[act.table][act.i] \in Entry
  BY <1>1, <1>3 DEF Table
<1>5. act.i < Entries
  BY <1>1, ShapeAssumption
<1> QED
  BY <1>1, <1>2, <1>4, <1>5 DEF entry

\* A recursive call for a table.
LEMMA DescendKeeps ==
  ASSUME IInv, pc = "walk", InRange(act), act.level # 0, NEW T, DOMAIN tables \subseteq T,
         NEW to \in T, stack' = <<Activation(to, act.level - 1, curr_va(act))>> \o stack
  PROVE  /\ StackStep(T) /\ stack' # <<>>
         /\ 1 \in DOMAIN stack' /\ stack'[1].table = to /\ stack'[1].level = act.level - 1
         /\ stack'[1].start = curr_va(act)
         /\ stack'[1].i = get_index(curr_va(act), act.level - 1)
         /\ DOMAIN stack' = 1 .. Len(stack) + 1
         /\ \A j \in DOMAIN stack' : j # 1 => j - 1 \in DOMAIN stack /\ stack'[j] = stack[j - 1]
<1> DEFINE a == Activation(to, act.level - 1, curr_va(act))
<1>1. /\ act.table \in DOMAIN tables /\ act.i < Entries
      /\ act.level \in 0 .. Levels - 1 /\ curr_va(act) \in VA
  BY EntryFacts
<1>2. act.level - 1 \in 0 .. Levels - 1
  <2> HIDE DEF act
  <2> QED
    BY <1>1, ShapeAssumption
<1>3. /\ a \in Walks(T) /\ a.table = to /\ a.level = act.level - 1
      /\ a.start = curr_va(act)
      /\ a.i = get_index(a.start, a.level) /\ a.i \in 0 .. Entries - 1
  BY <1>1, <1>2, ActivationFacts
<1> HIDE DEF a
<1>4. stack \in Seq(Walks(T))
  <2>1. stack \in Seq(Walks(DOMAIN tables))
    BY ActFacts DEF IInv
  <2>2. Walks(DOMAIN tables) \subseteq Walks(T)
    BY DEF Walks
  <2> QED
    BY <2>1, <2>2
<1>5. /\ stack' \in Seq(Walks(T)) /\ DOMAIN stack' = 1 .. Len(stack) + 1 /\ stack'[1] = a
      /\ \A j \in 2 .. Len(stack) + 1 : j - 1 \in DOMAIN stack /\ stack'[j] = stack[j - 1]
  <2>1. stack' = <<a>> \o stack
    BY DEF a
  <2>2. IsPushed(Walks(T), <<a>> \o stack, a, stack)
    BY <1>3, <1>4, PushedStack
  <2>3. IsPushed(Walks(T), stack', a, stack)
    BY <2>1, <2>2, Zenon
  <2> QED
    BY <2>3 DEF IsPushed
<1>6. Len(stack) \in Nat
  BY <1>4
<1>7. \A j \in DOMAIN stack' : j # 1 => j \in 2 .. Len(stack) + 1
  BY <1>5, <1>6
<1>8. ASSUME NEW j \in DOMAIN stack'
      PROVE  /\ get_index(stack'[j].start, stack'[j].level) <= stack'[j].i
             /\ j # 1 => stack'[j].i < Entries
  <2>1. CASE j = 1
    <3>1. get_index(a.start, a.level) <= a.i
      BY <1>3
    <3> QED
      BY <1>5, <2>1, <3>1
  <2>2. CASE j # 1
    <3>1. j - 1 \in DOMAIN stack /\ stack'[j] = stack[j - 1]
      BY <1>5, <1>7, <2>2
    <3>2. stack[j - 1].i < Entries
      <4>1. CASE j - 1 = 1
        BY <1>1, <4>1 DEF act
      <4>2. CASE j - 1 # 1
        BY <3>1, <4>2 DEF IInv, StackInv
      <4> QED
        BY <4>1, <4>2
    <3> QED
      BY <2>2, <3>1, <3>2 DEF IInv, StackInv
  <2> QED
    BY <2>1, <2>2
<1>9. 1 \in DOMAIN stack' /\ stack' # <<>>
  BY <1>5, <1>6
<1> QED
  BY <1>3, <1>5, <1>7, <1>8, <1>9 DEF StackStep

\* The activations of stack' are at the levels of their tables.
StackLevels(lev) == \A j \in DOMAIN stack' : lev[stack'[j].table] = stack'[j].level

\* A step of the walk that leaves the tables alone.
LEMMA WalkKeeps ==
  ASSUME IInv, pc = "walk", pc' = pc,
         UNCHANGED <<regions, pmap, pas, all_pages, tables, cr3, r, pa>>,
         StackStep(DOMAIN tables), stack' # <<>>,
         \A lev \in [DOMAIN tables -> 0 .. Levels - 1] : Levelled(lev) => StackLevels(lev)
  PROVE  IInv'
<1>1. TypeOK'
  <2>1. stack' \in Seq(Walks(DOMAIN tables))
    BY DEF StackStep
  <2> QED
    BY <2>1 DEF IInv, TypeOK, Walks
<1>2. StackInv'
  BY DEF StackStep, StackInv, get_index
<1>3. WalkInv'
  BY DEF IInv, WalkInv
<1>4. LevelInv'
  <2>1. PICK lev \in [DOMAIN tables -> 0 .. Levels - 1] : Levelled(lev)
    BY DEF IInv, LevelInv
  <2>2. StackLevels(lev)
    BY <2>1
  <2>3. Levelled(lev)'
    BY <2>1, <2>2 DEF Levelled, TableLevels, Present, StackLevels
  <2> QED
    BY <2>3 DEF LevelInv
<1>5. TreeInv'
  BY DEF IInv, TreeInv, Leads, Present
<1> QED
  BY <1>1, <1>2, <1>3, <1>4, <1>5 DEF IInv

\* A walk that takes physical page 0 for a table.
LEMMA WildKeeps ==
  ASSUME IInv, pc' = "wild",
         UNCHANGED <<regions, pmap, pas, all_pages, tables, cr3, r, pa, stack>>
  PROVE  IInv'
<1>1. TypeOK'
  BY DEF IInv, TypeOK, Final
<1>2. WalkInv'
  BY DEF IInv, WalkInv
<1> QED
  BY <1>1, <1>2, SameTables DEF IInv

\* A present entry above the leaves leads to a table one level down, or to page 0.
LEMMA EntryLevel ==
  ASSUME IInv, pc = "walk", InRange(act), "P" \in entry.bits, act.level # 0, entry.to # 0,
         NEW lev \in [DOMAIN tables -> 0 .. Levels - 1], Levelled(lev)
  PROVE  /\ entry.to \in DOMAIN tables /\ lev[entry.to] = act.level - 1
         /\ lev[act.table] = act.level /\ Present(act.table, act.i)
<1>1. /\ act.table \in DOMAIN tables /\ act.i \in 0 .. Entries - 1
      /\ act.level \in 0 .. Levels - 1 /\ entry = tables[act.table][act.i]
  BY EntryFacts
<1>2. 1 \in DOMAIN stack /\ act = stack[1]
  BY ActFacts DEF IInv
<1>3. lev[act.table] = act.level
  BY <1>2 DEF Levelled
<1>4. Present(act.table, act.i)
  BY <1>1 DEF Present
<1> HIDE DEF act
<1> QED
  BY <1>1, <1>3, <1>4 DEF Levelled, TableLevels

LEMMA WalkEntryStep ==
  ASSUME IInv, WalkEntry
  PROVE  IInv'
<1>1. /\ pc = "walk" /\ InRange(act) /\ "P" \in entry.bits
      /\ UNCHANGED <<regions, pmap, pas, all_pages, tables, cr3, r, pa>>
  BY DEF WalkEntry, Iterating, x86_64_how_map
<1>2. /\ act.table \in DOMAIN tables /\ act.i \in 0 .. Entries - 1 /\ act.i < Entries
      /\ act.level \in 0 .. Levels - 1 /\ entry = tables[act.table][act.i]
  BY <1>1, EntryFacts
<1>3. stack \in Seq(Walks(DOMAIN tables)) /\ stack # <<>> /\ 1 \in DOMAIN stack /\ act = stack[1]
  BY <1>1, ActFacts DEF IInv
<1>4. CASE act.level = 0
  <2>1. pc' = pc /\ stack' = Advanced(stack)
    BY <1>4 DEF WalkEntry
  <2>2. /\ StackStep(DOMAIN tables) /\ stack' # <<>> /\ DOMAIN stack' = DOMAIN stack
        /\ \A j \in DOMAIN stack :
             stack'[j].table = stack[j].table /\ stack'[j].level = stack[j].level
    <3>1. stack[1].i < Entries
      BY <1>2, <1>3
    <3>2. \A j \in DOMAIN stack : /\ get_index(stack[j].start, stack[j].level) <= stack[j].i
                                  /\ j # 1 => stack[j].i < Entries
      BY DEF IInv, StackInv
    <3> QED
      BY <1>3, <2>1, <3>1, <3>2, AdvanceKeeps
  <2>3. ASSUME NEW lev \in [DOMAIN tables -> 0 .. Levels - 1], Levelled(lev)
        PROVE  StackLevels(lev)
    BY <2>2, <2>3 DEF Levelled, TableLevels, StackLevels
  <2> QED
    BY <1>1, <2>1, <2>2, <2>3, WalkKeeps
<1>5. CASE act.level # 0 /\ entry.to = 0
  <2>1. pc' = "wild" /\ stack' = stack
    BY <1>5 DEF WalkEntry, Descend
  <2> QED
    BY <1>1, <2>1, WildKeeps
<1>6. CASE act.level # 0 /\ entry.to # 0
  <2>1. pc' = pc /\ stack' = <<Activation(entry.to, act.level - 1, curr_va(act))>> \o stack
    BY <1>6 DEF WalkEntry, Descend
  <2>2. ASSUME NEW lev \in [DOMAIN tables -> 0 .. Levels - 1], Levelled(lev)
        PROVE  entry.to \in DOMAIN tables /\ lev[entry.to] = act.level - 1
    BY <1>1, <1>6, <2>2, EntryLevel
  <2>3. entry.to \in DOMAIN tables
    <3>1. PICK lev \in [DOMAIN tables -> 0 .. Levels - 1] : Levelled(lev)
      BY DEF IInv, LevelInv
    <3> QED
      BY <2>2, <3>1
  <2>4. /\ StackStep(DOMAIN tables) /\ stack' # <<>> /\ 1 \in DOMAIN stack'
        /\ stack'[1].table = entry.to /\ stack'[1].level = act.level - 1
        /\ \A j \in DOMAIN stack' : j # 1 => j - 1 \in DOMAIN stack /\ stack'[j] = stack[j - 1]
    BY <1>1, <1>6, <2>1, <2>3, DescendKeeps, Zenon
  <2>5. ASSUME NEW lev \in [DOMAIN tables -> 0 .. Levels - 1], Levelled(lev)
        PROVE  StackLevels(lev)
    BY <2>2, <2>4, <2>5 DEF Levelled, TableLevels, StackLevels
  <2> QED
    BY <1>1, <2>1, <2>4, <2>5, WalkKeeps
<1> QED
  BY <1>4, <1>5, <1>6

LEMMA LeaveStep ==
  ASSUME IInv, Leave
  PROVE  IInv'
<1>1. pc = "walk" /\ UNCHANGED <<regions, pmap, pas, all_pages, tables, cr3, r, pa>>
  BY DEF Leave
<1>2. stack \in Seq(Walks(DOMAIN tables)) /\ stack # <<>> /\ 1 \in DOMAIN stack
  BY <1>1, ActFacts DEF IInv
<1>3. CASE Len(stack) = 1
  <2>1. pc' = "merge" /\ stack' = <<>>
    BY <1>3 DEF Leave
  <2>2. TypeOK'
    BY <1>1, <2>1 DEF IInv, TypeOK
  <2>3. StackInv' /\ WalkInv'
    BY <1>1, <2>1 DEF IInv, StackInv, WalkInv
  <2>4. LevelInv'
    <3>1. PICK lev \in [DOMAIN tables -> 0 .. Levels - 1] : Levelled(lev)
      BY DEF IInv, LevelInv
    <3>2. Levelled(lev)'
      BY <1>1, <2>1, <3>1 DEF Levelled, TableLevels, Present
    <3> QED
      BY <1>1, <3>2 DEF LevelInv
  <2>5. TreeInv'
    BY <1>1 DEF IInv, TreeInv, Leads, Present
  <2> QED
    BY <2>2, <2>3, <2>4, <2>5 DEF IInv
<1>4. CASE Len(stack) # 1
  <2> DEFINE s == Tail(stack)
  <2>1. pc' = pc /\ stack' = Advanced(s)
    BY <1>4 DEF Leave
  <2>2. IsPopped(Walks(DOMAIN tables), s, stack)
    BY <1>2, <1>4, PoppedStack
  <2> HIDE DEF s
  <2>3. \A j \in DOMAIN s : get_index(s[j].start, s[j].level) <= s[j].i /\ s[j].i < Entries
    BY <2>2 DEF IInv, StackInv, IsPopped
  <2>4. /\ StackStep(DOMAIN tables) /\ stack' # <<>> /\ DOMAIN stack' = DOMAIN s
        /\ \A j \in DOMAIN s : stack'[j].table = s[j].table /\ stack'[j].level = s[j].level
    <3>1. s \in Seq(Walks(DOMAIN tables)) /\ s # <<>> /\ 1 \in DOMAIN s
      BY <2>2 DEF IsPopped
    <3> QED
      BY <2>1, <2>3, <3>1, AdvanceKeeps
  <2>5. ASSUME NEW lev \in [DOMAIN tables -> 0 .. Levels - 1], Levelled(lev)
        PROVE  StackLevels(lev)
    <3>1. \A j \in DOMAIN s : j + 1 \in DOMAIN stack /\ s[j] = stack[j + 1]
      BY <2>2 DEF IsPopped
    <3>2. \A j \in DOMAIN s : lev[s[j].table] = s[j].level
      BY <2>5, <3>1 DEF Levelled, TableLevels
    <3> QED
      BY <2>4, <3>2 DEF StackLevels
  <2> QED
    BY <1>1, <2>1, <2>4, <2>5, WalkKeeps
<1> QED
  BY <1>3, <1>4

\* The mapper fills an entry that leads nowhere: with a frame at a leaf, with NULL above.
LEMMA FillKeeps ==
  ASSUME IInv, pc = "walk", InRange(act), "P" \notin entry.bits,
         NEW e \in Entry, tables' = [tables EXCEPT ![act.table][act.i] = e], cr3' = cr3,
         (act.level = 0 /\ e.to \in Frame) \/ (act.level # 0 /\ e.to = 0)
  PROVE  /\ tables' \in Seq(Table) /\ Len(tables') = Len(tables) /\ DOMAIN tables' = DOMAIN tables
         /\ IsSet(tables', tables, act.table, act.i, e)
         /\ \A lev : Levelled(lev) => TableLevels(lev)'
         /\ TreeInv'
<1> DEFINE t == act.table
           x == act.i
<1>1. t \in DOMAIN tables /\ x \in 0 .. Entries - 1 /\ entry = tables[t][x]
  BY EntryFacts
<1>2. tables \in Seq(Table) /\ DOMAIN tables \subseteq Nat \ {0} /\ cr3 \in DOMAIN tables
  <2>1. tables \in Seq(Table) /\ cr3 \in 0 .. Len(tables) /\ cr3 # 0
    BY ActFacts DEF IInv, TypeOK, Table
  <2> QED
    BY <2>1
<1>3. 1 \in DOMAIN stack /\ act = stack[1]
  BY ActFacts DEF IInv
<1>4. ASSUME NEW lev, Levelled(lev) PROVE lev[t] = act.level
  BY <1>3, <1>4 DEF Levelled
<1>5. tables' = [tables EXCEPT ![t][x] = e]
  OBVIOUS
<1>6. (act.level = 0 /\ e.to \in Frame) \/ (act.level # 0 /\ e.to = 0)
  OBVIOUS
<1> HIDE DEF t, x, act
<1>0. IsSet(tables', tables, t, x, e)
  <2>1. IsSet([tables EXCEPT ![t][x] = e], tables, t, x, e)
    BY <1>1, <1>2, SetEntry
  <2> QED
    BY <1>5, <2>1, Zenon
<1>7. /\ tables' \in Seq(Table) /\ Len(tables') = Len(tables) /\ DOMAIN tables' = DOMAIN tables
      /\ \A k \in DOMAIN tables, j \in 0 .. Entries - 1 :
           tables'[k][j] = IF k = t /\ j = x THEN e ELSE tables[k][j]
  BY <1>0 DEF IsSet
<1>8. \A m, n \in DOMAIN tables, i \in 0 .. Entries - 1 : Leads(n, i, m)' <=> Leads(n, i, m)
  <2> SUFFICES ASSUME NEW m \in DOMAIN tables, NEW n \in DOMAIN tables, NEW i \in 0 .. Entries - 1
               PROVE  Leads(n, i, m)' <=> Leads(n, i, m)
    OBVIOUS
  <2>1. e.to # m
    BY <1>2, <1>6, FrameAssumption
  <2>2. ~Leads(t, x, m)
    BY <1>1 DEF Leads, Present
  <2> QED
    BY <1>7, <2>1, <2>2 DEF Leads, Present
<1>9. TreeInv'
  BY <1>2, <1>7, <1>8 DEF IInv, TreeInv
<1>10. ASSUME NEW lev, Levelled(lev) PROVE TableLevels(lev)'
  <2>1. lev[cr3'] = Levels - 1
    BY <1>2, <1>10 DEF Levelled, TableLevels
  <2>2. ASSUME NEW n \in DOMAIN tables, NEW i \in 0 .. Entries - 1, Present(n, i)'
        PROVE  \/ lev[n] = 0 /\ tables'[n][i].to \in Frame
               \/ lev[n] # 0 /\ tables'[n][i].to = 0
               \/ /\ lev[n] # 0 /\ tables'[n][i].to \in DOMAIN tables
                  /\ lev[tables'[n][i].to] = lev[n] - 1
    <3>1. CASE n = t /\ i = x
      <4>1. tables'[n][i] = e
        BY <1>7, <3>1
      <4> QED
        BY <1>4, <1>6, <1>10, <3>1, <4>1
    <3>2. CASE ~(n = t /\ i = x)
      <4>1. tables'[n][i] = tables[n][i]
        BY <1>7, <3>2
      <4>2. Present(n, i)
        BY <2>2, <4>1 DEF Present
      <4> QED
        BY <1>10, <4>1, <4>2 DEF Levelled, TableLevels
    <3> QED
      BY <3>1, <3>2
  <2> QED
    BY <1>7, <2>1, <2>2 DEF TableLevels
<1>11. IsSet(tables', tables, act.table, act.i, e)
  BY <1>0 DEF t, x
<1> QED
  BY <1>7, <1>9, <1>10, <1>11

\* An iteration of the mapper is at an entry that leads nowhere.
LEMMA MapFacts ==
  ASSUME IInv, Iterating("MAP"), pa <= Len(pas[r])
  PROVE  /\ pc = "walk" /\ InRange(act) /\ "P" \notin entry.bits
         /\ pas[r][pa] \in Frame
<1>1. pc = "walk" /\ InRange(act) /\ "P" \notin entry.bits
  BY DEF Iterating, x86_64_how_map
<1>2. r \in DOMAIN regions /\ pas \in [DOMAIN regions -> Seq(Frame)] /\ pa \in Nat \ {0}
  BY <1>1 DEF IInv, WalkInv, TypeOK
<1>3. pas[r] \in Seq(Frame)
  BY <1>2
<1>4. pa \in 1 .. Len(pas[r])
  BY <1>2, <1>3
<1> QED
  BY <1>1, <1>3, <1>4

LEMMA MapPageStep ==
  ASSUME IInv, MapPage
  PROVE  IInv'
<1> DEFINE e == [to |-> pas[r][pa], bits |-> translate_flags(regions[r].flags)]
<1>1. /\ Iterating("MAP") /\ act.level = 0 /\ pa <= Len(pas[r]) /\ pa' = pa + 1
      /\ tables' = [tables EXCEPT ![act.table][act.i] = e] /\ stack' = Advanced(stack)
      /\ UNCHANGED <<regions, pmap, pas, all_pages, cr3, pc, r>>
  BY DEF MapPage
<1>2. pc = "walk" /\ InRange(act) /\ "P" \notin entry.bits /\ pas[r][pa] \in Frame
  BY <1>1, MapFacts
<1>3. e \in Entry /\ e.to \in Frame
  BY <1>2 DEF Entry, translate_flags
<1> HIDE DEF e
<1>4. /\ tables' \in Seq(Table) /\ Len(tables') = Len(tables) /\ DOMAIN tables' = DOMAIN tables
      /\ \A lev : Levelled(lev) => TableLevels(lev)'
      /\ TreeInv'
  BY <1>1, <1>2, <1>3, FillKeeps, Zenon
<1>5. /\ StackStep(DOMAIN tables) /\ stack' # <<>> /\ DOMAIN stack' = DOMAIN stack
      /\ \A j \in DOMAIN stack :
           stack'[j].table = stack[j].table /\ stack'[j].level = stack[j].level
  <2>1. stack \in Seq(Walks(DOMAIN tables)) /\ stack # <<>> /\ act = stack[1]
    BY <1>2, ActFacts DEF IInv
  <2>2. stack[1].i < Entries
    BY <1>2, <2>1, EntryFacts
  <2>3. \A j \in DOMAIN stack : /\ get_index(stack[j].start, stack[j].level) <= stack[j].i
                                /\ j # 1 => stack[j].i < Entries
    BY DEF IInv, StackInv
  <2> QED
    BY <1>1, <2>1, <2>2, <2>3, AdvanceKeeps
<1>6. TypeOK'
  <2>1. stack' \in Seq(Walks(DOMAIN tables'))
    BY <1>4, <1>5 DEF StackStep
  <2>2. pa' \in Nat \ {0}
    BY <1>1 DEF IInv, TypeOK
  <2>3. cr3' \in 0 .. Len(tables')
    BY <1>1, <1>4 DEF IInv, TypeOK
  <2> QED
    BY <1>1, <1>4, <2>1, <2>2, <2>3 DEF IInv, TypeOK, Walks, Table
<1>7. StackInv'
  BY <1>5 DEF StackStep, StackInv, get_index
<1>8. WalkInv'
  <2>1. tables # <<>> /\ tables' # <<>>
    BY <1>2, <1>4 DEF IInv, WalkInv, TypeOK
  <2> QED
    BY <1>1, <1>2, <1>5, <2>1 DEF IInv, WalkInv
<1>9. LevelInv'
  <2>1. PICK lev \in [DOMAIN tables -> 0 .. Levels - 1] : Levelled(lev)
    BY DEF IInv, LevelInv
  <2>2. Levelled(lev)'
    <3>1. TableLevels(lev)'
      BY <1>4, <2>1
    <3>2. \A j \in DOMAIN stack' : lev[stack'[j].table] = stack'[j].level
      BY <1>5, <2>1 DEF Levelled
    <3> QED
      BY <3>1, <3>2 DEF Levelled
  <2> QED
    BY <1>4, <2>2 DEF LevelInv
<1> QED
  BY <1>4, <1>6, <1>7, <1>8, <1>9 DEF IInv

\* us is ts with one entry set to the position behind ts, where an empty table is.
IsGrown(us, ts, n, i, e) ==
  /\ us \in Seq(Table) /\ Len(us) = Len(ts) + 1 /\ DOMAIN us = DOMAIN ts \cup {Len(ts) + 1}
  /\ Len(ts) + 1 \notin DOMAIN ts
  /\ \A k \in DOMAIN ts, j \in 0 .. Entries - 1 :
       us[k][j] = IF k = n /\ j = i THEN e ELSE ts[k][j]
  /\ \A j \in 0 .. Entries - 1 : us[Len(ts) + 1][j].bits = {}

LEMMA GrowTables ==
  ASSUME NEW ts \in Seq(Table), NEW n \in DOMAIN ts, NEW i \in 0 .. Entries - 1, NEW e \in Entry
  PROVE  IsGrown(Append([ts EXCEPT ![n][i] = e], Empty), ts, n, i, e)
<1> DEFINE us == [ts EXCEPT ![n][i] = e]
<1>1. IsSet(us, ts, n, i, e)
  BY SetEntry
<1> HIDE DEF us
<1>2. Empty \in Table /\ \A j \in 0 .. Entries - 1 : Empty[j].bits = {}
  BY DEF Empty, Table, Entry
<1>3. us \in Seq(Table) /\ Len(us) = Len(ts) /\ DOMAIN us = DOMAIN ts
  BY <1>1 DEF IsSet
<1>4. Len(ts) \in Nat /\ DOMAIN ts = 1 .. Len(ts)
  OBVIOUS
<1>5. /\ Append(us, Empty) \in Seq(Table) /\ Len(Append(us, Empty)) = Len(ts) + 1
      /\ \A k \in DOMAIN ts : Append(us, Empty)[k] = us[k]
      /\ Append(us, Empty)[Len(ts) + 1] = Empty
  BY <1>2, <1>3, <1>4
<1>6. /\ DOMAIN Append(us, Empty) = DOMAIN ts \cup {Len(ts) + 1}
      /\ Len(ts) + 1 \notin DOMAIN ts
  <2>1. DOMAIN Append(us, Empty) = 1 .. Len(ts) + 1
    BY <1>5
  <2> QED
    BY <1>4, <2>1
<1>7. \A k \in DOMAIN ts, j \in 0 .. Entries - 1 :
        Append(us, Empty)[k][j] = IF k = n /\ j = i THEN e ELSE ts[k][j]
  BY <1>1, <1>5 DEF IsSet
<1>8. IsGrown(Append(us, Empty), ts, n, i, e)
  BY <1>2, <1>5, <1>6, <1>7, Zenon DEF IsGrown
<1> QED
  BY <1>8 DEF us

\* A new table: it is empty, and the entry that leads to it is the only one.
LEMMA GrowKeeps ==
  ASSUME IInv, pc = "walk", InRange(act), "P" \notin entry.bits, act.level # 0, cr3' = cr3,
         NEW e \in Entry, e.to = Len(tables) + 1, "P" \in e.bits,
         tables' = Append([tables EXCEPT ![act.table][act.i] = e], Empty)
  PROVE  /\ IsGrown(tables', tables, act.table, act.i, e)
         /\ \A lev \in [DOMAIN tables -> 0 .. Levels - 1] : Levelled(lev) =>
              \E lew \in [DOMAIN tables' -> 0 .. Levels - 1] :
                /\ TableLevels(lew)' /\ lew[e.to] = act.level - 1
                /\ \A n \in DOMAIN tables : lew[n] = lev[n]
         /\ TreeInv'
<1> DEFINE t == act.table
           x == act.i
<1>0. PICK new : new = Len(tables) + 1
  OBVIOUS
<1>1. /\ t \in DOMAIN tables /\ x \in 0 .. Entries - 1 /\ entry = tables[t][x]
      /\ act.level \in 0 .. Levels - 1
  BY EntryFacts
<1>2. tables \in Seq(Table) /\ cr3 \in DOMAIN tables
  <2>1. tables \in Seq(Table) /\ cr3 \in 0 .. Len(tables) /\ cr3 # 0
    BY ActFacts DEF IInv, TypeOK, Table
  <2> QED
    BY <2>1
<1>3. 1 \in DOMAIN stack /\ act = stack[1]
  BY ActFacts DEF IInv
<1>4. ASSUME NEW lev, Levelled(lev) PROVE lev[t] = act.level
  BY <1>3, <1>4 DEF Levelled
<1>5. tables' = Append([tables EXCEPT ![t][x] = e], Empty) /\ act.level # 0
  OBVIOUS
<1> HIDE DEF t, x, act
<1>6. IsGrown(tables', tables, t, x, e)
  <2>1. IsGrown(Append([tables EXCEPT ![t][x] = e], Empty), tables, t, x, e)
    BY <1>1, <1>2, GrowTables
  <2> QED
    BY <1>5, <2>1, Zenon
<1>7. /\ DOMAIN tables' = DOMAIN tables \cup {new} /\ new \notin DOMAIN tables
      /\ \A k \in DOMAIN tables, j \in 0 .. Entries - 1 :
           tables'[k][j] = IF k = t /\ j = x THEN e ELSE tables[k][j]
      /\ \A j \in 0 .. Entries - 1 : tables'[new][j].bits = {}
      /\ e.to = new /\ "P" \in e.bits
  BY <1>0, <1>6 DEF IsGrown
<1>8. \A j \in 0 .. Entries - 1 : ~Present(new, j)'
  BY <1>7 DEF Present
<1>9. ASSUME NEW lev \in [DOMAIN tables -> 0 .. Levels - 1], Levelled(lev)
      PROVE  /\ \A n \in DOMAIN tables, i \in 0 .. Entries - 1 : ~Leads(n, i, new)
             /\ \E lew \in [DOMAIN tables' -> 0 .. Levels - 1] :
                  /\ TableLevels(lew)' /\ lew[e.to] = act.level - 1
                  /\ \A n \in DOMAIN tables : lew[n] = lev[n]
  <2>1. \A n \in DOMAIN tables, i \in 0 .. Entries - 1 : ~Leads(n, i, new)
    <3>1. new \notin Frame /\ new # 0
      <4>1. new \in Nat \ {0}
        BY <1>0, <1>2
      <4> QED
        BY <4>1, FrameAssumption
    <3> QED
      BY <1>7, <1>9, <3>1 DEF Levelled, TableLevels, Leads
  <2>2. act.level - 1 \in 0 .. Levels - 1
    BY <1>1, <1>5, ShapeAssumption
  <2>3. PICK lew \in [DOMAIN tables' -> 0 .. Levels - 1] :
          lew[new] = act.level - 1 /\ \A n \in DOMAIN tables : lew[n] = lev[n]
    <3> DEFINE f == [n \in DOMAIN tables' |-> IF n = new THEN act.level - 1 ELSE lev[n]]
    <3>1. /\ f \in [DOMAIN tables' -> 0 .. Levels - 1] /\ f[new] = act.level - 1
          /\ \A n \in DOMAIN tables : f[n] = lev[n]
      BY <1>7, <2>2
    <3> QED
      BY <3>1
  <2>4. lew[cr3'] = Levels - 1
    BY <1>2, <1>9, <2>3 DEF Levelled, TableLevels
  <2>5. ASSUME NEW n \in DOMAIN tables', NEW i \in 0 .. Entries - 1, Present(n, i)'
        PROVE  \/ lew[n] = 0 /\ tables'[n][i].to \in Frame
               \/ lew[n] # 0 /\ tables'[n][i].to = 0
               \/ /\ lew[n] # 0 /\ tables'[n][i].to \in DOMAIN tables'
                  /\ lew[tables'[n][i].to] = lew[n] - 1
    <3>1. n \in DOMAIN tables
      BY <1>7, <1>8, <2>5
    <3>2. CASE n = t /\ i = x
      <4>1. tables'[n][i].to = new /\ new \in DOMAIN tables'
        BY <1>7, <3>1, <3>2
      <4>2. lew[n] = act.level
        BY <1>4, <1>9, <2>3, <3>1, <3>2
      <4> QED
        BY <1>5, <2>3, <4>1, <4>2
    <3>3. CASE ~(n = t /\ i = x)
      <4>1. tables'[n][i] = tables[n][i]
        BY <1>7, <3>1, <3>3
      <4>2. Present(n, i)
        BY <2>5, <4>1 DEF Present
      <4>3. \/ lev[n] = 0 /\ tables[n][i].to \in Frame
            \/ lev[n] # 0 /\ tables[n][i].to = 0
            \/ /\ lev[n] # 0 /\ tables[n][i].to \in DOMAIN tables
               /\ lev[tables[n][i].to] = lev[n] - 1
        BY <1>9, <3>1, <4>2 DEF Levelled, TableLevels
      <4> QED
        BY <1>7, <2>3, <3>1, <4>1, <4>3
    <3> QED
      BY <3>2, <3>3
  <2>6. TableLevels(lew)'
    BY <2>4, <2>5 DEF TableLevels
  <2> QED
    BY <1>7, <2>1, <2>3, <2>6
<1>10. TreeInv'
  <2>1. PICK lev \in [DOMAIN tables -> 0 .. Levels - 1] : Levelled(lev)
    BY DEF IInv, LevelInv
  <2>2. \A n \in DOMAIN tables, i \in 0 .. Entries - 1 : ~Leads(n, i, new)
    BY <1>9, <2>1
  <2>3. \A n \in DOMAIN tables, i \in 0 .. Entries - 1 :
          Leads(n, i, new)' <=> n = t /\ i = x
    <3> SUFFICES ASSUME NEW n \in DOMAIN tables, NEW i \in 0 .. Entries - 1
                 PROVE  Leads(n, i, new)' <=> n = t /\ i = x
      OBVIOUS
    <3>1. CASE n = t /\ i = x
      BY <1>7, <3>1 DEF Leads, Present
    <3>2. CASE ~(n = t /\ i = x)
      <4>1. tables'[n][i] = tables[n][i]
        BY <1>7, <3>2
      <4> QED
        BY <2>2, <3>2, <4>1 DEF Leads, Present
    <3> QED
      BY <3>1, <3>2
  <2>4. \A m, n \in DOMAIN tables, i \in 0 .. Entries - 1 : Leads(n, i, m)' <=> Leads(n, i, m)
    <3> SUFFICES ASSUME NEW m \in DOMAIN tables, NEW n \in DOMAIN tables,
                        NEW i \in 0 .. Entries - 1
                 PROVE  Leads(n, i, m)' <=> Leads(n, i, m)
      OBVIOUS
    <3>1. e.to # m
      BY <1>7
    <3>2. ~Leads(t, x, m)
      BY <1>1 DEF Leads, Present
    <3>3. CASE n = t /\ i = x
      <4>1. tables'[n][i] = e
        BY <1>7, <3>3
      <4> QED
        BY <3>1, <3>2, <3>3, <4>1 DEF Leads
    <3>4. CASE ~(n = t /\ i = x)
      <4>1. tables'[n][i] = tables[n][i]
        BY <1>7, <3>4
      <4> QED
        BY <4>1 DEF Leads, Present
    <3> QED
      BY <3>3, <3>4
  <2>5. \A m, i : i \in 0 .. Entries - 1 => ~Leads(new, i, m)'
    BY <1>8 DEF Leads
  <2>6. \A n \in DOMAIN tables', i \in 0 .. Entries - 1 : ~Leads(n, i, cr3)'
    BY <1>2, <1>7, <2>4, <2>5 DEF IInv, TreeInv
  <2>7. ASSUME NEW m \in DOMAIN tables', m # cr3
        PROVE  \E n \in DOMAIN tables', i \in 0 .. Entries - 1 : Leads(n, i, m)'
    <3>1. CASE m = new
      BY <1>1, <1>7, <2>3, <3>1
    <3>2. CASE m \in DOMAIN tables
      BY <1>7, <2>4, <2>7, <3>2 DEF IInv, TreeInv
    <3> QED
      BY <1>7, <3>1, <3>2
  <2>8. \A m, n, k \in DOMAIN tables', i, j \in 0 .. Entries - 1 :
          Leads(n, i, m)' /\ Leads(k, j, m)' => n = k /\ i = j
    <3> SUFFICES ASSUME NEW m \in DOMAIN tables', NEW n \in DOMAIN tables',
                        NEW k \in DOMAIN tables', NEW i \in 0 .. Entries - 1,
                        NEW j \in 0 .. Entries - 1, Leads(n, i, m)', Leads(k, j, m)'
                 PROVE  n = k /\ i = j
      OBVIOUS
    <3>1. n \in DOMAIN tables /\ k \in DOMAIN tables
      <4>1. n # new /\ k # new
        BY <2>5, Zenon
      <4>2. DOMAIN tables' = DOMAIN tables \cup {new}
        BY <1>7
      <4> QED
        BY <4>1, <4>2, Zenon
    <3>2. CASE m = new
      BY <2>3, <3>1, <3>2
    <3>3. CASE m \in DOMAIN tables
      BY <2>4, <3>1, <3>3 DEF IInv, TreeInv
    <3> QED
      BY <1>7, <3>2, <3>3
  <2>9. \A m \in DOMAIN tables' : m # cr3' =>
          \E n \in DOMAIN tables', i \in 0 .. Entries - 1 : Leads(n, i, m)'
    BY <2>7
  <2> QED
    BY <2>6, <2>8, <2>9 DEF TreeInv
<1>11. IsGrown(tables', tables, act.table, act.i, e)
  BY <1>6 DEF t, x
<1> QED
  BY <1>9, <1>10, <1>11

LEMMA MapTableStep ==
  ASSUME IInv, MapTable
  PROVE  IInv'
<1>1. PICK new \in {0, Len(tables) + 1} :
        /\ Iterating("MAP") /\ act.level > 0 /\ pa <= Len(pas[r])
        /\ allocate([tables EXCEPT ![act.table][act.i] =
                       [to |-> new, bits |-> intermed_flags]], new)
        /\ Descend(new)
        /\ UNCHANGED <<regions, pmap, pas, all_pages, cr3, r, pa>>
  BY DEF MapTable
<1> DEFINE e == [to |-> new, bits |-> intermed_flags]
           ts == [tables EXCEPT ![act.table][act.i] = e]
<1>2. pc = "walk" /\ InRange(act) /\ "P" \notin entry.bits
  BY <1>1, MapFacts
<1>3. /\ tables \in Seq(Table) /\ Len(tables) \in Nat /\ DOMAIN tables = 1 .. Len(tables)
      /\ tables # <<>> /\ cr3 \in DOMAIN tables
  <2>1. tables \in Seq(Table) /\ cr3 \in 0 .. Len(tables) /\ cr3 # 0
    BY <1>2, ActFacts DEF IInv, TypeOK, Table
  <2> QED
    BY <2>1
<1>4. e \in Entry /\ e.to = new /\ "P" \in e.bits
  BY <1>3 DEF Entry, intermed_flags, Bits
<1>5. /\ act.table \in DOMAIN tables /\ act.i \in 0 .. Entries - 1
      /\ act.level \in 0 .. Levels - 1 /\ act.level # 0
  BY <1>1, <1>2, EntryFacts
<1>6. IsSet(ts, tables, act.table, act.i, e)
  <2> HIDE DEF e, act
  <2> QED
    BY <1>3, <1>4, <1>5, SetEntry
<1>7. Len(ts) = Len(tables)
  <2> HIDE DEF ts
  <2> QED
    BY <1>6 DEF IsSet
<1>8. (new = Len(ts) + 1 /\ tables' = Append(ts, Empty)) \/ (new = 0 /\ tables' = ts)
  BY <1>1 DEF allocate
<1> HIDE DEF e
<1>9. CASE new = 0
  <2>1. pc' = "wild" /\ stack' = stack /\ tables' = ts
    BY <1>1, <1>3, <1>7, <1>8, <1>9 DEF Descend
  <2>2. /\ tables' \in Seq(Table) /\ Len(tables') = Len(tables) /\ DOMAIN tables' = DOMAIN tables
        /\ \A lev : Levelled(lev) => TableLevels(lev)'
        /\ TreeInv'
    BY <1>1, <1>2, <1>4, <1>5, <1>9, <2>1, FillKeeps
  <2> HIDE DEF ts
  <2>3. TypeOK'
    BY <1>1, <2>1, <2>2 DEF IInv, TypeOK, Table, Final
  <2>4. StackInv'
    BY <2>1 DEF IInv, StackInv, get_index
  <2>5. tables' # <<>>
    BY <1>3, <2>2
  <2>6. WalkInv'
    BY <1>1, <1>3, <2>1, <2>5 DEF IInv, WalkInv
  <2>7. LevelInv'
    <3>1. PICK lev \in [DOMAIN tables -> 0 .. Levels - 1] : Levelled(lev)
      BY DEF IInv, LevelInv
    <3>2. Levelled(lev)'
      BY <2>1, <2>2, <3>1 DEF Levelled
    <3> QED
      BY <2>2, <3>2 DEF LevelInv
  <2> QED
    BY <2>2, <2>3, <2>4, <2>6, <2>7 DEF IInv
<1>10. CASE new = Len(tables) + 1
  <2>1. /\ pc' = pc /\ tables' = Append(ts, Empty)
        /\ stack' = <<Activation(new, act.level - 1, curr_va(act))>> \o stack
    <3>1. new # 0
      BY <1>3, <1>10
    <3>2. tables' = Append(ts, Empty)
      BY <1>8, <3>1
    <3> HIDE DEF ts
    <3> QED
      BY <1>1, <3>1, <3>2 DEF Descend
  <2>2. /\ IsGrown(tables', tables, act.table, act.i, e)
        /\ \A lev \in [DOMAIN tables -> 0 .. Levels - 1] : Levelled(lev) =>
             \E lew \in [DOMAIN tables' -> 0 .. Levels - 1] :
               /\ TableLevels(lew)' /\ lew[e.to] = act.level - 1
               /\ \A n \in DOMAIN tables : lew[n] = lev[n]
        /\ TreeInv'
    BY <1>1, <1>2, <1>4, <1>5, <1>10, <2>1, GrowKeeps, Zenon
  <2> HIDE DEF ts
  <2>3. /\ tables' \in Seq(Table) /\ Len(tables') = Len(tables) + 1
        /\ DOMAIN tables' = DOMAIN tables \cup {new} /\ new \in DOMAIN tables'
        /\ DOMAIN tables \subseteq DOMAIN tables'
    BY <1>10, <2>2 DEF IsGrown
  <2>4. /\ StackStep(DOMAIN tables') /\ stack' # <<>> /\ 1 \in DOMAIN stack'
        /\ stack'[1].table = new /\ stack'[1].level = act.level - 1
        /\ \A j \in DOMAIN stack' : j # 1 => j - 1 \in DOMAIN stack /\ stack'[j] = stack[j - 1]
    BY <1>2, <1>5, <2>1, <2>3, DescendKeeps, Zenon
  <2>5. TypeOK'
    <3>1. stack' \in Seq(Walks(DOMAIN tables'))
      BY <2>4 DEF StackStep
    <3>2. cr3' \in 0 .. Len(tables')
      BY <1>1, <1>3, <2>3
    <3> QED
      BY <1>1, <2>1, <2>3, <3>1, <3>2 DEF IInv, TypeOK, Walks, Table
  <2>6. StackInv'
    BY <2>4 DEF StackStep, StackInv, get_index
  <2>7. WalkInv'
    <3>1. tables' # <<>>
      BY <1>3, <2>3
    <3> QED
      BY <1>1, <1>2, <1>3, <2>1, <2>4, <3>1 DEF IInv, WalkInv
  <2>8. LevelInv'
    <3>1. PICK lev \in [DOMAIN tables -> 0 .. Levels - 1] : Levelled(lev)
      BY DEF IInv, LevelInv
    <3>2. PICK lew \in [DOMAIN tables' -> 0 .. Levels - 1] :
            /\ TableLevels(lew)' /\ lew[e.to] = act.level - 1
            /\ \A n \in DOMAIN tables : lew[n] = lev[n]
      BY <2>2, <3>1
    <3>3. \A j \in DOMAIN stack : /\ stack[j].table \in DOMAIN tables
                                  /\ lev[stack[j].table] = stack[j].level
      <4>1. stack \in Seq(Walks(DOMAIN tables))
        BY <1>2, ActFacts DEF IInv
      <4>2. \A j \in DOMAIN stack : stack[j].table \in DOMAIN tables
        <5>1. \A j \in DOMAIN stack : stack[j] \in Walks(DOMAIN tables)
          BY <4>1
        <5> QED
          BY <5>1 DEF Walks
      <4> QED
        BY <3>1, <4>2 DEF Levelled
    <3>4. ASSUME NEW j \in DOMAIN stack' PROVE lew[stack'[j].table] = stack'[j].level
      <4> HIDE DEF act
      <4>1. CASE j = 1
        BY <1>4, <2>4, <3>2, <4>1
      <4>2. CASE j # 1
        BY <2>4, <3>2, <3>3, <4>2
      <4> QED
        BY <4>1, <4>2
    <3>5. Levelled(lew)'
      BY <3>2, <3>4 DEF Levelled
    <3> QED
      BY <3>5 DEF LevelInv
  <2> QED
    BY <2>2, <2>5, <2>6, <2>7, <2>8 DEF IInv
<1> QED
  BY <1>9, <1>10

-----------------------------------------------------------------------------
LEMMA NextStep == IInv /\ [Next]_vars => IInv'
<1> SUFFICES ASSUME IInv, [Next]_vars PROVE IInv'
  OBVIOUS
<1>1. CASE UNCHANGED vars
  <2>1. UNCHANGED <<regions, pmap, pas, all_pages, tables, cr3, pc, r, pa, stack>>
    BY <1>1 DEF vars
  <2>2. TypeOK' /\ WalkInv'
    BY <2>1 DEF IInv, TypeOK, WalkInv
  <2> QED
    BY <2>1, <2>2, SameTables DEF IInv
<1>2. CASE Next
  BY <1>2, CollectStep, CollectedStep, AllocateRootStep, MapRegionStep, DoneStep, WalkEntryStep,
     MapPageStep, MapTableStep, LeaveStep, MergeStep, Zenon DEF Next
<1> QED
  BY <1>1, <1>2

LEMMA Invariance == Spec => []IInv
BY InitTables, NextStep, PTL DEF Spec

\* Type correctness: in particular every activation of pt_walk_page_range works on a
\* page-table page that was allocated, at an index and an address in their bounds, and
\* whatever is recorded in all_pages is a page of the process.
THEOREM TypeCorrect == Spec => []TypeOK
<1>1. IInv => TypeOK
  BY DEF IInv
<1> QED
  BY <1>1, Invariance, PTL

\* A set with exactly one element.
LEMMA OneElement ==
  ASSUME NEW S, NEW x \in S, \A y \in S : y = x
  PROVE  Cardinality(S) = 1
<1>1. S = {x}
  OBVIOUS
<1> QED
  BY <1>1, FS_Singleton

\* build_enclave_cr3 makes one tree, whatever the shape of the tables, the regions and
\* the allocations that fail: each page-table page but the root is in exactly one entry
\* of another.
THEOREM OneTree == Spec => []TablesFormATree
<1>1. ASSUME IInv PROVE TablesFormATree
  <2> DEFINE Points(n, i, m) == tables[n][i].to = m /\ "P" \in tables[n][i].bits
             refs(m) == {s \in (1 .. Len(tables)) \X (0 .. Entries - 1) : Points(s[1], s[2], m)}
  <2>1. DOMAIN tables = 1 .. Len(tables)
    BY <1>1 DEF IInv, TypeOK
  <2>2. \A n, i, m : Points(n, i, m) <=> Leads(n, i, m)
    BY DEF Leads, Present
  <2> HIDE DEF Points
  <2>3. ASSUME NEW m \in 1 .. Len(tables), m = cr3 PROVE refs(m) = {}
    <3>1. \A n \in 1 .. Len(tables), i \in 0 .. Entries - 1 : ~Points(n, i, m)
      BY <1>1, <2>1, <2>2, <2>3 DEF IInv, TreeInv
    <3> QED
      BY <3>1
  <2>4. ASSUME NEW m \in 1 .. Len(tables), m # cr3 PROVE Cardinality(refs(m)) = 1
    <3>1. PICK n \in 1 .. Len(tables), i \in 0 .. Entries - 1 : Points(n, i, m)
      BY <1>1, <2>1, <2>2, <2>4 DEF IInv, TreeInv
    <3>2. \A k \in 1 .. Len(tables), j \in 0 .. Entries - 1 : Points(k, j, m) => k = n /\ j = i
      BY <1>1, <2>1, <2>2, <3>1 DEF IInv, TreeInv
    <3>3. <<n, i>> \in refs(m)
      BY <3>1
    <3>4. \A s \in refs(m) : s = <<n, i>>
      BY <3>2
    <3> HIDE DEF refs
    <3> QED
      BY <3>3, <3>4, OneElement
  <2> QED
    BY <2>3, <2>4 DEF TablesFormATree, Points
<1> QED
  BY <1>1, Invariance, PTL

-----------------------------------------------------------------------------
\* Quotients and remainders.
LEMMA DivMod ==
  ASSUME NEW a \in Nat, NEW b \in Nat \ {0}
  PROVE  \E q \in Nat, m \in 0 .. b - 1 : q = a \div b /\ m = a % b /\ a = q * b + m
<1>1. PICK q \in Nat, m \in 0 .. b - 1 : q = a \div b /\ m = a % b /\ a = b * q + m
  OBVIOUS
<1>2. a = q * b + m
  BY <1>1
<1> QED
  BY <1>1, <1>2

\* A larger quotient makes a larger product.
LEMMA Ahead ==
  ASSUME NEW p \in Nat, NEW q \in Nat, NEW b \in Nat, p < q
  PROVE  p * b + b <= q * b
<1>1. PICK d \in Nat : q = p + 1 + d
  <2>1. q - p - 1 \in Nat /\ q = p + 1 + (q - p - 1)
    OBVIOUS
  <2> QED
    BY <2>1
<1>2. d * b \in Nat
  OBVIOUS
<1>3. q * b = p * b + b + d * b
  BY <1>1
<1> QED
  BY <1>2, <1>3

LEMMA Euclid ==
  ASSUME NEW p \in Nat, NEW q \in Nat, NEW b \in Nat, NEW s \in 0 .. b - 1, NEW t \in 0 .. b - 1,
         p * b + s = q * b + t
  PROVE  p = q /\ s = t
<1>1. p * b \in Nat /\ q * b \in Nat
  OBVIOUS
<1>2. ~(p < q)
  <2>1. p < q => p * b + b <= q * b
    BY Ahead
  <2> QED
    BY <1>1, <2>1
<1>3. ~(q < p)
  <2>1. q < p => q * b + b <= p * b
    BY Ahead
  <2> QED
    BY <1>1, <2>1
<1>4. p = q
  BY <1>2, <1>3
<1> QED
  BY <1>1, <1>4

LEMMA Quotient ==
  ASSUME NEW a \in Nat, NEW q \in Nat, NEW b \in Nat \ {0}, NEW s \in 0 .. b - 1, a = q * b + s
  PROVE  a \div b = q /\ a % b = s
<1>1. PICK p \in Nat, t \in 0 .. b - 1 : p = a \div b /\ t = a % b /\ a = p * b + t
  BY DivMod
<1>2. p * b + t = q * b + s
  BY <1>1
<1>3. p = q /\ t = s
  BY <1>2, Euclid
<1> QED
  BY <1>1, <1>3, Zenon

LEMMA Small ==
  ASSUME NEW a \in Nat, NEW b \in Nat \ {0}, a < b
  PROVE  a \div b = 0
<1>1. a \in 0 .. b - 1 /\ a = 0 * b + a
  OBVIOUS
<1> QED
  BY <1>1, Quotient

\* Division by a product is division by one factor after the other.
LEMMA Quotients ==
  ASSUME NEW a \in Nat, NEW e \in Nat \ {0}, NEW s \in Nat \ {0}
  PROVE  \E p \in Nat, i \in 0 .. e - 1 :
           p = a \div (e * s) /\ i = (a \div s) % e /\ a \div s = p * e + i
<1>1. PICK q \in Nat, m \in 0 .. s - 1 : q = a \div s /\ a = q * s + m
  BY DivMod
<1>2. PICK p \in Nat, i \in 0 .. e - 1 : p = q \div e /\ i = q % e /\ q = p * e + i
  BY DivMod
<1>3. a = p * (e * s) + (i * s + m)
  <2>1. q * s = (p * e) * s + i * s
    BY <1>2
  <2>2. (p * e) * s = p * (e * s)
    OBVIOUS
  <2> QED
    BY <1>1, <2>1, <2>2
<1>4. i * s + m \in 0 .. (e * s) - 1 /\ e * s \in Nat \ {0}
  <2>1. i \in Nat /\ i < e /\ e \in Nat
    OBVIOUS
  <2>2. i * s + s <= e * s
    BY <2>1, Ahead
  <2>3. i * s \in Nat /\ e * s \in Nat
    BY <2>1
  <2> QED
    BY <2>2, <2>3
<1>5. a \div (e * s) = p
  BY <1>3, <1>4, Quotient
<1>6. i = (a \div s) % e /\ a \div s = p * e + i
  BY <1>1, <1>2, Zenon
<1> QED
  BY <1>5, <1>6, Zenon

-----------------------------------------------------------------------------
\* The block of addresses of an activation's table, counted in tables of its level.
Blk(a) == a.start \div Size[a.level + 1]

\* The entry of an address, counted over all tables of a level.
LEMMA BlockFacts ==
  ASSUME NEW va \in Nat, NEW l \in Nat
  PROVE  /\ va \div Size[l + 1] \in Nat
         /\ va \div Size[l] = (va \div Size[l + 1]) * Entries + get_index(va, l)
<1>1. Size[l] \in Nat \ {0} /\ Size[l + 1] = Entries * Size[l] /\ Entries \in Nat \ {0}
  BY SizeFacts, ShapeAssumption
<1> DEFINE s == Size[l]
<1> HIDE DEF s
<1>2. s \in Nat \ {0} /\ Size[l + 1] = Entries * s /\ s = Size[l]
  BY <1>1 DEF s
<1>3. PICK p \in Nat, i \in 0 .. Entries - 1 :
        p = va \div (Entries * s) /\ i = (va \div s) % Entries /\ va \div s = p * Entries + i
  BY <1>1, <1>2, Quotients, Zenon
<1>4. p = va \div Size[l + 1] /\ i = get_index(va, l) /\ va \div Size[l] = p * Entries + i
  BY <1>2, <1>3, Zenon DEF get_index
<1> QED
  BY <1>3, <1>4, Zenon

\* Where an iteration is: in the first one at the address the activation was called
\* with, later at the first address of its entry.
LEMMA PositionFacts ==
  ASSUME NEW T, NEW a \in Walks(T), get_index(a.start, a.level) <= a.i
  PROVE  /\ Blk(a) \in Nat /\ Size[a.level] \in Nat \ {0}
         /\ curr_va(a) \in Nat
         /\ a.i = get_index(a.start, a.level) => curr_va(a) = a.start
         /\ a.i # get_index(a.start, a.level) =>
              curr_va(a) = (Blk(a) * Entries + a.i) * Size[a.level]
         /\ curr_va(a) \div Size[a.level] = Blk(a) * Entries + a.i
         /\ curr_va(a) <= (Blk(a) * Entries + Entries) * Size[a.level]
<1>1. a.start \in Nat /\ a.level \in Nat /\ a.i \in 0 .. Entries /\ Entries \in Nat \ {0}
  <2>1. a.i \in 0 .. Entries
    BY DEF Walks
  <2> QED
    BY <2>1, WalksFacts, ShapeAssumption
<1>2. PICK s \in Nat \ {0} : s = Size[a.level]
  BY <1>1, SizeFacts
<1>3. PICK g \in 0 .. Entries - 1 : g = get_index(a.start, a.level)
  BY <1>1, IndexFacts
<1>4. PICK b \in Nat : b = Blk(a)
  BY <1>1, BlockFacts DEF Blk
<1>5. a.start \div s = b * Entries + g
  BY <1>1, <1>2, <1>3, <1>4, BlockFacts, Zenon DEF Blk
<1>6. PICK q \in Nat, m \in 0 .. s - 1 : q = a.start \div s /\ a.start = q * s + m
  <2>1. \A x \in Nat : \E q \in Nat, m \in 0 .. s - 1 :
          q = x \div s /\ m = x % s /\ x = q * s + m
    BY <1>2, DivMod, Zenon
  <2> QED
    BY <1>1, <2>1, Zenon
<1>7. q = b * Entries + g
  BY <1>5, <1>6, Zenon
<1>8. g <= a.i /\ a.i - g \in Nat
  BY <1>1, <1>3
<1> DEFINE va == a.start + (a.i - g) * s
<1>9. curr_va(a) = IF a.i = g THEN va ELSE (va \div s) * s
  BY <1>2, <1>3 DEF curr_va
<1>10. va = (b * Entries + a.i) * s + m /\ b * Entries + a.i \in Nat /\ va \in Nat
  <2>1. PICK d \in Nat : d = a.i - g
    BY <1>8
  <2>2. a.start + d * s = (q + d) * s + m
    BY <1>6, <2>1
  <2>3. b * Entries \in Nat
    BY <1>1, <1>4
  <2>4. q + d = b * Entries + a.i
    BY <1>1, <1>7, <2>1, <2>3
  <2>5. va = (b * Entries + a.i) * s + m
    BY <2>1, <2>2, <2>4
  <2>6. a.start + d * s \in Nat
    BY <1>1, <1>2, <2>1
  <2> QED
    BY <1>1, <2>1, <2>3, <2>5, <2>6
<1> HIDE DEF va
<1>11. va \div s = b * Entries + a.i
  <2>1. ASSUME NEW x \in Nat, NEW k \in Nat, x = k * s + m PROVE x \div s = k
    BY <2>1, Quotient
  <2> QED
    BY <1>10, <2>1, Zenon
<1>12. curr_va(a) = IF a.i = g THEN a.start ELSE (b * Entries + a.i) * s
  <2>1. a.i = g => va = a.start
    BY <1>1, <1>2, <1>6 DEF va
  <2> QED
    BY <1>9, <1>11, <2>1
<1>13. PICK n \in Nat : n = b * Entries + a.i
  BY <1>10
<1>14. curr_va(a) \in Nat /\ curr_va(a) \div s = n
  <2>1. CASE a.i = g
    BY <1>1, <1>5, <1>12, <1>13, <2>1
  <2>2. CASE a.i # g
    <3>1. curr_va(a) = n * s /\ n * s \in Nat /\ n * s = n * s + 0 /\ 0 \in 0 .. s - 1
      BY <1>2, <1>12, <1>13, <2>2
    <3> QED
      BY <1>2, <3>1, Quotient
  <2> QED
    BY <2>1, <2>2
<1>15. curr_va(a) <= (b * Entries + Entries) * s
  <2>1. PICK c \in Nat : c = b * Entries + Entries
    BY <1>1, <1>4
  <2>2. CASE a.i = g
    <3>1. n < c /\ q = n
      BY <1>1, <1>3, <1>4, <1>7, <1>13, <2>1, <2>2
    <3>2. n * s + s <= c * s
      BY <3>1, Ahead
    <3>3. a.start = n * s + m /\ n * s \in Nat /\ c * s \in Nat
      BY <1>6, <3>1, <2>1
    <3>4. a.start <= c * s
      BY <1>1, <3>2, <3>3
    <3> QED
      BY <1>12, <2>1, <2>2, <3>4
  <2>3. CASE a.i # g
    <3>1. n <= c
      BY <1>1, <1>4, <1>13, <2>1
    <3>2. n * s <= c * s
      <4>1. n < c => n * s + s <= c * s
        BY Ahead
      <4>2. n * s \in Nat /\ c * s \in Nat
        OBVIOUS
      <4> QED
        BY <3>1, <4>1, <4>2
    <3> QED
      BY <1>12, <1>13, <2>1, <2>3, <3>2
  <2> QED
    BY <2>2, <2>3
<1> QED
  BY <1>2, <1>3, <1>4, <1>12, <1>13, <1>14, <1>15, Zenon

-----------------------------------------------------------------------------
\* From the first region on.
Phase == pc \in {"region", "walk", "merge", "done"}

\* The address for the next collected page.
Nxt == regions[r].start + pa - 1

\* The address up to which a region is mapped.
Upto(k) == IF k < r THEN regions[k].end
           ELSE IF k = r /\ pc \in {"walk", "merge"} THEN Nxt
           ELSE regions[k].start

\* A region has as many collected pages as the process has mapped only if no huge page
\* was passed over and no page met twice, and then these are the same.
CollectInv ==
  /\ \A k \in DOMAIN regions :
       /\ Len(pas[k]) <= Len(pmap[k]) /\ Len(pmap[k]) <= Pages(regions[k])
       /\ Len(pas[k]) = Len(pmap[k]) => pas[k] = pmap[k]
  /\ pc = "root" => r = 1

\* A caller is one level above the activation it waits for, at the entry for its block.
ChainInv ==
  /\ \A j \in DOMAIN stack : j + 1 \in DOMAIN stack =>
       /\ stack[j + 1].level = stack[j].level + 1
       /\ Blk(stack[j]) = Blk(stack[j + 1]) * Entries + stack[j + 1].i
  /\ stack # <<>> => stack[Len(stack)].level = Levels - 1

\* The walk is at the address for the next page, or has mapped the region; in the end
\* no region is left.
PosInv ==
  /\ pc \in {"walk", "merge"} => Nxt <= regions[r].end /\ pa - 1 <= Len(pas[r])
  /\ pc = "walk" => curr_va(act) = Nxt \/ (Nxt = regions[r].end /\ Nxt <= curr_va(act))
  /\ pc = "merge" => Nxt = regions[r].end
  /\ pc = "done" => r > Len(regions)

\* The regions before the one at hand had a page for each address, now in all_pages.
MergedInv ==
  \A k \in DOMAIN regions : k < r =>
    /\ Pages(regions[k]) <= Len(pas[k])
    /\ \A j \in 1 .. Len(pas[k]) : pas[k][j] \in all_pages

\* Tables have blocks of addresses: each entry leads to its part of the block, and no
\* two tables of a level have one block.
Placed(lev, blk) ==
  /\ cr3 # 0 => blk[cr3] = 0
  /\ \A n \in DOMAIN tables, i \in 0 .. Entries - 1 : Present(n, i) /\ lev[n] # 0 =>
       /\ tables[n][i].bits = intermed_flags
       /\ tables[n][i].to \in DOMAIN tables => blk[tables[n][i].to] = blk[n] * Entries + i
  /\ \A m, n \in DOMAIN tables : lev[m] = lev[n] /\ blk[m] = blk[n] => m = n

\* An activation works on the table of its block.
StackPlaced(blk) == \A j \in DOMAIN stack : blk[stack[j].table] = Blk(stack[j])

\* The entry of address va is entry i of the leaf n, and it is region k's.
IsPage(lev, blk, n, i, va) == lev[n] = 0 /\ Present(n, i) /\ va = blk[n] * Entries + i

MapsPage(n, i, va, k) ==
  /\ regions[k].start <= va /\ va < Upto(k)
  /\ tables[n][i].to = pas[k][va - regions[k].start + 1]
  /\ tables[n][i].bits = translate_flags(regions[k].flags)

\* The leaves hold what the regions are mapped to so far, and nothing else.
Holds(lev, blk) ==
  \A n \in DOMAIN tables, i \in 0 .. Entries - 1, va \in Nat : IsPage(lev, blk, n, i, va) =>
    \E k \in DOMAIN regions : MapsPage(n, i, va, k)

HoldsAll(lev, blk) ==
  \A k \in DOMAIN regions, va \in Nat : regions[k].start <= va /\ va < Upto(k) =>
    \E n \in DOMAIN tables, i \in 0 .. Entries - 1 : IsPage(lev, blk, n, i, va)

PlaceInv ==
  \E lev \in [DOMAIN tables -> 0 .. Levels - 1], blk \in [DOMAIN tables -> Nat] :
    /\ Levelled(lev) /\ Placed(lev, blk) /\ StackPlaced(blk)
    /\ Holds(lev, blk) /\ HoldsAll(lev, blk)

MInv == CollectInv /\ (Phase => ChainInv /\ PosInv /\ MergedInv /\ PlaceInv)

\* The regions lie within the addresses and do not overlap.
LEMMA LayoutFacts ==
  ASSUME TypeOK
  PROVE  /\ \A k \in DOMAIN regions :
              /\ regions[k].start \in Nat /\ regions[k].end \in Nat /\ Pages(regions[k]) \in Nat
              /\ regions[k].start < regions[k].end /\ regions[k].end <= Size[Levels]
              /\ regions[k].start \in VA
         /\ \A k, m \in DOMAIN regions : k # m =>
              regions[k].end <= regions[m].start \/ regions[m].end <= regions[k].start
         /\ Len(regions) \in Nat /\ DOMAIN regions = 1 .. Len(regions)
<1>1. /\ Len(regions) \in Nat /\ DOMAIN regions = 1 .. Len(regions)
      /\ \A k \in DOMAIN regions : regions[k].start \in VA
                                /\ regions[k].end \in 0 .. Size[Levels]
  BY RegionFacts
<1>2. /\ \A k \in 1 .. Len(regions) : regions[k].start < regions[k].end
      /\ \A k, m \in 1 .. Len(regions) :
           k # m => regions[k].end <= regions[m].start \/ regions[m].end <= regions[k].start
  BY LayoutsAssumption DEF TypeOK
<1>3. Size[Levels] \in Nat
  BY SizeFacts, ShapeAssumption
<1>4. ASSUME NEW k \in DOMAIN regions
      PROVE  /\ regions[k].start \in Nat /\ regions[k].end \in Nat /\ Pages(regions[k]) \in Nat
             /\ regions[k].start < regions[k].end /\ regions[k].end <= Size[Levels]
  <2>1. regions[k].start \in 0 .. Size[Levels] - 1 /\ regions[k].end \in 0 .. Size[Levels]
    BY <1>1 DEF VA
  <2>2. regions[k].start < regions[k].end
    BY <1>1, <1>2
  <2> QED
    BY <1>3, <2>1, <2>2 DEF Pages
<1> QED
  BY <1>1, <1>2, <1>4

LEMMA InitMaps == Init => MInv
<1> SUFFICES ASSUME Init PROVE MInv
  OBVIOUS
<1>1. /\ pc = "collect" /\ \A k \in DOMAIN regions : pas[k] = <<>> /\ pmap[k] = <<>>
  BY DEF Init
<1>2. TypeOK
  BY InitTables DEF IInv
<1>3. \A k \in DOMAIN regions : Pages(regions[k]) \in Nat
  BY <1>2, LayoutFacts
<1>4. CollectInv
  <2>1. Len(<<>>) = 0
    OBVIOUS
  <2> QED
    BY <1>1, <1>3, <2>1 DEF CollectInv
<1> QED
  BY <1>1, <1>4 DEF MInv, Phase

\* The callbacks, and the change from one region to the next.
LEMMA CollectMaps ==
  ASSUME IInv, MInv, (\E f \in Frame : pte_entry(f)) \/ hugetlb_entry \/ pte_hole \/ Collected
  PROVE  MInv'
<1>1. /\ regions' = regions /\ pc = "collect" /\ pc' \in {"collect", "failed", "root"}
      /\ pc' = "root" => r' = 1
  BY DEF pte_entry, hugetlb_entry, pte_hole, Collected, Collecting
<1>2. /\ \A k \in DOMAIN regions : pas[k] \in Seq(Frame) /\ pmap[k] \in Seq(Frame \cup {"huge"})
      /\ pmap \in [DOMAIN regions -> Seq(Frame \cup {"huge"})]
      /\ pas \in [DOMAIN regions -> Seq(Frame)]
  BY DEF IInv, TypeOK
<1>3. ASSUME NEW k \in DOMAIN regions
      PROVE  /\ Len(pas'[k]) <= Len(pmap'[k]) /\ Len(pmap'[k]) <= Pages(regions[k])
             /\ Len(pas'[k]) = Len(pmap'[k]) => pas'[k] = pmap'[k]
  <2>1. /\ Len(pas[k]) <= Len(pmap[k]) /\ Len(pmap[k]) <= Pages(regions[k])
        /\ Len(pas[k]) = Len(pmap[k]) => pas[k] = pmap[k]
    BY DEF MInv, CollectInv
  <2>2. Len(pas[k]) \in Nat /\ Len(pmap[k]) \in Nat /\ Pages(regions[k]) \in Nat
    BY <1>2, LayoutFacts DEF IInv
  <2>3. CASE pas' = pas /\ pmap' = pmap
    BY <2>1, <2>3
  <2>4. CASE Collecting /\ k = r /\ ((\E f \in Frame : pte_entry(f)) \/ hugetlb_entry)
    <3>1. Len(pmap[k]) < Pages(regions[k])
      BY <2>4 DEF Collecting
    <3>2. CASE \E f \in Frame : pte_entry(f)
      <4>1. PICK f \in Frame : pte_entry(f)
        BY <3>2
      <4>2. /\ pmap'[k] = Append(pmap[k], f)
            /\ pas'[k] \in {pas[k], Append(pas[k], f)}
        BY <1>2, <2>4, <4>1 DEF pte_entry
      <4>3. /\ Len(Append(pmap[k], f)) = Len(pmap[k]) + 1
            /\ Len(Append(pas[k], f)) = Len(pas[k]) + 1
        BY <1>2
      <4>4. CASE pas'[k] = pas[k]
        BY <2>1, <2>2, <3>1, <4>2, <4>3, <4>4
      <4>5. CASE pas'[k] = Append(pas[k], f)
        <5>1. Len(pas'[k]) = Len(pas[k]) + 1 /\ Len(pmap'[k]) = Len(pmap[k]) + 1
          BY <4>2, <4>3, <4>5
        <5>2. Len(pas'[k]) = Len(pmap'[k]) => pas[k] = pmap[k]
          BY <2>1, <2>2, <5>1
        <5> QED
          BY <2>1, <2>2, <3>1, <4>2, <4>5, <5>1, <5>2
      <4> QED
        BY <4>2, <4>4, <4>5
    <3>3. CASE hugetlb_entry
      <4>1. pmap'[k] = Append(pmap[k], "huge") /\ pas'[k] = pas[k]
        BY <1>2, <2>4, <3>3 DEF hugetlb_entry
      <4>2. Len(Append(pmap[k], "huge")) = Len(pmap[k]) + 1
        BY <1>2
      <4> QED
        BY <2>1, <2>2, <3>1, <4>1, <4>2
    <3> QED
      BY <2>4, <3>2, <3>3
  <2>5. CASE Collecting /\ k # r /\ ((\E f \in Frame : pte_entry(f)) \/ hugetlb_entry)
    <3>1. pas'[k] = pas[k] /\ pmap'[k] = pmap[k]
      BY <1>2, <2>5 DEF pte_entry, hugetlb_entry
    <3> QED
      BY <2>1, <3>1
  <2> QED
    BY <2>3, <2>4, <2>5 DEF pte_entry, hugetlb_entry, pte_hole, Collected
<1>4. CollectInv'
  BY <1>1, <1>3 DEF CollectInv, Pages
<1> QED
  BY <1>1, <1>4 DEF MInv, Phase

\* Steps that end in failure, or worse.
LEMMA EndMaps ==
  ASSUME MInv, UNCHANGED <<regions, pmap, pas>>, ~Phase', pc' # "root"
  PROVE  MInv'
BY DEF MInv, CollectInv, Pages

\* What is collected stays from the root on.
LEMMA CollectedStays ==
  ASSUME MInv, UNCHANGED <<regions, pmap, pas>>, pc' # "root"
  PROVE  CollectInv'
BY DEF MInv, CollectInv, Pages

LEMMA AllocateRootMaps ==
  ASSUME IInv, MInv, IInv', AllocateRoot
  PROVE  MInv'
<1>1. /\ pc = "root" /\ pc' = "region" /\ UNCHANGED <<regions, pmap, pas, all_pages, r, pa, stack>>
      /\ tables = <<>> /\ stack = <<>> /\ r = 1
      /\ \/ tables' = Append(tables, Empty)
         \/ tables' = tables
  BY DEF AllocateRoot, allocate, IInv, WalkInv, MInv, CollectInv
<1>2. CollectInv'
  BY <1>1, CollectedStays
<1>3. ChainInv' /\ PosInv'
  BY <1>1 DEF ChainInv, PosInv
<1>4. \A k \in DOMAIN regions : ~(k < r') /\ Upto(k)' = regions[k].start
  BY <1>1, LayoutFacts DEF IInv, Upto
<1>5. MergedInv'
  BY <1>1, <1>4 DEF MergedInv
<1>6. PlaceInv'
  <2>1. PICK lev \in [DOMAIN tables' -> 0 .. Levels - 1] : Levelled(lev)'
    BY DEF IInv, LevelInv
  <2>2. PICK blk \in [DOMAIN tables' -> Nat] : \A n \in DOMAIN tables' : blk[n] = 0
    <3>1. [n \in DOMAIN tables' |-> 0] \in [DOMAIN tables' -> Nat]
      OBVIOUS
    <3> QED
      BY <3>1
  <2>3. /\ \A m, n \in DOMAIN tables' : m = n
        /\ \A n \in DOMAIN tables', i \in 0 .. Entries - 1 : ~Present(n, i)'
    <3>1. CASE tables' = tables
      BY <1>1, <3>1
    <3>2. CASE tables' = Append(tables, Empty)
      <4>1. tables' = <<Empty>>
        BY <1>1, <3>2
      <4>2. DOMAIN tables' = {1} /\ tables'[1] = Empty
        BY <4>1
      <4>3. \A i \in 0 .. Entries - 1 : Empty[i].bits = {}
        BY DEF Empty
      <4>4. \A n \in DOMAIN tables' : n = 1
        BY <4>2
      <4>5. ASSUME NEW n \in DOMAIN tables', NEW i \in 0 .. Entries - 1 PROVE ~Present(n, i)'
        BY <4>2, <4>3, <4>4 DEF Present
      <4> QED
        BY <4>4, <4>5, Zenon
    <3> QED
      BY <1>1, <3>1, <3>2
  <2>4. cr3' # 0 => cr3' \in DOMAIN tables'
    BY DEF IInv, TypeOK
  <2>5. Placed(lev, blk)'
    BY <2>2, <2>3, <2>4 DEF Placed
  <2>6. StackPlaced(blk)'
    BY <1>1 DEF StackPlaced
  <2>7. Holds(lev, blk)'
    BY <2>3 DEF Holds, IsPage
  <2>8. HoldsAll(lev, blk)'
    <3>1. \A k \in DOMAIN regions : regions[k].start \in Nat
      BY LayoutFacts DEF IInv
    <3> QED
      BY <1>1, <1>4, <3>1 DEF HoldsAll
  <2> QED
    BY <2>1, <2>5, <2>6, <2>7, <2>8 DEF PlaceInv
<1> QED
  BY <1>2, <1>3, <1>5, <1>6 DEF MInv

-----------------------------------------------------------------------------
\* Steps that leave the tables alone.
LEMMA SameHeld ==
  ASSUME UNCHANGED <<tables, cr3, regions, pas>>,
         \A k \in DOMAIN regions : Upto(k)' = Upto(k),
         NEW lev, NEW blk, Placed(lev, blk), Holds(lev, blk), HoldsAll(lev, blk)
  PROVE  Placed(lev, blk)' /\ Holds(lev, blk)' /\ HoldsAll(lev, blk)'
<1>1. Placed(lev, blk)'
  BY DEF Placed, Present
<1>2. \A n, i, va : IsPage(lev, blk, n, i, va)' <=> IsPage(lev, blk, n, i, va)
  BY DEF IsPage, Present
<1>3. \A n, i, va : \A k \in DOMAIN regions : MapsPage(n, i, va, k)' <=> MapsPage(n, i, va, k)
  BY DEF MapsPage, translate_flags
<1>4. Holds(lev, blk)'
  BY <1>2, <1>3 DEF Holds
<1>5. HoldsAll(lev, blk)'
  BY <1>2 DEF HoldsAll
<1> QED
  BY <1>1, <1>4, <1>5

\* Steps that leave the tables and the walk alone.
LEMMA SamePlaces ==
  ASSUME PlaceInv, UNCHANGED <<tables, cr3, stack, regions, pas>>,
         \A k \in DOMAIN regions : Upto(k)' = Upto(k)
  PROVE  PlaceInv'
<1>1. PICK lev \in [DOMAIN tables -> 0 .. Levels - 1], blk \in [DOMAIN tables -> Nat] :
        /\ Levelled(lev) /\ Placed(lev, blk) /\ StackPlaced(blk)
        /\ Holds(lev, blk) /\ HoldsAll(lev, blk)
  BY DEF PlaceInv
<1>2. Levelled(lev)'
  BY <1>1 DEF Levelled, TableLevels, Present
<1>3. StackPlaced(blk)'
  BY <1>1 DEF StackPlaced, Blk
<1>4. Placed(lev, blk)' /\ Holds(lev, blk)' /\ HoldsAll(lev, blk)'
  BY <1>1, SameHeld
<1> QED
  BY <1>2, <1>3, <1>4 DEF PlaceInv

LEMMA DoneMaps ==
  ASSUME IInv, MInv, Done
  PROVE  MInv'
<1>1. /\ pc = "region" /\ pc' = "done" /\ r > Len(regions)
      /\ UNCHANGED <<regions, pmap, pas, all_pages, tables, cr3, r, pa, stack>>
  BY DEF Done
<1>2. CollectInv'
  BY <1>1, CollectedStays
<1>3. ChainInv /\ PlaceInv /\ MergedInv
  BY <1>1 DEF MInv, Phase
<1>4. ChainInv' /\ PosInv' /\ MergedInv'
  BY <1>1, <1>3 DEF ChainInv, PosInv, MergedInv, Pages, Blk
<1>5. \A k \in DOMAIN regions : Upto(k)' = Upto(k)
  BY <1>1 DEF Upto
<1>6. PlaceInv'
  BY <1>1, <1>3, <1>5, SamePlaces
<1> QED
  BY <1>2, <1>4, <1>6 DEF MInv

\* A region is mapped whole when its pages are merged.
LEMMA MergeMaps ==
  ASSUME IInv, MInv, Merge
  PROVE  MInv'
<1>1. PICK n \in 0 .. Len(pas[r]) :
        /\ pc = "merge" /\ UNCHANGED <<regions, pmap, pas, tables, cr3, pa, stack>>
        /\ all_pages' = MergePages(all_pages, n)
        /\ IF n = Len(pas[r]) THEN pc' = "region" /\ r' = r + 1 ELSE pc' = "failed" /\ r' = r
  BY DEF Merge
<1>2. CASE n # Len(pas[r])
  <2>1. ~Phase' /\ pc' # "root"
    BY <1>1, <1>2 DEF Phase
  <2> QED
    BY <1>1, <2>1, EndMaps
<1>3. CASE n = Len(pas[r])
  <2>1. pc' = "region" /\ r' = r + 1
    BY <1>1, <1>3
  <2>2. ChainInv /\ PosInv /\ PlaceInv /\ MergedInv
    BY <1>1 DEF MInv, Phase
  <2>3. r \in DOMAIN regions /\ DOMAIN regions = 1 .. Len(regions) /\ Len(regions) \in Nat
    BY <1>1, LayoutFacts DEF IInv, WalkInv
  <2>4. /\ regions[r].start \in Nat /\ regions[r].end \in Nat /\ pa \in Nat /\ Len(pas[r]) \in Nat
        /\ Nxt = regions[r].end /\ pa - 1 <= Len(pas[r])
    <3>1. pas[r] \in Seq(Frame) /\ pa \in Nat
      BY <2>3 DEF IInv, TypeOK
    <3>2. Nxt = regions[r].end /\ pa - 1 <= Len(pas[r])
      BY <1>1, <2>2 DEF PosInv
    <3>3. regions[r].start \in Nat /\ regions[r].end \in Nat
      BY <2>3, LayoutFacts DEF IInv
    <3> QED
      BY <3>1, <3>2, <3>3
  <2>5. CollectInv'
    BY <1>1, <2>1, CollectedStays
  <2>6. ChainInv' /\ PosInv'
    BY <1>1, <2>1, <2>2 DEF ChainInv, PosInv, Blk
  <2>7. ASSUME NEW k \in DOMAIN regions PROVE Upto(k)' = Upto(k)
    <3>1. k \in Nat /\ r \in Nat
      BY <2>3
    <3>2. CASE k < r
      BY <1>1, <2>1, <3>1, <3>2 DEF Upto
    <3>3. CASE k = r
      BY <1>1, <2>1, <2>4, <3>1, <3>3 DEF Upto
    <3>4. CASE k > r
      BY <1>1, <2>1, <3>1, <3>4 DEF Upto
    <3> QED
      BY <3>1, <3>2, <3>3, <3>4
  <2>8. PlaceInv'
    BY <1>1, <2>2, <2>7, SamePlaces
  <2>9. MergedInv'
    <3>1. \A s : s \in all_pages => s \in all_pages'
      BY <1>1 DEF MergePages
    <3>2. \A j \in 1 .. Len(pas[r]) : pas[r][j] \in all_pages'
      BY <1>1, <1>3 DEF MergePages
    <3>3. Pages(regions[r]) <= Len(pas[r])
      <4>1. Pages(regions[r]) = pa - 1
        BY <2>4 DEF Nxt, Pages
      <4> QED
        BY <2>4, <4>1
    <3>4. ASSUME NEW k \in DOMAIN regions, k < r + 1
          PROVE  /\ Pages(regions[k]) <= Len(pas[k])
                 /\ \A j \in 1 .. Len(pas[k]) : pas[k][j] \in all_pages'
      <4>1. k = r \/ k < r
        BY <2>3, <3>4
      <4> QED
        BY <2>2, <3>1, <3>2, <3>3, <4>1 DEF MergedInv
    <3> QED
      BY <1>1, <2>1, <3>4 DEF MergedInv, Pages
  <2> QED
    BY <2>5, <2>6, <2>8, <2>9 DEF MInv
<1> QED
  BY <1>2, <1>3

LEMMA MapRegionMaps ==
  ASSUME IInv, MInv, IInv', map_region
  PROVE  MInv'
<1>1. /\ pc = "region" /\ r <= Len(regions) /\ pa' = 1
      /\ UNCHANGED <<regions, pmap, pas, all_pages, tables, cr3, r>>
  BY DEF map_region
<1>2. /\ r \in DOMAIN regions /\ regions[r].start \in VA /\ regions[r].start \in Nat
      /\ regions[r].end \in Nat /\ regions[r].start < regions[r].end
      /\ regions[r].end <= Size[Levels]
  <2>1. r \in DOMAIN regions
    BY <1>1, LayoutFacts DEF IInv, TypeOK
  <2> QED
    BY <2>1, LayoutFacts DEF IInv
<1>3. CASE cr3 = 0
  <2>1. pc' = "wild"
    BY <1>3 DEF map_region
  <2>2. ~Phase' /\ pc' # "root"
    BY <2>1 DEF Phase
  <2> QED
    BY <1>1, <2>2, EndMaps
<1>4. CASE cr3 # 0
  <2>1. PICK a : a = Activation(cr3, Levels - 1, regions[r].start)
    OBVIOUS
  <2>2. pc' = "walk" /\ stack' = <<a>>
    BY <1>4, <2>1 DEF map_region
  <2>3. cr3 \in DOMAIN tables /\ Levels - 1 \in 0 .. Levels - 1 /\ Levels \in Nat
    BY <1>4, ShapeAssumption DEF IInv, TypeOK
  <2>4. /\ a \in Walks(DOMAIN tables) /\ a.table = cr3 /\ a.level = Levels - 1
        /\ a.start = regions[r].start /\ a.i = get_index(a.start, a.level)
        /\ a.i \in 0 .. Entries - 1
    BY <1>2, <2>1, <2>3, ActivationFacts
  <2>5. DOMAIN stack' = {1} /\ stack'[1] = a /\ Len(stack') = 1 /\ act' = a
    BY <2>2 DEF act
  <2>6. curr_va(a) = regions[r].start
    <3>1. get_index(a.start, a.level) <= a.i
      BY <2>4
    <3> QED
      BY <2>4, <3>1, PositionFacts
  <2>7. Blk(a) = 0
    <3>1. Size[Levels] \in Nat \ {0} /\ a.level + 1 = Levels
      BY <2>3, <2>4, SizeFacts
    <3>2. regions[r].start < Size[Levels]
      BY <1>2, <3>1
    <3>3. regions[r].start \div Size[Levels] = 0
      BY <1>2, <3>1, <3>2, Small, Zenon
    <3> QED
      BY <2>4, <3>1, <3>3, Zenon DEF Blk
  <2>8. CollectInv'
    BY <1>1, <2>2, CollectedStays
  <2>9. ChainInv'
    BY <2>4, <2>5 DEF ChainInv
  <2>10. Nxt' = regions[r].start
    BY <1>1, <1>2 DEF Nxt
  <2>11. PosInv'
    <3>1. curr_va(act)' = curr_va(act')
      BY DEF curr_va, get_index
    <3>2. 0 <= Len(pas[r])
      BY <1>2 DEF IInv, TypeOK
    <3> QED
      BY <1>1, <1>2, <2>2, <2>5, <2>6, <2>10, <3>1, <3>2 DEF PosInv
  <2>12. MergedInv'
    BY <1>1 DEF MInv, Phase, MergedInv, Pages
  <2>13. \A k \in DOMAIN regions : Upto(k)' = Upto(k)
    BY <1>1, <2>2, <2>10 DEF Upto
  <2>14. PlaceInv'
    <3>1. PICK lev \in [DOMAIN tables -> 0 .. Levels - 1], blk \in [DOMAIN tables -> Nat] :
            /\ Levelled(lev) /\ Placed(lev, blk) /\ StackPlaced(blk)
            /\ Holds(lev, blk) /\ HoldsAll(lev, blk)
      BY <1>1 DEF MInv, Phase, PlaceInv
    <3>2. Levelled(lev)'
      BY <1>1, <1>4, <2>4, <2>5, <3>1 DEF Levelled, TableLevels, Present
    <3>3. StackPlaced(blk)'
      BY <1>4, <2>4, <2>5, <2>7, <3>1 DEF StackPlaced, Placed
    <3>4. Placed(lev, blk)' /\ Holds(lev, blk)' /\ HoldsAll(lev, blk)'
      BY <1>1, <2>13, <3>1, SameHeld
    <3> QED
      BY <1>1, <3>2, <3>3, <3>4 DEF PlaceInv
  <2> QED
    BY <2>8, <2>9, <2>11, <2>12, <2>14 DEF MInv
<1> QED
  BY <1>3, <1>4

-----------------------------------------------------------------------------
\* An iteration of the walk is at the address for the next page.
LEMMA WalkAt ==
  ASSUME IInv, MInv, pc = "walk", InRange(act)
  PROVE  /\ r \in DOMAIN regions /\ pa \in Nat \ {0}
         /\ regions[r].start \in Nat /\ regions[r].end \in Nat
         /\ curr_va(act) = Nxt /\ Nxt \in Nat /\ regions[r].start <= Nxt /\ Nxt < regions[r].end
         /\ Blk(act) \in Nat /\ act.level \in Nat
         /\ curr_va(act) \div Size[act.level] = Blk(act) * Entries + act.i
<1>1. r \in DOMAIN regions /\ pa \in Nat \ {0}
  BY DEF IInv, WalkInv, TypeOK
<1>2. regions[r].start \in Nat /\ regions[r].end \in Nat
  BY <1>1, LayoutFacts DEF IInv
<1>3. act \in Walks(DOMAIN tables) /\ 1 \in DOMAIN stack /\ act = stack[1]
  BY ActFacts DEF IInv
<1>4. get_index(act.start, act.level) <= act.i
  BY <1>3 DEF IInv, StackInv
<1>5. curr_va(act) < regions[r].end
  BY DEF InRange
<1>6. curr_va(act) = Nxt \/ (Nxt = regions[r].end /\ Nxt <= curr_va(act))
  BY DEF MInv, Phase, PosInv
<1> HIDE DEF act
<1>7. /\ Blk(act) \in Nat /\ curr_va(act) \in Nat
      /\ curr_va(act) \div Size[act.level] = Blk(act) * Entries + act.i
  BY <1>3, <1>4, PositionFacts
<1>8. act.level \in Nat
  BY <1>3, WalksFacts
<1>9. Nxt \in Nat /\ regions[r].start <= Nxt
  BY <1>1, <1>2 DEF Nxt
<1>10. curr_va(act) = Nxt /\ Nxt < regions[r].end
  BY <1>2, <1>5, <1>6, <1>7, <1>9
<1> QED
  BY <1>1, <1>2, <1>7, <1>8, <1>9, <1>10

\* At a leaf the entry is the one of this address.
LEMMA LeafAt ==
  ASSUME IInv, MInv, pc = "walk", InRange(act), act.level = 0
  PROVE  Nxt = Blk(act) * Entries + act.i
<1>1. /\ curr_va(act) = Nxt /\ Nxt \in Nat
      /\ curr_va(act) \div Size[act.level] = Blk(act) * Entries + act.i
  BY WalkAt
<1>2. Size[0] = 1
  BY SizeFacts
<1>3. Nxt \div 1 = Nxt
  BY <1>1
<1> QED
  BY <1>1, <1>2, <1>3

\* The leaf's entry for the next page is empty: no two regions have an address in common.
LEMMA LeafIsEmpty ==
  ASSUME IInv, MInv, pc = "walk", InRange(act), act.level = 0
  PROVE  "P" \notin entry.bits
<1> SUFFICES ASSUME "P" \in entry.bits PROVE FALSE
  OBVIOUS
<1>1. PICK lev \in [DOMAIN tables -> 0 .. Levels - 1], blk \in [DOMAIN tables -> Nat] :
        /\ Levelled(lev) /\ Placed(lev, blk) /\ StackPlaced(blk)
        /\ Holds(lev, blk) /\ HoldsAll(lev, blk)
  BY DEF MInv, Phase, PlaceInv
<1>2. /\ act.table \in DOMAIN tables /\ act.i \in 0 .. Entries - 1
      /\ entry = tables[act.table][act.i]
  BY EntryFacts
<1>3. 1 \in DOMAIN stack /\ act = stack[1]
  BY ActFacts DEF IInv
<1>4. lev[act.table] = 0 /\ blk[act.table] = Blk(act)
  BY <1>1, <1>3 DEF Levelled, StackPlaced
<1>5. /\ r \in DOMAIN regions /\ regions[r].start \in Nat /\ regions[r].end \in Nat
      /\ Nxt \in Nat /\ regions[r].start <= Nxt /\ Nxt < regions[r].end
  BY WalkAt
<1>6. IsPage(lev, blk, act.table, act.i, Nxt)
  BY <1>2, <1>4, LeafAt DEF IsPage, Present
<1>7. PICK k \in DOMAIN regions : MapsPage(act.table, act.i, Nxt, k)
  BY <1>1, <1>2, <1>5, <1>6, Zenon DEF Holds
<1>8. regions[k].start <= Nxt /\ Nxt < Upto(k)
  BY <1>7 DEF MapsPage
<1>9. regions[k].start \in Nat /\ regions[k].end \in Nat
  BY LayoutFacts DEF IInv
<1>10. k \in Nat /\ r \in Nat
  BY <1>5, LayoutFacts DEF IInv
<1>11. CASE k < r
  <2>1. regions[k].end <= regions[r].start \/ regions[r].end <= regions[k].start
    <3>1. k # r
      BY <1>10, <1>11
    <3>2. \A x, y \in DOMAIN regions : x # y =>
            regions[x].end <= regions[y].start \/ regions[y].end <= regions[x].start
      BY LayoutFacts DEF IInv
    <3> QED
      BY <1>5, <3>1, <3>2
  <2>2. Nxt < regions[k].end
    BY <1>8, <1>11 DEF Upto
  <2> QED
    BY <1>5, <1>8, <1>9, <2>1, <2>2
<1>12. CASE k = r
  BY <1>5, <1>8, <1>10, <1>12 DEF Upto
<1>13. CASE k > r
  BY <1>5, <1>8, <1>9, <1>10, <1>13 DEF Upto
<1> QED
  BY <1>10, <1>11, <1>12, <1>13

\* The called activation continues the chain, at the address of the caller.
LEMMA DescendChain ==
  ASSUME IInv, MInv, pc = "walk", InRange(act), act.level # 0, NEW T, DOMAIN tables \subseteq T,
         NEW to \in T, stack' = <<Activation(to, act.level - 1, curr_va(act))>> \o stack
  PROVE  /\ ChainInv' /\ curr_va(act)' = curr_va(act)
         /\ Blk(stack'[1]) = Blk(act) * Entries + act.i
<1>1. /\ StackStep(T) /\ stack' # <<>>
      /\ 1 \in DOMAIN stack' /\ stack'[1].table = to /\ stack'[1].level = act.level - 1
      /\ stack'[1].start = curr_va(act)
      /\ stack'[1].i = get_index(curr_va(act), act.level - 1)
      /\ DOMAIN stack' = 1 .. Len(stack) + 1
      /\ \A j \in DOMAIN stack' : j # 1 => j - 1 \in DOMAIN stack /\ stack'[j] = stack[j - 1]
  BY DescendKeeps
<1>2. /\ stack \in Seq(Walks(DOMAIN tables)) /\ stack # <<>> /\ 1 \in DOMAIN stack
      /\ act = stack[1]
  BY ActFacts DEF IInv
<1>3. ChainInv
  BY DEF MInv, Phase
<1>4. act.level \in Nat \ {0} /\ curr_va(act) \div Size[act.level] = Blk(act) * Entries + act.i
  BY WalkAt
<1>5. Len(stack) \in Nat \ {0} /\ DOMAIN stack = 1 .. Len(stack)
  BY <1>2
<1>6. stack'[1] \in Walks(T)
  BY <1>1 DEF StackStep
<1>7. (act.level - 1) + 1 = act.level
  <2> HIDE DEF act
  <2> QED
    BY <1>4
<1>8. Blk(stack'[1]) = Blk(act) * Entries + act.i
  BY <1>1, <1>4, <1>7, Zenon DEF Blk
<1>9. curr_va(act)' = curr_va(act)
  <2>1. stack'[1].i = get_index(stack'[1].start, stack'[1].level)
    BY <1>1
  <2>2. get_index(stack'[1].start, stack'[1].level) <= stack'[1].i
    BY <1>1 DEF StackStep
  <2>3. curr_va(stack'[1]) = stack'[1].start
    BY <1>6, <2>1, <2>2, PositionFacts
  <2>4. curr_va(act)' = curr_va(stack'[1])
    BY DEF curr_va, get_index, act
  <2> QED
    BY <1>1, <2>3, <2>4
<1>10. ASSUME NEW j \in DOMAIN stack', j + 1 \in DOMAIN stack'
       PROVE  /\ stack'[j + 1].level = stack'[j].level + 1
              /\ Blk(stack'[j]) = Blk(stack'[j + 1]) * Entries + stack'[j + 1].i
  <2>1. stack'[j + 1] = stack[j] /\ j \in DOMAIN stack
    <3>1. j \in Nat /\ (j + 1) - 1 = j /\ j + 1 # 1
      BY <1>1, <1>5
    <3> QED
      BY <1>1, <1>10, <3>1
  <2>2. CASE j = 1
    BY <1>1, <1>2, <1>7, <1>8, <2>1, <2>2
  <2>3. CASE j # 1
    <3>1. j - 1 \in DOMAIN stack /\ stack'[j] = stack[j - 1] /\ (j - 1) + 1 = j
      BY <1>1, <1>5, <2>3
    <3> QED
      BY <1>3, <2>1, <3>1 DEF ChainInv
  <2> QED
    BY <2>2, <2>3
<1>11. stack'[Len(stack')].level = Levels - 1
  <2>1. stack' \in Seq(Walks(T))
    BY <1>1 DEF StackStep
  <2>2. Len(stack') = Len(stack) + 1
    BY <1>1, <1>5, <2>1
  <2>3. stack'[Len(stack) + 1] = stack[Len(stack)]
    <3>1. Len(stack) + 1 \in DOMAIN stack' /\ Len(stack) + 1 # 1
      BY <1>1, <1>5
    <3>2. (Len(stack) + 1) - 1 = Len(stack)
      BY <1>5
    <3> QED
      BY <1>1, <3>1, <3>2
  <2> QED
    BY <1>2, <1>3, <2>2, <2>3 DEF ChainInv
<1>12. ChainInv'
  BY <1>10, <1>11 DEF ChainInv, Blk
<1> QED
  BY <1>8, <1>9, <1>12

LEMMA WalkEntryMaps ==
  ASSUME IInv, MInv, WalkEntry
  PROVE  MInv'
<1>1. /\ pc = "walk" /\ InRange(act) /\ "P" \in entry.bits
      /\ UNCHANGED <<regions, pmap, pas, all_pages, tables, cr3, r, pa>>
  BY DEF WalkEntry, Iterating, x86_64_how_map
<1>2. act.level # 0
  BY <1>1, LeafIsEmpty
<1>3. CASE entry.to = 0
  <2>1. pc' = "wild"
    BY <1>2, <1>3 DEF WalkEntry, Descend
  <2>2. ~Phase' /\ pc' # "root"
    BY <2>1 DEF Phase
  <2> QED
    BY <1>1, <2>2, EndMaps
<1>4. CASE entry.to # 0
  <2>1. pc' = pc /\ stack' = <<Activation(entry.to, act.level - 1, curr_va(act))>> \o stack
    BY <1>2, <1>4 DEF WalkEntry, Descend
  <2>2. PICK lev \in [DOMAIN tables -> 0 .. Levels - 1], blk \in [DOMAIN tables -> Nat] :
          /\ Levelled(lev) /\ Placed(lev, blk) /\ StackPlaced(blk)
          /\ Holds(lev, blk) /\ HoldsAll(lev, blk)
    BY <1>1 DEF MInv, Phase, PlaceInv
  <2>3. /\ entry.to \in DOMAIN tables /\ lev[entry.to] = act.level - 1
        /\ lev[act.table] = act.level /\ Present(act.table, act.i)
    BY <1>1, <1>2, <1>4, <2>2, EntryLevel
  <2>4. /\ stack' # <<>> /\ 1 \in DOMAIN stack'
        /\ stack'[1].table = entry.to /\ stack'[1].level = act.level - 1
        /\ \A j \in DOMAIN stack' : j # 1 => j - 1 \in DOMAIN stack /\ stack'[j] = stack[j - 1]
    BY <1>1, <1>2, <2>1, <2>3, DescendKeeps, Zenon
  <2>5. /\ ChainInv' /\ curr_va(act)' = curr_va(act)
        /\ Blk(stack'[1]) = Blk(act) * Entries + act.i
    BY <1>1, <1>2, <2>1, <2>3, DescendChain, Zenon
  <2>6. CollectInv'
    BY <1>1, <2>1, CollectedStays
  <2>7. PosInv'
    <3>1. curr_va(act) = Nxt /\ Nxt' = Nxt
      BY <1>1, WalkAt DEF Nxt
    <3> QED
      BY <1>1, <2>1, <2>5, <3>1 DEF MInv, Phase, PosInv
  <2>8. MergedInv'
    BY <1>1 DEF MInv, Phase, MergedInv, Pages
  <2>9. PlaceInv'
    <3>1. \A k \in DOMAIN regions : Upto(k)' = Upto(k)
      BY <1>1, <2>1 DEF Upto, Nxt
    <3>2. Placed(lev, blk)' /\ Holds(lev, blk)' /\ HoldsAll(lev, blk)'
      BY <1>1, <2>2, <3>1, SameHeld
    <3>3. Levelled(lev)'
      BY <1>1, <2>2, <2>3, <2>4 DEF Levelled, TableLevels, Present
    <3>4. blk[entry.to] = Blk(act) * Entries + act.i
      <4>1. /\ act.table \in DOMAIN tables /\ act.i \in 0 .. Entries - 1
            /\ entry = tables[act.table][act.i]
        BY <1>1, EntryFacts
      <4>2. blk[act.table] = Blk(act)
        BY <1>1, <2>2, ActFacts DEF IInv, StackPlaced
      <4> HIDE DEF act
      <4> QED
        BY <1>2, <2>2, <2>3, <4>1, <4>2 DEF Placed
    <3>5. StackPlaced(blk)'
      <4>1. \A j \in DOMAIN stack' : blk[stack'[j].table] = Blk(stack'[j])
        BY <2>2, <2>4, <2>5, <3>4 DEF StackPlaced
      <4> QED
        BY <4>1 DEF StackPlaced, Blk
    <3> QED
      BY <1>1, <3>2, <3>3, <3>5 DEF PlaceInv
  <2> QED
    BY <2>5, <2>6, <2>7, <2>8, <2>9 DEF MInv
<1> QED
  BY <1>3, <1>4

\* The end of the root's loop: the region is mapped.
LEMMA LeaveRoot ==
  ASSUME IInv, MInv, pc = "walk", ~InRange(act), Len(stack) = 1
  PROVE  Nxt = regions[r].end
<1>1. r \in DOMAIN regions /\ pa \in Nat \ {0}
  BY DEF IInv, WalkInv, TypeOK
<1>2. /\ regions[r].start \in Nat /\ regions[r].end \in Nat /\ regions[r].end <= Size[Levels]
  BY <1>1, LayoutFacts DEF IInv
<1>3. /\ act \in Walks(DOMAIN tables) /\ 1 \in DOMAIN stack /\ act = stack[1] /\ stack # <<>>
  BY ActFacts DEF IInv
<1>4. get_index(act.start, act.level) <= act.i
  BY <1>3 DEF IInv, StackInv
<1>5. act.level = Levels - 1
  BY <1>3 DEF MInv, Phase, ChainInv
<1>6. /\ Nxt <= regions[r].end
      /\ curr_va(act) = Nxt \/ (Nxt = regions[r].end /\ Nxt <= curr_va(act))
  BY DEF MInv, Phase, PosInv
<1>7. ~(act.i < Entries) \/ ~(curr_va(act) < regions[r].end)
  BY DEF InRange
<1> HIDE DEF act
<1>8. /\ Blk(act) \in Nat /\ curr_va(act) \in Nat
      /\ act.i # get_index(act.start, act.level) =>
           curr_va(act) = (Blk(act) * Entries + act.i) * Size[act.level]
  BY <1>3, <1>4, PositionFacts
<1>9. Nxt \in Nat
  BY <1>1, <1>2 DEF Nxt
<1>10. CASE ~(curr_va(act) < regions[r].end)
  BY <1>2, <1>6, <1>8, <1>9, <1>10
<1>11. CASE ~(act.i < Entries)
  <2>1. act.i = Entries /\ Entries \in Nat
    <3>1. act.i \in 0 .. Entries
      BY <1>3 DEF Walks
    <3> QED
      BY <1>11, <3>1, ShapeAssumption
  <2>2. act.i # get_index(act.start, act.level)
    <3>1. get_index(act.start, act.level) \in 0 .. Entries - 1
      BY <1>3, WalksFacts, IndexFacts, Zenon
    <3> QED
      BY <2>1, <3>1
  <2>3. PICK s \in Nat : s = Size[act.level] /\ Size[Levels] = Entries * s
    <3>1. Levels - 1 \in Nat /\ (Levels - 1) + 1 = Levels
      BY ShapeAssumption
    <3>2. Size[Levels - 1] \in Nat /\ Size[(Levels - 1) + 1] = Entries * Size[Levels - 1]
      BY <3>1, SizeFacts
    <3> QED
      BY <1>5, <3>1, <3>2
  <2>4. PICK b \in Nat : b = Blk(act)
    BY <1>8
  <2>5. curr_va(act) = (b * Entries + Entries) * s
    BY <1>8, <2>1, <2>2, <2>3, <2>4
  <2>6. (b * Entries + Entries) * s = (b * Entries) * s + Entries * s /\ (b * Entries) * s \in Nat
    BY <2>1
  <2>7. Size[Levels] <= curr_va(act)
    BY <2>1, <2>3, <2>5, <2>6
  <2>8. Size[Levels] \in Nat
    BY SizeFacts, ShapeAssumption
  <2> QED
    BY <1>2, <1>6, <1>8, <1>9, <2>7, <2>8
<1> QED
  BY <1>7, <1>10, <1>11

\* A caller that goes on is at the end of the block of the activation it called.
LEMMA CallerAddress ==
  ASSUME NEW T, NEW c \in Walks(T), NEW d \in Walks(T), NEW x \in Walks(T),
         c.level = x.level + 1, Blk(x) = Blk(c) * Entries + c.i,
         d.start = c.start, d.level = c.level, d.i = c.i + 1,
         get_index(c.start, c.level) <= c.i, get_index(x.start, x.level) <= x.i
  PROVE  /\ curr_va(d) = (Blk(x) * Entries + Entries) * Size[x.level]
         /\ curr_va(x) <= curr_va(d) /\ curr_va(x) \in Nat /\ curr_va(d) \in Nat
         /\ ~(x.i < Entries) => curr_va(x) = curr_va(d)
<1>1. /\ c.i \in Nat /\ c.level \in Nat /\ c.start \in Nat
      /\ x.level \in Nat /\ x.start \in Nat /\ x.i \in 0 .. Entries /\ Entries \in Nat
  <2>1. x.i \in 0 .. Entries
    BY DEF Walks
  <2> QED
    BY <2>1, WalksFacts, ShapeAssumption
<1>2. /\ get_index(c.start, c.level) \in 0 .. Entries - 1
      /\ get_index(x.start, x.level) \in 0 .. Entries - 1
  BY <1>1, IndexFacts, Zenon
<1>3. get_index(d.start, d.level) <= d.i /\ d.i # get_index(d.start, d.level)
  <2>1. PICK g \in Nat : g = get_index(c.start, c.level)
    BY <1>1, <1>2
  <2> QED
    BY <1>1, <2>1
<1>4. /\ curr_va(d) \in Nat /\ curr_va(d) = (Blk(d) * Entries + d.i) * Size[d.level]
  BY <1>3, PositionFacts
<1>5. Blk(d) = Blk(c)
  BY DEF Blk
<1>6. PICK s \in Nat : s = Size[x.level] /\ Size[d.level] = Entries * s
  BY <1>1, SizeFacts
<1>7. /\ Blk(x) \in Nat /\ curr_va(x) \in Nat
      /\ x.i # get_index(x.start, x.level) =>
           curr_va(x) = (Blk(x) * Entries + x.i) * Size[x.level]
      /\ curr_va(x) <= (Blk(x) * Entries + Entries) * Size[x.level]
  BY PositionFacts
<1>8. Blk(c) \in Nat
  BY PositionFacts
<1>9. Blk(d) * Entries + d.i = Blk(x) + 1
  <2>1. PICK n \in Nat : n = Blk(c) * Entries
    BY <1>1, <1>8
  <2> QED
    BY <1>1, <1>5, <2>1
<1>10. curr_va(d) = (Blk(x) * Entries + Entries) * s
  <2>1. PICK b \in Nat : b = Blk(x)
    BY <1>7
  <2>2. (b + 1) * (Entries * s) = (b * Entries + Entries) * s
    BY <1>1
  <2> QED
    BY <1>4, <1>6, <1>9, <2>1, <2>2
<1>11. ~(x.i < Entries) => curr_va(x) = curr_va(d)
  <2> SUFFICES ASSUME ~(x.i < Entries) PROVE curr_va(x) = curr_va(d)
    OBVIOUS
  <2>1. x.i = Entries
    BY <1>1
  <2>2. x.i # get_index(x.start, x.level)
    BY <1>1, <1>2, <2>1
  <2> QED
    BY <1>6, <1>7, <1>10, <2>1, <2>2
<1> QED
  BY <1>4, <1>6, <1>7, <1>10, <1>11

\* The end of the loop of an activation.
LEMMA LeaveMaps ==
  ASSUME IInv, MInv, Leave
  PROVE  MInv'
<1>1. /\ pc = "walk" /\ ~InRange(act)
      /\ UNCHANGED <<regions, pmap, pas, all_pages, tables, cr3, r, pa>>
  BY DEF Leave
<1>2. /\ stack \in Seq(Walks(DOMAIN tables)) /\ stack # <<>> /\ 1 \in DOMAIN stack
      /\ act = stack[1] /\ act \in Walks(DOMAIN tables)
  BY <1>1, ActFacts DEF IInv
<1>3. PICK lev \in [DOMAIN tables -> 0 .. Levels - 1], blk \in [DOMAIN tables -> Nat] :
        /\ Levelled(lev) /\ Placed(lev, blk) /\ StackPlaced(blk)
        /\ Holds(lev, blk) /\ HoldsAll(lev, blk)
  BY <1>1 DEF MInv, Phase, PlaceInv
<1>4. ChainInv /\ PosInv /\ MergedInv
  BY <1>1 DEF MInv, Phase
<1>5. MergedInv'
  BY <1>1, <1>4 DEF MergedInv, Pages
<1>6. Nxt' = Nxt
  BY <1>1 DEF Nxt
<1>7. CASE Len(stack) = 1
  <2>1. pc' = "merge" /\ stack' = <<>>
    BY <1>7 DEF Leave
  <2>2. CollectInv'
    BY <1>1, <2>1, CollectedStays
  <2>3. Nxt = regions[r].end
    BY <1>1, <1>7, LeaveRoot
  <2>4. ChainInv' /\ PosInv'
    BY <1>1, <1>4, <1>6, <2>1, <2>3 DEF ChainInv, PosInv
  <2>5. PlaceInv'
    <3>1. \A k \in DOMAIN regions : Upto(k)' = Upto(k)
      BY <1>1, <1>6, <2>1 DEF Upto
    <3>2. Placed(lev, blk)' /\ Holds(lev, blk)' /\ HoldsAll(lev, blk)'
      BY <1>1, <1>3, <3>1, SameHeld
    <3>3. Levelled(lev)' /\ StackPlaced(blk)'
      BY <1>1, <1>3, <2>1 DEF Levelled, TableLevels, Present, StackPlaced
    <3> QED
      BY <1>1, <3>2, <3>3 DEF PlaceInv
  <2> QED
    BY <1>5, <2>2, <2>4, <2>5 DEF MInv
<1>8. CASE Len(stack) # 1
  <2> DEFINE s == Tail(stack)
  <2>1. pc' = pc /\ stack' = Advanced(s)
    BY <1>8 DEF Leave
  <2>2. IsPopped(Walks(DOMAIN tables), s, stack)
    BY <1>2, <1>8, PoppedStack
  <2>3. Len(s) = Len(stack) - 1 /\ Len(stack) \in Nat \ {0, 1}
    BY <1>2, <1>8
  <2> HIDE DEF s
  <2>4. /\ s \in Seq(Walks(DOMAIN tables)) /\ s # <<>> /\ 1 \in DOMAIN s
        /\ \A j \in DOMAIN s : j + 1 # 1 /\ j + 1 \in DOMAIN stack /\ s[j] = stack[j + 1]
    BY <2>2 DEF IsPopped
  <2>5. \A j \in DOMAIN s : get_index(s[j].start, s[j].level) <= s[j].i /\ s[j].i < Entries
    BY <2>4 DEF IInv, StackInv
  <2>6. /\ StackStep(DOMAIN tables) /\ stack' # <<>> /\ DOMAIN stack' = DOMAIN s
        /\ stack'[1].i = s[1].i + 1
        /\ \A j \in DOMAIN s :
             /\ stack'[j].table = s[j].table /\ stack'[j].level = s[j].level
             /\ stack'[j].start = s[j].start
             /\ j # 1 => stack'[j].i = s[j].i
    BY <2>1, <2>4, <2>5, AdvanceKeeps
  <2>7. CollectInv'
    BY <1>1, <2>1, CollectedStays
  <2>8. \A j \in DOMAIN s : Blk(stack'[j]) = Blk(s[j])
    BY <2>6 DEF Blk
  <2>9. ChainInv'
    <3>1. ASSUME NEW j \in DOMAIN s, j + 1 \in DOMAIN s
          PROVE  /\ stack'[j + 1].level = stack'[j].level + 1
                 /\ Blk(stack'[j]) = Blk(stack'[j + 1]) * Entries + stack'[j + 1].i
      <4>1. /\ s[j] = stack[j + 1] /\ s[j + 1] = stack[(j + 1) + 1]
            /\ j + 1 \in DOMAIN stack /\ (j + 1) + 1 \in DOMAIN stack /\ j + 1 # 1
        BY <2>4, <3>1
      <4>2. /\ s[j + 1].level = s[j].level + 1
            /\ Blk(s[j]) = Blk(s[j + 1]) * Entries + s[j + 1].i
        BY <1>4, <4>1 DEF ChainInv
      <4> QED
        BY <2>6, <2>8, <3>1, <4>1, <4>2
    <3>2. stack'[Len(stack')].level = Levels - 1
      <4>1. Len(stack') = Len(s) /\ Len(s) \in DOMAIN s
        <5>1. stack' \in Seq(Walks(DOMAIN tables))
          BY <2>6 DEF StackStep
        <5>2. DOMAIN s = 1 .. Len(s) /\ DOMAIN stack' = 1 .. Len(stack')
          BY <2>4, <5>1
        <5>3. Len(s) \in Nat \ {0} /\ Len(stack') \in Nat
          BY <2>3, <5>1
        <5> QED
          BY <2>6, <5>2, <5>3
      <4>2. s[Len(s)] = stack[Len(stack)]
        <5>1. Len(s) + 1 = Len(stack)
          BY <2>3
        <5> QED
          BY <2>4, <4>1, <5>1
      <4> QED
        BY <1>2, <1>4, <2>6, <4>1, <4>2 DEF ChainInv
    <3>3. \A j \in DOMAIN stack' : j + 1 \in DOMAIN stack' =>
            /\ stack'[j + 1].level = stack'[j].level + 1
            /\ Blk(stack'[j]) = Blk(stack'[j + 1]) * Entries + stack'[j + 1].i
      BY <2>6, <3>1
    <3> QED
      BY <3>2, <3>3 DEF ChainInv, Blk
  <2>10. PosInv'
    <3>1. s[1] = stack[2] /\ 2 \in DOMAIN stack
      BY <2>4
    <3>2. /\ s[1].level = act.level + 1
          /\ Blk(act) = Blk(s[1]) * Entries + s[1].i
      BY <1>2, <1>4, <3>1 DEF ChainInv
    <3>3. s[1] \in Walks(DOMAIN tables) /\ stack'[1] \in Walks(DOMAIN tables)
      BY <2>4, <2>6 DEF StackStep
    <3>4. get_index(act.start, act.level) <= act.i
      BY <1>2 DEF IInv, StackInv
    <3>5. /\ curr_va(act) <= curr_va(stack'[1])
          /\ curr_va(act) \in Nat /\ curr_va(stack'[1]) \in Nat
          /\ ~(act.i < Entries) => curr_va(act) = curr_va(stack'[1])
      <4> HIDE DEF act
      <4> QED
        BY <1>2, <2>4, <2>5, <2>6, <3>2, <3>3, <3>4, CallerAddress
    <3>6. /\ Nxt <= regions[r].end
          /\ curr_va(act) = Nxt \/ (Nxt = regions[r].end /\ Nxt <= curr_va(act))
          /\ pa - 1 <= Len(pas[r])
      BY <1>1, <1>4 DEF PosInv
    <3>7. ~(act.i < Entries) \/ ~(curr_va(act) < regions[r].end)
      BY <1>1 DEF InRange
    <3>8. regions[r].end \in Nat /\ Nxt \in Nat
      <4>1. r \in DOMAIN regions /\ pa \in Nat \ {0}
        BY <1>1 DEF IInv, WalkInv, TypeOK
      <4>2. regions[r].start \in Nat /\ regions[r].end \in Nat
        BY <4>1, LayoutFacts DEF IInv
      <4> QED
        BY <4>1, <4>2 DEF Nxt
    <3>9. curr_va(act)' = curr_va(stack'[1])
      BY DEF curr_va, get_index, act
    <3>10. \/ curr_va(stack'[1]) = Nxt
           \/ Nxt = regions[r].end /\ Nxt <= curr_va(stack'[1])
      <4> HIDE DEF act
      <4> QED
        BY <3>5, <3>6, <3>7, <3>8
    <3> QED
      BY <1>1, <1>6, <2>1, <3>6, <3>9, <3>10 DEF PosInv
  <2>11. PlaceInv'
    <3>1. \A k \in DOMAIN regions : Upto(k)' = Upto(k)
      BY <1>1, <1>6, <2>1 DEF Upto
    <3>2. Placed(lev, blk)' /\ Holds(lev, blk)' /\ HoldsAll(lev, blk)'
      BY <1>1, <1>3, <3>1, SameHeld
    <3>3. \A j \in DOMAIN s : lev[s[j].table] = s[j].level /\ blk[s[j].table] = Blk(s[j])
      BY <1>3, <2>4 DEF Levelled, StackPlaced
    <3>4. Levelled(lev)'
      <4>1. TableLevels(lev)'
        BY <1>1, <1>3 DEF Levelled, TableLevels, Present
      <4> QED
        BY <2>6, <3>3, <4>1 DEF Levelled
    <3>5. StackPlaced(blk)'
      <4>1. \A j \in DOMAIN stack' : blk[stack'[j].table] = Blk(stack'[j])
        BY <2>6, <2>8, <3>3
      <4> QED
        BY <4>1 DEF StackPlaced, Blk
    <3> QED
      BY <1>1, <3>2, <3>4, <3>5 DEF PlaceInv
  <2> QED
    BY <1>5, <2>7, <2>9, <2>10, <2>11 DEF MInv
<1> QED
  BY <1>7, <1>8

LEMMA MapPageMaps ==
  ASSUME IInv, MInv, MapPage
  PROVE  MInv'
<1>1. PICK e : e = [to |-> pas[r][pa], bits |-> translate_flags(regions[r].flags)]
  OBVIOUS
<1>2. /\ Iterating("MAP") /\ act.level = 0 /\ pa <= Len(pas[r]) /\ pa' = pa + 1
      /\ tables' = [tables EXCEPT ![act.table][act.i] = e] /\ stack' = Advanced(stack)
      /\ UNCHANGED <<regions, pmap, pas, all_pages, cr3, pc, r>>
  BY <1>1 DEF MapPage
<1>3. pc = "walk" /\ InRange(act) /\ "P" \notin entry.bits /\ pas[r][pa] \in Frame
  BY <1>2, MapFacts
<1>4. /\ e \in Entry /\ e.to = pas[r][pa] /\ e.to \in Frame
      /\ e.bits = translate_flags(regions[r].flags)
  BY <1>1, <1>3 DEF Entry, translate_flags
<1>5. /\ DOMAIN tables' = DOMAIN tables /\ IsSet(tables', tables, act.table, act.i, e)
      /\ \A lev : Levelled(lev) => TableLevels(lev)'
  BY <1>2, <1>3, <1>4, FillKeeps, Zenon
<1>6. /\ stack \in Seq(Walks(DOMAIN tables)) /\ stack # <<>> /\ 1 \in DOMAIN stack
      /\ act = stack[1]
  BY <1>3, ActFacts DEF IInv
<1>7. /\ act.table \in DOMAIN tables /\ act.i \in 0 .. Entries - 1 /\ act.i < Entries
      /\ entry = tables[act.table][act.i]
  BY <1>3, EntryFacts
<1>8. /\ StackStep(DOMAIN tables) /\ stack' # <<>> /\ DOMAIN stack' = DOMAIN stack
      /\ stack'[1].i = stack[1].i + 1
      /\ \A j \in DOMAIN stack :
           /\ stack'[j].table = stack[j].table /\ stack'[j].level = stack[j].level
           /\ stack'[j].start = stack[j].start
           /\ j # 1 => stack'[j].i = stack[j].i
  <2>1. stack[1].i < Entries
    BY <1>6, <1>7
  <2>2. \A j \in DOMAIN stack : /\ get_index(stack[j].start, stack[j].level) <= stack[j].i
                                /\ j # 1 => stack[j].i < Entries
    BY DEF IInv, StackInv
  <2> QED
    BY <1>2, <1>6, <2>1, <2>2, AdvanceKeeps
<1>9. ChainInv /\ PosInv /\ MergedInv
  BY <1>3 DEF MInv, Phase
<1>10. CollectInv'
  BY <1>2, <1>3, CollectedStays
<1>11. MergedInv'
  BY <1>2, <1>9 DEF MergedInv, Pages
<1>12. \A j \in DOMAIN stack : Blk(stack'[j]) = Blk(stack[j])
  BY <1>8 DEF Blk
<1>13. ChainInv'
  <2>1. DOMAIN stack = 1 .. Len(stack) /\ Len(stack) \in Nat \ {0}
    BY <1>6
  <2>2. Len(stack') = Len(stack)
    <3>1. stack' \in Seq(Walks(DOMAIN tables))
      BY <1>8 DEF StackStep
    <3>2. DOMAIN stack' = 1 .. Len(stack') /\ Len(stack') \in Nat
      BY <3>1
    <3> QED
      BY <1>8, <2>1, <3>2
  <2>3. stack'[Len(stack')].level = Levels - 1
    <3>1. Len(stack) \in DOMAIN stack
      BY <2>1
    <3> QED
      BY <1>6, <1>8, <1>9, <2>2, <3>1 DEF ChainInv
  <2>4. ASSUME NEW j \in DOMAIN stack, j + 1 \in DOMAIN stack
        PROVE  /\ stack'[j + 1].level = stack'[j].level + 1
               /\ Blk(stack'[j]) = Blk(stack'[j + 1]) * Entries + stack'[j + 1].i
    <3>1. j + 1 # 1
      BY <2>1
    <3>2. /\ stack[j + 1].level = stack[j].level + 1
          /\ Blk(stack[j]) = Blk(stack[j + 1]) * Entries + stack[j + 1].i
      BY <1>9, <2>4 DEF ChainInv
    <3> QED
      BY <1>8, <1>12, <2>4, <3>1, <3>2
  <2>5. \A j \in DOMAIN stack' : j + 1 \in DOMAIN stack' =>
          /\ stack'[j + 1].level = stack'[j].level + 1
          /\ Blk(stack'[j]) = Blk(stack'[j + 1]) * Entries + stack'[j + 1].i
    BY <1>8, <2>4
  <2> QED
    BY <2>3, <2>5 DEF ChainInv, Blk
<1>14. /\ r \in DOMAIN regions /\ pa \in Nat \ {0}
       /\ regions[r].start \in Nat /\ regions[r].end \in Nat
       /\ Nxt \in Nat /\ regions[r].start <= Nxt /\ Nxt < regions[r].end
       /\ Blk(act) \in Nat /\ Nxt = Blk(act) * Entries + act.i
  BY <1>2, <1>3, WalkAt, LeafAt
<1>15. Nxt' = Nxt + 1 /\ Nxt - regions[r].start + 1 = pa
  BY <1>2, <1>14 DEF Nxt
<1>16. PosInv'
  <2>1. stack'[1] \in Walks(DOMAIN tables)
    BY <1>6, <1>8 DEF StackStep
  <2>2. stack'[1].level = 0 /\ stack'[1].i = act.i + 1 /\ Blk(stack'[1]) = Blk(act)
    BY <1>2, <1>6, <1>8, <1>12
  <2>3. get_index(act.start, act.level) <= act.i
    BY <1>6 DEF IInv, StackInv
  <2>4. get_index(act.start, act.level) \in 0 .. Entries - 1 /\ act.i \in Nat
    <3>1. act \in Walks(DOMAIN tables)
      BY <1>6
    <3> HIDE DEF act
    <3>2. act.start \in Nat /\ act.level \in Nat /\ act.i \in Nat
      BY <3>1, WalksFacts
    <3> QED
      BY <3>2, IndexFacts
  <2>5. /\ get_index(stack'[1].start, stack'[1].level) <= stack'[1].i
        /\ stack'[1].i # get_index(stack'[1].start, stack'[1].level)
    <3>1. get_index(stack'[1].start, stack'[1].level) = get_index(act.start, act.level)
      BY <1>6, <1>8
    <3> HIDE DEF act
    <3> QED
      BY <2>2, <2>3, <2>4, <3>1
  <2>6. curr_va(stack'[1]) = (Blk(act) * Entries + (act.i + 1)) * Size[0]
    <3>1. curr_va(stack'[1])
            = (Blk(stack'[1]) * Entries + stack'[1].i) * Size[stack'[1].level]
      BY <2>1, <2>5, PositionFacts
    <3> QED
      BY <2>2, <3>1
  <2>7. curr_va(stack'[1]) = Nxt + 1
    <3> HIDE DEF act
    <3>1. PICK n \in Nat : n = Blk(act) * Entries
      BY <1>14, ShapeAssumption
    <3>2. Size[0] = 1
      BY SizeFacts
    <3>3. (n + (act.i + 1)) * 1 = Nxt + 1
      BY <1>14, <2>4, <3>1
    <3> QED
      BY <2>6, <3>1, <3>2, <3>3
  <2>8. curr_va(act)' = curr_va(stack'[1])
    BY DEF curr_va, get_index, act
  <2>9. Nxt + 1 <= regions[r].end /\ pa' - 1 <= Len(pas[r])
    BY <1>2, <1>14
  <2> QED
    BY <1>2, <1>3, <1>15, <2>7, <2>8, <2>9 DEF PosInv
<1>17. PlaceInv'
  <2>1. PICK lev \in [DOMAIN tables -> 0 .. Levels - 1], blk \in [DOMAIN tables -> Nat] :
          /\ Levelled(lev) /\ Placed(lev, blk) /\ StackPlaced(blk)
          /\ Holds(lev, blk) /\ HoldsAll(lev, blk)
    BY <1>3 DEF MInv, Phase, PlaceInv
  <2>2. PICK t, x, v : t = act.table /\ x = act.i /\ v = Nxt
    OBVIOUS
  <2>3. /\ t \in DOMAIN tables /\ x \in 0 .. Entries - 1 /\ ~Present(t, x)
        /\ lev[t] = 0 /\ v = blk[t] * Entries + x /\ v \in Nat
    <3>1. lev[t] = act.level /\ blk[t] = Blk(act)
      BY <1>6, <2>1, <2>2 DEF Levelled, StackPlaced
    <3> QED
      BY <1>2, <1>3, <1>7, <1>14, <2>2, <3>1 DEF Present
  <2>4. \A k \in DOMAIN tables, j \in 0 .. Entries - 1 :
          tables'[k][j] = IF k = t /\ j = x THEN e ELSE tables[k][j]
    BY <1>5, <2>2 DEF IsSet
  <2>5. "P" \in e.bits
    <3>1. regions[r].flags # {}
      <4>1. regions \in Seq(Region)
        BY LayoutsAssumption DEF IInv, TypeOK
      <4>2. regions[r] \in Region
        BY <1>14, <4>1
      <4> QED
        BY <4>2 DEF Region
    <3> QED
      BY <1>4, <3>1 DEF translate_flags, Bits
  <2>6. Levelled(lev)'
    <3>1. TableLevels(lev)'
      BY <1>5, <2>1
    <3>2. \A j \in DOMAIN stack' : lev[stack'[j].table] = stack'[j].level
      BY <1>8, <2>1 DEF Levelled
    <3> QED
      BY <3>1, <3>2 DEF Levelled
  <2>7. Placed(lev, blk)'
    <3>1. \A n \in DOMAIN tables, i \in 0 .. Entries - 1 :
            lev[n] # 0 => tables'[n][i] = tables[n][i]
      BY <2>3, <2>4
    <3>2. \A n \in DOMAIN tables, i \in 0 .. Entries - 1 :
            Present(n, i)' /\ lev[n] # 0 =>
              /\ tables'[n][i].bits = intermed_flags
              /\ tables'[n][i].to \in DOMAIN tables =>
                   blk[tables'[n][i].to] = blk[n] * Entries + i
      <4> SUFFICES ASSUME NEW n \in DOMAIN tables, NEW i \in 0 .. Entries - 1,
                          Present(n, i)', lev[n] # 0
                   PROVE  /\ tables'[n][i].bits = intermed_flags
                          /\ tables'[n][i].to \in DOMAIN tables =>
                               blk[tables'[n][i].to] = blk[n] * Entries + i
        OBVIOUS
      <4>1. tables'[n][i] = tables[n][i]
        BY <3>1
      <4>2. Present(n, i)
        BY <4>1 DEF Present
      <4> QED
        BY <2>1, <4>1, <4>2 DEF Placed
    <3>3. (cr3 # 0 => blk[cr3] = 0) /\ \A m, n \in DOMAIN tables :
            lev[m] = lev[n] /\ blk[m] = blk[n] => m = n
      BY <2>1 DEF Placed
    <3>4. cr3' = cr3 /\ DOMAIN tables' = DOMAIN tables /\ intermed_flags' = intermed_flags
      BY <1>2, <1>5 DEF intermed_flags
    <3> QED
      BY <3>2, <3>3, <3>4, Zenon DEF Placed
  <2>8. StackPlaced(blk)'
    <3>1. \A j \in DOMAIN stack' : blk[stack'[j].table] = Blk(stack'[j])
      BY <1>8, <1>12, <2>1 DEF StackPlaced
    <3> QED
      BY <3>1 DEF StackPlaced, Blk
  <2>9. \A k \in DOMAIN regions : /\ k # r => Upto(k)' = Upto(k)
                                  /\ k = r => Upto(k) = Nxt /\ Upto(k)' = Nxt + 1
    <3>1. r \in Nat
      BY <1>14, LayoutFacts DEF IInv
    <3>2. ~(r < r)
      BY <3>1
    <3> QED
      BY <1>2, <1>3, <1>15, <3>2 DEF Upto
  <2>10. \A n \in DOMAIN tables, i \in 0 .. Entries - 1, va \in Nat :
           ~(n = t /\ i = x) => (IsPage(lev, blk, n, i, va)' <=> IsPage(lev, blk, n, i, va))
    BY <2>4 DEF IsPage, Present
  <2>11. IsPage(lev, blk, t, x, v)' /\ tables'[t][x] = e
    <3>1. tables'[t][x] = e
      BY <2>3, <2>4
    <3> QED
      BY <2>3, <2>5, <3>1 DEF IsPage, Present
  <2>12. Holds(lev, blk)'
    <3>1. ASSUME NEW n \in DOMAIN tables, NEW i \in 0 .. Entries - 1, NEW va \in Nat,
                 IsPage(lev, blk, n, i, va)'
          PROVE  \E k \in DOMAIN regions : MapsPage(n, i, va, k)'
      <4>1. CASE n = t /\ i = x
        <5>1. va = v
          BY <2>3, <3>1, <4>1 DEF IsPage
        <5>2. PICK k \in DOMAIN regions : k = r
          BY <1>14
        <5>3. regions[k].start <= va /\ va < Upto(k)'
          <6>1. Upto(k)' = Nxt + 1
            BY <2>9, <5>2
          <6>2. va = Nxt
            BY <2>2, <5>1
          <6>3. Nxt < Nxt + 1
            BY <1>14
          <6> QED
            BY <1>14, <5>2, <6>1, <6>2, <6>3, Zenon
        <5>4. /\ e.to = pas[k][va - regions[k].start + 1]
              /\ e.bits = translate_flags(regions[k].flags)
          BY <1>4, <1>15, <2>2, <5>1, <5>2
        <5>5. MapsPage(n, i, va, k)'
          BY <1>2, <2>11, <4>1, <5>3, <5>4 DEF MapsPage, translate_flags
        <5> QED
          BY <1>2, <5>5
      <4>2. CASE ~(n = t /\ i = x)
        <5>1. IsPage(lev, blk, n, i, va) /\ tables'[n][i] = tables[n][i]
          BY <2>4, <2>10, <3>1, <4>2
        <5>2. PICK k \in DOMAIN regions : MapsPage(n, i, va, k)
          BY <2>1, <5>1 DEF Holds
        <5>3. regions[k].start <= va /\ va < Upto(k)'
          <6>1. regions[k].start <= va /\ va < Upto(k)
            BY <5>2 DEF MapsPage
          <6> QED
            BY <1>14, <2>9, <6>1
        <5>4. MapsPage(n, i, va, k)'
          BY <1>2, <5>1, <5>2, <5>3 DEF MapsPage, translate_flags
        <5> QED
          BY <5>4
      <4> QED
        BY <4>1, <4>2
    <3> QED
      BY <1>2, <1>5, <3>1 DEF Holds
  <2>13. HoldsAll(lev, blk)'
    <3>1. ASSUME NEW k \in DOMAIN regions, NEW va \in Nat,
                 regions[k].start <= va, va < Upto(k)'
          PROVE  \E n \in DOMAIN tables, i \in 0 .. Entries - 1 : IsPage(lev, blk, n, i, va)'
      <4>1. CASE va < Upto(k)
        <5>1. PICK n \in DOMAIN tables, i \in 0 .. Entries - 1 : IsPage(lev, blk, n, i, va)
          BY <2>1, <3>1, <4>1 DEF HoldsAll
        <5>2. ~(n = t /\ i = x)
          BY <2>3, <5>1 DEF IsPage
        <5> QED
          BY <2>10, <5>1, <5>2
      <4>2. CASE ~(va < Upto(k))
        <5>1. va = v
          BY <1>14, <2>2, <2>9, <3>1, <4>2
        <5> QED
          BY <2>3, <2>11, <5>1
      <4> QED
        BY <4>1, <4>2
    <3> QED
      BY <1>2, <1>5, <3>1 DEF HoldsAll
  <2> QED
    BY <1>5, <2>6, <2>7, <2>8, <2>12, <2>13 DEF PlaceInv
<1> QED
  BY <1>10, <1>11, <1>13, <1>16, <1>17 DEF MInv


\* The block of an entry that is not present has no table.
LEMMA FreeBlock ==
  ASSUME IInv, NEW lev \in [DOMAIN tables -> 0 .. Levels - 1], NEW blk \in [DOMAIN tables -> Nat],
         Levelled(lev), Placed(lev, blk),
         NEW t \in DOMAIN tables, NEW x \in 0 .. Entries - 1, ~Present(t, x), cr3 # 0,
         NEW m \in DOMAIN tables, lev[m] = lev[t] - 1
  PROVE  blk[m] # blk[t] * Entries + x
<1> SUFFICES ASSUME blk[m] = blk[t] * Entries + x PROVE FALSE
  OBVIOUS
<1>1. lev[t] \in 0 .. Levels - 1 /\ lev[m] \in 0 .. Levels - 1 /\ Levels \in Nat
  BY ShapeAssumption
<1>2. m # cr3
  BY <1>1 DEF Levelled, TableLevels
<1>3. PICK n \in DOMAIN tables, i \in 0 .. Entries - 1 : Leads(n, i, m)
  BY <1>2 DEF IInv, TreeInv
<1>4. Present(n, i) /\ tables[n][i].to = m
  BY <1>3 DEF Leads
<1>5. m \notin Frame /\ m # 0
  <2>1. m \in Nat \ {0}
    <3>1. tables \in Seq(Table)
      BY DEF IInv, TypeOK, Table
    <3> QED
      BY <3>1
  <2> QED
    BY <2>1, FrameAssumption
<1>6. lev[n] # 0 /\ lev[m] = lev[n] - 1
  BY <1>4, <1>5 DEF Levelled, TableLevels
<1>7. lev[n] = lev[t]
  <2>1. lev[n] \in 0 .. Levels - 1
    OBVIOUS
  <2> QED
    BY <1>1, <1>6, <2>1
<1>8. blk[m] = blk[n] * Entries + i
  BY <1>4, <1>6 DEF Placed
<1>9. blk[n] = blk[t] /\ i = x
  <2>1. PICK p \in Nat, q \in Nat : p = blk[n] /\ q = blk[t]
    OBVIOUS
  <2>2. p * Entries + i = q * Entries + x
    BY <1>8, <2>1
  <2>3. Entries \in Nat
    BY ShapeAssumption
  <2>4. p = q /\ i = x
    BY <2>2, <2>3, Euclid
  <2> QED
    BY <2>1, <2>4
<1>10. n = t
  BY <1>7, <1>9 DEF Placed
<1> QED
  BY <1>4, <1>9, <1>10

\* Entry x of table t is made to lead to the new table, the only change.
Grows(lev, blk, lew, t, x, new, e) ==
  /\ lev \in [DOMAIN tables -> 0 .. Levels - 1] /\ blk \in [DOMAIN tables -> Nat]
  /\ Levelled(lev) /\ Placed(lev, blk) /\ Holds(lev, blk) /\ HoldsAll(lev, blk)
  /\ t \in DOMAIN tables /\ x \in 0 .. Entries - 1 /\ ~Present(t, x) /\ lev[t] # 0
  /\ cr3 # 0 /\ cr3' = cr3 /\ regions' = regions /\ pas' = pas
  /\ \A k \in DOMAIN regions : Upto(k)' = Upto(k)
  /\ new = Len(tables) + 1 /\ e.to = new /\ e.bits = intermed_flags
  /\ IsGrown(tables', tables, t, x, e)
  /\ lew \in [DOMAIN tables' -> 0 .. Levels - 1] /\ lew[new] = lev[t] - 1
  /\ \A n \in DOMAIN tables : lew[n] = lev[n]

\* The new table has the block of its entry, and no page yet.
LEMMA GrowPlaces ==
  ASSUME IInv, NEW lev, NEW blk, NEW lew, NEW t, NEW x, NEW new, NEW e,
         Grows(lev, blk, lew, t, x, new, e)
  PROVE  \E blw \in [DOMAIN tables' -> Nat] :
           /\ blw[new] = blk[t] * Entries + x /\ \A n \in DOMAIN tables : blw[n] = blk[n]
           /\ Placed(lew, blw)' /\ Holds(lew, blw)' /\ HoldsAll(lew, blw)'
<1> USE DEF Grows
<1>1. /\ DOMAIN tables' = DOMAIN tables \cup {new} /\ new \notin DOMAIN tables
      /\ \A k \in DOMAIN tables, j \in 0 .. Entries - 1 :
           tables'[k][j] = IF k = t /\ j = x THEN e ELSE tables[k][j]
      /\ \A j \in 0 .. Entries - 1 : tables'[new][j].bits = {}
  BY DEF IsGrown
<1>2. PICK b \in Nat : b = blk[t] * Entries + x
  <2>1. PICK p \in Nat : p = blk[t]
    OBVIOUS
  <2>2. PICK q \in Nat : q = p * Entries
    BY ShapeAssumption
  <2>3. q + x \in Nat
    OBVIOUS
  <2> QED
    BY <2>1, <2>2, <2>3
<1>3. PICK blw \in [DOMAIN tables' -> Nat] :
        blw[new] = b /\ \A n \in DOMAIN tables : blw[n] = blk[n]
  <2> DEFINE f == [n \in DOMAIN tables' |-> IF n = new THEN b ELSE blk[n]]
  <2>1. f \in [DOMAIN tables' -> Nat] /\ f[new] = b /\ \A n \in DOMAIN tables : f[n] = blk[n]
    BY <1>1
  <2> QED
    BY <2>1
<1>4. \A j \in 0 .. Entries - 1 : ~Present(new, j)'
  BY <1>1 DEF Present
<1>5. \A n \in DOMAIN tables', i \in 0 .. Entries - 1 : Present(n, i)' => n \in DOMAIN tables
  BY <1>1, <1>4
<1>6. \A n \in DOMAIN tables, i \in 0 .. Entries - 1 : ~(n = t /\ i = x) =>
        tables'[n][i] = tables[n][i] /\ (Present(n, i)' <=> Present(n, i))
  BY <1>1 DEF Present
<1>7. tables'[t][x] = e
  BY <1>1
<1>8. Placed(lew, blw)'
  <2>1. cr3 # 0 => blw[cr3] = 0
    <3>1. cr3 \in DOMAIN tables
      <4>1. cr3 \in 0 .. Len(tables) /\ tables \in Seq(Table)
        BY DEF IInv, TypeOK, Table
      <4> QED
        BY <4>1
    <3> QED
      BY <1>3, <3>1 DEF Placed
  <2>2. ASSUME NEW n \in DOMAIN tables', NEW i \in 0 .. Entries - 1, Present(n, i)', lew[n] # 0
        PROVE  /\ tables'[n][i].bits = intermed_flags
               /\ tables'[n][i].to \in DOMAIN tables' =>
                    blw[tables'[n][i].to] = blw[n] * Entries + i
    <3>1. n \in DOMAIN tables /\ blw[n] = blk[n] /\ lev[n] # 0
      BY <1>3, <1>5, <2>2
    <3>2. CASE n = t /\ i = x
      BY <1>2, <1>3, <1>7, <3>1, <3>2
    <3>3. CASE ~(n = t /\ i = x)
      <4>1. tables'[n][i] = tables[n][i] /\ Present(n, i)
        BY <1>6, <2>2, <3>1, <3>3
      <4>2. /\ tables[n][i].bits = intermed_flags
            /\ tables[n][i].to \in DOMAIN tables => blk[tables[n][i].to] = blk[n] * Entries + i
        BY <3>1, <4>1 DEF Placed
      <4>3. tables[n][i].to # new
        <5>1. new \in Nat \ {0} /\ new \notin Frame
          <6>1. new \in Nat \ {0}
            <7>1. tables \in Seq(Table)
              BY DEF IInv, TypeOK, Table
            <7> QED
              BY <7>1
          <6> QED
            BY <6>1, FrameAssumption
        <5>2. tables[n][i].to = 0 \/ tables[n][i].to \in DOMAIN tables
          BY <3>1, <4>1 DEF Levelled, TableLevels
        <5> QED
          BY <1>1, <5>1, <5>2
      <4> QED
        BY <1>1, <1>3, <3>1, <4>1, <4>2, <4>3
    <3> QED
      BY <3>2, <3>3
  <2>3. ASSUME NEW m \in DOMAIN tables', NEW n \in DOMAIN tables',
               lew[m] = lew[n], blw[m] = blw[n]
        PROVE  m = n
    <3>1. ASSUME NEW k \in DOMAIN tables, lew[k] = lew[new], blw[k] = blw[new] PROVE FALSE
      <4>1. lev[k] = lev[t] - 1 /\ blk[k] = blk[t] * Entries + x
        BY <1>2, <1>3, <3>1
      <4> QED
        BY <4>1, FreeBlock
    <3>2. CASE m \in DOMAIN tables /\ n \in DOMAIN tables
      BY <1>3, <2>3, <3>2 DEF Placed
    <3>3. CASE ~(m \in DOMAIN tables /\ n \in DOMAIN tables)
      BY <1>1, <2>3, <3>1, <3>3
    <3> QED
      BY <3>2, <3>3
  <2>4. cr3' = cr3 /\ intermed_flags' = intermed_flags
    BY DEF intermed_flags
  <2>5. \A n \in DOMAIN tables', i \in 0 .. Entries - 1 : Present(n, i)' /\ lew[n] # 0 =>
          /\ tables'[n][i].bits = intermed_flags
          /\ tables'[n][i].to \in DOMAIN tables' => blw[tables'[n][i].to] = blw[n] * Entries + i
    BY <2>2
  <2>6. \A m, n \in DOMAIN tables' : lew[m] = lew[n] /\ blw[m] = blw[n] => m = n
    BY <2>3
  <2> QED
    BY <2>1, <2>4, <2>5, <2>6, Zenon DEF Placed
<1>9. \A n \in DOMAIN tables, i \in 0 .. Entries - 1, va \in Nat :
        IsPage(lew, blw, n, i, va)' <=> IsPage(lev, blk, n, i, va)
  <2> SUFFICES ASSUME NEW n \in DOMAIN tables, NEW i \in 0 .. Entries - 1, NEW va \in Nat
               PROVE  IsPage(lew, blw, n, i, va)' <=> IsPage(lev, blk, n, i, va)
    OBVIOUS
  <2>1. lew[n] = lev[n] /\ blw[n] = blk[n]
    BY <1>3
  <2>2. CASE n = t /\ i = x
    BY <2>1, <2>2 DEF IsPage
  <2>3. CASE ~(n = t /\ i = x)
    BY <1>6, <2>1, <2>3 DEF IsPage
  <2> QED
    BY <2>2, <2>3
<1>10. Holds(lew, blw)'
  <2>1. ASSUME NEW n \in DOMAIN tables', NEW i \in 0 .. Entries - 1, NEW va \in Nat,
               IsPage(lew, blw, n, i, va)'
        PROVE  \E k \in DOMAIN regions : MapsPage(n, i, va, k)'
    <3>1. Present(n, i)' /\ lew[n] = 0
      BY <2>1 DEF IsPage
    <3>2. n \in DOMAIN tables
      BY <1>5, <3>1
    <3>3. n # t
      BY <3>1, <3>2
    <3>4. IsPage(lev, blk, n, i, va) /\ tables'[n][i] = tables[n][i]
      BY <1>6, <1>9, <2>1, <3>2, <3>3
    <3>5. PICK k \in DOMAIN regions : MapsPage(n, i, va, k)
      BY <3>2, <3>4 DEF Holds
    <3>6. Upto(k)' = Upto(k)
      OBVIOUS
    <3>7. MapsPage(n, i, va, k)'
      BY <3>4, <3>5, <3>6 DEF MapsPage, translate_flags
    <3> QED
      BY <3>7
  <2> QED
    BY <2>1 DEF Holds
<1>11. HoldsAll(lew, blw)'
  <2>1. ASSUME NEW k \in DOMAIN regions, NEW va \in Nat,
               regions[k].start <= va, va < Upto(k)'
        PROVE  \E n \in DOMAIN tables', i \in 0 .. Entries - 1 : IsPage(lew, blw, n, i, va)'
    <3>1. va < Upto(k)
      BY <2>1
    <3>2. PICK n \in DOMAIN tables, i \in 0 .. Entries - 1 : IsPage(lev, blk, n, i, va)
      BY <2>1, <3>1 DEF HoldsAll
    <3> QED
      BY <1>1, <1>9, <3>2
  <2> QED
    BY <2>1 DEF HoldsAll
<1> QED
  BY <1>2, <1>3, <1>8, <1>10, <1>11

LEMMA MapTableMaps ==
  ASSUME IInv, MInv, MapTable
  PROVE  MInv'
<1>1. PICK new \in {0, Len(tables) + 1} :
        /\ Iterating("MAP") /\ act.level > 0 /\ pa <= Len(pas[r])
        /\ allocate([tables EXCEPT ![act.table][act.i] =
                       [to |-> new, bits |-> intermed_flags]], new)
        /\ Descend(new)
        /\ UNCHANGED <<regions, pmap, pas, all_pages, cr3, r, pa>>
  BY DEF MapTable
<1>2. pc = "walk" /\ InRange(act) /\ "P" \notin entry.bits
  BY <1>1, MapFacts
<1>3. CASE new = 0
  <2>1. pc' = "wild"
    BY <1>1, <1>3 DEF Descend
  <2>2. ~Phase' /\ pc' # "root"
    BY <2>1 DEF Phase
  <2> QED
    BY <1>1, <2>2, EndMaps
<1>4. CASE new = Len(tables) + 1
  <2>1. PICK e : e = [to |-> new, bits |-> intermed_flags]
    OBVIOUS
  <2>2. /\ tables \in Seq(Table) /\ Len(tables) \in Nat /\ cr3 # 0 /\ new # 0
        /\ DOMAIN tables = 1 .. Len(tables)
    <3>1. tables \in Seq(Table) /\ cr3 # 0
      BY <1>2, ActFacts DEF IInv, TypeOK, Table
    <3> QED
      BY <1>4, <3>1
  <2>3. e \in Entry /\ e.to = new /\ e.bits = intermed_flags /\ "P" \in e.bits
    BY <1>4, <2>1, <2>2 DEF Entry, intermed_flags, Bits
  <2>4. /\ act.table \in DOMAIN tables /\ act.i \in 0 .. Entries - 1
        /\ act.level \in 0 .. Levels - 1 /\ act.level # 0 /\ entry = tables[act.table][act.i]
    BY <1>1, <1>2, EntryFacts
  <2>5. /\ pc' = pc /\ stack' = <<Activation(new, act.level - 1, curr_va(act))>> \o stack
        /\ tables' = Append([tables EXCEPT ![act.table][act.i] = e], Empty)
    BY <1>1, <2>1, <2>2 DEF Descend, allocate
  <2>6. /\ IsGrown(tables', tables, act.table, act.i, e)
        /\ \A lev \in [DOMAIN tables -> 0 .. Levels - 1] : Levelled(lev) =>
             \E lew \in [DOMAIN tables' -> 0 .. Levels - 1] :
               /\ TableLevels(lew)' /\ lew[e.to] = act.level - 1
               /\ \A n \in DOMAIN tables : lew[n] = lev[n]
    BY <1>1, <1>2, <1>4, <2>3, <2>4, <2>5, GrowKeeps, Zenon
  <2>7. /\ new \in DOMAIN tables' /\ DOMAIN tables \subseteq DOMAIN tables'
    BY <1>4, <2>6 DEF IsGrown
  <2>8. /\ stack' # <<>> /\ 1 \in DOMAIN stack'
        /\ stack'[1].table = new /\ stack'[1].level = act.level - 1
        /\ \A j \in DOMAIN stack' : j # 1 => j - 1 \in DOMAIN stack /\ stack'[j] = stack[j - 1]
    BY <1>2, <2>4, <2>5, <2>7, DescendKeeps, Zenon
  <2>9. /\ ChainInv' /\ curr_va(act)' = curr_va(act)
        /\ Blk(stack'[1]) = Blk(act) * Entries + act.i
    BY <1>2, <2>4, <2>5, <2>7, DescendChain, Zenon
  <2>10. CollectInv'
    BY <1>1, <1>2, <2>5, CollectedStays
  <2>11. PosInv'
    <3>1. curr_va(act) = Nxt /\ Nxt' = Nxt
      BY <1>1, <1>2, WalkAt DEF Nxt
    <3> QED
      BY <1>1, <1>2, <2>5, <2>9, <3>1 DEF MInv, Phase, PosInv
  <2>12. MergedInv'
    BY <1>1, <1>2 DEF MInv, Phase, MergedInv, Pages
  <2>13. PlaceInv'
    <3>1. PICK lev \in [DOMAIN tables -> 0 .. Levels - 1], blk \in [DOMAIN tables -> Nat] :
            /\ Levelled(lev) /\ Placed(lev, blk) /\ StackPlaced(blk)
            /\ Holds(lev, blk) /\ HoldsAll(lev, blk)
      BY <1>2 DEF MInv, Phase, PlaceInv
    <3>2. PICK lew \in [DOMAIN tables' -> 0 .. Levels - 1] :
            /\ TableLevels(lew)' /\ lew[e.to] = act.level - 1
            /\ \A n \in DOMAIN tables : lew[n] = lev[n]
      BY <2>6, <3>1
    <3>3. PICK t, x : t = act.table /\ x = act.i
      OBVIOUS
    <3>4. 1 \in DOMAIN stack /\ act = stack[1] /\ stack \in Seq(Walks(DOMAIN tables))
      BY <1>2, ActFacts DEF IInv
    <3>5. lev[t] = act.level /\ blk[t] = Blk(act)
      BY <3>1, <3>3, <3>4 DEF Levelled, StackPlaced
    <3>6. /\ t \in DOMAIN tables /\ x \in 0 .. Entries - 1 /\ ~Present(t, x) /\ lev[t] # 0
          /\ lew[new] = lev[t] - 1 /\ IsGrown(tables', tables, t, x, e)
      BY <1>2, <2>3, <2>4, <2>6, <3>2, <3>3, <3>5 DEF Present
    <3>7. \A k \in DOMAIN regions : Upto(k)' = Upto(k)
      BY <1>1, <2>5 DEF Upto, Nxt
    <3>8. PICK blw \in [DOMAIN tables' -> Nat] :
            /\ blw[new] = blk[t] * Entries + x /\ \A n \in DOMAIN tables : blw[n] = blk[n]
            /\ Placed(lew, blw)' /\ Holds(lew, blw)' /\ HoldsAll(lew, blw)'
      <4>1. cr3' = cr3 /\ regions' = regions /\ pas' = pas
        BY <1>1
      <4>2. Grows(lev, blk, lew, t, x, new, e)
        BY <1>4, <2>2, <2>3, <3>1, <3>2, <3>6, <3>7, <4>1 DEF Grows
      <4> QED
        BY <4>2, GrowPlaces
    <3>9. \A j \in DOMAIN stack : stack[j].table \in DOMAIN tables
      <4>1. \A j \in DOMAIN stack : stack[j] \in Walks(DOMAIN tables)
        BY <3>4
      <4> QED
        BY <4>1 DEF Walks
    <3>10. ASSUME NEW j \in DOMAIN stack'
           PROVE  /\ lew[stack'[j].table] = stack'[j].level
                  /\ blw[stack'[j].table] = Blk(stack'[j])
      <4>1. CASE j = 1
        <5>1. lew[new] = stack'[1].level
          BY <2>8, <3>5, <3>6
        <5>2. blw[new] = Blk(stack'[1])
          BY <2>9, <3>3, <3>5, <3>8
        <5> QED
          BY <2>8, <4>1, <5>1, <5>2
      <4>2. CASE j # 1
        <5>1. j - 1 \in DOMAIN stack /\ stack'[j] = stack[j - 1]
          BY <2>8, <4>2
        <5>2. PICK y : y = stack[j - 1]
          OBVIOUS
        <5>3. y.table \in DOMAIN tables /\ lev[y.table] = y.level /\ blk[y.table] = Blk(y)
          BY <3>1, <3>9, <5>1, <5>2 DEF Levelled, StackPlaced
        <5> QED
          BY <3>2, <3>8, <5>1, <5>2, <5>3
      <4> QED
        BY <4>1, <4>2
    <3>11. Levelled(lew)'
      BY <3>2, <3>10 DEF Levelled
    <3>12. StackPlaced(blw)'
      BY <3>10 DEF StackPlaced, Blk
    <3> QED
      BY <3>8, <3>11, <3>12 DEF PlaceInv
  <2> QED
    BY <2>9, <2>10, <2>11, <2>12, <2>13 DEF MInv
<1> QED
  BY <1>3, <1>4

-----------------------------------------------------------------------------
LEMMA NextMaps == IInv /\ IInv' /\ MInv /\ [Next]_vars => MInv'
<1> SUFFICES ASSUME IInv, IInv', MInv, [Next]_vars PROVE MInv'
  OBVIOUS
<1>1. CASE UNCHANGED vars
  <2>1. UNCHANGED <<regions, pmap, pas, all_pages, tables, cr3, pc, r, pa, stack>>
    BY <1>1 DEF vars
  <2>2. CollectInv'
    BY <2>1 DEF MInv, CollectInv, Pages
  <2>3. Phase' => Phase
    BY <2>1 DEF Phase
  <2>4. Phase => ChainInv' /\ PosInv' /\ MergedInv'
    <3>1. Phase => ChainInv'
      BY <2>1 DEF MInv, ChainInv, Blk
    <3>2. Phase => PosInv'
      BY <2>1 DEF MInv, PosInv, Nxt, curr_va, get_index, act
    <3>3. Phase => MergedInv'
      BY <2>1 DEF MInv, MergedInv, Pages
    <3> QED
      BY <3>1, <3>2, <3>3
  <2>5. Phase => PlaceInv'
    <3>1. \A k \in DOMAIN regions : Upto(k)' = Upto(k)
      BY <2>1 DEF Upto, Nxt
    <3> QED
      BY <2>1, <3>1, SamePlaces DEF MInv
  <2> QED
    BY <2>2, <2>3, <2>4, <2>5 DEF MInv
<1>2. CASE MapError
  <2>1. pc' \in {"failed", "oops"} /\ UNCHANGED <<regions, pmap, pas>>
    BY <1>2 DEF MapError
  <2>2. ~Phase' /\ pc' # "root"
    BY <2>1 DEF Phase
  <2> QED
    BY <2>1, <2>2, EndMaps
<1>3. CASE Next /\ ~MapError
  BY <1>3, CollectMaps, AllocateRootMaps, MapRegionMaps, DoneMaps, WalkEntryMaps, MapPageMaps,
     MapTableMaps, LeaveMaps, MergeMaps, Zenon DEF Next
<1> QED
  BY <1>1, <1>2, <1>3

LEMMA MapsInvariance == Spec => []MInv
BY InitMaps, NextMaps, Invariance, PTL DEF Spec

-----------------------------------------------------------------------------
\* f is the way of the MMU through the first n + 1 levels.
Way(f, n, va) == f = [d \in 0 .. n |-> IF d = 0 THEN cr3 ELSE Below(f[d - 1], Levels - d, va)]

LEMMA WayExists ==
  ASSUME NEW va, NEW n \in Nat
  PROVE  \E f : Way(f, n, va)
<1> DEFINE S == {k \in Nat : ~\E f : Way(f, k, va)}
<1>1. SUFFICES ASSUME S # {} PROVE FALSE
  OBVIOUS
<1>2. PICK m \in S : \A k \in S : m <= k
  <2>1. S \in SUBSET Nat
    OBVIOUS
  <2> HIDE DEF S
  <2> QED
    BY <1>1, <2>1, LeastElement
<1>3. m \in Nat /\ ~\E f : Way(f, m, va)
  BY <1>2
<1>4. CASE m = 0
  <2> DEFINE g == [d \in 0 .. 0 |-> cr3]
  <2>1. g = [d \in 0 .. 0 |-> IF d = 0 THEN cr3 ELSE Below(g[d - 1], Levels - d, va)]
    OBVIOUS
  <2>2. Way(g, 0, va)
    BY <2>1 DEF Way
  <2> QED
    BY <1>3, <1>4, <2>2
<1>5. CASE m # 0
  <2>1. m - 1 \in Nat /\ m - 1 \notin S
    BY <1>2, <1>3, <1>5
  <2>2. PICK f : Way(f, m - 1, va)
    BY <2>1
  <2>3. \A d \in 0 .. m - 1 : f[d] = IF d = 0 THEN cr3 ELSE Below(f[d - 1], Levels - d, va)
    <3> DEFINE F(d) == IF d = 0 THEN cr3 ELSE Below(f[d - 1], Levels - d, va)
    <3>1. f = [d \in 0 .. m - 1 |-> F(d)]
      BY <2>2 DEF Way
    <3> HIDE DEF F
    <3>2. \A d \in 0 .. m - 1 : f[d] = F(d)
      BY <3>1
    <3> QED
      BY <3>2 DEF F
  <2>4. PICK g : g = [d \in 0 .. m |-> IF d = m THEN Below(f[m - 1], Levels - m, va) ELSE f[d]]
    OBVIOUS
  <2>5. \A d \in 0 .. m : g[d] = IF d = m THEN Below(f[m - 1], Levels - m, va) ELSE f[d]
    BY <2>4
  <2>6. ASSUME NEW d \in 0 .. m
        PROVE  g[d] = IF d = 0 THEN cr3 ELSE Below(g[d - 1], Levels - d, va)
    <3>1. CASE d = 0
      <4>1. 0 \in 0 .. m - 1 /\ 0 \in 0 .. m /\ 0 # m
        BY <1>3, <1>5
      <4>2. f[0] = cr3
        BY <2>3, <4>1
      <4> QED
        BY <2>5, <3>1, <4>1, <4>2
    <3>2. CASE d # 0
      <4>1. d - 1 \in 0 .. m /\ d - 1 # m
        BY <1>3, <3>2
      <4>2. g[d - 1] = f[d - 1]
        BY <2>5, <4>1
      <4>3. CASE d = m
        BY <2>5, <3>2, <4>2, <4>3
      <4>4. CASE d # m
        <5>1. d \in 0 .. m - 1
          BY <1>3, <4>4
        <5>2. g[d] = f[d] /\ f[d] = Below(f[d - 1], Levels - d, va)
          BY <2>3, <2>5, <3>2, <4>4, <5>1
        <5> QED
          BY <3>2, <4>2, <5>2
      <4> QED
        BY <4>3, <4>4
    <3> QED
      BY <3>1, <3>2
  <2>7. Way(g, m, va)
    <3> DEFINE G(d) == IF d = 0 THEN cr3 ELSE Below(g[d - 1], Levels - d, va)
    <3>1. \A d \in 0 .. m : g[d] = G(d)
      BY <2>6
    <3>2. g = [d \in 0 .. m |-> g[d]]
      BY <2>4
    <3> HIDE DEF G
    <3>3. g = [d \in 0 .. m |-> G(d)]
      BY <3>1, <3>2, Zenon
    <3> QED
      BY <3>3 DEF G, Way
  <2> QED
    BY <1>3, <2>7
<1> QED
  BY <1>4, <1>5

\* The MMU starts at the root and follows the entries of the address.
LEMMA ReachedFacts ==
  ASSUME NEW va
  PROVE  /\ Reached(va)[0] = cr3
         /\ \A d \in 1 .. Levels - 1 : Reached(va)[d] = Below(Reached(va)[d - 1], Levels - d, va)
<1>1. Levels - 1 \in Nat
  BY ShapeAssumption
<1>2. \E f : f = [d \in 0 .. Levels - 1 |->
                    IF d = 0 THEN cr3 ELSE Below(f[d - 1], Levels - d, va)]
  BY <1>1, WayExists DEF Way
<1>3. PICK R : R = Reached(va)
  OBVIOUS
<1>4. R = [d \in 0 .. Levels - 1 |-> IF d = 0 THEN cr3 ELSE Below(R[d - 1], Levels - d, va)]
  BY <1>2, <1>3, Zenon DEF Reached
<1>5. \A d \in 0 .. Levels - 1 : R[d] = IF d = 0 THEN cr3 ELSE Below(R[d - 1], Levels - d, va)
  <2> DEFINE F(d) == IF d = 0 THEN cr3 ELSE Below(R[d - 1], Levels - d, va)
  <2>1. R = [d \in 0 .. Levels - 1 |-> F(d)]
    BY <1>4
  <2> HIDE DEF F
  <2>2. \A d \in 0 .. Levels - 1 : R[d] = F(d)
    BY <2>1
  <2> QED
    BY <2>2 DEF F
<1>6. 0 \in 0 .. Levels - 1 /\ \A d \in 1 .. Levels - 1 : d \in 0 .. Levels - 1 /\ d # 0
  BY <1>1
<1> QED
  BY <1>3, <1>5, <1>6

\* An address in VA is in the only block of the root.
LEMMA RootBlock ==
  ASSUME NEW va \in VA
  PROVE  va \in Nat /\ va \div Size[Levels] = 0
<1>1. Levels \in Nat
  BY ShapeAssumption
<1>2. Size[Levels] \in Nat \ {0}
  BY <1>1, SizeFacts
<1>3. va \in Nat /\ va < Size[Levels]
  BY <1>2 DEF VA
<1> QED
  BY <1>2, <1>3, Small

\* What the entry of an address leads to has the block of the address.
LEMMA BlockBelow ==
  ASSUME NEW va \in Nat, NEW l \in Nat, NEW b, NEW c, NEW i \in 0 .. Entries - 1,
         b \in Nat, c = b * Entries + i
  PROVE  c = va \div Size[l] <=> b = va \div Size[l + 1] /\ i = get_index(va, l)
<1>1. PICK p \in Nat : p = va \div Size[l + 1]
  BY BlockFacts
<1>2. PICK j \in 0 .. Entries - 1 : j = get_index(va, l)
  BY IndexFacts
<1>3. va \div Size[l] = p * Entries + j
  BY <1>1, <1>2, BlockFacts
<1>4. ASSUME c = va \div Size[l] PROVE b = p /\ i = j
  <2>1. b * Entries + i = p * Entries + j
    BY <1>3, <1>4
  <2>2. Entries \in Nat
    BY ShapeAssumption
  <2> QED
    BY <2>1, <2>2, Euclid
<1>5. ASSUME b = p, i = j PROVE c = va \div Size[l]
  BY <1>3, <1>5
<1> QED
  BY <1>1, <1>2, <1>4, <1>5

\* The tables with their levels and blocks, once there is a root.
Laid(lev, blk) ==
  /\ lev \in [DOMAIN tables -> 0 .. Levels - 1] /\ blk \in [DOMAIN tables -> Nat]
  /\ TableLevels(lev) /\ Placed(lev, blk) /\ cr3 # 0

\* A table that the MMU comes to is the one of the address's block.
AtBlock(lev, blk, va, d, t) ==
  t \in DOMAIN tables /\ lev[t] = Levels - 1 - d /\ blk[t] = va \div Size[Levels - d]

LEMMA RootAt ==
  ASSUME IInv, NEW lev, NEW blk, Laid(lev, blk), NEW va \in VA
  PROVE  AtBlock(lev, blk, va, 0, cr3)
<1>1. cr3 \in DOMAIN tables
  <2>1. cr3 \in 0 .. Len(tables) /\ tables \in Seq(Table) /\ cr3 # 0
    BY DEF IInv, TypeOK, Table, Laid
  <2> QED
    BY <2>1
<1>2. lev[cr3] = Levels - 1 /\ blk[cr3] = 0
  BY DEF Laid, TableLevels, Placed
<1>3. Levels - 1 - 0 = Levels - 1 /\ Levels - 0 = Levels
  BY ShapeAssumption
<1>4. va \div Size[Levels] = 0
  BY RootBlock
<1> QED
  BY <1>1, <1>2, <1>3, <1>4, Zenon DEF AtBlock

\* One level down.
LEMMA StepDown ==
  ASSUME IInv, NEW lev, NEW blk, Laid(lev, blk), NEW va \in VA, NEW d \in 1 .. Levels - 1,
         NEW t, AtBlock(lev, blk, va, d - 1, t), Below(t, Levels - d, va) # 0
  PROVE  AtBlock(lev, blk, va, d, Below(t, Levels - d, va))
<1>1. PICK l \in Nat \ {0} : l = Levels - d
  BY ShapeAssumption
<1>2. Levels - 1 - (d - 1) = l /\ Levels - (d - 1) = l + 1 /\ Levels - 1 - d = l - 1
  BY <1>1, ShapeAssumption
<1>3. t \in DOMAIN tables /\ lev[t] = l /\ blk[t] = va \div Size[l + 1]
  BY <1>2 DEF AtBlock
<1>4. PICK i \in 0 .. Entries - 1 : i = get_index(va, l)
  BY RootBlock, IndexFacts
<1>5. PICK m : m = Below(t, l, va)
  OBVIOUS
<1>6. Present(t, i) /\ tables[t][i].to = m /\ m # 0
  BY <1>1, <1>4, <1>5 DEF Below, Present
<1>7. m \in DOMAIN tables /\ lev[m] = l - 1
  BY <1>3, <1>6 DEF Laid, TableLevels
<1>8. blk[m] = blk[t] * Entries + i /\ blk[t] \in Nat
  BY <1>3, <1>6, <1>7 DEF Laid, Placed
<1>9. blk[m] = va \div Size[l]
  BY <1>3, <1>4, <1>8, RootBlock, BlockBelow
<1> QED
  BY <1>1, <1>2, <1>5, <1>7, <1>9, Zenon DEF AtBlock

\* Wherever the MMU comes to is the table of the address's block.
LEMMA Downwards ==
  ASSUME IInv, NEW lev, NEW blk, Laid(lev, blk), NEW va \in VA, NEW d \in 0 .. Levels - 1,
         Reached(va)[d] # 0
  PROVE  AtBlock(lev, blk, va, d, Reached(va)[d])
<1> DEFINE P(k) == Reached(va)[k] # 0 => AtBlock(lev, blk, va, k, Reached(va)[k])
           S == {k \in Nat : k <= Levels - 1 /\ ~P(k)}
<1>0. Levels \in Nat \ {0}
  BY ShapeAssumption
<1>1. SUFFICES ASSUME S # {} PROVE FALSE
  BY <1>0
<1>2. PICK k \in S : \A j \in S : k <= j
  <2>1. S \in SUBSET Nat
    OBVIOUS
  <2> HIDE DEF S
  <2> QED
    BY <1>1, <2>1, LeastElement
<1>3. k \in Nat /\ k <= Levels - 1 /\ ~P(k)
  BY <1>2
<1>4. k # 0
  BY <1>3, RootAt, ReachedFacts
<1>5. k \in 1 .. Levels - 1 /\ k - 1 \in Nat /\ k - 1 <= Levels - 1 /\ k - 1 \notin S
  BY <1>0, <1>2, <1>3, <1>4
<1>6. P(k - 1)
  BY <1>5
<1>7. PICK t : t = Reached(va)[k - 1]
  OBVIOUS
<1>8. Reached(va)[k] = Below(t, Levels - k, va)
  BY <1>5, <1>7, ReachedFacts
<1>9. t # 0
  BY <1>3, <1>8 DEF Below
<1>10. AtBlock(lev, blk, va, k - 1, t)
  BY <1>6, <1>7, <1>9
<1>11. AtBlock(lev, blk, va, k, Reached(va)[k])
  BY <1>3, <1>5, <1>8, <1>10, StepDown
<1> QED
  BY <1>3, <1>11

\* The MMU comes to t after d levels, through entries that are present.
ComesTo(lev, va, d, t) ==
  /\ Reached(va)[d] = t
  /\ \A j \in 0 .. d - 1 :
       LET n == Reached(va)[j]
       IN /\ n \in DOMAIN tables /\ lev[n] = Levels - 1 - j
          /\ Present(n, get_index(va, Levels - 1 - j))

\* One level up: a table but the root has its entry for the address in the table above.
LEMMA StepUp ==
  ASSUME IInv, NEW lev, NEW blk, Laid(lev, blk), NEW va \in VA, NEW d \in 1 .. Levels - 1,
         NEW m, AtBlock(lev, blk, va, d, m)
  PROVE  \E n \in DOMAIN tables :
           /\ AtBlock(lev, blk, va, d - 1, n) /\ Below(n, Levels - d, va) = m
           /\ Present(n, get_index(va, Levels - d))
<1>1. PICK l \in Nat \ {0} : l = Levels - d
  BY ShapeAssumption
<1>2. Levels - 1 - (d - 1) = l /\ Levels - (d - 1) = l + 1 /\ Levels - 1 - d = l - 1
  BY <1>1, ShapeAssumption
<1>3. m \in DOMAIN tables /\ lev[m] = l - 1 /\ blk[m] = va \div Size[l]
  BY <1>1, <1>2 DEF AtBlock
<1>4. m # cr3
  <2>1. lev[cr3] = Levels - 1
    BY DEF Laid, TableLevels
  <2>2. l - 1 # Levels - 1
    BY <1>1, ShapeAssumption
  <2> QED
    BY <1>3, <2>1, <2>2
<1>5. PICK n \in DOMAIN tables, i \in 0 .. Entries - 1 : Leads(n, i, m)
  BY <1>3, <1>4 DEF IInv, TreeInv
<1>6. Present(n, i) /\ tables[n][i].to = m
  BY <1>5 DEF Leads
<1>7. m \notin Frame /\ m # 0 /\ n # 0
  <2>1. DOMAIN tables \subseteq Nat \ {0}
    <3>1. tables \in Seq(Table)
      BY DEF IInv, TypeOK, Table
    <3> QED
      BY <3>1
  <2> QED
    BY <1>3, <2>1, FrameAssumption
<1>8. lev[n] # 0 /\ lev[m] = lev[n] - 1
  BY <1>6, <1>7 DEF Laid, TableLevels
<1>9. lev[n] = l
  <2>1. lev[n] \in 0 .. Levels - 1
    BY DEF Laid
  <2>2. lev[n] \in Nat
    BY <2>1
  <2> QED
    BY <1>1, <1>3, <1>8, <2>2
<1>10. blk[m] = blk[n] * Entries + i /\ blk[n] \in Nat
  BY <1>3, <1>6, <1>8 DEF Laid, Placed
<1>11. blk[n] = va \div Size[l + 1] /\ i = get_index(va, l)
  <2>1. PICK b, c : b \in Nat /\ b = blk[n] /\ c = blk[m]
    BY <1>10
  <2>2. c = b * Entries + i /\ c = va \div Size[l] /\ va \in Nat /\ l \in Nat
    BY <1>1, <1>3, <1>10, <2>1, RootBlock
  <2>3. b = va \div Size[l + 1] /\ i = get_index(va, l)
    BY <2>1, <2>2, BlockBelow
  <2> QED
    BY <2>1, <2>3
<1>12. Below(n, l, va) = m
  BY <1>6, <1>7, <1>11 DEF Below, Present
<1>13. AtBlock(lev, blk, va, d - 1, n)
  BY <1>2, <1>9, <1>11, Zenon DEF AtBlock
<1> QED
  BY <1>1, <1>6, <1>11, <1>12, <1>13

\* The MMU comes to the table of the address's block, at each level that has one.
LEMMA Upwards ==
  ASSUME IInv, NEW lev, NEW blk, Laid(lev, blk), NEW va \in VA, NEW d \in 0 .. Levels - 1,
         NEW t, AtBlock(lev, blk, va, d, t)
  PROVE  ComesTo(lev, va, d, t)
<1> DEFINE P(k) == \A n : AtBlock(lev, blk, va, k, n) => ComesTo(lev, va, k, n)
           S == {k \in Nat : k <= Levels - 1 /\ ~P(k)}
<1>0. Levels \in Nat \ {0}
  BY ShapeAssumption
<1>1. SUFFICES ASSUME S # {} PROVE FALSE
  <2>1. ASSUME d \notin S PROVE P(d)
    <3>1. d \in Nat /\ d <= Levels - 1
      BY <1>0
    <3> HIDE DEF P
    <3> QED
      BY <2>1, <3>1
  <2>2. ASSUME P(d) PROVE ComesTo(lev, va, d, t)
    BY <2>2
  <2> HIDE DEF S, P
  <2> QED
    BY <2>1, <2>2
<1>2. PICK k \in S : \A j \in S : k <= j
  <2>1. S \in SUBSET Nat
    OBVIOUS
  <2> HIDE DEF S
  <2> QED
    BY <1>1, <2>1, LeastElement
<1>3. k \in Nat /\ k <= Levels - 1 /\ ~P(k)
  BY <1>2
<1>4. PICK m : AtBlock(lev, blk, va, k, m) /\ ~ComesTo(lev, va, k, m)
  BY <1>3
<1>5. CASE k = 0
  <2>1. m = cr3
    BY <1>4, <1>5, RootAt DEF AtBlock, Laid, Placed
  <2>2. 0 .. 0 - 1 = {}
    OBVIOUS
  <2>3. Reached(va)[0] = cr3
    BY ReachedFacts
  <2>4. ComesTo(lev, va, 0, m)
    BY <2>1, <2>2, <2>3 DEF ComesTo
  <2> QED
    BY <1>4, <1>5, <2>4
<1>6. CASE k # 0
  <2>1. k \in 1 .. Levels - 1 /\ k - 1 \in Nat /\ k - 1 <= Levels - 1 /\ k - 1 \notin S
    BY <1>0, <1>2, <1>3, <1>6
  <2>2. P(k - 1)
    BY <2>1
  <2>3. PICK n \in DOMAIN tables :
          /\ AtBlock(lev, blk, va, k - 1, n) /\ Below(n, Levels - k, va) = m
          /\ Present(n, get_index(va, Levels - k))
    BY <1>4, <2>1, StepUp
  <2>4. ComesTo(lev, va, k - 1, n)
    BY <2>2, <2>3
  <2>5. Reached(va)[k - 1] = n
    BY <2>4 DEF ComesTo
  <2>6. Reached(va)[k] = m
    BY <2>1, <2>3, <2>5, ReachedFacts
  <2>7. Levels - 1 - (k - 1) = Levels - k
    BY <1>0, <2>1
  <2>8. lev[n] = Levels - 1 - (k - 1)
    BY <2>3 DEF AtBlock
  <2>9. ASSUME NEW j \in 0 .. k - 1
        PROVE  /\ Reached(va)[j] \in DOMAIN tables /\ lev[Reached(va)[j]] = Levels - 1 - j
               /\ Present(Reached(va)[j], get_index(va, Levels - 1 - j))
    <3>1. CASE j = k - 1
      BY <2>3, <2>5, <2>7, <2>8, <3>1
    <3>2. CASE j # k - 1
      <4>1. j \in 0 .. (k - 1) - 1
        BY <2>1, <3>2
      <4> QED
        BY <2>4, <4>1 DEF ComesTo
    <3> QED
      BY <3>1, <3>2
  <2>10. ComesTo(lev, va, k, m)
    BY <2>6, <2>9, Zenon DEF ComesTo
  <2> QED
    BY <1>4, <2>10
<1> QED
  BY <1>5, <1>6

\* The entry of an address in the leaf that is for it.
LEMMA LeafEntry ==
  ASSUME NEW va \in VA, NEW b \in Nat, NEW i \in 0 .. Entries - 1
  PROVE  va = b * Entries + i <=> b = va \div Size[1] /\ i = get_index(va, 0)
<1>1. va \in Nat /\ Size[0] = 1
  BY RootBlock, SizeFacts
<1>2. va \div Size[0] = va
  BY <1>1
<1>3. PICK c : c = b * Entries + i
  OBVIOUS
<1>4. c = va \div Size[0] <=> b = va \div Size[0 + 1] /\ i = get_index(va, 0)
  BY <1>1, <1>3, BlockBelow
<1>5. 0 + 1 = 1
  OBVIOUS
<1> QED
  BY <1>2, <1>3, <1>4, <1>5, Zenon

\* The entry that the MMU reads at depth d.
FoundAt(va, d) == tables[Reached(va)[d]][get_index(va, Levels - 1 - d)]

LEMMA MappingFacts ==
  ASSUME NEW va
  PROVE  /\ Reached(va)[Levels - 1] = 0 => Mapping(va).bits = {}
         /\ Reached(va)[Levels - 1] # 0 =>
              /\ Mapping(va).to = FoundAt(va, Levels - 1).to
              /\ \A b : b \in Mapping(va).bits <=>
                   /\ b \in Bits
                   /\ IF b = "NX" THEN \E d \in 0 .. Levels - 1 : b \in FoundAt(va, d).bits
                      ELSE \A d \in 0 .. Levels - 1 : b \in FoundAt(va, d).bits
BY DEF Mapping, FoundAt

\* When build_enclave_cr3 has returned 0: every region was mapped and merged, with the
\* pages of the process.
LEMMA Finished ==
  ASSUME IInv, MInv, pc = "done", cr3 # 0
  PROVE  /\ \A k \in DOMAIN regions :
              /\ Upto(k) = regions[k].end
              /\ pas[k] = pmap[k] /\ Len(pas[k]) = Pages(regions[k])
              /\ \A j \in 1 .. Len(pas[k]) : pas[k][j] \in all_pages
         /\ \E lev, blk : Laid(lev, blk) /\ Holds(lev, blk) /\ HoldsAll(lev, blk)
<1>1. CollectInv /\ PosInv /\ MergedInv /\ PlaceInv
  BY DEF MInv, Phase
<1>2. ASSUME NEW k \in DOMAIN regions
      PROVE  /\ Upto(k) = regions[k].end
             /\ pas[k] = pmap[k] /\ Len(pas[k]) = Pages(regions[k])
             /\ \A j \in 1 .. Len(pas[k]) : pas[k][j] \in all_pages
  <2>1. k < r
    <3>1. Len(regions) \in Nat /\ DOMAIN regions = 1 .. Len(regions)
      BY LayoutFacts DEF IInv
    <3>2. r > Len(regions) /\ r \in 1 .. Len(regions) + 1
      BY <1>1 DEF PosInv, IInv, TypeOK
    <3> QED
      BY <3>1, <3>2
  <2>2. /\ Len(pas[k]) <= Len(pmap[k]) /\ Len(pmap[k]) <= Pages(regions[k])
        /\ Len(pas[k]) = Len(pmap[k]) => pas[k] = pmap[k]
    BY <1>1 DEF CollectInv
  <2>3. /\ Pages(regions[k]) <= Len(pas[k])
        /\ \A j \in 1 .. Len(pas[k]) : pas[k][j] \in all_pages
    BY <1>1, <2>1 DEF MergedInv
  <2>4. Len(pas[k]) = Len(pmap[k]) /\ Len(pas[k]) = Pages(regions[k])
    <3>1. pas[k] \in Seq(Frame) /\ pmap[k] \in Seq(Frame \cup {"huge"})
      BY DEF IInv, TypeOK
    <3>2. Len(pas[k]) \in Nat /\ Len(pmap[k]) \in Nat /\ Pages(regions[k]) \in Nat
      BY <3>1, LayoutFacts DEF IInv
    <3> QED
      BY <2>2, <2>3, <3>2
  <2> QED
    BY <2>1, <2>2, <2>3, <2>4 DEF Upto
<1>3. \E lev, blk : Laid(lev, blk) /\ Holds(lev, blk) /\ HoldsAll(lev, blk)
  BY <1>1 DEF PlaceInv, Levelled, Laid
<1> QED
  BY <1>2, <1>3

\* Whatever the MMU finds present is a region's.
LEMMA OnlyRegions ==
  ASSUME IInv, MInv, pc = "done", cr3 # 0, NEW va \in VA, "P" \in Mapping(va).bits
  PROVE  \E k \in DOMAIN regions :
           /\ regions[k].start <= va /\ va < regions[k].end
           /\ Mapping(va).to = pas[k][va - regions[k].start + 1]
<1>1. PICK lev, blk : Laid(lev, blk) /\ Holds(lev, blk) /\ HoldsAll(lev, blk)
  BY Finished
<1>2. PICK n : n = Reached(va)[Levels - 1]
  OBVIOUS
<1>3. /\ n # 0 /\ Mapping(va).to = FoundAt(va, Levels - 1).to
      /\ "P" \in FoundAt(va, Levels - 1).bits
  <2>1. n # 0
    BY <1>2, MappingFacts
  <2>2. Levels - 1 \in 0 .. Levels - 1
    BY ShapeAssumption
  <2> QED
    BY <1>2, <2>1, <2>2, MappingFacts
<1>4. Levels - 1 \in 0 .. Levels - 1 /\ Levels - 1 - (Levels - 1) = 0 /\ Levels - (Levels - 1) = 1
  BY ShapeAssumption
<1>5. n \in DOMAIN tables /\ lev[n] = 0 /\ blk[n] = va \div Size[1]
  <2>1. AtBlock(lev, blk, va, Levels - 1, n)
    BY <1>1, <1>2, <1>3, <1>4, Downwards
  <2> QED
    BY <1>4, <2>1 DEF AtBlock
<1>6. PICK i \in 0 .. Entries - 1 : i = get_index(va, 0)
  BY RootBlock, IndexFacts
<1>7. FoundAt(va, Levels - 1) = tables[n][i]
  BY <1>2, <1>4, <1>6 DEF FoundAt
<1>8. IsPage(lev, blk, n, i, va)
  <2>1. blk[n] \in Nat
    BY <1>1, <1>5 DEF Laid
  <2>2. va = blk[n] * Entries + i
    BY <1>5, <1>6, <2>1, LeafEntry
  <2> QED
    BY <1>3, <1>5, <1>7, <2>2 DEF IsPage, Present
<1>9. va \in Nat
  BY RootBlock
<1>10. PICK k \in DOMAIN regions : MapsPage(n, i, va, k)
  BY <1>1, <1>5, <1>8, <1>9 DEF Holds
<1>11. Upto(k) = regions[k].end
  BY Finished
<1> QED
  BY <1>3, <1>7, <1>10, <1>11 DEF MapsPage

\* The MMU finds each address of a region: its page, with the region's rights.
LEMMA EveryRegion ==
  ASSUME IInv, MInv, pc = "done", cr3 # 0, NEW va \in VA, NEW k \in DOMAIN regions,
         regions[k].start <= va, va < regions[k].end
  PROVE  /\ Mapping(va).to = pas[k][va - regions[k].start + 1]
         /\ Mapping(va).bits = translate_flags(regions[k].flags)
<1>1. PICK lev, blk : Laid(lev, blk) /\ Holds(lev, blk) /\ HoldsAll(lev, blk)
  BY Finished
<1>2. va \in Nat
  BY RootBlock
<1>3. \A m \in DOMAIN regions : Upto(m) = regions[m].end
  BY Finished
<1>4. PICK n \in DOMAIN tables, i \in 0 .. Entries - 1 : IsPage(lev, blk, n, i, va)
  BY <1>1, <1>2, <1>3 DEF HoldsAll
<1>5. PICK m \in DOMAIN regions : MapsPage(n, i, va, m)
  BY <1>1, <1>2, <1>4 DEF Holds
<1>6. m = k
  <2>1. regions[m].start <= va /\ va < regions[m].end
    BY <1>3, <1>5 DEF MapsPage
  <2>2. /\ regions[m].start \in Nat /\ regions[m].end \in Nat
        /\ regions[k].start \in Nat /\ regions[k].end \in Nat
        /\ m # k => regions[m].end <= regions[k].start \/ regions[k].end <= regions[m].start
    BY LayoutFacts DEF IInv
  <2> QED
    BY <1>2, <2>1, <2>2
<1>7. /\ tables[n][i].to = pas[k][va - regions[k].start + 1]
      /\ tables[n][i].bits = translate_flags(regions[k].flags)
  BY <1>5, <1>6 DEF MapsPage
<1>8. Levels - 1 \in 0 .. Levels - 1 /\ Levels - 1 - (Levels - 1) = 0 /\ Levels - (Levels - 1) = 1
  BY ShapeAssumption
<1>9. lev[n] = 0 /\ blk[n] = va \div Size[1] /\ i = get_index(va, 0)
  <2>1. lev[n] = 0 /\ va = blk[n] * Entries + i
    BY <1>4 DEF IsPage
  <2>2. blk[n] \in Nat
    BY <1>1 DEF Laid
  <2> QED
    BY <2>1, <2>2, LeafEntry
<1>10. ComesTo(lev, va, Levels - 1, n)
  <2>1. AtBlock(lev, blk, va, Levels - 1, n)
    BY <1>8, <1>9, Zenon DEF AtBlock
  <2> QED
    BY <1>1, <1>8, <2>1, Upwards
<1>11. Reached(va)[Levels - 1] = n /\ n # 0
  <2>1. n \in Nat \ {0}
    <3>1. tables \in Seq(Table)
      BY DEF IInv, TypeOK, Table
    <3> QED
      BY <3>1
  <2> QED
    BY <1>10, <2>1 DEF ComesTo
<1>12. FoundAt(va, Levels - 1) = tables[n][i]
  BY <1>8, <1>9, <1>11, Zenon DEF FoundAt
<1>13. \A d \in 0 .. Levels - 1 : d # Levels - 1 => FoundAt(va, d).bits = intermed_flags
  <2> SUFFICES ASSUME NEW d \in 0 .. Levels - 1, d # Levels - 1
               PROVE  FoundAt(va, d).bits = intermed_flags
    OBVIOUS
  <2>1. d \in 0 .. (Levels - 1) - 1 /\ Levels - 1 - d \in Nat \ {0}
    BY ShapeAssumption
  <2>2. PICK p, j : p = Reached(va)[d] /\ j = get_index(va, Levels - 1 - d)
    OBVIOUS
  <2>3. p \in DOMAIN tables /\ lev[p] = Levels - 1 - d /\ Present(p, j)
    BY <1>10, <2>1, <2>2 DEF ComesTo
  <2>4. j \in 0 .. Entries - 1
    BY <1>2, <2>1, <2>2, IndexFacts
  <2>5. tables[p][j].bits = intermed_flags
    BY <1>1, <2>1, <2>3, <2>4 DEF Laid, Placed
  <2> QED
    BY <2>2, <2>5 DEF FoundAt
<1>14. Mapping(va).to = pas[k][va - regions[k].start + 1]
  BY <1>7, <1>11, <1>12, MappingFacts
<1>15. ASSUME NEW b
       PROVE  b \in Mapping(va).bits <=> b \in translate_flags(regions[k].flags)
  <2> DEFINE last == b \in FoundAt(va, Levels - 1).bits
             each == \A d \in 0 .. Levels - 1 : b \in FoundAt(va, d).bits
             some == \E d \in 0 .. Levels - 1 : b \in FoundAt(va, d).bits
  <2>1. b \in Mapping(va).bits <=> b \in Bits /\ IF b = "NX" THEN some ELSE each
    BY <1>11, MappingFacts
  <2>2. b = "NX" => b \notin intermed_flags
    BY DEF intermed_flags
  <2>3. b \in Bits /\ b # "NX" => b \in intermed_flags
    BY DEF intermed_flags, Bits
  <2>4. last <=> b \in translate_flags(regions[k].flags)
    BY <1>7, <1>12
  <2>5. b \in translate_flags(regions[k].flags) => b \in Bits
    BY DEF translate_flags
  <2>6. b \in intermed_flags => (each <=> last)
    BY <1>8, <1>13
  <2>7. b \notin intermed_flags => (some <=> last)
    BY <1>8, <1>13
  <2> HIDE DEF last, each, some
  <2> QED
    BY <2>1, <2>2, <2>3, <2>4, <2>5, <2>6, <2>7
<1>16. Mapping(va).bits = translate_flags(regions[k].flags)
  <2>1. Mapping(va).bits \subseteq Bits
    BY <1>11 DEF Mapping
  <2>2. translate_flags(regions[k].flags) \subseteq Bits
    BY DEF translate_flags
  <2> QED
    BY <1>15, <2>1, <2>2, Zenon
<1> QED
  BY <1>14, <1>16

\* Whatever the regions, the shape of the tables and the pages of the process: a table
\* that build_enclave_cr3 returns maps each address of a region to the page that the
\* process has at the same offset of src, with the region's rights, and nothing else.
THEOREM MapsExactly == Spec => []MapsWhatWasCollected
<1>1. ASSUME IInv, MInv PROVE MapsWhatWasCollected
  <2> SUFFICES ASSUME pc = "done", cr3 # 0, NEW va \in VA
               PROVE  LET m == Mapping(va)
                          in == {k \in DOMAIN regions :
                                   regions[k].start <= va /\ va < regions[k].end}
                      IN /\ in = {} => "P" \notin m.bits
                         /\ \A k \in in :
                              /\ m.to = pmap[k][va - regions[k].start + 1]
                              /\ "P" \in m.bits
                              /\ "RW" \in m.bits <=> "write" \in regions[k].flags
                              /\ "NX" \notin m.bits <=> "exec" \in regions[k].flags
                              /\ "USR" \in m.bits <=> "user" \in regions[k].flags
    BY DEF MapsWhatWasCollected
  <2> DEFINE in == {k \in DOMAIN regions : regions[k].start <= va /\ va < regions[k].end}
  <2>1. in = {} => "P" \notin Mapping(va).bits
    BY <1>1, OnlyRegions
  <2>2. ASSUME NEW k \in in
        PROVE  /\ Mapping(va).to = pmap[k][va - regions[k].start + 1]
               /\ "P" \in Mapping(va).bits
               /\ "RW" \in Mapping(va).bits <=> "write" \in regions[k].flags
               /\ "NX" \notin Mapping(va).bits <=> "exec" \in regions[k].flags
               /\ "USR" \in Mapping(va).bits <=> "user" \in regions[k].flags
    <3>1. k \in DOMAIN regions /\ regions[k].start <= va /\ va < regions[k].end
      OBVIOUS
    <3>2. /\ Mapping(va).to = pas[k][va - regions[k].start + 1]
          /\ Mapping(va).bits = translate_flags(regions[k].flags)
      BY <1>1, <3>1, EveryRegion
    <3>3. pas[k] = pmap[k]
      BY <1>1, <3>1, Finished
    <3>4. regions[k].flags # {}
      <4>1. regions \in Seq(Region)
        BY <1>1, LayoutsAssumption DEF IInv, TypeOK
      <4>2. regions[k] \in Region
        BY <3>1, <4>1
      <4> QED
        BY <4>2 DEF Region
    <3>5. /\ "P" \in translate_flags(regions[k].flags)
          /\ "RW" \in translate_flags(regions[k].flags) <=> "write" \in regions[k].flags
          /\ "NX" \notin translate_flags(regions[k].flags) <=> "exec" \in regions[k].flags
          /\ "USR" \in translate_flags(regions[k].flags) <=> "user" \in regions[k].flags
      BY <3>4 DEF translate_flags, Bits
    <3> QED
      BY <3>2, <3>3, <3>5
  <2> QED
    BY <2>1, <2>2
<1> QED
  BY <1>1, Invariance, MapsInvariance, PTL

\* Every page that such a table can reach is in all_pages, and so is granted by
\* commit_enclave.
THEOREM MappedStaysGranted == Spec => []MappedIsGranted
<1>1. ASSUME IInv, MInv PROVE MappedIsGranted
  <2> SUFFICES ASSUME pc = "done", cr3 # 0, NEW va \in VA, "P" \in Mapping(va).bits
               PROVE  Mapping(va).to \in all_pages
    BY DEF MappedIsGranted
  <2>1. PICK k \in DOMAIN regions :
          /\ regions[k].start <= va /\ va < regions[k].end
          /\ Mapping(va).to = pas[k][va - regions[k].start + 1]
    BY <1>1, OnlyRegions
  <2>2. /\ Len(pas[k]) = Pages(regions[k])
        /\ \A j \in 1 .. Len(pas[k]) : pas[k][j] \in all_pages
    BY <1>1, Finished
  <2>3. va \in Nat /\ regions[k].start \in Nat /\ regions[k].end \in Nat
    BY <1>1, RootBlock, LayoutFacts DEF IInv
  <2>4. va - regions[k].start + 1 \in 1 .. Len(pas[k])
    BY <2>1, <2>2, <2>3 DEF Pages
  <2> QED
    BY <2>1, <2>2, <2>4
<1> QED
  BY <1>1, Invariance, MapsInvariance, PTL

=============================================================================
