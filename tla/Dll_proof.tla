----------------------------- MODULE Dll_proof -----------------------------
(***************************************************************************)
(* The list macros implement the operations on sequences, for any set of   *)
(* elements, any number of lists and any length.                           *)
(***************************************************************************)
EXTENDS Dll, Lists_proof, TLAPS

\* The inductive invariant: the pointers alone do not tell which links a macro
\* may overwrite; that the lists are disjoint and without repetition does.
IInv == TypeOK /\ Linked /\ Separate

\* The links nx and pv spell out s.
Chain(s, nx, pv) ==
  \A i \in 1 .. Len(s) : /\ nx[s[i]] = IF i = Len(s) THEN Null ELSE s[i + 1]
                         /\ pv[s[i]] = IF i = 1 THEN Null ELSE s[i - 1]

Injective(s) == \A i, j \in 1 .. Len(s) : s[i] = s[j] => i = j

\* t is s with e inserted at position p, or without its element at p.
Inserted(s, t, p, e) ==
  /\ Len(t) = Len(s) + 1
  /\ \A k \in 1 .. Len(s) + 1 : t[k] = IF k < p THEN s[k] ELSE IF k = p THEN e ELSE s[k - 1]

Deleted(s, t, p) ==
  /\ Len(t) = Len(s) - 1
  /\ \A k \in 1 .. Len(s) - 1 : t[k] = IF k < p THEN s[k] ELSE s[k + 1]

\* The links after an insertion and after a removal.
NextInserted(s, p, e, nx) ==
  [x \in Elem |-> IF x = e THEN (IF p = Len(s) + 1 THEN Null ELSE s[p])
                  ELSE IF p > 1 /\ x = s[p - 1] THEN e ELSE nx[x]]
PrevInserted(s, p, e, pv) ==
  [x \in Elem |-> IF x = e THEN (IF p = 1 THEN Null ELSE s[p - 1])
                  ELSE IF p <= Len(s) /\ x = s[p] THEN e ELSE pv[x]]
NextDeleted(s, p, nx) ==
  [x \in Elem |-> IF x = s[p] THEN Null
                  ELSE IF p > 1 /\ x = s[p - 1] THEN nx[s[p]] ELSE nx[x]]
PrevDeleted(s, p, pv) ==
  [x \in Elem |-> IF x = s[p] THEN Null
                  ELSE IF p < Len(s) /\ x = s[p + 1] THEN pv[s[p]] ELSE pv[x]]

-----------------------------------------------------------------------------
\* dll_add_first shifts every element by one.
LEMMA FirstElement ==
  ASSUME NEW S, NEW s \in Seq(S), NEW e \in S
  PROVE  First(s, e) \in Seq(S) /\ Inserted(s, First(s, e), 1, e)
<1>1. /\ <<e>> \o s \in Seq(S) /\ Len(<<e>> \o s) = Len(s) + 1
      /\ \A k \in 1 .. Len(s) + 1 : (<<e>> \o s)[k] = IF k = 1 THEN e ELSE s[k - 1]
  OBVIOUS
<1> QED
  BY <1>1 DEF First, Inserted

-----------------------------------------------------------------------------
\* Inserting an element: the links that change are its own and its neighbours'.
LEMMA ChainInserted ==
  ASSUME NEW s \in Seq(Elem), NEW t \in Seq(Elem), NEW e \in Elem, NEW p \in 1 .. Len(s) + 1,
         Inserted(s, t, p, e), Injective(s), \A i \in 1 .. Len(s) : s[i] # e,
         NEW nx, NEW pv, Chain(s, nx, pv)
  PROVE  /\ Chain(t, NextInserted(s, p, e, nx), PrevInserted(s, p, e, pv)) /\ Injective(t)
         /\ \A i \in 1 .. Len(t) : t[i] = e \/ \E j \in 1 .. Len(s) : t[i] = s[j]
<1> DEFINE n == Len(s)
           nx2 == NextInserted(s, p, e, nx)
           pv2 == PrevInserted(s, p, e, pv)
<1>1. /\ n \in Nat /\ p \in 1 .. n + 1 /\ Len(t) = n + 1
      /\ \A i \in 1 .. n : s[i] \in Elem /\ s[i] # e
      /\ \A k \in 1 .. n + 1 : t[k] = IF k < p THEN s[k] ELSE IF k = p THEN e ELSE s[k - 1]
  BY DEF Inserted
<1>2. \A i, j \in 1 .. n : s[i] = s[j] => i = j
  BY DEF Injective
<1>3. \A i \in 1 .. n : /\ nx[s[i]] = IF i = n THEN Null ELSE s[i + 1]
                        /\ pv[s[i]] = IF i = 1 THEN Null ELSE s[i - 1]
  BY DEF Chain
<1> HIDE DEF n, nx2, pv2
<1>4. \A i \in 1 .. n : /\ nx2[s[i]] = IF p > 1 /\ i = p - 1 THEN e ELSE nx[s[i]]
                        /\ pv2[s[i]] = IF p <= n /\ i = p THEN e ELSE pv[s[i]]
  BY <1>1, <1>2 DEF n, nx2, pv2, NextInserted, PrevInserted
<1>5. nx2[e] = (IF p = n + 1 THEN Null ELSE s[p]) /\ pv2[e] = (IF p = 1 THEN Null ELSE s[p - 1])
  BY DEF n, nx2, pv2, NextInserted, PrevInserted
<1>6. ASSUME NEW k \in 1 .. n + 1
      PROVE  /\ nx2[t[k]] = IF k = n + 1 THEN Null ELSE t[k + 1]
             /\ pv2[t[k]] = IF k = 1 THEN Null ELSE t[k - 1]
  <2>1. CASE k = p
    <3>1. k = n + 1 \/ t[k + 1] = s[p]
      BY <1>1, <2>1
    <3>2. k = 1 \/ t[k - 1] = s[p - 1]
      BY <1>1, <2>1
    <3> QED
      BY <1>1, <1>5, <2>1, <3>1, <3>2
  <2>2. CASE k < p
    <3>1. k \in 1 .. n /\ t[k] = s[k] /\ k # n + 1 /\ ~(p <= n /\ k = p)
      BY <1>1, <2>2
    <3>2. t[k + 1] = IF k = p - 1 THEN e ELSE s[k + 1]
      BY <1>1, <2>2
    <3>3. k = 1 \/ t[k - 1] = s[k - 1]
      BY <1>1, <2>2
    <3>4. nx2[s[k]] = IF k = p - 1 THEN e ELSE s[k + 1]
      BY <1>1, <1>3, <1>4, <2>2, <3>1, SMTT(30)
    <3>5. pv2[s[k]] = IF k = 1 THEN Null ELSE s[k - 1]
      BY <1>3, <1>4, <3>1
    <3> QED
      BY <3>1, <3>2, <3>3, <3>4, <3>5
  <2>3. CASE k > p
    <3>1. k - 1 \in 1 .. n /\ t[k] = s[k - 1] /\ k # 1 /\ ~(p > 1 /\ k - 1 = p - 1)
      BY <1>1, <2>3
    <3>2. k = n + 1 \/ t[k + 1] = s[(k - 1) + 1]
      BY <1>1, <2>3
    <3>3. t[k - 1] = IF k - 1 = p THEN e ELSE s[(k - 1) - 1]
      BY <1>1, <2>3
    <3>4. nx2[s[k - 1]] = IF k - 1 = n THEN Null ELSE s[(k - 1) + 1]
      BY <1>3, <1>4, <3>1
    <3>5. pv2[s[k - 1]] = IF k - 1 = p THEN e ELSE s[(k - 1) - 1]
      BY <1>1, <1>3, <1>4, <2>3, <3>1
    <3>6. k = n + 1 <=> k - 1 = n
      BY <1>1
    <3> QED
      BY <3>1, <3>2, <3>3, <3>4, <3>5, <3>6
  <2> QED
    BY <1>1, <2>1, <2>2, <2>3
<1>7. Chain(t, nx2, pv2)
  BY <1>1, <1>6 DEF Chain
<1>8. Injective(t)
  BY <1>1, <1>2, SMTT(30) DEF Injective
<1>9. \A i \in 1 .. Len(t) : t[i] = e \/ \E j \in 1 .. Len(s) : t[i] = s[j]
  BY <1>1 DEF n
<1> QED
  BY <1>7, <1>8, <1>9 DEF nx2, pv2

\* Removing one: its neighbours are linked to each other.
LEMMA ChainDeleted ==
  ASSUME NEW s \in Seq(Elem), NEW t \in Seq(Elem), NEW p \in 1 .. Len(s),
         Deleted(s, t, p), Injective(s),
         NEW nx, NEW pv, Chain(s, nx, pv)
  PROVE  /\ Chain(t, NextDeleted(s, p, nx), PrevDeleted(s, p, pv)) /\ Injective(t)
         /\ \A i \in 1 .. Len(t) : t[i] # s[p] /\ \E j \in 1 .. Len(s) : t[i] = s[j]
<1> DEFINE n == Len(s)
           nx2 == NextDeleted(s, p, nx)
           pv2 == PrevDeleted(s, p, pv)
<1>1. /\ n \in Nat /\ p \in 1 .. n /\ Len(t) = n - 1
      /\ \A i \in 1 .. n : s[i] \in Elem
      /\ \A k \in 1 .. n - 1 : t[k] = IF k < p THEN s[k] ELSE s[k + 1]
  BY DEF Deleted
<1>2. \A i, j \in 1 .. n : s[i] = s[j] => i = j
  BY DEF Injective
<1>3. \A i \in 1 .. n : /\ nx[s[i]] = IF i = n THEN Null ELSE s[i + 1]
                        /\ pv[s[i]] = IF i = 1 THEN Null ELSE s[i - 1]
  BY DEF Chain
<1> HIDE DEF n, nx2, pv2
<1>4. \A i \in 1 .. n : i # p =>
        /\ nx2[s[i]] = IF p > 1 /\ i = p - 1 THEN nx[s[p]] ELSE nx[s[i]]
        /\ pv2[s[i]] = IF p < n /\ i = p + 1 THEN pv[s[p]] ELSE pv[s[i]]
  BY <1>1, <1>2, SMTT(30) DEF n, nx2, pv2, NextDeleted, PrevDeleted
<1>6. ASSUME NEW k \in 1 .. n - 1
      PROVE  /\ nx2[t[k]] = IF k = n - 1 THEN Null ELSE t[k + 1]
             /\ pv2[t[k]] = IF k = 1 THEN Null ELSE t[k - 1]
  <2>2. CASE k < p
    <3>1. k \in 1 .. n /\ t[k] = s[k] /\ k # p /\ ~(p < n /\ k = p + 1) /\ k # n
      BY <1>1, <2>2
    <3>2. k = n - 1 \/ t[k + 1] = IF k = p - 1 THEN s[p + 1] ELSE s[k + 1]
      BY <1>1, <2>2
    <3>3. k = 1 \/ t[k - 1] = s[k - 1]
      BY <1>1, <2>2
    <3>4. nx2[s[k]] = IF k = p - 1 THEN (IF p = n THEN Null ELSE s[p + 1]) ELSE s[k + 1]
      BY <1>1, <1>3, <1>4, <2>2, <3>1, SMTT(30)
    <3>5. pv2[s[k]] = IF k = 1 THEN Null ELSE s[k - 1]
      BY <1>3, <1>4, <3>1
    <3>6. k = n - 1 => k = p - 1 /\ p = n
      BY <1>1, <2>2
    <3>7. k # n - 1 /\ k = p - 1 => p # n
      BY <1>1, <2>2
    <3> QED
      BY <3>1, <3>2, <3>3, <3>4, <3>5, <3>6, <3>7
  <2>3. CASE ~(k < p)
    <3>1. k + 1 \in 1 .. n /\ t[k] = s[k + 1] /\ k + 1 # p /\ ~(p > 1 /\ k + 1 = p - 1) /\ k + 1 # 1
      BY <1>1, <2>3
    <3>2. k = n - 1 \/ t[k + 1] = s[(k + 1) + 1]
      BY <1>1, <2>3
    <3>3. k = 1 \/ t[k - 1] = IF k = p THEN s[p - 1] ELSE s[(k + 1) - 1]
      BY <1>1, <2>3
    <3>4. nx2[s[k + 1]] = IF k + 1 = n THEN Null ELSE s[(k + 1) + 1]
      BY <1>3, <1>4, <3>1
    <3>5. pv2[s[k + 1]] = IF k = p THEN (IF p = 1 THEN Null ELSE s[p - 1]) ELSE s[(k + 1) - 1]
      BY <1>1, <1>3, <1>4, <2>3, <3>1, SMTT(30)
    <3>6. (k = n - 1 <=> k + 1 = n) /\ (k = 1 => k = p /\ p = 1) /\ (k # 1 /\ k = p => p # 1)
      BY <1>1, <2>3
    <3> QED
      BY <3>1, <3>2, <3>3, <3>4, <3>5, <3>6
  <2> QED
    BY <1>1, <2>2, <2>3
<1>7. Chain(t, nx2, pv2)
  BY <1>1, <1>6 DEF Chain
<1>8. Injective(t)
  BY <1>1, <1>2 DEF Injective
<1>9. \A i \in 1 .. Len(t) : t[i] # s[p] /\ \E j \in 1 .. Len(s) : t[i] = s[j]
  BY <1>1, <1>2 DEF n
<1> QED
  BY <1>7, <1>8, <1>9 DEF nx2, pv2

-----------------------------------------------------------------------------
\* A step on list l, with elements E besides the ones in l: it leaves l well
\* linked, writes to no other elements, and makes ready what it takes out of l.
WorksOn(l, E) ==
  /\ \A m \in List : m # l => /\ seq'[m] = seq[m]
                              /\ head'[m] = head[m] /\ tail'[m] = tail[m]
  /\ LinkedList(l)' /\ Injective(seq'[l])
  /\ \A i \in 1 .. Len(seq'[l]) :
       seq'[l][i] \in E \/ \E j \in 1 .. Len(seq[l]) : seq'[l][i] = seq[l][j]
  /\ \A x \in Elem : x \in E \/ (\E j \in 1 .. Len(seq[l]) : x = seq[l][j])
                       \/ (next'[x] = next[x] /\ prev'[x] = prev[x])
  /\ \A x \in ready' : \/ x \in ready \ E
                        \/ /\ \E j \in 1 .. Len(seq[l]) : x = seq[l][j]
                           /\ \A i \in 1 .. Len(seq'[l]) : seq'[l][i] # x
                           /\ next'[x] = Null /\ prev'[x] = Null

\* Such a step leaves every list well linked.
LEMMA Relinked ==
  ASSUME IInv, TypeOK', NEW l \in List, NEW E \in SUBSET ready, WorksOn(l, E)
  PROVE  IInv'
<1>0. TypeOK /\ Linked /\ Separate
  BY DEF IInv
<1>1. /\ \A m \in List : \A i \in 1 .. Len(seq[m]) : seq[m][i] \in Elem /\ seq[m][i] \notin ready
      /\ \A m \in List : \A i, j \in 1 .. Len(seq[m]) : seq[m][i] = seq[m][j] => i = j
      /\ \A m, k \in List : m # k =>
           \A i \in 1 .. Len(seq[m]), j \in 1 .. Len(seq[k]) : seq[m][i] # seq[k][j]
      /\ \A x \in ready : next[x] = Null /\ prev[x] = Null
  BY <1>0 DEF TypeOK, Separate, InNone, In
<1>d. \A m \in List : DOMAIN seq'[m] = 1 .. Len(seq'[m])
  BY DEF TypeOK
<1>2. ASSUME NEW m \in List, m # l
      PROVE  LinkedList(m)'
  <2>1. \A i \in 1 .. Len(seq[m]) : /\ next'[seq[m][i]] = next[seq[m][i]]
                                    /\ prev'[seq[m][i]] = prev[seq[m][i]]
    BY <1>1, <1>2, SMTT(30) DEF WorksOn
  <2>2. LinkedList(m) /\ seq'[m] = seq[m] /\ head'[m] = head[m] /\ tail'[m] = tail[m]
    BY <1>0, <1>2 DEF Linked, WorksOn
  <2> QED
    BY <2>1, <2>2 DEF LinkedList
<1>3. ASSUME NEW m \in List, m # l, NEW i \in 1 .. Len(seq'[l]), NEW j \in 1 .. Len(seq[m])
      PROVE  seq'[l][i] # seq[m][j]
  BY <1>1, <1>3 DEF WorksOn
<1>4. \A m, k \in List : m # k =>
        \A i \in 1 .. Len(seq'[m]), j \in 1 .. Len(seq'[k]) : seq'[m][i] # seq'[k][j]
  BY <1>1, <1>3 DEF WorksOn
<1>5. \A m \in List : \A i, j \in 1 .. Len(seq'[m]) : seq'[m][i] = seq'[m][j] => i = j
  BY <1>1 DEF Injective, WorksOn
<1>6. ASSUME NEW x \in ready'
      PROVE  next'[x] = Null /\ prev'[x] = Null /\ InNone(x)'
  <2>0. x \in Elem
    BY <1>6 DEF TypeOK
  <2>1. CASE x \in ready \ E
    <3>1. next'[x] = Null /\ prev'[x] = Null
      BY <1>1, <2>0, <2>1 DEF WorksOn
    <3>2. \A m \in List : \A i \in 1 .. Len(seq[m]) : seq[m][i] # x
      BY <1>1, <2>1
    <3>3. \A i \in 1 .. Len(seq'[l]) : seq'[l][i] # x
      BY <2>1, <3>2 DEF WorksOn
    <3>4. \A m \in List : \A i \in 1 .. Len(seq'[m]) : seq'[m][i] # x
      BY <3>2, <3>3 DEF WorksOn
    <3> QED
      BY <1>d, <3>1, <3>4 DEF InNone, In
  <2>2. CASE /\ \E j \in 1 .. Len(seq[l]) : x = seq[l][j]
             /\ \A i \in 1 .. Len(seq'[l]) : seq'[l][i] # x
             /\ next'[x] = Null /\ prev'[x] = Null
    <3>1. \A m \in List : \A i \in 1 .. Len(seq'[m]) : seq'[m][i] # x
      BY <1>1, <2>2 DEF WorksOn
    <3> QED
      BY <1>d, <2>2, <3>1 DEF InNone, In
  <2> QED
    BY <1>6, <2>1, <2>2 DEF WorksOn
<1>7. Separate'
  BY <1>4, <1>5, <1>6 DEF Separate
<1> QED
  BY <1>2, <1>7 DEF IInv, Linked, WorksOn

\* e is inserted into list l at position p, which gives t.
InsertsAt(l, e, p, t) ==
  /\ Inserted(seq[l], t, p, e)
  /\ seq' = [seq EXCEPT ![l] = t]
  /\ next' = NextInserted(seq[l], p, e, next) /\ prev' = PrevInserted(seq[l], p, e, prev)
  /\ head' \in [List -> Ptr] /\ head'[l] = IF p = 1 THEN e ELSE head[l]
  /\ tail' \in [List -> Ptr] /\ tail'[l] = IF p = Len(seq[l]) + 1 THEN e ELSE tail[l]
  /\ \A m \in List : m # l => head'[m] = head[m] /\ tail'[m] = tail[m]
  /\ ready' = ready \ {e} /\ UNCHANGED loop

\* Every macro that adds an element does this, at its own position.
LEMMA InsertStep ==
  ASSUME IInv, NEW l \in List, NEW e \in ready, NEW p \in 1 .. Len(seq[l]) + 1,
         NEW t \in Seq(Elem), InsertsAt(l, e, p, t)
  PROVE  IInv'
<1>a. /\ Inserted(seq[l], t, p, e)
      /\ seq' = [seq EXCEPT ![l] = t]
      /\ next' = NextInserted(seq[l], p, e, next) /\ prev' = PrevInserted(seq[l], p, e, prev)
      /\ head' \in [List -> Ptr] /\ head'[l] = IF p = 1 THEN e ELSE head[l]
      /\ tail' \in [List -> Ptr] /\ tail'[l] = IF p = Len(seq[l]) + 1 THEN e ELSE tail[l]
      /\ \A m \in List : m # l => head'[m] = head[m] /\ tail'[m] = tail[m]
      /\ ready' = ready \ {e} /\ UNCHANGED loop
  BY DEF InsertsAt
<1>0. TypeOK /\ Linked /\ Separate
  BY DEF IInv
<1>1. /\ seq[l] \in Seq(Elem) /\ Len(seq[l]) \in Nat /\ e \in Elem /\ seq'[l] = t
      /\ \A i \in 1 .. Len(seq[l]) : seq[l][i] \in Elem /\ seq[l][i] # e
  BY <1>a, <1>0 DEF TypeOK, Separate, InNone, In
<1>2. Injective(seq[l]) /\ Chain(seq[l], next, prev)
  BY <1>a, <1>0 DEF Separate, Linked, LinkedList, Injective, Chain
<1>3. /\ Chain(t, next', prev') /\ Injective(t)
      /\ \A i \in 1 .. Len(t) : t[i] = e \/ \E j \in 1 .. Len(seq[l]) : t[i] = seq[l][j]
  BY <1>a, <1>1, <1>2, ChainInserted, ZenonT(30)
<1>4. TypeOK'
  <2>1. next' \in [Elem -> Ptr] /\ prev' \in [Elem -> Ptr]
    BY <1>a, <1>0, <1>1 DEF TypeOK, NextInserted, PrevInserted, Ptr
  <2>2. seq' \in [List -> Seq(Elem)] /\ ready' \subseteq Elem
    BY <1>a, <1>0 DEF TypeOK
  <2>3. head' \in [List -> Ptr] /\ tail' \in [List -> Ptr]
    BY <1>a, <1>0, <1>1 DEF TypeOK, Ptr
  <2> QED
    BY <1>a, <1>0, <2>1, <2>2, <2>3 DEF TypeOK, loop
<1>5. LinkedList(l)'
  <2>1. Len(t) = Len(seq[l]) + 1 /\ t # <<>>
    BY <1>a, <1>1 DEF Inserted
  <2>2. head'[l] = t[1]
    <3>1. CASE p = 1
      BY <1>a, <1>1, <3>1 DEF Inserted
    <3>2. CASE p # 1
      <4>1. 1 < p /\ Len(seq[l]) >= 1 /\ t[1] = seq[l][1]
        BY <1>a, <1>1, <3>2 DEF Inserted
      <4>2. head[l] = seq[l][1]
        BY <1>0, <1>1, <4>1 DEF Linked, LinkedList
      <4> QED
        BY <1>a, <3>2, <4>1, <4>2
    <3> QED
      BY <3>1, <3>2
  <2>3. tail'[l] = t[Len(t)]
    BY <1>a, <1>0, <1>1 DEF TypeOK, Inserted, Linked, LinkedList
  <2> QED
    BY <1>a, <1>1, <1>3, <2>1, <2>2, <2>3 DEF LinkedList, Chain
<1>6. \A x \in Elem : x \in {e} \/ (\E j \in 1 .. Len(seq[l]) : x = seq[l][j])
                       \/ (next'[x] = next[x] /\ prev'[x] = prev[x])
  <2>1. /\ p > 1 => p - 1 \in 1 .. Len(seq[l])
        /\ p <= Len(seq[l]) => p \in 1 .. Len(seq[l])
    BY <1>1
  <2>2. next' = NextInserted(seq[l], p, e, next) /\ prev' = PrevInserted(seq[l], p, e, prev)
    BY <1>a
  <2> QED
    BY <2>1, <2>2 DEF NextInserted, PrevInserted
<1>7. \A m \in List : m # l => seq'[m] = seq[m] /\ head'[m] = head[m] /\ tail'[m] = tail[m]
  BY <1>a, <1>0 DEF TypeOK
<1> QED
  <2>1. {e} \in SUBSET ready /\ Injective(seq'[l])
    BY <1>a, <1>1, <1>3
  <2>2. \A i \in 1 .. Len(seq'[l]) :
          seq'[l][i] \in {e} \/ \E j \in 1 .. Len(seq[l]) : seq'[l][i] = seq[l][j]
    BY <1>a, <1>1, <1>3
  <2>3. \A x \in ready' : x \in ready \ {e}
    BY <1>a
  <2>4. WorksOn(l, {e})
    BY <1>a, <1>5, <1>6, <1>7, <2>1, <2>2, <2>3 DEF WorksOn
  <2> QED
    BY <1>a, <1>4, <2>1, <2>4, Relinked

\* dll_remove.
LEMMA DeleteStep ==
  ASSUME IInv, NEW l \in List, NEW p \in DOMAIN seq[l], dll_remove(l, p)
  PROVE  IInv'
<1> DEFINE e == seq[l][p]
           t == Without(seq[l], p)
<1>0. TypeOK /\ Linked /\ Separate
  BY DEF IInv
<1>1. /\ seq[l] \in Seq(Elem) /\ Len(seq[l]) \in Nat /\ p \in 1 .. Len(seq[l])
      /\ \A i \in 1 .. Len(seq[l]) : seq[l][i] \in Elem
      /\ seq' = [seq EXCEPT ![l] = t]
  BY <1>0 DEF TypeOK, dll_remove
<1>2. Injective(seq[l]) /\ Chain(seq[l], next, prev)
  BY <1>0 DEF Separate, Linked, LinkedList, Injective, Chain
<1>3. t \in Seq(Elem) /\ Deleted(seq[l], t, p)
  BY <1>1, WithoutElement DEF Deleted
<1>4. seq'[l] = t /\ \A m \in List : m # l => seq'[m] = seq[m]
  BY <1>0, <1>1 DEF TypeOK
<1>5. /\ next[e] = IF p = Len(seq[l]) THEN Null ELSE seq[l][p + 1]
      /\ prev[e] = IF p = 1 THEN Null ELSE seq[l][p - 1]
      /\ \A i \in 1 .. Len(seq[l]) : seq[l][i] # Null
  BY <1>1, <1>2, NullAssumption DEF Chain
<1> HIDE DEF t
<1>6. next' = NextDeleted(seq[l], p, next) /\ prev' = PrevDeleted(seq[l], p, prev)
  <2>1. \A x \in Elem : x = prev[e] <=> p > 1 /\ x = seq[l][p - 1]
    BY <1>1, <1>5, NullAssumption
  <2>2. \A x \in Elem : x = next[e] <=> p < Len(seq[l]) /\ x = seq[l][p + 1]
    BY <1>1, <1>5, NullAssumption
  <2> QED
    BY <2>1, <2>2 DEF dll_remove, NextDeleted, PrevDeleted
<1>7. /\ Chain(t, next', prev') /\ Injective(t)
      /\ \A i \in 1 .. Len(t) : t[i] # e /\ \E j \in 1 .. Len(seq[l]) : t[i] = seq[l][j]
  BY <1>1, <1>2, <1>3, <1>6, ChainDeleted
<1>8. TypeOK'
  <2>1. next' \in [Elem -> Ptr] /\ prev' \in [Elem -> Ptr]
    BY <1>0, <1>1 DEF TypeOK, dll_remove, Ptr
  <2>2. seq' \in [List -> Seq(Elem)] /\ ready' \subseteq Elem
    BY <1>0, <1>1, <1>3 DEF TypeOK, dll_remove
  <2>3. head' \in [List -> Ptr] /\ tail' \in [List -> Ptr]
    BY <1>0, <1>1 DEF TypeOK, dll_remove, Ptr
  <2> QED
    BY <1>0, <2>1, <2>2, <2>3 DEF TypeOK, dll_remove, loop
<1>9. LinkedList(l)'
  <2>1. /\ head[l] = seq[l][1] /\ tail[l] = seq[l][Len(seq[l])]
    BY <1>0, <1>1 DEF Linked, LinkedList
  <2>2. (head[l] = e <=> p = 1) /\ (tail[l] = e <=> p = Len(seq[l]))
    BY <1>1, <1>2, <2>1 DEF Injective
  <2>3. /\ head'[l] = IF p = 1 THEN next[e] ELSE seq[l][1]
        /\ tail'[l] = IF p = Len(seq[l]) THEN prev[e] ELSE seq[l][Len(seq[l])]
    BY <1>0, <2>1, <2>2 DEF TypeOK, dll_remove
  <2>4. /\ Len(t) = Len(seq[l]) - 1 /\ (t = <<>> <=> Len(seq[l]) = 1)
        /\ \A k \in 1 .. Len(seq[l]) - 1 : t[k] = IF k < p THEN seq[l][k] ELSE seq[l][k + 1]
    <3>1. /\ Len(t) = Len(seq[l]) - 1
          /\ \A k \in 1 .. Len(seq[l]) - 1 : t[k] = IF k < p THEN seq[l][k] ELSE seq[l][k + 1]
      BY <1>3 DEF Deleted
    <3>2. t = <<>> <=> Len(t) = 0
      BY <1>3
    <3> QED
      BY <1>1, <3>1, <3>2
  <2>5. head'[l] = IF t = <<>> THEN Null ELSE t[1]
    BY <1>1, <1>5, <2>3, <2>4
  <2>6. tail'[l] = IF t = <<>> THEN Null ELSE t[Len(t)]
    BY <1>1, <1>5, <2>3, <2>4
  <2> QED
    BY <1>4, <1>7, <2>5, <2>6 DEF LinkedList, Chain
<1>10. WorksOn(l, {})
  <2>1. \A m \in List : m # l => seq'[m] = seq[m] /\ head'[m] = head[m] /\ tail'[m] = tail[m]
    BY <1>0, <1>4 DEF TypeOK, dll_remove
  <2>2. \A x \in Elem : (\E j \in 1 .. Len(seq[l]) : x = seq[l][j])
                        \/ (next'[x] = next[x] /\ prev'[x] = prev[x])
    BY <1>1, <1>6, SMTT(30) DEF NextDeleted, PrevDeleted
  <2>3. /\ e \in Elem /\ next'[e] = Null /\ prev'[e] = Null
        /\ \E j \in 1 .. Len(seq[l]) : e = seq[l][j]
    BY <1>1, <1>6 DEF NextDeleted, PrevDeleted
  <2>4. \A x \in ready' : x \in ready \/ x = e
    BY DEF dll_remove
  <2> HIDE DEF e
  <2> QED
    BY <1>4, <1>7, <1>9, <2>1, <2>2, <2>3, <2>4 DEF WorksOn
<1> QED
  BY <1>8, <1>10, Relinked

\* dll_add inserts at the end.
LEMMA AddStep ==
  ASSUME IInv, NEW l \in List, NEW e \in Elem, dll_add(l, e)
  PROVE  IInv'
<1> DEFINE n == Len(seq[l])
<1>0. TypeOK /\ Linked /\ Separate /\ e \in ready
  BY DEF IInv, dll_add
<1>1. seq[l] \in Seq(Elem) /\ n \in Nat /\ \A i \in 1 .. n : seq[l][i] \in Elem
  BY <1>0 DEF TypeOK
<1>2. Append(seq[l], e) \in Seq(Elem) /\ Inserted(seq[l], Append(seq[l], e), n + 1, e)
  BY <1>0, <1>1, AppendElement DEF Inserted
<1>3. /\ n = 0 <=> head[l] = Null
      /\ n # 0 => tail[l] = seq[l][n] /\ n > 0 /\ seq[l][n] \in Elem
      /\ next[e] = Null /\ prev[e] = Null
  BY <1>0, <1>1, NullAssumption DEF Linked, LinkedList, Separate
<1>4. next' = NextInserted(seq[l], n + 1, e, next)
  <2>1. next' \in [Elem -> Ptr]
    BY <1>0, <1>1, <1>3 DEF dll_add, TypeOK, Ptr
  <2>2. ASSUME NEW x \in Elem
        PROVE  next'[x] = NextInserted(seq[l], n + 1, e, next)[x]
    <3>1. NextInserted(seq[l], n + 1, e, next)[x] =
            IF x = e THEN Null ELSE IF n > 0 /\ x = seq[l][n] THEN e ELSE next[x]
      BY <1>1 DEF NextInserted
    <3>2. n # 0 => seq[l][n] # e
      BY <1>0, <1>1, <1>3 DEF Separate, InNone, In
    <3>3. CASE n = 0
      BY <1>3, <3>1, <3>3 DEF dll_add
    <3>4. CASE n # 0
      BY <1>0, <1>3, <3>1, <3>2, <3>4 DEF dll_add, TypeOK
    <3> QED
      BY <3>3, <3>4
  <2> QED
    BY <2>1, <2>2 DEF NextInserted
<1>5. prev' = PrevInserted(seq[l], n + 1, e, prev)
  <2>1. prev' \in [Elem -> Ptr]
    BY <1>0, <1>1, <1>3 DEF dll_add, TypeOK, Ptr
  <2>2. \A x \in Elem : prev'[x] = PrevInserted(seq[l], n + 1, e, prev)[x]
    BY <1>0, <1>1, <1>3, NullAssumption DEF dll_add, PrevInserted, TypeOK
  <2> QED
    BY <2>1, <2>2 DEF PrevInserted
<1>6. /\ head' \in [List -> Ptr] /\ head'[l] = IF n + 1 = 1 THEN e ELSE head[l]
      /\ tail' \in [List -> Ptr] /\ tail'[l] = IF n + 1 = n + 1 THEN e ELSE tail[l]
      /\ \A m \in List : m # l => head'[m] = head[m] /\ tail'[m] = tail[m]
  BY <1>0, <1>1, <1>3 DEF dll_add, TypeOK, Ptr
<1>7. InsertsAt(l, e, n + 1, Append(seq[l], e))
  BY <1>2, <1>4, <1>5, <1>6 DEF dll_add, InsertsAt
<1> QED
  BY <1>0, <1>1, <1>2, <1>7, n + 1 \in 1 .. n + 1, InsertStep

\* dll_add_first inserts at the start.
LEMMA AddFirstStep ==
  ASSUME IInv, NEW l \in List, NEW e \in Elem, dll_add_first(l, e)
  PROVE  IInv'
<1> DEFINE n == Len(seq[l])
<1>0. TypeOK /\ Linked /\ Separate /\ e \in ready
  BY DEF IInv, dll_add_first
<1>1. seq[l] \in Seq(Elem) /\ n \in Nat /\ \A i \in 1 .. n : seq[l][i] \in Elem
  BY <1>0 DEF TypeOK
<1>2. First(seq[l], e) \in Seq(Elem) /\ Inserted(seq[l], First(seq[l], e), 1, e)
  BY <1>1, FirstElement
<1>3. /\ n = 0 => head[l] = Null /\ tail[l] = Null
      /\ n # 0 => /\ head[l] = seq[l][1] /\ n >= 1 /\ seq[l][1] \in Elem
                 /\ tail[l] # Null
  BY <1>0, <1>1, NullAssumption DEF Linked, LinkedList
<1>4. next' = NextInserted(seq[l], 1, e, next)
  <2>1. next' \in [Elem -> Ptr]
    BY <1>0, <1>1, <1>3 DEF dll_add_first, TypeOK, Ptr
  <2>2. \A x \in Elem : next'[x] = NextInserted(seq[l], 1, e, next)[x]
    BY <1>0, <1>1, <1>3, NullAssumption DEF dll_add_first, NextInserted, TypeOK
  <2> QED
    BY <2>1, <2>2 DEF NextInserted
<1>5. prev' = PrevInserted(seq[l], 1, e, prev)
  <2>1. prev' \in [Elem -> Ptr]
    BY <1>0, <1>1, <1>3 DEF dll_add_first, TypeOK, Ptr
  <2>2. \A x \in Elem : prev'[x] = PrevInserted(seq[l], 1, e, prev)[x]
    BY <1>0, <1>1, <1>3, NullAssumption DEF dll_add_first, PrevInserted, TypeOK
  <2> QED
    BY <2>1, <2>2 DEF PrevInserted
<1>6. /\ head' \in [List -> Ptr] /\ head'[l] = IF 1 = 1 THEN e ELSE head[l]
      /\ tail' \in [List -> Ptr] /\ tail'[l] = IF 1 = n + 1 THEN e ELSE tail[l]
      /\ \A m \in List : m # l => head'[m] = head[m] /\ tail'[m] = tail[m]
  BY <1>0, <1>1, <1>3 DEF dll_add_first, TypeOK, Ptr
<1>7. InsertsAt(l, e, 1, First(seq[l], e))
  BY <1>2, <1>4, <1>5, <1>6 DEF dll_add_first, InsertsAt
<1> QED
  BY <1>0, <1>1, <1>2, <1>7, 1 \in 1 .. n + 1, InsertStep

\* dll_add_after inserts behind an element.
LEMMA AddAfterStep ==
  ASSUME IInv, NEW l \in List, NEW e \in Elem, NEW i \in DOMAIN seq[l], dll_add_after(l, e, i)
  PROVE  IInv'
<1> DEFINE n == Len(seq[l])
<1>0. TypeOK /\ Linked /\ Separate /\ e \in ready
  BY DEF IInv, dll_add_after
<1>1. /\ seq[l] \in Seq(Elem) /\ n \in Nat /\ i \in 1 .. n
      /\ \A k \in 1 .. n : seq[l][k] \in Elem
  BY <1>0 DEF TypeOK
<1>2. After(seq[l], i, e) \in Seq(Elem) /\ Inserted(seq[l], After(seq[l], i, e), i + 1, e)
  <2>1. seq[l] \in Seq(Elem) /\ e \in Elem /\ i \in 0 .. Len(seq[l])
    BY <1>0, <1>1 DEF TypeOK
  <2>2. IsAfter(Elem, seq[l], i, e, After(seq[l], i, e))
    BY <2>1, AfterElement
  <2>3. \A k \in 1 .. Len(seq[l]) + 1 : (k <= i <=> k < i + 1)
    BY <1>1
  <2> QED
    BY <2>2, <2>3 DEF Inserted, IsAfter
<1>3. /\ next[seq[l][i]] = IF i = n THEN Null ELSE seq[l][i + 1]
      /\ tail[l] = seq[l][n]
      /\ seq[l][i] = seq[l][n] <=> i = n
  BY <1>0, <1>1 DEF Linked, LinkedList, Separate
<1>4. next' = NextInserted(seq[l], i + 1, e, next)
  <2>1. next' \in [Elem -> Ptr]
    BY <1>0, <1>1, <1>3 DEF dll_add_after, TypeOK, Ptr
  <2>2. \A x \in Elem : next'[x] = NextInserted(seq[l], i + 1, e, next)[x]
    BY <1>0, <1>1, <1>3, NullAssumption DEF dll_add_after, NextInserted, TypeOK
  <2> QED
    BY <2>1, <2>2 DEF NextInserted
<1>5. prev' = PrevInserted(seq[l], i + 1, e, prev)
  <2>1. prev' \in [Elem -> Ptr]
    BY <1>0, <1>1, <1>3 DEF dll_add_after, TypeOK, Ptr
  <2>2. \A x \in Elem : prev'[x] = PrevInserted(seq[l], i + 1, e, prev)[x]
    BY <1>0, <1>1, <1>3, NullAssumption DEF dll_add_after, PrevInserted, TypeOK
  <2> QED
    BY <2>1, <2>2 DEF PrevInserted
<1>6. /\ head' \in [List -> Ptr] /\ head'[l] = IF i + 1 = 1 THEN e ELSE head[l]
      /\ tail' \in [List -> Ptr] /\ tail'[l] = IF i + 1 = n + 1 THEN e ELSE tail[l]
      /\ \A m \in List : m # l => head'[m] = head[m] /\ tail'[m] = tail[m]
  BY <1>0, <1>1, <1>3 DEF dll_add_after, TypeOK, Ptr
<1>7. i + 1 \in 1 .. n + 1
  BY <1>1
<1>8. InsertsAt(l, e, i + 1, After(seq[l], i, e))
  BY <1>2, <1>4, <1>5, <1>6 DEF dll_add_after, InsertsAt
<1> QED
  BY <1>0, <1>1, <1>2, <1>7, <1>8, InsertStep

\* Memory that is in no list may be overwritten.
LEMMA OutsideStep ==
  ASSUME IInv, NEW e \in Elem, kmalloc(e) \/ dll_init_elem(e)
  PROVE  IInv'
<1>0. TypeOK /\ Linked /\ Separate
  BY DEF IInv
<1>1. /\ \A m \in List : DOMAIN seq[m] = 1 .. Len(seq[m])
      /\ \A m \in List : \A i \in 1 .. Len(seq[m]) : seq[m][i] # e /\ seq[m][i] \in Elem
      /\ UNCHANGED <<head, tail, seq, loop>>
      /\ \A x \in Elem : x # e => next'[x] = next[x] /\ prev'[x] = prev[x]
  BY <1>0 DEF kmalloc, dll_init_elem, InNone, In, TypeOK
<1>2. TypeOK'
  <2>1. next' \in [Elem -> Ptr] /\ prev' \in [Elem -> Ptr]
    <3>1. PICK n \in Ptr, p \in Ptr : next' = [next EXCEPT ![e] = n] /\ prev' = [prev EXCEPT ![e] = p]
      BY DEF kmalloc, dll_init_elem, Ptr
    <3> QED
      BY <1>0, <3>1 DEF TypeOK
  <2>2. ready' \subseteq Elem
    BY <1>0 DEF TypeOK, kmalloc, dll_init_elem
  <2> QED
    BY <1>0, <1>1, <2>1, <2>2 DEF TypeOK, loop
<1>3. Linked'
  <2>1. SUFFICES ASSUME NEW m \in List PROVE LinkedList(m)'
    BY DEF Linked
  <2>2. head'[m] = head[m] /\ tail'[m] = tail[m] /\ seq'[m] = seq[m]
    BY <1>1
  <2>3. \A i \in 1 .. Len(seq[m]) :
          next'[seq[m][i]] = next[seq[m][i]] /\ prev'[seq[m][i]] = prev[seq[m][i]]
    BY <1>1, Zenon
  <2>4. LinkedList(m)
    BY <1>0 DEF Linked
  <2> QED
    BY <2>2, <2>3, <2>4 DEF LinkedList
<1>4. ASSUME NEW x \in ready'
      PROVE  next'[x] = Null /\ prev'[x] = Null /\ InNone(x)'
  <2>1. CASE x = e
    BY <1>0, <1>1, <1>4, <2>1 DEF kmalloc, dll_init_elem, TypeOK, InNone, In
  <2>2. CASE x # e
    <3>1. x \in ready /\ x \in Elem
      BY <1>0, <1>4, <2>2 DEF kmalloc, dll_init_elem, TypeOK
    <3> QED
      BY <1>0, <1>1, <2>2, <3>1 DEF Separate, InNone, In
  <2> QED
    BY <2>1, <2>2
<1>5. Separate'
  BY <1>0, <1>1, <1>4 DEF Separate
<1> QED
  BY <1>2, <1>3, <1>5 DEF IInv

\* A loop writes to nothing but its own variables.
LEMMA ForeachStepInv ==
  ASSUME IInv, (\E l \in List : ForeachStart(l)) \/ ForeachStep \/ ForeachEnd
  PROVE  IInv'
<1>1. UNCHANGED <<links, ready, seq>>
  BY DEF ForeachStart, ForeachStep, ForeachEnd
<1>2. TypeOK'
  <2>1. /\ head \in [List -> Ptr] /\ next \in [Elem -> Ptr]
        /\ each \in List \cup {Null} /\ curr \in Ptr /\ visited \in Seq(Elem)
    BY DEF IInv, TypeOK
  <2>2. each' \in List \cup {Null}
    BY <2>1 DEF ForeachStart, ForeachStep, ForeachEnd
  <2>3. curr' \in Ptr
    BY <2>1 DEF ForeachStart, ForeachStep, ForeachEnd, Ptr
  <2>4. visited' \in Seq(Elem)
    <3>1. CASE ForeachStep
      BY <2>1, <3>1, AppendElement DEF ForeachStep, Ptr
    <3>2. CASE (\E l \in List : ForeachStart(l)) \/ ForeachEnd
      <4>1. visited' = <<>> \/ visited' = visited
        BY <3>2 DEF ForeachStart, ForeachEnd
      <4>2. <<>> \in Seq(Elem)
        OBVIOUS
      <4> QED
        BY <2>1, <4>1, <4>2, Zenon
    <3> QED
      BY <3>1, <3>2
  <2> QED
    BY <1>1, <2>2, <2>3, <2>4 DEF IInv, TypeOK, links
<1>3. Linked' /\ Separate'
  BY <1>1 DEF IInv, Linked, LinkedList, Separate, InNone, In, links
<1> QED
  BY <1>2, <1>3 DEF IInv

LEMMA InitInv == Init => IInv
<1> SUFFICES ASSUME Init PROVE IInv
  OBVIOUS
<1>1. TypeOK
  BY DEF Init, TypeOK, Ptr
<1>2. Linked
  BY DEF Init, Linked, LinkedList
<1>3. Separate
  BY DEF Init, Separate
<1> QED
  BY <1>1, <1>2, <1>3 DEF IInv

LEMMA StepInv == IInv /\ [Next]_vars => IInv'
<1> SUFFICES ASSUME IInv, [Next]_vars PROVE IInv'
  OBVIOUS
<1>1. CASE \E e \in Elem : kmalloc(e) \/ dll_init_elem(e)
  BY <1>1, OutsideStep
<1>2. CASE \E l \in List, e \in Elem : dll_add(l, e)
  BY <1>2, AddStep
<1>3. CASE \E l \in List, e \in Elem : dll_add_first(l, e)
  BY <1>3, AddFirstStep
<1>4. CASE \E l \in List : \E e \in Elem, i \in DOMAIN seq[l] : dll_add_after(l, e, i)
  BY <1>4, AddAfterStep
<1>5. CASE \E l \in List : \E i \in DOMAIN seq[l] : dll_remove(l, i)
  BY <1>5, DeleteStep
<1>6. CASE (\E l \in List : ForeachStart(l)) \/ ForeachStep \/ ForeachEnd
  BY <1>6, ForeachStepInv
<1>7. CASE UNCHANGED vars
  BY <1>7 DEF IInv, TypeOK, Linked, LinkedList, Separate, InNone, In, vars, links, loop
<1> QED
  BY <1>1, <1>2, <1>3, <1>4, <1>5, <1>6, <1>7 DEF Next

LEMMA Invariance == Spec => []IInv
<1>1. Init => IInv
  BY InitInv
<1>2. IInv /\ [Next]_vars => IInv'
  BY StepInv
<1> QED
  BY <1>1, <1>2, PTL DEF Spec

\* The macros of dll.h keep every list well linked, forwards and backwards,
\* whatever elements go in and out of however many lists.
THEOREM ListsAreLinked == Spec => []Linked
<1>1. IInv => Linked
  BY DEF IInv
<1> QED
  BY <1>1, Invariance, PTL

\* No element is ever in two places, and none that may be added has stale links.
THEOREM ListsAreSeparate == Spec => []Separate
<1>1. IInv => Separate
  BY DEF IInv
<1> QED
  BY <1>1, Invariance, PTL

-----------------------------------------------------------------------------
\* Where a dll_foreach is: it has visited a prefix of the list, and its cursor
\* is the next element.
At(s, v, c) ==
  /\ Len(v) <= Len(s)
  /\ \A i \in 1 .. Len(v) : v[i] = s[i]
  /\ c = IF Len(v) = Len(s) THEN Null ELSE s[Len(v) + 1]

LoopInv == each # Null => At(seq[each], visited, curr)

\* The loop starts at the head.
LEMMA LoopStart ==
  ASSUME IInv, NEW l \in List, ForeachStart(l)
  PROVE  LoopInv'
<1>1. each' = l /\ seq' = seq /\ curr' = head[l] /\ visited' = <<>>
  BY DEF ForeachStart
<1>2. seq[l] \in Seq(Elem) /\ head[l] = IF seq[l] = <<>> THEN Null ELSE seq[l][1]
  BY DEF IInv, TypeOK, Linked, LinkedList
<1>3. At(seq[l], <<>>, head[l])
  BY <1>2 DEF At
<1> QED
  BY <1>1, <1>3 DEF LoopInv

\* The cursor follows the list.
LEMMA LoopStep ==
  ASSUME IInv, LoopInv, ForeachStep
  PROVE  LoopInv'
<1> DEFINE s == seq[each]
           n == Len(visited)
<1>1. /\ each' = each /\ seq' = seq /\ curr' = next[curr] /\ visited' = Append(visited, curr)
      /\ each \in List /\ curr \in Elem /\ s \in Seq(Elem) /\ visited \in Seq(Elem)
  BY DEF ForeachStep, IInv, TypeOK, links, Ptr
<1>2. At(s, visited, curr) /\ curr # Null
  BY DEF LoopInv, ForeachStep
<1>3. \A i \in 1 .. Len(s) : next[s[i]] = IF i = Len(s) THEN Null ELSE s[i + 1]
  BY <1>1 DEF IInv, Linked, LinkedList
<1> HIDE DEF s
<1>4. n \in Nat /\ Len(s) \in Nat /\ n < Len(s) /\ curr = s[n + 1] /\ \A i \in 1 .. n : visited[i] = s[i]
  BY <1>1, <1>2 DEF At
<1>5. /\ Len(Append(visited, curr)) = n + 1
      /\ \A i \in 1 .. n + 1 : Append(visited, curr)[i] = IF i = n + 1 THEN curr ELSE visited[i]
  BY <1>1
<1>6. next[curr] = IF n + 1 = Len(s) THEN Null ELSE s[(n + 1) + 1]
  BY <1>3, <1>4
<1>7. At(s, Append(visited, curr), next[curr])
  BY <1>4, <1>5, <1>6 DEF At
<1> QED
  BY <1>1, <1>7 DEF LoopInv, s

\* A macro works on another list than the loop.
LEMMA LoopQuiet ==
  ASSUME IInv, LoopInv, UNCHANGED loop,
         \/ seq' = seq
         \/ \E l \in List : Quiet(l) /\ \A m \in List : m # l => seq'[m] = seq[m]
  PROVE  LoopInv'
<1>1. each' = each /\ curr' = curr /\ visited' = visited
  BY DEF loop
<1>2. each # Null => seq'[each] = seq[each]
  BY DEF Quiet, IInv, TypeOK
<1> QED
  BY <1>1, <1>2 DEF LoopInv

LEMMA LoopNext == IInv /\ LoopInv /\ [Next]_vars => LoopInv'
<1> SUFFICES ASSUME IInv, LoopInv, [Next]_vars PROVE LoopInv'
  OBVIOUS
<1>0. seq \in [List -> Seq(Elem)]
  BY DEF IInv, TypeOK
<1>1. CASE UNCHANGED vars \/ \E e \in Elem : kmalloc(e) \/ dll_init_elem(e)
  <2>1. seq' = seq /\ UNCHANGED loop
    BY <1>1 DEF kmalloc, dll_init_elem, vars, loop
  <2> QED
    BY <2>1, LoopQuiet
<1>2. ASSUME NEW l \in List,
             \/ \E e \in Elem : dll_add(l, e) \/ dll_add_first(l, e)
             \/ \E e \in Elem, i \in DOMAIN seq[l] : dll_add_after(l, e, i)
             \/ \E i \in DOMAIN seq[l] : dll_remove(l, i)
      PROVE  LoopInv'
  <2>1. Quiet(l) /\ UNCHANGED loop /\ \A m \in List : m # l => seq'[m] = seq[m]
    BY <1>0, <1>2 DEF dll_add, dll_add_first, dll_add_after, dll_remove
  <2> QED
    BY <2>1, LoopQuiet
<1>3. CASE \E l \in List : ForeachStart(l)
  BY <1>3, LoopStart
<1>4. CASE ForeachStep
  BY <1>4, LoopStep
<1>5. CASE ForeachEnd
  BY <1>5 DEF ForeachEnd, LoopInv
<1> QED
  BY <1>1, <1>2, <1>3, <1>4, <1>5 DEF Next

\* dll_foreach visits every element of its list, once and in order, and no other,
\* for lists of any length.
THEOREM ForeachIsComplete == Spec => []ForeachVisitsAll
<1>1. Init => LoopInv
  BY DEF Init, LoopInv
<1>2. IInv /\ LoopInv => ForeachVisitsAll
  <2> SUFFICES ASSUME IInv, LoopInv, each # Null
               PROVE  /\ visited = SubSeq(seq[each], 1, Len(visited))
                      /\ curr = Null => visited = seq[each]
                      /\ curr # Null => curr = seq[each][Len(visited) + 1]
    BY DEF ForeachVisitsAll
  <2> DEFINE s == seq[each]
  <2>1. /\ s \in Seq(Elem) /\ visited \in Seq(Elem)
        /\ \A i \in 1 .. Len(s) : s[i] # Null
    BY NullAssumption DEF IInv, TypeOK
  <2>2. At(s, visited, curr)
    BY DEF LoopInv
  <2> HIDE DEF s
  <2>3. Len(visited) \in Nat /\ Len(s) \in Nat /\ Len(visited) <= Len(s)
    BY <2>1, <2>2 DEF At
  <2>4. /\ SubSeq(s, 1, Len(visited)) \in Seq(Elem)
        /\ Len(SubSeq(s, 1, Len(visited))) = Len(visited)
        /\ \A i \in 1 .. Len(visited) : SubSeq(s, 1, Len(visited))[i] = s[i]
    BY <2>1, <2>3, Parts
  <2>5. visited = SubSeq(s, 1, Len(visited))
    BY <2>1, <2>2, <2>4 DEF At
  <2>6. curr = Null => Len(visited) = Len(s)
    BY <2>1, <2>2, <2>3 DEF At
  <2>7. Len(visited) = Len(s) => visited = s
    BY <2>1, <2>2 DEF At
  <2>8. curr # Null => curr = s[Len(visited) + 1]
    BY <2>2 DEF At
  <2> QED
    BY <2>5, <2>6, <2>7, <2>8 DEF s
<1> QED
  BY <1>1, <1>2, LoopNext, Invariance, PTL DEF Spec
=============================================================================
