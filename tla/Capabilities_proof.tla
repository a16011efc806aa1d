------------------------- MODULE Capabilities_proof -------------------------
(***************************************************************************)
(* Proofs about module Capabilities, for any memory, any number of         *)
(* domains, handles and callers, and any interleaving of their steps.      *)
(***************************************************************************)
EXTENDS Capabilities, TLAPS

InFlight == TransferPcs \cup RevokePcs
Holding == {"split", "split2", "give", "merge_left", "merge_right"}

\* What the steps of a call rely on: its arguments, and its pointer curr.
CallOK ==
  \A c \in Caller :
    /\ pc[c] \in InFlight => args[c] # None
    /\ pc[c] \in Holding => curr[c] # None

\* What the monitor and the library own, without the locals of the callers.
LibTypeOK ==
  /\ MonTypeOK
  /\ initialised \in {"no", "ready", "failed"}
  /\ list \in Seq(Handle)
  /\ capa \in [Handle -> Capability \cup {None}]

\* The locals of the callers.
CallTypeOK ==
  /\ pc \in [Caller -> Returned \cup Dead \cup TransferPcs \cup RevokePcs]
  /\ args \in [Caller -> Args \cup {None}]
  /\ curr \in [Caller -> Handle \cup {None}]
  /\ prev \in [Caller -> Handle \cup {None}]
  /\ next \in [Caller -> Handle \cup {None}]
  /\ CallOK

\* A transfer is always of a region that exists: a region with outstanding
\* transfers is neither split nor merged away.
RevOK == \A r \in RevHandle : rev[r] # None => region[rev[r].region] # None

\* Until init_domain succeeds there are no objects, no calls and no transfers;
\* until it runs, the monitor still holds the boot regions, each once.
BootOK ==
  /\ initialised # "ready" =>
       /\ \A h \in Handle : capa[h] = None
       /\ list = <<>>
       /\ \A c \in Caller : pc[c] \in Returned
       /\ \A r \in RevHandle : rev[r] = None
  /\ initialised = "no" =>
       /\ \A h \in Handle : region[h] # None => \E i \in DOMAIN Boot : region[h] = Boot[i]
       /\ \A h1, h2 \in Handle : h1 # h2 => region[h1] = None \/ region[h1] # region[h2]

\* The revocation handles of h, as the monitor knows them.
Revoks(h) == {[domain |-> rev[r].domain, handle |-> r] : r \in Outstanding(h)}

\* The invariant of the library's and the monitor's state.
LibInv == LibTypeOK /\ ListIsLive /\ MirrorsMonitor /\ RevOK

\* The inductive invariant.
IInv == LibInv /\ CallTypeOK /\ BootOK

-----------------------------------------------------------------------------
\* The j-th element of a list after dll_remove.
LEMMA RemoveElement ==
  ASSUME NEW S, NEW l \in Seq(S), NEW i \in DOMAIN l
  PROVE  /\ dll_remove(l, i) \in Seq(S)
         /\ Len(dll_remove(l, i)) = Len(l) - 1
         /\ \A j \in 1 .. Len(l) - 1 :
              dll_remove(l, i)[j] = IF j < i THEN l[j] ELSE l[j + 1]
<1> DEFINE a == SubSeq(l, 1, i - 1)
           b == SubSeq(l, i + 1, Len(l))
<1>1. Len(l) \in Nat /\ i \in 1 .. Len(l)
  OBVIOUS
<1>2. a \in Seq(S) /\ Len(a) = i - 1 /\ \A j \in 1 .. i - 1 : a[j] = l[j]
  BY <1>1
<1>3. b \in Seq(S) /\ Len(b) = Len(l) - i /\ \A j \in 1 .. Len(l) - i : b[j] = l[j + i]
  BY <1>1
<1> HIDE DEF a, b
<1>4. /\ a \o b \in Seq(S) /\ Len(a \o b) = Len(a) + Len(b)
      /\ \A j \in 1 .. Len(a) + Len(b) :
           (a \o b)[j] = IF j <= Len(a) THEN a[j] ELSE b[j - Len(a)]
  BY <1>2, <1>3, SMTT(30)
<1>5. \A j \in 1 .. Len(l) - 1 : (a \o b)[j] = IF j < i THEN l[j] ELSE l[j + 1]
  <2> TAKE j \in 1 .. Len(l) - 1
  <2>1. CASE j < i
    <3>1. j \in 1 .. i - 1 /\ j \in 1 .. Len(a) + Len(b) /\ j <= Len(a)
      BY <1>1, <1>2, <1>3, <2>1
    <3>2. (a \o b)[j] = a[j]
      BY <1>4, <3>1, Zenon
    <3>3. a[j] = l[j]
      BY <1>2, <3>1, Zenon
    <3> QED
      BY <2>1, <3>2, <3>3, Zenon
  <2>2. CASE ~(j < i)
    <3>0. j \in Nat /\ i - 1 < j /\ j <= Len(l) - 1
      BY <1>1, <2>2
    <3>1. j \in 1 .. Len(a) + Len(b) /\ ~(j <= Len(a)) /\ Len(a) = i - 1
      BY <1>1, <1>2, <1>3, <3>0
    <3>3. (a \o b)[j] = b[j - (i - 1)]
      BY <1>4, <3>1
    <3>4. j - (i - 1) \in 1 .. Len(l) - i
      BY <1>1, <3>0
    <3>5. b[j - (i - 1)] = l[(j - (i - 1)) + i]
      BY <1>3, <3>4
    <3>6. (j - (i - 1)) + i = j + 1
      BY <1>1, <3>0
    <3> QED
      BY <2>2, <3>3, <3>5, <3>6
  <2> QED
    BY <2>1, <2>2
<1>6. Len(a \o b) = Len(l) - 1
  BY <1>1, <1>2, <1>3, <1>4
<1>7. dll_remove(l, i) = a \o b
  BY DEF a, b, dll_remove
<1> QED
  BY <1>4, <1>5, <1>6, <1>7

\* dll_remove takes out one element of a list without repetitions, and only
\* that one, and leaves no repetition.
LEMMA RemoveLive ==
  ASSUME NEW S, NEW l \in Seq(S), NEW i \in DOMAIN l,
         \A j, k \in DOMAIN l : l[j] = l[k] => j = k
  PROVE  /\ \A h \in S : (\E j \in DOMAIN dll_remove(l, i) : dll_remove(l, i)[j] = h)
                     <=> h # l[i] /\ \E j \in DOMAIN l : l[j] = h
         /\ \A j, k \in DOMAIN dll_remove(l, i) :
              dll_remove(l, i)[j] = dll_remove(l, i)[k] => j = k
<1> DEFINE m == dll_remove(l, i)
<1>2. DOMAIN l = 1 .. Len(l) /\ Len(l) \in Nat /\ i \in 1 .. Len(l)
  OBVIOUS
<1>0. /\ m \in Seq(S)
      /\ Len(m) = Len(l) - 1
      /\ \A j \in 1 .. Len(l) - 1 : m[j] = IF j < i THEN l[j] ELSE l[j + 1]
  BY RemoveElement
<1> HIDE DEF m
<1>1. /\ DOMAIN m = 1 .. Len(l) - 1
      /\ \A j \in DOMAIN m : m[j] = IF j < i THEN l[j] ELSE l[j + 1]
  BY <1>0
<1>3. ASSUME NEW h \in S, NEW j \in DOMAIN m, m[j] = h
      PROVE  h # l[i] /\ \E k \in DOMAIN l : l[k] = h
  <2>1. CASE j < i
    BY <1>1, <1>2, <1>3, <2>1
  <2>2. CASE ~(j < i)
    <3>1. j + 1 \in DOMAIN l /\ l[j + 1] = h /\ j + 1 # i
      BY <1>1, <1>2, <1>3, <2>2
    <3> QED
      BY <3>1
  <2> QED
    BY <2>1, <2>2
<1>4. ASSUME NEW h \in S, h # l[i], NEW j \in DOMAIN l, l[j] = h
      PROVE  \E k \in DOMAIN m : m[k] = h
  <2>1. CASE j < i
    <3>1. j \in DOMAIN m /\ m[j] = h
      BY <1>1, <1>2, <1>4, <2>1
    <3> QED
      BY <3>1
  <2>2. CASE j > i
    <3>1. j - 1 \in DOMAIN m /\ m[j - 1] = h
      BY <1>1, <1>2, <1>4, <2>2
    <3> QED
      BY <3>1
  <2> QED
    BY <1>2, <1>4, <2>1, <2>2
<1>5. ASSUME NEW j \in DOMAIN m, NEW k \in DOMAIN m, m[j] = m[k]
      PROVE  j = k
  <2> DEFINE at(x) == IF x < i THEN x ELSE x + 1
  <2>1. at(j) \in DOMAIN l /\ at(k) \in DOMAIN l
    BY <1>1, <1>2
  <2>2. m[j] = l[at(j)] /\ m[k] = l[at(k)]
    BY <1>1
  <2>3. at(j) = at(k)
    BY <1>5, <2>1, <2>2
  <2> QED
    BY <1>1, <1>2, <2>3
<1> QED
  BY <1>3, <1>4, <1>5 DEF m

-----------------------------------------------------------------------------
\* The prev and next links of a list element lead to an element or to NULL.
LEMMA NeighbourType ==
  ASSUME NEW l \in Seq(Handle), NEW i \in DOMAIN l
  PROVE  /\ dll_prev(l, i) \in Handle \cup {None}
         /\ dll_next(l, i) \in Handle \cup {None}
  BY DEF dll_prev, dll_next

\* translate_access yields an access mask.
LEMMA AccessType ==
  ASSUME NEW t
  PROVE  translate_access(t) \in SUBSET Rights
  BY DEF translate_access, Rights

\* A returning call keeps the locals well typed, and holds nothing.
LEMMA ReturnType ==
  ASSUME CallTypeOK, NEW c \in Caller, NEW res \in Returned \cup Dead, Return(c, res)
  PROVE  CallTypeOK'
  BY DEF CallTypeOK, CallOK, Return, InFlight, Holding, Returned, Dead,
         TransferPcs, RevokePcs

\* A call that fails without touching the list keeps everything well typed.
LEMMA FailType ==
  ASSUME LibTypeOK, CallTypeOK, NEW c \in Caller, Fail(c)
  PROVE  LibTypeOK' /\ CallTypeOK'
<1>1. CallTypeOK'
  BY ReturnType DEF Fail, Returned
<1>2. LibTypeOK'
  BY DEF Fail, LibTypeOK, MonTypeOK, monVars, libVars
<1> QED
  BY <1>1, <1>2

\* A call in flight has its arguments.
LEMMA ArgsType ==
  ASSUME CallTypeOK, NEW c \in Caller, pc[c] \in InFlight
  PROVE  args[c] \in Args
  BY DEF CallTypeOK, CallOK

\* A call past its search points to an object; the object is there unless the
\* pointer dangles.
LEMMA CurrType ==
  ASSUME LibTypeOK, CallTypeOK, NEW c \in Caller, pc[c] \in Holding
  PROVE  /\ curr[c] \in Handle
         /\ ~Dangling(c) => capa[curr[c]] \in Capability
  BY DEF LibTypeOK, CallTypeOK, CallOK, Dangling

\* A split leaves two well-formed objects, in the library and in the monitor.
LEMMA SplitType ==
  ASSUME LibTypeOK, NEW h \in Handle, NEW addr \in Addr, NEW h2 \in Handle,
         capa[h] \in Capability, split_capa(h, addr, h2)
  PROVE  LibTypeOK'
<1>1. region[h] \in Region
  BY DEF LibTypeOK, MonTypeOK, split_capa, MonSplit
<1>2. [region[h] EXCEPT !.end = addr] \in Region /\ [region[h] EXCEPT !.start = addr] \in Region
  BY <1>1 DEF Region
<1>3. MonTypeOK'
  BY <1>2 DEF LibTypeOK, MonTypeOK, split_capa, MonSplit
<1>4. /\ [capa[h] EXCEPT !.end = addr] \in Capability
      /\ [capa[h] EXCEPT !.start = addr, !.revoks = {}] \in Capability
  BY DEF Capability
<1>5. capa' \in [Handle -> Capability \cup {None}]
  BY <1>4 DEF LibTypeOK, split_capa
<1>6. list' \in Seq(Handle)
  BY DEF LibTypeOK, split_capa, dll_add
<1> QED
  BY <1>3, <1>5, <1>6 DEF LibTypeOK, split_capa

\* A merge leaves one well-formed object, in the library and in the monitor.
LEMMA MergeType ==
  ASSUME LibTypeOK, NEW h1 \in Handle, NEW h2 \in Handle,
         capa[h1] \in Capability, capa[h2] \in Capability, Merged(h1, h2)
  PROVE  LibTypeOK'
<1>1. region[h1] \in Region /\ region[h2] \in Region
  BY DEF LibTypeOK, MonTypeOK, Merged, MonMerge
<1>2. [region[h1] EXCEPT !.end = region[h2].end] \in Region
  BY <1>1 DEF Region
<1>3. MonTypeOK'
  BY <1>2 DEF LibTypeOK, MonTypeOK, Merged, MonMerge
<1>4. [capa[h1] EXCEPT !.end = capa[h2].end] \in Capability
  BY DEF Capability
<1>5. capa' \in [Handle -> Capability \cup {None}]
  BY <1>4 DEF LibTypeOK, Merged
<1>6. list' \in Seq(Handle)
  BY RemoveElement DEF LibTypeOK, Merged
<1> QED
  BY <1>3, <1>5, <1>6 DEF LibTypeOK, Merged

\* A successful grant or share adds one well-formed revocation handle.
LEMMA TransferredType ==
  ASSUME LibTypeOK, NEW c \in Caller, NEW r \in RevHandle, NEW status \in Status,
         args[c] \in Args, curr[c] \in Handle, capa[curr[c]] \in Capability,
         Transferred(c, r, status)
  PROVE  LibTypeOK'
<1>1. args[c].dom \in Domain
  BY DEF Args
<1>2. [region |-> curr[c], domain |-> args[c].dom, conf |-> args[c].tpe \in Confidentials,
       access |-> translate_access(args[c].tpe)] \in Rev
  BY <1>1, AccessType DEF Rev
<1>3. MonTypeOK'
  BY <1>2 DEF LibTypeOK, MonTypeOK, Transferred, MonTransfer
<1>4. [domain |-> args[c].dom, handle |-> r] \in RevokHandle
  BY <1>1 DEF RevokHandle
<1>5. [capa[curr[c]] EXCEPT !.status = status,
         !.revoks = capa[curr[c]].revoks \cup {[domain |-> args[c].dom, handle |-> r]}] \in Capability
  BY <1>4 DEF Capability
<1>6. capa' \in [Handle -> Capability \cup {None}]
  BY <1>5 DEF LibTypeOK, Transferred
<1> QED
  BY <1>3, <1>6 DEF LibTypeOK, Transferred

\* A successful revocation takes one revocation handle away.
LEMMA RevokedType ==
  ASSUME LibTypeOK, NEW h \in Handle, NEW x \in RevokHandle, NEW status \in Status,
         capa[h] \in Capability, Revoked(h, x, status)
  PROVE  LibTypeOK'
<1>1. MonTypeOK'
  BY DEF LibTypeOK, MonTypeOK, Revoked, MonRevoke
<1>2. [capa[h] EXCEPT !.status = status, !.revoks = capa[h].revoks \ {x}] \in Capability
  BY DEF Capability
<1>3. capa' \in [Handle -> Capability \cup {None}]
  BY <1>2 DEF LibTypeOK, Revoked
<1> QED
  BY <1>1, <1>3 DEF LibTypeOK, Revoked

-----------------------------------------------------------------------------
\* A split keeps the list and the monitor in step: the new object is linked
\* once, and the two parts have the bounds of the two regions.
LEMMA SplitInv ==
  ASSUME LibInv, initialised = "ready",
         NEW h \in Handle, NEW addr \in Addr, NEW h2 \in Handle,
         capa[h] \in Capability, split_capa(h, addr, h2)
  PROVE  LibInv'
<1>1. LibTypeOK'
  BY SplitType DEF LibInv
<1>2. /\ region[h] \in Region /\ capa[h2] = None /\ h # h2
      /\ Outstanding(h) = {} /\ Outstanding(h2) = {}
  BY DEF LibInv, LibTypeOK, MonTypeOK, MirrorsMonitor, RevOK, split_capa, MonSplit,
         Outstanding
<1>3. /\ capa'[h] = [capa[h] EXCEPT !.end = addr]
      /\ capa'[h2] = [capa[h] EXCEPT !.start = addr, !.revoks = {}]
      /\ \A g \in Handle \ {h, h2} : capa'[g] = capa[g]
      /\ region'[h] = [region[h] EXCEPT !.end = addr]
      /\ region'[h2] = [region[h] EXCEPT !.start = addr]
      /\ \A g \in Handle \ {h, h2} : region'[g] = region[g]
  BY <1>2 DEF LibInv, LibTypeOK, MonTypeOK, split_capa, MonSplit
<1>4. rev' = rev /\ initialised' = initialised
  BY DEF split_capa, MonSplit
<1>5. capa'[h] # None /\ capa'[h2] # None /\ region'[h] # None /\ region'[h2] # None
  <2>1. /\ capa'[h] \in Capability /\ capa'[h2] \in Capability
        /\ region'[h] \in Region /\ region'[h2] \in Region
    BY <1>2, <1>3, ZenonT(30) DEF Capability, Region
  <2> QED
    BY <2>1, NoneAssumption, NoneCapaAssumption
<1>6. ListIsLive'
  <2>1. /\ list' \in Seq(Handle) /\ Len(list') = Len(list) + 1 /\ Len(list) \in Nat
        /\ \A i \in 1 .. Len(list) : list'[i] = list[i]
        /\ list'[Len(list) + 1] = h2
    BY DEF LibInv, LibTypeOK, split_capa, dll_add
  <2>2. DOMAIN list = 1 .. Len(list) /\ DOMAIN list' = 1 .. Len(list) + 1
    BY <2>1 DEF LibInv, LibTypeOK
  <2>3. \A i \in DOMAIN list : list[i] \in Handle /\ list[i] # h2
    BY <1>2 DEF LibInv, LibTypeOK, ListIsLive, Live
  <2>4. \A i, j \in DOMAIN list' : list'[i] = list'[j] => i = j
    BY <2>1, <2>2, <2>3 DEF LibInv, ListIsLive
  <2>5. ASSUME NEW g \in Handle
        PROVE  capa'[g] # None <=> \E i \in DOMAIN list' : list'[i] = g
    <3>1. CASE g = h2
      BY <1>5, <2>1, <2>2, <3>1
    <3>2. CASE g # h2
      <4>1. capa'[g] # None <=> capa[g] # None
        BY <1>3, <1>5, <3>2, NoneCapaAssumption
      <4>2. (\E i \in DOMAIN list' : list'[i] = g) <=> (\E i \in DOMAIN list : list[i] = g)
        BY <2>1, <2>2, <3>2
      <4>3. capa[g] # None <=> \E i \in DOMAIN list : list[i] = g
        BY DEF LibInv, ListIsLive, Live
      <4> QED
        BY <4>1, <4>2, <4>3
    <3> QED
      BY <3>1, <3>2
  <2> QED
    BY <2>4, <2>5 DEF ListIsLive, Live
<1>7. RevOK'
  BY <1>3, <1>4, <1>5 DEF LibInv, LibTypeOK, MonTypeOK, Rev, RevOK
<1>8. MirrorsMonitor'
  <2>1. \A g \in Handle : Outstanding(g)' = Outstanding(g)
    BY <1>4 DEF Outstanding
  <2>2. ASSUME NEW g \in Handle
        PROVE  /\ capa'[g] = None <=> region'[g] = None
               /\ capa'[g] # None =>
                    /\ capa'[g].start = region'[g].start /\ capa'[g].end = region'[g].end
                    /\ capa'[g].access = region'[g].access
                    /\ capa'[g].revoks =
                         {[domain |-> rev[r].domain, handle |-> r] : r \in Outstanding(g)}
    <3>0. capa[h].start = region[h].start /\ capa[h].end = region[h].end
          /\ capa[h].access = region[h].access /\ capa[h].revoks = {}
      BY <1>2, NoneCapaAssumption DEF LibInv, MirrorsMonitor, Live
    <3>1. CASE g = h
      BY <1>2, <1>3, <1>5, <3>0, <3>1 DEF Capability, Region
    <3>2. CASE g = h2
      <4>1. /\ capa'[h2].start = region'[h2].start /\ capa'[h2].end = region'[h2].end
            /\ capa'[h2].access = region'[h2].access /\ capa'[h2].revoks = {}
        BY <1>2, <1>3, <3>0 DEF Capability, Region
      <4> QED
        BY <1>2, <1>5, <3>2, <4>1
    <3>3. CASE g \in Handle \ {h, h2}
      BY <1>3, <3>3 DEF LibInv, MirrorsMonitor, Live
    <3> QED
      BY <3>1, <3>2, <3>3
  <2> QED
    BY <1>4, <2>1, <2>2 DEF MirrorsMonitor, Live
<1> QED
  BY <1>1, <1>6, <1>7, <1>8 DEF LibInv

\* A merge keeps the list and the monitor in step: the object that is freed is
\* the one that leaves the list and whose region disappears.
LEMMA MergeInv ==
  ASSUME LibInv, initialised = "ready", NEW h1 \in Handle, NEW h2 \in Handle,
         capa[h1] \in Capability, capa[h2] \in Capability, Merged(h1, h2)
  PROVE  LibInv'
<1>1. LibTypeOK'
  BY MergeType DEF LibInv
<1>2. /\ region[h1] \in Region /\ region[h2] \in Region /\ h1 # h2
      /\ Outstanding(h1) = {} /\ Outstanding(h2) = {}
  BY DEF LibInv, LibTypeOK, MonTypeOK, Merged, MonMerge
<1>3. /\ capa'[h1] = [capa[h1] EXCEPT !.end = capa[h2].end]
      /\ capa'[h2] = None
      /\ \A g \in Handle \ {h1, h2} : capa'[g] = capa[g]
      /\ region'[h1] = [region[h1] EXCEPT !.end = region[h2].end]
      /\ region'[h2] = None
      /\ \A g \in Handle \ {h1, h2} : region'[g] = region[g]
  BY <1>2 DEF LibInv, LibTypeOK, MonTypeOK, Merged, MonMerge
<1>4. rev' = rev /\ initialised' = initialised
  BY DEF Merged, MonMerge
<1>5. capa'[h1] # None /\ region'[h1] # None
  <2>1. capa'[h1] \in Capability /\ region'[h1] \in Region
    BY <1>2, <1>3 DEF Capability, Region
  <2> QED
    BY <2>1, NoneAssumption, NoneCapaAssumption
<1>6. ListIsLive'
  <2>1. PICK i \in DOMAIN list : list[i] = h2 /\ list' = dll_remove(list, i)
    BY DEF Merged
  <2>2. /\ \A g \in Handle : (\E j \in DOMAIN list' : list'[j] = g)
                    <=> g # h2 /\ \E j \in DOMAIN list : list[j] = g
        /\ \A j, k \in DOMAIN list' : list'[j] = list'[k] => j = k
    <3>1. list \in Seq(Handle) /\ \A j, k \in DOMAIN list : list[j] = list[k] => j = k
      BY DEF LibInv, LibTypeOK, ListIsLive
    <3> DEFINE m == dll_remove(list, i)
    <3>2. /\ \A g \in Handle : (\E j \in DOMAIN m : m[j] = g)
                      <=> g # list[i] /\ \E j \in DOMAIN list : list[j] = g
          /\ \A j, k \in DOMAIN m : m[j] = m[k] => j = k
      BY <3>1, RemoveLive
    <3> QED
      BY <2>1, <3>2
  <2>3. ASSUME NEW g \in Handle
        PROVE  capa'[g] # None <=> g # h2 /\ capa[g] # None
    BY <1>3, <1>5, NoneCapaAssumption
  <2>4. \A g \in Handle : capa[g] # None <=> \E i_1 \in DOMAIN list : list[i_1] = g
    BY DEF LibInv, ListIsLive, Live
  <2> QED
    BY <2>2, <2>3, <2>4 DEF ListIsLive, Live
<1>7. RevOK'
  <2>1. ASSUME NEW r \in RevHandle, rev[r] # None
        PROVE  region'[rev[r].region] # None
    <3>1. rev[r].region \in Handle \ {h1, h2} /\ region[rev[r].region] # None
      BY <1>2, <2>1 DEF LibInv, LibTypeOK, MonTypeOK, Rev, RevOK, Outstanding
    <3> QED
      BY <1>3, <3>1
  <2> QED
    BY <1>4, <2>1 DEF RevOK
<1>8. MirrorsMonitor'
  <2>1. \A g \in Handle : Outstanding(g)' = Outstanding(g)
    BY <1>4 DEF Outstanding
  <2>2. ASSUME NEW g \in Handle
        PROVE  /\ capa'[g] = None <=> region'[g] = None
               /\ capa'[g] # None =>
                    /\ capa'[g].start = region'[g].start /\ capa'[g].end = region'[g].end
                    /\ capa'[g].access = region'[g].access
                    /\ capa'[g].revoks =
                         {[domain |-> rev[r].domain, handle |-> r] : r \in Outstanding(g)}
    <3>1. CASE g = h1
      <4>1. /\ capa[h1].start = region[h1].start /\ capa[h2].end = region[h2].end
            /\ capa[h1].access = region[h1].access /\ capa[h1].revoks = {}
        BY <1>2, NoneCapaAssumption DEF LibInv, MirrorsMonitor, Live
      <4>2. /\ capa'[h1].start = region'[h1].start /\ capa'[h1].end = region'[h1].end
            /\ capa'[h1].access = region'[h1].access /\ capa'[h1].revoks = {}
        BY <1>2, <1>3, <4>1 DEF Capability, Region
      <4> QED
        BY <1>2, <1>5, <3>1, <4>2
    <3>2. CASE g = h2
      BY <1>3, <3>2
    <3>3. CASE g \in Handle \ {h1, h2}
      BY <1>3, <3>3 DEF LibInv, MirrorsMonitor, Live
    <3> QED
      BY <3>1, <3>2, <3>3
  <2> QED
    BY <1>4, <2>1, <2>2 DEF MirrorsMonitor, Live
<1> QED
  BY <1>1, <1>6, <1>7, <1>8 DEF LibInv

\* The object o with another status and other revocation handles.
WithRevoks(o, s, R) == [o EXCEPT !.status = s, !.revoks = R]

\* Rewriting status and revoks of an object, as a transfer and a revocation do,
\* leaves its other fields alone.
LEMMA ObjectFields ==
  ASSUME NEW o \in Capability, NEW s \in Status, NEW R \in SUBSET RevokHandle
  PROVE  LET n == WithRevoks(o, s, R)
         IN  /\ n \in Capability
             /\ n.start = o.start /\ n.end = o.end /\ n.access = o.access /\ n.owned = o.owned
             /\ n.status = s /\ n.revoks = R
  BY DEF Capability, WithRevoks

\* A step that rewrites status and revoks of one object, and leaves its region
\* and the list alone, keeps them in step if the revoks follow the monitor.
LEMMA ObjectInv ==
  ASSUME LibInv, initialised = "ready", LibTypeOK', NEW h \in Handle,
         capa[h] \in Capability,
         NEW s \in Status, NEW R \in SUBSET RevokHandle,
         capa' = [capa EXCEPT ![h].status = s, ![h].revoks = R],
         region' = region, initialised' = initialised, list' = list, RevOK',
         R = Revoks(h)', \A g \in Handle \ {h} : Revoks(g)' = Revoks(g)
  PROVE  LibInv'
<1>1. /\ capa'[h] = WithRevoks(capa[h], s, R)
      /\ \A g \in Handle \ {h} : capa'[g] = capa[g]
  BY DEF LibInv, LibTypeOK, WithRevoks
<1>2. capa[h] # None /\ capa'[h] # None
  <2>1. capa'[h] \in Capability
    BY <1>1, ObjectFields
  <2> QED
    BY <2>1, NoneCapaAssumption
<1>3. ListIsLive'
  BY <1>1, <1>2 DEF LibInv, ListIsLive, Live
<1>4. MirrorsMonitor'
  <2>1. ASSUME NEW g \in Handle
        PROVE  /\ capa'[g] = None <=> region'[g] = None
               /\ capa'[g] # None =>
                    /\ capa'[g].start = region'[g].start /\ capa'[g].end = region'[g].end
                    /\ capa'[g].access = region'[g].access
                    /\ capa'[g].revoks = Revoks(g)'
    <3>1. CASE g = h
      <4>1. /\ capa'[h].start = capa[h].start /\ capa'[h].end = capa[h].end
            /\ capa'[h].access = capa[h].access /\ capa'[h].revoks = R
        BY <1>1, ObjectFields
      <4>2. /\ region[h] # None
            /\ capa[h].start = region[h].start /\ capa[h].end = region[h].end
            /\ capa[h].access = region[h].access
        BY <1>2 DEF LibInv, MirrorsMonitor, Live
      <4> QED
        BY <1>2, <3>1, <4>1, <4>2
    <3>2. CASE g # h
      BY <1>1, <3>2 DEF LibInv, MirrorsMonitor, Live, Revoks
    <3> QED
      BY <3>1, <3>2
  <2> QED
    BY <2>1 DEF MirrorsMonitor, Live, Revoks
<1> QED
  BY <1>3, <1>4 DEF LibInv

\* A successful grant or share is recorded on the object it is of.
LEMMA TransferredInv ==
  ASSUME LibInv, initialised = "ready",
         NEW c \in Caller, NEW r \in RevHandle, NEW status \in Status,
         args[c] \in Args, curr[c] \in Handle, capa[curr[c]] \in Capability,
         Transferred(c, r, status)
  PROVE  LibInv'
<1>0. PICK h \in Handle : h = curr[c]
  OBVIOUS
<1>x. PICK x \in RevokHandle : x = [domain |-> args[c].dom, handle |-> r]
  BY DEF RevokHandle, Args
<1>1. LibTypeOK'
  BY TransferredType DEF LibInv
<1>2. region' = region /\ initialised' = initialised /\ list' = list
  BY DEF Transferred, MonTransfer
<1>3. /\ rev[r] = None /\ region[h] # None
      /\ rev'[r] \in Rev /\ rev'[r].region = h /\ rev'[r].domain = args[c].dom
      /\ \A q \in RevHandle \ {r} : rev'[q] = rev[q]
  <2>1. [region |-> curr[c], domain |-> args[c].dom, conf |-> args[c].tpe \in Confidentials,
         access |-> translate_access(args[c].tpe)] \in Rev
    BY AccessType DEF Rev, Args
  <2> QED
    BY <1>0, <2>1 DEF LibInv, LibTypeOK, MonTypeOK, Transferred, MonTransfer
<1>4. rev'[r] # None
  BY <1>3, NoneAssumption
<1>5. RevOK'
  BY <1>2, <1>3 DEF LibInv, RevOK
<1>6. /\ Outstanding(h)' = Outstanding(h) \cup {r} /\ r \notin Outstanding(h)
      /\ \A g \in Handle \ {h} : Outstanding(g)' = Outstanding(g) /\ r \notin Outstanding(g)
  BY <1>3, <1>4 DEF Outstanding
<1>7. Revoks(h)' = Revoks(h) \cup {x}
  BY <1>3, <1>6, <1>x DEF Revoks, Outstanding
<1>8. \A g \in Handle \ {h} : Revoks(g)' = Revoks(g)
  BY <1>3, <1>6 DEF Revoks, Outstanding
<1>9. Revoks(h) = capa[h].revoks
  BY <1>0, NoneCapaAssumption DEF LibInv, MirrorsMonitor, Live, Revoks
<1>10. capa[h].revoks \cup {x} \in SUBSET RevokHandle
  BY <1>0 DEF Capability
<1>11. capa' = [capa EXCEPT ![h].status = status, ![h].revoks = capa[h].revoks \cup {x}]
  BY <1>0, <1>x DEF Transferred
<1> QED
  BY <1>0, <1>1, <1>2, <1>5, <1>7, <1>8, <1>9, <1>10, <1>11, ObjectInv

\* A successful revocation is recorded on the object it was a transfer of.
LEMMA RevokedInv ==
  ASSUME LibInv, initialised = "ready", NEW h \in Handle, capa[h] \in Capability,
         NEW x \in capa[h].revoks, NEW status \in Status, Revoked(h, x, status)
  PROVE  LibInv'
<1>1. x \in RevokHandle /\ capa[h].revoks \in SUBSET RevokHandle
  BY DEF Capability
<1>2. LibTypeOK'
  BY <1>1, RevokedType DEF LibInv
<1>3. region' = region /\ initialised' = initialised /\ list' = list
  BY DEF Revoked, MonRevoke
<1>4. x.handle \in RevHandle
  BY <1>1 DEF RevokHandle
<1>5. /\ rev'[x.handle] = None
      /\ \A q \in RevHandle \ {x.handle} : rev'[q] = rev[q]
  BY <1>4 DEF LibInv, LibTypeOK, MonTypeOK, Revoked, MonRevoke
<1>6. Revoks(h) = capa[h].revoks
  BY NoneCapaAssumption DEF LibInv, MirrorsMonitor, Live, Revoks
<1>7. x.handle \in Outstanding(h)
  BY <1>6 DEF Revoks
<1>8. RevOK'
  BY <1>3, <1>5 DEF LibInv, RevOK
<1>9. /\ Outstanding(h)' = Outstanding(h) \ {x.handle}
      /\ \A g \in Handle \ {h} : Outstanding(g)' = Outstanding(g) /\ x.handle \notin Outstanding(g)
  BY <1>4, <1>5, <1>7 DEF Outstanding
<1>10. \A g \in Handle \ {h} : Revoks(g)' = Revoks(g)
  BY <1>5, <1>9 DEF Revoks, Outstanding
<1>11. Revoks(h)' = Revoks(h) \ {x}
  <2>1. x = [domain |-> rev[x.handle].domain, handle |-> x.handle]
    BY <1>6 DEF Revoks
  <2>2. Revoks(h)' = {[domain |-> rev[q].domain, handle |-> q] :
                        q \in Outstanding(h) \ {x.handle}}
    BY <1>5, <1>9 DEF Revoks, Outstanding
  <2> QED
    BY <2>1, <2>2 DEF Revoks
<1>12. capa' = [capa EXCEPT ![h].status = status, ![h].revoks = capa[h].revoks \ {x}]
  BY DEF Revoked
<1>13. capa[h].revoks \ {x} \in SUBSET RevokHandle
  BY <1>1
<1> QED
  BY <1>2, <1>3, <1>6, <1>8, <1>10, <1>11, <1>12, <1>13, ObjectInv

\* A refused grant only makes the object Active again.
LEMMA RefusedInv ==
  ASSUME LibInv, initialised = "ready", NEW h \in Handle, capa[h] \in Capability,
         capa' = [capa EXCEPT ![h].status = "Active"],
         UNCHANGED <<monVars, initialised, list>>
  PROVE  LibInv'
<1>1. [capa[h] EXCEPT !.status = "Active"] \in Capability
  BY DEF Capability, Status
<1>2. LibTypeOK'
  BY <1>1 DEF LibInv, LibTypeOK, MonTypeOK, monVars
<1>3. /\ capa'[h].start = capa[h].start /\ capa'[h].end = capa[h].end
      /\ capa'[h].access = capa[h].access /\ capa'[h].revoks = capa[h].revoks
      /\ capa'[h] # None /\ capa[h] # None
  BY <1>1, NoneCapaAssumption DEF LibInv, LibTypeOK, Capability
<1>4. \A g \in Handle \ {h} : capa'[g] = capa[g]
  BY DEF LibInv, LibTypeOK
<1>5. ListIsLive'
  BY <1>3, <1>4 DEF LibInv, ListIsLive, Live
<1>6. \A g \in Handle : Revoks(g)' = Revoks(g)
  BY DEF Revoks, Outstanding, monVars
<1>7. MirrorsMonitor'
  BY <1>3, <1>4, <1>6 DEF LibInv, MirrorsMonitor, Live, Revoks, monVars
<1>8. RevOK'
  BY DEF LibInv, RevOK, monVars
<1> QED
  BY <1>2, <1>5, <1>7, <1>8 DEF LibInv

-----------------------------------------------------------------------------
\* A call in flight is one of an initialised library.
LEMMA FlightReady ==
  ASSUME IInv, NEW c \in Caller, pc[c] \in InFlight
  PROVE  initialised = "ready"
  BY DEF IInv, BootOK, InFlight, Returned, TransferPcs, RevokePcs

\* The invariant of the library depends only on its state and the monitor's.
LEMMA LibStutter ==
  ASSUME LibInv, UNCHANGED <<monVars, libVars>>
  PROVE  LibInv'
<1>1. LibTypeOK'
  BY DEF LibInv, LibTypeOK, MonTypeOK, monVars, libVars
<1>2. ListIsLive'
  BY DEF LibInv, ListIsLive, Live, libVars
<1>3. MirrorsMonitor'
  BY DEF LibInv, MirrorsMonitor, Live, Outstanding, monVars, libVars
<1>4. RevOK'
  BY DEF LibInv, RevOK, monVars
<1> QED
  BY <1>1, <1>2, <1>3, <1>4 DEF LibInv

\* BootOK says nothing of an initialised library.
LEMMA ReadyBoot ==
  ASSUME initialised' = "ready"
  PROVE  BootOK'
  BY DEF BootOK

\* A call that returns without touching the library keeps the invariant.
LEMMA ReturnStep ==
  ASSUME IInv, NEW c \in Caller, pc[c] \in InFlight, NEW res \in Returned \cup Dead,
         Return(c, res), UNCHANGED <<monVars, libVars>>
  PROVE  IInv'
<1>1. CallTypeOK'
  BY ReturnType DEF IInv
<1>2. LibInv'
  BY LibStutter DEF IInv
<1>3. BootOK'
  BY FlightReady, ReadyBoot DEF libVars
<1> QED
  BY <1>1, <1>2, <1>3 DEF IInv

\* A call that fails without touching the library keeps the invariant.
LEMMA FailStep ==
  ASSUME IInv, NEW c \in Caller, pc[c] \in InFlight, Fail(c)
  PROVE  IInv'
  BY ReturnStep DEF Fail, Returned

\* init_domain builds one object per boot region, and no other.
LEMMA InitDomainStep ==
  ASSUME IInv, InitDomain
  PROVE  IInv'
<1>1. PICK l \in [DOMAIN Boot -> Handle] :
        (\A i \in DOMAIN Boot : region[l[i]] = Boot[i]) /\ list' = l
  BY DEF InitDomain
<1>2. /\ initialised = "no" /\ initialised' = "ready"
      /\ region' = region /\ rev' = rev /\ domain' = domain
  BY DEF InitDomain, monVars
<1>3. Boot \in Seq(Region) /\ DOMAIN Boot = 1 .. Len(Boot) /\ Len(Boot) \in Nat
  BY BootAssumption
<1>4. list' \in Seq(Handle) /\ DOMAIN list' = DOMAIN Boot
  BY <1>1, <1>3
<1>5. \A h \in Handle : region[h] # None => region[h] \in Region /\ ReadCapa(region[h]) \in Capability
  BY DEF IInv, LibInv, LibTypeOK, MonTypeOK, Region, Capability, ReadCapa, Status
<1>6. \A h \in Handle :
        /\ region[h] = None => capa'[h] = None
        /\ region[h] # None => capa'[h] = ReadCapa(region[h]) /\ capa'[h] # None
  BY <1>5, NoneCapaAssumption DEF InitDomain
<1>7. LibTypeOK'
  BY <1>2, <1>4, <1>5 DEF InitDomain, IInv, LibInv, LibTypeOK, MonTypeOK
<1>8. ListIsLive'
  <2>1. ASSUME NEW i \in DOMAIN Boot, NEW j \in DOMAIN Boot, l[i] = l[j]
        PROVE  i = j
    <3>1. Boot[i] = Boot[j] /\ Boot[i] \in Region
      BY <1>1, <1>3, <2>1
    <3>2. ~Disjoint(Boot[i], Boot[i])
      BY <3>1, BootAssumption, AddrAssumption DEF Disjoint, Region, Addr
    <3> QED
      BY <3>1, <3>2, BootAssumption
  <2>2. ASSUME NEW h \in Handle
        PROVE  region[h] # None <=> \E i \in DOMAIN Boot : l[i] = h
    <3>1. ASSUME NEW i \in DOMAIN Boot, l[i] = h
          PROVE  region[h] # None
      BY <1>1, <1>3, <3>1, NoneAssumption
    <3>2. ASSUME region[h] # None
          PROVE  \E i \in DOMAIN Boot : l[i] = h
      <4>1. PICK i \in DOMAIN Boot : region[h] = Boot[i]
        BY <1>2, <3>2 DEF IInv, BootOK
      <4>2. region[l[i]] = region[h] /\ l[i] \in Handle
        BY <1>1, <4>1
      <4> QED
        BY <1>2, <3>2, <4>2 DEF IInv, BootOK
    <3> QED
      BY <3>1, <3>2
  <2> QED
    BY <1>1, <1>4, <1>6, <2>1, <2>2 DEF ListIsLive, Live
<1>9. RevOK'
  BY <1>2 DEF IInv, BootOK, RevOK
<1>10. MirrorsMonitor'
  <2>1. \A h \in Handle : Outstanding(h)' = {}
    BY <1>2 DEF IInv, BootOK, Outstanding
  <2>2. ASSUME NEW h \in Handle, region[h] # None
        PROVE  /\ capa'[h].start = region[h].start /\ capa'[h].end = region[h].end
               /\ capa'[h].access = region[h].access /\ capa'[h].revoks = {}
    <3>1. capa'[h] = ReadCapa(region[h])
      BY <1>6, <2>2
    <3>2. \A x : /\ ReadCapa(x).start = x.start /\ ReadCapa(x).end = x.end
                 /\ ReadCapa(x).access = x.access /\ ReadCapa(x).revoks = {}
      BY DEF ReadCapa
    <3> QED
      BY <3>1, <3>2
  <2> QED
    BY <1>2, <1>6, <2>1, <2>2 DEF MirrorsMonitor, Live
<1>11. CallTypeOK'
  BY DEF IInv, CallTypeOK, CallOK, InitDomain, callVars
<1>12. BootOK'
  BY <1>2, ReadyBoot
<1> QED
  BY <1>7, <1>8, <1>9, <1>10, <1>11, <1>12 DEF IInv, LibInv

\* A failed init_domain leaves no objects.
LEMMA InitDomainFailsStep ==
  ASSUME IInv, InitDomainFails
  PROVE  IInv'
<1>1. LibTypeOK' /\ CallTypeOK'
  BY DEF IInv, LibInv, LibTypeOK, MonTypeOK, CallTypeOK, CallOK, InitDomainFails,
         monVars, callVars
<1>2. ListIsLive' /\ RevOK'
  BY DEF IInv, LibInv, ListIsLive, Live, RevOK, InitDomainFails, monVars
<1>3. MirrorsMonitor'
  BY DEF MirrorsMonitor, InitDomainFails
<1>4. BootOK'
  BY DEF IInv, BootOK, InitDomainFails, monVars, callVars
<1> QED
  BY <1>1, <1>2, <1>3, <1>4 DEF IInv, LibInv

\* create_domain and seal_domain change no region and no transfer.
LEMMA DomainStep ==
  ASSUME IInv, NEW c \in Caller, NEW d \in Domain,
         create_domain(c, d) \/ seal_domain(c, d)
  PROVE  IInv'
<1>1. /\ UNCHANGED <<region, rev, libVars, callVars>>
      /\ domain' \in [Domain -> {"none", "open", "sealed"}]
      /\ initialised = "ready"
  BY DEF create_domain, seal_domain, MonCreate, MonSeal, MayCall, IInv, LibInv,
         LibTypeOK, MonTypeOK
<1>2. LibTypeOK' /\ CallTypeOK'
  BY <1>1 DEF IInv, LibInv, LibTypeOK, MonTypeOK, CallTypeOK, CallOK, libVars, callVars
<1>3. ListIsLive' /\ RevOK'
  BY <1>1 DEF IInv, LibInv, ListIsLive, Live, RevOK, libVars
<1>4. MirrorsMonitor'
  BY <1>1 DEF IInv, LibInv, MirrorsMonitor, Live, Outstanding, libVars
<1>5. BootOK'
  BY <1>1, ReadyBoot DEF libVars
<1> QED
  BY <1>2, <1>3, <1>4, <1>5 DEF IInv, LibInv

\* A call begins: transfer_capa and revoke_capa have touched nothing yet.
LEMMA CallStep ==
  ASSUME IInv, NEW c \in Caller, NEW d \in Domain, NEW q \in Ranges,
         \/ \E t \in Tpe : CallTransfer(c, d, q[1], q[2], t)
         \/ CallRevoke(c, d, q[1], q[2])
  PROVE  IInv'
<1>1. PICK t \in Tpe \cup {None}, k \in {"transfer", "revoke"} :
        /\ pc' = [pc EXCEPT ![c] = k]
        /\ args' = [args EXCEPT ![c] = [dom |-> d, start |-> q[1], end |-> q[2], tpe |-> t]]
        /\ UNCHANGED <<monVars, libVars, curr, prev, next>>
        /\ initialised = "ready"
  BY DEF CallTransfer, CallRevoke, MayCall
<1>2. [dom |-> d, start |-> q[1], end |-> q[2], tpe |-> t] \in Args
  BY RangesAssumption DEF Args
<1>3. CallTypeOK'
  BY <1>1, <1>2, NoneCapaAssumption DEF IInv, CallTypeOK, CallOK, InFlight, Holding,
     TransferPcs, RevokePcs
<1>4. LibInv' /\ BootOK'
  BY <1>1, LibStutter, ReadyBoot DEF IInv, libVars
<1> QED
  BY <1>3, <1>4 DEF IInv

\* The search of transfer_capa only sets the caller's locals.
LEMMA TransferFindStep ==
  ASSUME IInv, NEW c \in Caller, TransferFind(c)
  PROVE  IInv'
<1>1. pc[c] \in InFlight
  BY DEF TransferFind, InFlight, TransferPcs
<1>2. CASE Fail(c)
  BY <1>1, <1>2, FailStep
<1>3. ASSUME NEW i \in DOMAIN list, NEW k \in {"give", "split"},
             curr' = [curr EXCEPT ![c] = list[i]], pc' = [pc EXCEPT ![c] = k],
             UNCHANGED <<monVars, libVars, args, prev, next>>
      PROVE  IInv'
  <2>1. list[i] \in Handle /\ list[i] # None
    BY NoneAssumption DEF IInv, LibInv, LibTypeOK
  <2>2. CallTypeOK'
    BY <1>1, <1>3, <2>1 DEF IInv, CallTypeOK, CallOK, InFlight, Holding, TransferPcs, RevokePcs
  <2>3. LibInv' /\ BootOK'
    BY <1>1, <1>3, LibStutter, FlightReady, ReadyBoot DEF IInv, libVars
  <2> QED
    BY <2>2, <2>3 DEF IInv
<1> QED
  BY <1>2, <1>3 DEF TransferFind

\* The two splits of transfer_capa.
LEMMA TransferSplitStep ==
  ASSUME IInv, NEW c \in Caller, TransferSplit(c) \/ TransferSplit2(c)
  PROVE  IInv'
<1>1. /\ pc[c] \in InFlight /\ pc[c] \in Holding /\ ~Dangling(c)
  BY DEF TransferSplit, TransferSplit2, InFlight, Holding, TransferPcs
<1>2. CASE Fail(c)
  BY <1>1, <1>2, FailStep
<1>3. /\ initialised = "ready" /\ args[c].start \in Addr /\ args[c].end \in Addr
      /\ curr[c] \in Handle /\ capa[curr[c]] \in Capability
  BY <1>1, FlightReady, ArgsType, CurrType DEF IInv, LibInv, Args
<1>4. ASSUME NEW h \in Handle, h = curr[c], NEW addr \in Addr, NEW h2 \in Handle,
             split_capa(h, addr, h2), NEW g \in Handle, curr' = [curr EXCEPT ![c] = g],
             NEW k \in {"split2", "give"}, pc' = [pc EXCEPT ![c] = k],
             UNCHANGED <<args, prev, next>>
      PROVE  IInv'
  <2>1. LibInv'
    BY <1>3, <1>4, SplitInv DEF IInv
  <2>2. initialised' = "ready"
    BY <1>3, <1>4 DEF split_capa
  <2>3. CallTypeOK'
    BY <1>1, <1>4, NoneAssumption DEF IInv, CallTypeOK, CallOK, InFlight, Holding,
       TransferPcs, RevokePcs
  <2> QED
    BY <2>1, <2>2, <2>3, ReadyBoot DEF IInv
<1>5. CASE TransferSplit(c)
  BY <1>2, <1>3, <1>4, <1>5 DEF TransferSplit
<1>6. CASE TransferSplit2(c)
  <2>1. curr = [curr EXCEPT ![c] = curr[c]]
    BY DEF IInv, CallTypeOK
  <2> QED
    BY <1>2, <1>3, <1>4, <1>6, <2>1 DEF TransferSplit2
<1> QED
  BY <1>5, <1>6

\* tyche_grant_capa and tyche_share_capa, successful or refused.
LEMMA TransferGiveStep ==
  ASSUME IInv, NEW c \in Caller, TransferGrant(c) \/ TransferShare(c)
  PROVE  IInv'
<1>1. pc[c] \in InFlight /\ pc[c] \in Holding /\ ~Dangling(c)
  BY DEF TransferGrant, TransferShare, InFlight, Holding, TransferPcs
<1>2. CASE Fail(c)
  BY <1>1, <1>2, FailStep
<1>3. /\ initialised = "ready" /\ args[c] \in Args
      /\ curr[c] \in Handle /\ capa[curr[c]] \in Capability
  BY <1>1, FlightReady, ArgsType, CurrType DEF IInv, LibInv
<1>4. ASSUME NEW r \in RevHandle, NEW s \in Status, Transferred(c, r, s)
      PROVE  IInv'
  <2>1. LibInv'
    BY <1>3, <1>4, TransferredInv DEF IInv
  <2>2. CallTypeOK'
    BY <1>4, ReturnType DEF IInv, Transferred, Returned
  <2>3. BootOK'
    BY <1>3, <1>4, ReadyBoot DEF Transferred
  <2> QED
    BY <2>1, <2>2, <2>3 DEF IInv
<1>5. ASSUME capa' = [capa EXCEPT ![curr[c]].status = "Active"], Return(c, "fail"),
             UNCHANGED <<monVars, initialised, list>>
      PROVE  IInv'
  <2>1. PICK h \in Handle : h = curr[c]
    BY <1>3
  <2>2. LibInv'
    BY <1>3, <1>5, <2>1, RefusedInv DEF IInv
  <2>3. CallTypeOK'
    BY <1>5, ReturnType DEF IInv, Returned
  <2>4. BootOK'
    BY <1>3, <1>5, ReadyBoot
  <2> QED
    BY <2>2, <2>3, <2>4 DEF IInv
<1> QED
  BY <1>2, <1>4, <1>5 DEF TransferGrant, TransferShare, Status

\* A step that leaves the library initialised, keeps its invariant and the types
\* of the locals, keeps the invariant.
LEMMA ReadyStep ==
  ASSUME IInv, LibInv', CallTypeOK', initialised' = "ready"
  PROVE  IInv'
  BY ReadyBoot DEF IInv

\* The locals at attempt_merge.
LEMMA AttemptMergeType ==
  ASSUME IInv, NEW c \in Caller, pc[c] \in InFlight, NEW i \in DOMAIN list,
         AttemptMerge(c, i)
  PROVE  CallTypeOK'
<1>1. /\ list \in Seq(Handle) /\ list[i] \in Handle /\ list[i] # None
      /\ dll_prev(list, i) \in Handle \cup {None}
      /\ dll_next(list, i) \in Handle \cup {None}
  BY NeighbourType, NoneAssumption DEF IInv, LibInv, LibTypeOK
<1> QED
  BY <1>1 DEF AttemptMerge, IInv, CallTypeOK, CallOK, InFlight, Holding,
     TransferPcs, RevokePcs

\* revoke_capa up to attempt_merge.
LEMMA RevokeFindStep ==
  ASSUME IInv, NEW c \in Caller, RevokeFind(c)
  PROVE  IInv'
<1>1. pc[c] \in InFlight
  BY DEF RevokeFind, InFlight, RevokePcs
<1>2. CASE Fail(c)
  BY <1>1, <1>2, FailStep
<1>3. initialised = "ready"
  BY <1>1, FlightReady
<1>4. ASSUME NEW i \in DOMAIN list
      PROVE  list[i] \in Handle /\ capa[list[i]] \in Capability
  BY DEF IInv, LibInv, LibTypeOK, ListIsLive, Live
<1>5. ASSUME NEW i \in DOMAIN list, NEW h \in Handle, h = list[i],
             NEW x \in capa[h].revoks, NEW s \in Status, Revoked(h, x, s),
             AttemptMerge(c, i) \/ Return(c, "ok")
      PROVE  IInv'
  <2>1. LibInv'
    BY <1>3, <1>4, <1>5, RevokedInv DEF IInv
  <2>2. CallTypeOK'
    BY <1>1, <1>5, AttemptMergeType, ReturnType DEF IInv, Returned
  <2>3. initialised' = "ready"
    BY <1>3, <1>5 DEF Revoked
  <2> QED
    BY <2>1, <2>2, <2>3, ReadyStep
<1>6. ASSUME NEW i \in DOMAIN list, AttemptMerge(c, i), UNCHANGED <<monVars, libVars>>
      PROVE  IInv'
  BY <1>1, <1>3, <1>6, AttemptMergeType, LibStutter, ReadyStep DEF IInv, libVars
<1>7. "Active" \in Status /\ "Shared" \in Status
  BY DEF Status
<1> QED
  BY <1>2, <1>4, <1>5, <1>6, <1>7 DEF RevokeFind

\* The merge on the left.
LEMMA MergeLeftStep ==
  ASSUME IInv, NEW c \in Caller, MergeLeft(c)
  PROVE  IInv'
<1>1. pc[c] \in InFlight /\ pc[c] \in Holding /\ ~Dangling(c)
  BY DEF MergeLeft, InFlight, Holding, RevokePcs
<1>2. /\ initialised = "ready" /\ curr[c] \in Handle /\ capa[curr[c]] \in Capability
  BY <1>1, FlightReady, CurrType DEF IInv, LibInv
<1>3. CASE Fail(c)
  BY <1>1, <1>3, FailStep
<1>4. CASE Return(c, "ok") /\ UNCHANGED <<monVars, libVars>>
  BY <1>1, <1>4, ReturnStep DEF Returned
<1>5. CASE pc' = [pc EXCEPT ![c] = "merge_right"]
           /\ UNCHANGED <<monVars, libVars, args, curr, prev, next>>
  <2>1. CallTypeOK'
    BY <1>1, <1>5 DEF IInv, CallTypeOK, CallOK, InFlight, Holding, TransferPcs, RevokePcs
  <2> QED
    BY <1>2, <1>5, <2>1, LibStutter, ReadyStep DEF IInv, libVars
<1>6. CASE prev[c] # None /\ Merged(prev[c], curr[c]) /\ GoRight(c)
  <2>1. prev[c] \in Handle /\ capa[prev[c]] \in Capability
    BY <1>1, <1>6 DEF Dangling, IInv, LibInv, LibTypeOK, CallTypeOK
  <2>2. PICK p \in Handle, h \in Handle : p = prev[c] /\ h = curr[c]
    BY <1>2, <2>1
  <2>3. LibInv'
    BY <1>2, <1>6, <2>1, <2>2, MergeInv DEF IInv
  <2>4. CallTypeOK'
    BY <1>1, <1>6, <2>1 DEF GoRight, IInv, CallTypeOK, CallOK, InFlight, Holding,
       TransferPcs, RevokePcs
  <2>5. initialised' = "ready"
    BY <1>2, <1>6 DEF Merged
  <2> QED
    BY <2>3, <2>4, <2>5, ReadyStep
<1> QED
  BY <1>3, <1>4, <1>5, <1>6 DEF MergeLeft

\* The merge on the right.
LEMMA MergeRightStep ==
  ASSUME IInv, NEW c \in Caller, MergeRight(c)
  PROVE  IInv'
<1>1. pc[c] \in InFlight /\ pc[c] \in Holding /\ ~Dangling(c) /\ pc[c] = "merge_right"
  BY DEF MergeRight, InFlight, Holding, RevokePcs
<1>2. /\ initialised = "ready" /\ curr[c] \in Handle /\ capa[curr[c]] \in Capability
  BY <1>1, FlightReady, CurrType DEF IInv, LibInv
<1>3. ASSUME NEW res \in {"ok", "oops"}, Return(c, res), UNCHANGED <<monVars, libVars>>
      PROVE  IInv'
  BY <1>1, <1>3, ReturnStep DEF Returned, Dead
<1>4. CASE next[c] # None /\ Merged(curr[c], next[c]) /\ Return(c, "ok")
  <2>1. next[c] \in Handle /\ capa[next[c]] \in Capability
    BY <1>1, <1>4 DEF Dangling, IInv, LibInv, LibTypeOK, CallTypeOK
  <2>2. PICK n \in Handle, h \in Handle : n = next[c] /\ h = curr[c]
    BY <1>2, <2>1
  <2>3. LibInv'
    BY <1>2, <1>4, <2>1, <2>2, MergeInv DEF IInv
  <2>4. CallTypeOK'
    BY <1>4, ReturnType DEF IInv, Returned
  <2>5. initialised' = "ready"
    BY <1>2, <1>4 DEF Merged
  <2> QED
    BY <2>3, <2>4, <2>5, ReadyStep
<1> QED
  BY <1>3, <1>4 DEF MergeRight

\* A thread that follows a stale pointer takes no step in the library.
LEMMA UseAfterFreeStep ==
  ASSUME IInv, NEW c \in Caller, UseAfterFree(c)
  PROVE  IInv'
  BY ReturnStep DEF UseAfterFree, InFlight, TransferPcs, RevokePcs, Dead

-----------------------------------------------------------------------------
\* The library starts without objects, and the monitor with the boot regions.
LEMMA InitInv == Init => IInv
<1> SUFFICES ASSUME Init PROVE IInv
  OBVIOUS
<1>1. \A i \in DOMAIN Boot : Boot[i] \in Region
  BY BootAssumption
<1>2. LibTypeOK
  BY <1>1 DEF Init, MonInit, LibTypeOK, MonTypeOK
<1>3. ListIsLive /\ RevOK
  BY DEF Init, MonInit, ListIsLive, Live, RevOK
<1>4. MirrorsMonitor
  BY DEF Init, MirrorsMonitor
<1>5. CallTypeOK
  BY DEF Init, CallTypeOK, CallOK, Returned, InFlight, Holding, TransferPcs, RevokePcs
<1>6. BootOK
  BY <1>1, NoneAssumption DEF Init, MonInit, BootOK, Returned
<1> QED
  BY <1>2, <1>3, <1>4, <1>5, <1>6 DEF IInv, LibInv

\* Every step of every caller, and every stutter, keeps the invariant.
LEMMA StepInv == IInv /\ [Next]_vars => IInv'
<1> SUFFICES ASSUME IInv, [Next]_vars PROVE IInv'
  OBVIOUS
<1>1. CASE InitDomain
  BY <1>1, InitDomainStep
<1>2. CASE InitDomainFails
  BY <1>2, InitDomainFailsStep
<1>3. ASSUME NEW c \in Caller, NEW d \in Domain, create_domain(c, d) \/ seal_domain(c, d)
      PROVE  IInv'
  BY <1>3, DomainStep
<1>4. ASSUME NEW c \in Caller, NEW d \in Domain, NEW q \in Ranges,
             \/ \E t \in Tpe : CallTransfer(c, d, q[1], q[2], t)
             \/ CallRevoke(c, d, q[1], q[2])
      PROVE  IInv'
  BY <1>4, CallStep
<1>5. ASSUME NEW c \in Caller, TransferFind(c)
      PROVE  IInv'
  BY <1>5, TransferFindStep
<1>6. ASSUME NEW c \in Caller, TransferSplit(c) \/ TransferSplit2(c)
      PROVE  IInv'
  BY <1>6, TransferSplitStep
<1>7. ASSUME NEW c \in Caller, TransferGrant(c) \/ TransferShare(c)
      PROVE  IInv'
  BY <1>7, TransferGiveStep
<1>8. ASSUME NEW c \in Caller, RevokeFind(c)
      PROVE  IInv'
  BY <1>8, RevokeFindStep
<1>9. ASSUME NEW c \in Caller, MergeLeft(c)
      PROVE  IInv'
  BY <1>9, MergeLeftStep
<1>10. ASSUME NEW c \in Caller, MergeRight(c)
       PROVE  IInv'
  BY <1>10, MergeRightStep
<1>11. ASSUME NEW c \in Caller, UseAfterFree(c)
       PROVE  IInv'
  BY <1>11, UseAfterFreeStep
<1>12. CASE UNCHANGED vars
  <2>1. UNCHANGED <<monVars, libVars, callVars>>
    BY <1>12 DEF vars
  <2>2. LibInv'
    BY <2>1, LibStutter DEF IInv
  <2>3. CallTypeOK' /\ BootOK'
    BY <2>1 DEF IInv, CallTypeOK, CallOK, BootOK, monVars, libVars, callVars
  <2> QED
    BY <2>2, <2>3 DEF IInv
<1> QED
  BY <1>1, <1>2, <1>3, <1>4, <1>5, <1>6, <1>7, <1>8, <1>9, <1>10, <1>11, <1>12 DEF Next

\* The inductive invariant holds in every reachable state, however the calls
\* of the library interleave.
LEMMA Invariance == Spec => []IInv
  BY InitInv, StepInv, PTL DEF Spec

\* The state of the library, of the monitor and of the callers is well typed:
\* whatever transfer_capa and revoke_capa do between two vmcalls, the other
\* callers find the list, the objects and their own locals in a form they can
\* work on.
THEOREM TypeCorrect == Spec => []TypeOK
<1>1. IInv => TypeOK
  BY DEF IInv, LibInv, LibTypeOK, CallTypeOK, TypeOK
<1> QED
  BY <1>1, Invariance, PTL

\* The list links exactly the objects that are not freed, each of them once,
\* whatever transfer_capa and revoke_capa split and merge.
THEOREM ListStaysLive == Spec => []ListIsLive
<1>1. IInv => ListIsLive
  BY DEF IInv, LibInv
<1> QED
  BY <1>1, Invariance, PTL

\* The library agrees with the monitor on regions, bounds, rights and
\* outstanding transfers, whichever vmcalls are refused and allocations fail.
THEOREM LibraryMirrorsMonitor == Spec => []MirrorsMonitor
<1>1. IInv => MirrorsMonitor
  BY DEF IInv, LibInv
<1> QED
  BY <1>1, Invariance, PTL

-----------------------------------------------------------------------------
\* Page p belongs to the region that h names.
Has(h, p) == region[h] # None /\ region[h].start <= p /\ p < region[h].end

\* The regions of the monitor partition the memory of the boot regions; a region
\* may be empty.
MemOK ==
  /\ \A h \in Handle : region[h] # None => region[h].start <= region[h].end
  /\ \A h1, h2 \in Handle : \A p \in Int : Has(h1, p) /\ Has(h2, p) => h1 = h2
  /\ \A p \in Int : (\E h \in Handle : Has(h, p))
                <=> \E i \in DOMAIN Boot : Boot[i].start <= p /\ p < Boot[i].end

\* TYCHE_REGION_SPLIT moves pages between two regions.
LEMMA SplitMem ==
  ASSUME LibTypeOK, MemOK, NEW h \in Handle, NEW addr \in Addr, NEW h2 \in Handle,
         MonSplit(h, addr, h2)
  PROVE  MemOK'
<1>1. /\ region[h] \in Region /\ region[h] # None /\ region[h2] = None /\ h # h2
      /\ region[h].start <= addr /\ addr < region[h].end
  BY DEF LibTypeOK, MonTypeOK, MonSplit
<1>2. /\ region'[h] = [region[h] EXCEPT !.end = addr]
      /\ region'[h2] = [region[h] EXCEPT !.start = addr]
      /\ \A g \in Handle \ {h, h2} : region'[g] = region[g]
  BY <1>1 DEF LibTypeOK, MonTypeOK, MonSplit
<1>3. /\ region'[h] \in Region /\ region'[h].start = region[h].start /\ region'[h].end = addr
      /\ region'[h2] \in Region /\ region'[h2].start = addr /\ region'[h2].end = region[h].end
  BY <1>1, <1>2 DEF Region
<1>4. region'[h] # None /\ region'[h2] # None
  BY <1>3, NoneAssumption
<1>5. region[h].start \in Int /\ region[h].end \in Int /\ addr \in Int
  BY <1>1, AddrAssumption DEF Region, Addr
<1>6. \A p \in Int : /\ Has(h, p) <=> Has(h, p)' \/ Has(h2, p)'
                     /\ ~(Has(h, p)' /\ Has(h2, p)') /\ ~Has(h2, p)
  BY <1>1, <1>3, <1>4, <1>5 DEF Has
<1>7. \A p \in Int : \A g \in Handle \ {h, h2} : Has(g, p)' <=> Has(g, p)
  BY <1>2 DEF Has
<1>8. \A g \in Handle : region'[g] # None => region'[g].start <= region'[g].end
  <2>1. ASSUME NEW g \in Handle \ {h, h2}, region'[g] # None
        PROVE  region'[g].start <= region'[g].end
    BY <1>2, <2>1 DEF MemOK
  <2>2. region'[h].start <= region'[h].end /\ region'[h2].start <= region'[h2].end
    BY <1>1, <1>3, <1>5
  <2> QED
    BY <2>1, <2>2
<1>9. \A g1, g2 \in Handle : \A p \in Int : Has(g1, p)' /\ Has(g2, p)' => g1 = g2
  BY <1>6, <1>7 DEF MemOK
<1>10. \A p \in Int : (\E g \in Handle : Has(g, p)') <=> (\E g \in Handle : Has(g, p))
  BY <1>6, <1>7
<1> QED
  BY <1>8, <1>9, <1>10 DEF MemOK

\* TYCHE_REGION_MERGE joins the pages of two regions.
LEMMA MergeMem ==
  ASSUME LibTypeOK, MemOK, NEW h1 \in Handle, NEW h2 \in Handle, MonMerge(h1, h2)
  PROVE  MemOK'
<1>1. /\ region[h1] \in Region /\ region[h2] \in Region /\ h1 # h2
      /\ region[h1] # None /\ region[h2] # None /\ region[h1].end = region[h2].start
  BY DEF LibTypeOK, MonTypeOK, MonMerge
<1>2. /\ region'[h1] = [region[h1] EXCEPT !.end = region[h2].end]
      /\ region'[h2] = None
      /\ \A g \in Handle \ {h1, h2} : region'[g] = region[g]
  BY <1>1 DEF LibTypeOK, MonTypeOK, MonMerge
<1>3. /\ region'[h1] \in Region /\ region'[h1] # None
      /\ region'[h1].start = region[h1].start /\ region'[h1].end = region[h2].end
  BY <1>1, <1>2, NoneAssumption DEF Region
<1>4. /\ region[h1].start \in Int /\ region[h1].end \in Int /\ region[h2].end \in Int
      /\ region[h1].start <= region[h1].end /\ region[h1].end <= region[h2].end
  BY <1>1, AddrAssumption DEF Region, Addr, MemOK
<1>5. \A p \in Int : (Has(h1, p)' <=> Has(h1, p) \/ Has(h2, p)) /\ ~Has(h2, p)'
  BY <1>1, <1>2, <1>3, <1>4 DEF Has
<1>6. \A p \in Int : \A g \in Handle \ {h1, h2} : Has(g, p)' <=> Has(g, p)
  BY <1>2 DEF Has
<1>7. \A g \in Handle : region'[g] # None => region'[g].start <= region'[g].end
  <2>1. ASSUME NEW g \in Handle \ {h1, h2}, region'[g] # None
        PROVE  region'[g].start <= region'[g].end
    BY <1>2, <2>1 DEF MemOK
  <2>2. region'[h1].start <= region'[h1].end
    BY <1>3, <1>4
  <2> QED
    BY <1>2, <2>1, <2>2
<1>8. \A g1, g2 \in Handle : \A p \in Int : Has(g1, p)' /\ Has(g2, p)' => g1 = g2
  BY <1>5, <1>6 DEF MemOK
<1>9. \A p \in Int : (\E g \in Handle : Has(g, p)') <=> (\E g \in Handle : Has(g, p))
  BY <1>5, <1>6
<1> QED
  BY <1>7, <1>8, <1>9 DEF MemOK

\* Only the splits of transfer_capa and the merges of revoke_capa move pages.
LEMMA RegionMoves ==
  ASSUME IInv, [Next]_vars
  PROVE  \/ region' = region
         \/ \E h, h2 \in Handle, addr \in Addr : MonSplit(h, addr, h2)
         \/ \E h1, h2 \in Handle : MonMerge(h1, h2)
<1>1. CASE InitDomain \/ InitDomainFails \/ UNCHANGED vars
  BY <1>1 DEF InitDomain, InitDomainFails, vars, monVars
<1>2. ASSUME NEW c \in Caller, NEW d \in Domain, create_domain(c, d) \/ seal_domain(c, d)
      PROVE  region' = region
  BY <1>2 DEF create_domain, seal_domain, MonCreate, MonSeal
<1>3. ASSUME NEW c \in Caller, NEW d, NEW s, NEW e, NEW t,
             \/ CallTransfer(c, d, s, e, t) \/ CallRevoke(c, d, s, e) \/ TransferFind(c)
             \/ UseAfterFree(c)
      PROVE  region' = region
  BY <1>3 DEF CallTransfer, CallRevoke, TransferFind, UseAfterFree, Fail, monVars
<1>4. ASSUME NEW c \in Caller, TransferGrant(c) \/ TransferShare(c)
      PROVE  region' = region
  BY <1>4 DEF TransferGrant, TransferShare, Transferred, MonTransfer, Fail, monVars
<1>5. ASSUME NEW c \in Caller, RevokeFind(c)
      PROVE  region' = region
  BY <1>5 DEF RevokeFind, Revoked, MonRevoke, Fail, monVars
<1>6. ASSUME NEW c \in Caller, TransferSplit(c) \/ TransferSplit2(c)
      PROVE  region' = region \/ \E h, h2 \in Handle, addr \in Addr : MonSplit(h, addr, h2)
  <2>1. /\ curr[c] \in Handle /\ args[c].start \in Addr /\ args[c].end \in Addr
    BY <1>6, ArgsType, CurrType DEF IInv, LibInv, Args, TransferSplit, TransferSplit2,
       InFlight, Holding, TransferPcs
  <2> QED
    BY <1>6, <2>1 DEF TransferSplit, TransferSplit2, split_capa, Fail, monVars
<1>7. ASSUME NEW c \in Caller, MergeLeft(c) \/ MergeRight(c)
      PROVE  region' = region \/ \E h1, h2 \in Handle : MonMerge(h1, h2)
  <2>1. curr[c] \in Handle
    BY <1>7, CurrType DEF IInv, LibInv, MergeLeft, MergeRight, Holding
  <2>2. ASSUME NEW h1 \in Handle \cup {None}, NEW h2 \in Handle \cup {None}, h1 # None, h2 # None,
               Merged(h1, h2)
        PROVE  \E g1, g2 \in Handle : MonMerge(g1, g2)
    BY <2>2 DEF Merged
  <2>3. prev[c] \in Handle \cup {None} /\ next[c] \in Handle \cup {None} /\ curr[c] # None
    BY <2>1, NoneAssumption DEF IInv, CallTypeOK
  <2>4. CASE MergeLeft(c)
    <3>1. \/ UNCHANGED monVars
          \/ prev[c] # None /\ Merged(prev[c], curr[c])
      BY <2>4 DEF MergeLeft, Fail
    <3> QED
      BY <2>1, <2>2, <2>3, <3>1 DEF monVars
  <2>5. CASE MergeRight(c)
    <3>1. \/ UNCHANGED monVars
          \/ next[c] # None /\ Merged(curr[c], next[c])
      BY <2>5 DEF MergeRight
    <3> QED
      BY <2>1, <2>2, <2>3, <3>1 DEF monVars
  <2> QED
    BY <1>7, <2>4, <2>5
<1> QED
  BY <1>1, <1>2, <1>3, <1>4, <1>5, <1>6, <1>7 DEF Next

\* The bounds of the boot regions.
LEMMA BootBounds ==
  ASSUME NEW i \in DOMAIN Boot
  PROVE  /\ Boot[i] # None /\ Boot[i].start \in Int /\ Boot[i].end \in Int
         /\ Boot[i].start < Boot[i].end
<1>1. Boot[i] \in Region /\ Boot[i].start < Boot[i].end
  BY BootAssumption
<1>2. Boot[i].start \in Addr /\ Boot[i].end \in Addr
  BY <1>1 DEF Region
<1> QED
  BY <1>1, <1>2, NoneAssumption, AddrAssumption DEF Addr

\* The boot regions are disjoint, and each has one handle.
LEMMA MemInit == Init => MemOK
<1> SUFFICES ASSUME Init PROVE MemOK
  OBVIOUS
<1>1. \A i \in DOMAIN Boot :
        /\ Boot[i] # None /\ Boot[i].start \in Int /\ Boot[i].end \in Int
        /\ Boot[i].start < Boot[i].end
  BY BootBounds
<1>2. \A h \in Handle : region[h] # None => \E i \in DOMAIN Boot : region[h] = Boot[i]
  BY DEF Init, MonInit
<1>3. \A i \in DOMAIN Boot : \E h \in Handle : region[h] = Boot[i]
  BY DEF Init, MonInit
<1>4. \A h1, h2 \in Handle : h1 # h2 => region[h1] = None \/ region[h1] # region[h2]
  BY DEF Init, MonInit
<1>5. \A h \in Handle : region[h] # None => region[h].start <= region[h].end
  BY <1>1, <1>2
<1>6. ASSUME NEW h1 \in Handle, NEW h2 \in Handle, NEW p \in Int, Has(h1, p), Has(h2, p), h1 # h2
      PROVE  FALSE
  <2>1. PICK i \in DOMAIN Boot : region[h1] = Boot[i]
    BY <1>2, <1>6 DEF Has
  <2>2. PICK j \in DOMAIN Boot : region[h2] = Boot[j]
    BY <1>2, <1>6 DEF Has
  <2>3. i # j
    BY <1>4, <1>6, <2>1, <2>2 DEF Has
  <2>4. Disjoint(Boot[i], Boot[j])
    BY <2>3, BootAssumption
  <2> QED
    BY <1>1, <1>6, <2>1, <2>2, <2>4 DEF Has, Disjoint
<1>7. \A p \in Int : (\E h \in Handle : Has(h, p))
                <=> \E i \in DOMAIN Boot : Boot[i].start <= p /\ p < Boot[i].end
  BY <1>1, <1>2, <1>3 DEF Has
<1> QED
  BY <1>5, <1>6, <1>7 DEF MemOK

\* No step of any caller loses or duplicates a page.
LEMMA MemStep == IInv /\ MemOK /\ [Next]_vars => MemOK'
<1> SUFFICES ASSUME IInv, MemOK, [Next]_vars PROVE MemOK'
  OBVIOUS
<1>1. CASE region' = region
  BY <1>1 DEF MemOK, Has
<1>2. LibTypeOK
  BY DEF IInv, LibInv
<1> QED
  BY <1>1, <1>2, SplitMem, MergeMem, RegionMoves

\* The monitor's regions always partition the memory of the boot regions.
LEMMA MemInvariance == Spec => []MemOK
  BY MemInit, MemStep, Invariance, PTL DEF Spec

\* What the monitor's regions are, the objects of the library are too.
LEMMA ObjectPages ==
  ASSUME IInv, initialised = "ready", NEW h \in Handle
  PROVE  /\ h \in Live <=> region[h] # None
         /\ h \in Live => \A p : p \in Pages(capa[h]) <=> p \in Int /\ Has(h, p)
<1>1. capa[h] = None <=> region[h] = None
  BY DEF IInv, LibInv, MirrorsMonitor
<1>2. ASSUME capa[h] # None
      PROVE  \A p : p \in Pages(capa[h]) <=> p \in Int /\ Has(h, p)
  <2>1. capa[h].start = region[h].start /\ capa[h].end = region[h].end
    BY <1>2 DEF IInv, LibInv, MirrorsMonitor, Live
  <2>2. region[h] \in Region /\ region[h] # None
    BY <1>1, <1>2 DEF IInv, LibInv, LibTypeOK, MonTypeOK
  <2>3. region[h].start \in Int /\ region[h].end \in Int
    BY <2>2, AddrAssumption DEF Region, Addr
  <2> QED
    BY <2>1, <2>2, <2>3 DEF Pages, Has
<1> QED
  BY <1>1, <1>2 DEF Live

\* For any boot memory and any number of callers that interleave in any way, and
\* whichever vmcalls are refused, the objects of the library share no page and
\* cover what the domain booted with.
THEOREM MemoryStaysWhole == Spec => []MemoryConserved
<1>1. IInv /\ MemOK => MemoryConserved
  <2> SUFFICES ASSUME IInv, MemOK, initialised = "ready"
               PROVE  /\ \A h1, h2 \in Live : h1 # h2 => Pages(capa[h1]) \cap Pages(capa[h2]) = {}
                      /\ UNION {Pages(capa[h]) : h \in Live}
                           = UNION {Pages(Boot[i]) : i \in DOMAIN Boot}
    BY DEF MemoryConserved
  <2>1. \A h \in Live : h \in Handle
    BY DEF Live
  <2>2. ASSUME NEW h1 \in Live, NEW h2 \in Live, NEW p, p \in Pages(capa[h1]), p \in Pages(capa[h2])
        PROVE  h1 = h2
    BY <2>1, <2>2, ObjectPages DEF MemOK
  <2>3. \A i \in DOMAIN Boot : Boot[i].start \in Int /\ Boot[i].end \in Int
    BY BootBounds
  <2>4. \A p : (\E h \in Live : p \in Pages(capa[h]))
           <=> p \in Int /\ \E h \in Handle : Has(h, p)
    BY <2>1, ObjectPages DEF Has
  <2>5. \A p : (\E i \in DOMAIN Boot : p \in Pages(Boot[i]))
           <=> p \in Int /\ \E i \in DOMAIN Boot : Boot[i].start <= p /\ p < Boot[i].end
    BY <2>3 DEF Pages
  <2>6. \A p : (\E h \in Live : p \in Pages(capa[h])) <=> (\E i \in DOMAIN Boot : p \in Pages(Boot[i]))
    BY <2>4, <2>5 DEF MemOK
  <2>7. UNION {Pages(capa[h]) : h \in Live} = UNION {Pages(Boot[i]) : i \in DOMAIN Boot}
    BY <2>6
  <2> QED
    BY <2>2, <2>7
<1> QED
  BY <1>1, Invariance, MemInvariance, PTL

-----------------------------------------------------------------------------
\* At most one call is in flight.
OneInFlight == \A c, d \in Caller : pc[c] \in InFlight /\ pc[d] \in InFlight => c = d

\* What a domain holds is not empty.
HeldNotEmpty ==
  \A r \in RevHandle : rev[r] # None => region[rev[r].region].start < region[rev[r].region].end

\* The domain of the arguments holds nothing of their range.
Gone(a) ==
  \A r \in RevHandle :
    rev[r] # None /\ rev[r].domain = a.dom => Disjoint(region[rev[r].region], a)

\* What transfer_capa has found out about the object it points to.
TransferFacts(c) ==
  pc[c] \in {"split", "split2", "give"} =>
    /\ capa[curr[c]] # None
    /\ args[c].start < args[c].end
    /\ TransferAllowed(curr[c], args[c].tpe)
    /\ pc[c] = "split2" => capa[curr[c]].start = args[c].start /\ args[c].end < capa[curr[c]].end
    /\ pc[c] = "split" => args[c].end < capa[curr[c]].end
    /\ pc[c] = "give" => IsRange(curr[c], args[c].start, args[c].end)

\* What revoke_capa has reached at attempt_merge.
RevokeFacts(c) ==
  /\ pc[c] \notin {"merge_left", "merge_right"} => prev[c] = None
  /\ pc[c] \in {"merge_left", "merge_right"} =>
       /\ capa[curr[c]] # None
       /\ prev[c] # None => capa[prev[c]] # None
       /\ next[c] # None => capa[next[c]] # None /\ next[c] # curr[c] /\ next[c] # prev[c]
       /\ Gone(args[c])

\* The facts about the one call in flight.
CallFacts == \A c \in Caller : TransferFacts(c) /\ RevokeFacts(c)

\* The invariant of the library when its callers keep each other out.
HeldInv == StatusMatchesRevoks /\ AccessNeverGrows /\ HeldNotEmpty
SerialInv == OneInFlight /\ HeldInv /\ CallFacts

SInv == IInv /\ MemOK /\ SerialInv

\* A live object, its region, and the revocation handles they agree on.
LEMMA ObjectFacts ==
  ASSUME IInv, NEW h \in Handle, capa[h] # None
  PROVE  /\ initialised = "ready" /\ capa[h] \in Capability
         /\ region[h] \in Region /\ region[h] # None
         /\ capa[h].start = region[h].start /\ capa[h].end = region[h].end
         /\ capa[h].access = region[h].access
         /\ capa[h].revoks = Revoks(h)
         /\ capa[h].start \in Int /\ capa[h].end \in Int
<1>1. initialised = "ready"
  BY DEF IInv, BootOK
<1>2. /\ capa[h] \in Capability /\ region[h] # None /\ region[h] \in Region
      /\ capa[h].start = region[h].start /\ capa[h].end = region[h].end
      /\ capa[h].access = region[h].access
      /\ capa[h].revoks = Revoks(h)
  BY <1>1 DEF IInv, LibInv, LibTypeOK, MonTypeOK, MirrorsMonitor, Live, Revoks
<1>3. capa[h].start \in Addr /\ capa[h].end \in Addr
  BY <1>2 DEF Capability
<1> QED
  BY <1>1, <1>2, <1>3, AddrAssumption DEF Addr

\* A transfer of which r is the revocation handle, and the region it pins.
LEMMA HeldFacts ==
  ASSUME IInv, NEW r \in RevHandle, rev[r] # None
  PROVE  /\ rev[r] \in Rev /\ rev[r].region \in Handle
         /\ region[rev[r].region] \in Region /\ region[rev[r].region] # None
         /\ region[rev[r].region].start \in Int /\ region[rev[r].region].end \in Int
         /\ r \in Outstanding(rev[r].region)
<1>1. rev[r] \in Rev /\ rev[r].region \in Handle
  BY DEF IInv, LibInv, LibTypeOK, MonTypeOK, Rev
<1>2. region[rev[r].region] # None /\ region[rev[r].region] \in Region
  BY <1>1 DEF IInv, LibInv, LibTypeOK, MonTypeOK, RevOK
<1>3. region[rev[r].region].start \in Addr /\ region[rev[r].region].end \in Addr
  BY <1>2 DEF Region
<1>4. r \in Outstanding(rev[r].region)
  BY DEF Outstanding
<1> QED
  BY <1>1, <1>2, <1>3, <1>4, AddrAssumption DEF Addr

\* Two regions that are not empty are apart.
LEMMA Apart ==
  ASSUME MemOK, NEW g \in Handle, NEW h \in Handle, g # h,
         region[g] # None, region[h] # None,
         region[g].start \in Int, region[g].end \in Int,
         region[h].start \in Int, region[h].end \in Int,
         region[g].start < region[g].end, region[h].start < region[h].end
  PROVE  Disjoint(region[g], region[h])
<1> SUFFICES ASSUME region[g].start < region[h].end, region[h].start < region[g].end
             PROVE  FALSE
  BY DEF Disjoint
<1>1. PICK p \in Int : /\ region[g].start <= p /\ p < region[g].end
                       /\ region[h].start <= p /\ p < region[h].end
  <2>1. CASE region[g].start <= region[h].start
    BY <2>1
  <2>2. CASE region[h].start <= region[g].start
    BY <2>2
  <2> QED
    BY <2>1, <2>2
<1> QED
  BY <1>1 DEF MemOK, Has

\* Invariants of what is held depend on the objects, the regions and the transfers.
LEMMA HeldStutter ==
  ASSUME HeldInv, UNCHANGED <<region, rev, capa>>
  PROVE  HeldInv' /\ \A a : Gone(a) => Gone(a)'
  BY DEF HeldInv, StatusMatchesRevoks, AccessNeverGrows, HeldNotEmpty, Live, Gone

\* The call that takes a step is the only one in flight.
LEMMA OneStep ==
  ASSUME OneInFlight, NEW c \in Caller, pc[c] \in InFlight,
         \A d \in Caller \ {c} : pc'[d] = pc[d]
  PROVE  OneInFlight'
  BY DEF OneInFlight

\* The facts about a caller that is not in flight.
LEMMA OthersFacts ==
  ASSUME OneInFlight, CallFacts, NEW c \in Caller, pc[c] \in InFlight,
         NEW d \in Caller \ {c}, pc'[d] = pc[d], prev'[d] = prev[d]
  PROVE  TransferFacts(d)' /\ RevokeFacts(d)'
<1>1. pc[d] \notin InFlight
  BY DEF OneInFlight
<1>2. /\ pc[d] \notin {"split", "split2", "give"} /\ pc[d] \notin {"merge_left", "merge_right"}
  BY <1>1 DEF InFlight, TransferPcs, RevokePcs
<1>3. prev[d] = None
  BY <1>2 DEF CallFacts, RevokeFacts
<1> QED
  BY <1>2, <1>3 DEF TransferFacts, RevokeFacts

\* A call that returns is in flight no more.
LEMMA ReturnFacts ==
  ASSUME IInv, OneInFlight, CallFacts, NEW c \in Caller, pc[c] \in InFlight,
         NEW res \in Returned \cup Dead, Return(c, res)
  PROVE  OneInFlight' /\ CallFacts'
<1>1. /\ pc'[c] = res /\ prev'[c] = None
      /\ \A d \in Caller \ {c} : pc'[d] = pc[d] /\ prev'[d] = prev[d]
  BY DEF Return, IInv, CallTypeOK
<1>2. OneInFlight'
  BY <1>1, OneStep
<1>3. TransferFacts(c)' /\ RevokeFacts(c)'
  BY <1>1 DEF TransferFacts, RevokeFacts, Returned, Dead
<1>4. \A d \in Caller \ {c} : TransferFacts(d)' /\ RevokeFacts(d)'
  BY <1>1, OthersFacts
<1> QED
  BY <1>2, <1>3, <1>4 DEF CallFacts

\* The pointers of a call in flight are to live objects.
LEMMA NotDangling ==
  ASSUME IInv, CallFacts, NEW c \in Caller, pc[c] \in Holding
  PROVE  ~Dangling(c)
<1>1. TransferFacts(c) /\ RevokeFacts(c)
  BY DEF CallFacts
<1>2. CASE pc[c] \in {"split", "split2", "give"}
  <2>1. capa[curr[c]] # None /\ prev[c] = None
    BY <1>1, <1>2 DEF TransferFacts, RevokeFacts
  <2> QED
    BY <1>2, <2>1 DEF Dangling
<1>3. CASE pc[c] \in {"merge_left", "merge_right"}
  <2>1. /\ capa[curr[c]] # None /\ (prev[c] # None => capa[prev[c]] # None)
        /\ (next[c] # None => capa[next[c]] # None)
    BY <1>1, <1>3 DEF RevokeFacts
  <2> QED
    BY <2>1 DEF Dangling
<1> QED
  BY <1>2, <1>3 DEF Holding

-----------------------------------------------------------------------------
\* The regions that are held stay as they are.
Pinned ==
  /\ rev' = rev
  /\ \A r \in RevHandle : rev[r] # None => region'[rev[r].region] = region[rev[r].region]

\* A step that leaves what is held alone keeps the rights and ranges of it.
LEMMA PinnedHeld ==
  ASSUME IInv, AccessNeverGrows, HeldNotEmpty, Pinned
  PROVE  AccessNeverGrows' /\ HeldNotEmpty' /\ \A a : Gone(a) => Gone(a)'
  BY DEF AccessNeverGrows, HeldNotEmpty, Pinned, Gone

\* The status of an object, and its revocation handles.
StatusOK(o) ==
  /\ o.status = "Active" => o.revoks = {}
  /\ o.status = "Paused" => \E x \in RevokHandle : o.revoks = {x}
  /\ o.status = "Shared" /\ o.owned => o.revoks # {}
  /\ \A x, y \in o.revoks : x.domain = y.domain => x = y

\* The object h has the status it should have.
LEMMA ObjectStatus ==
  ASSUME StatusMatchesRevoks, NEW h \in Handle, capa[h] # None
  PROVE  StatusOK(capa[h])
  BY DEF StatusMatchesRevoks, StatusOK, Live

\* A step has to be looked at for the objects it changes.
LEMMA StatusStep ==
  ASSUME StatusMatchesRevoks,
         \A h \in Handle : capa'[h] # None => capa'[h] = capa[h] \/ StatusOK(capa'[h])
  PROVE  StatusMatchesRevoks'
<1>1. ASSUME NEW h \in Handle, capa'[h] # None
      PROVE  StatusOK(capa'[h])
  BY <1>1, ObjectStatus
<1>2. StatusMatchesRevoks' = \A h \in Live' : StatusOK(capa'[h])
  BY DEF StatusMatchesRevoks, StatusOK
<1> QED
  BY <1>1, <1>2 DEF Live

\* Only an Active object can be split; its two parts are Active.
LEMMA SplitHeld ==
  ASSUME IInv, HeldInv, NEW h \in Handle, NEW addr \in Addr, NEW h2 \in Handle,
         capa[h] # None, split_capa(h, addr, h2)
  PROVE  /\ HeldInv' /\ Pinned /\ h # h2
         /\ capa[h].status = "Active" /\ capa[h].revoks = {}
         /\ capa'[h] # None /\ capa'[h].start = capa[h].start /\ capa'[h].end = addr
         /\ capa'[h2] # None /\ capa'[h2].start = addr /\ capa'[h2].end = capa[h].end
         /\ \A g \in {h, h2} : /\ capa'[g].access = capa[h].access
                              /\ capa'[g].status = "Active" /\ capa'[g].revoks = {}
         /\ capa[h2] = None /\ \A g \in Handle \ {h, h2} : capa'[g] = capa[g]
<1>1. /\ region[h] # None /\ region[h2] = None /\ h # h2 /\ Outstanding(h) = {} /\ rev' = rev
      /\ region' = [region EXCEPT ![h].end = addr, ![h2] = [region[h] EXCEPT !.start = addr]]
  BY DEF split_capa, MonSplit
<1>2. capa[h] \in Capability /\ capa[h].revoks = {} /\ capa[h].owned
  BY <1>1, ObjectFacts DEF Revoks, split_capa, CanSplit
<1>3. capa[h].status = "Active"
  <2>1. capa[h].status \in Status
    BY <1>2 DEF Capability
  <2>2. capa[h].status # "Paused" /\ capa[h].status # "Shared"
    BY <1>2 DEF HeldInv, StatusMatchesRevoks, Live
  <2> QED
    BY <2>1, <2>2 DEF Status
<1>4. /\ capa'[h] = [capa[h] EXCEPT !.end = addr]
      /\ capa'[h2] = [capa[h] EXCEPT !.start = addr, !.revoks = {}]
      /\ \A g \in Handle \ {h, h2} : capa'[g] = capa[g]
  BY <1>1 DEF split_capa, IInv, LibInv, LibTypeOK
<1>5. /\ capa'[h].status = "Active" /\ capa'[h].revoks = {}
      /\ capa'[h2].status = "Active" /\ capa'[h2].revoks = {}
  BY <1>2, <1>3, <1>4 DEF Capability
<1>6. StatusMatchesRevoks'
  <2>1. StatusOK(capa'[h]) /\ StatusOK(capa'[h2])
    BY <1>5 DEF StatusOK
  <2> QED
    BY <1>4, <2>1, StatusStep DEF HeldInv
<1>7. Pinned
  <2>1. ASSUME NEW r \in RevHandle, rev[r] # None
        PROVE  region'[rev[r].region] = region[rev[r].region]
    <3>1. rev[r].region \in Handle \ {h, h2}
      BY <1>1, <2>1, HeldFacts
    <3> QED
      BY <1>1, <3>1 DEF IInv, LibInv, LibTypeOK, MonTypeOK
  <2> QED
    BY <1>1, <2>1 DEF Pinned
<1>8. /\ capa'[h].start = capa[h].start /\ capa'[h].end = addr
      /\ capa'[h2].start = addr /\ capa'[h2].end = capa[h].end
      /\ capa'[h].access = capa[h].access /\ capa'[h2].access = capa[h].access
  BY <1>2, <1>4 DEF Capability
<1>9. capa'[h] # None /\ capa'[h2] # None /\ capa[h2] = None
  <2>1. capa'[h] \in Capability /\ capa'[h2] \in Capability
    <3>1. /\ [capa[h] EXCEPT !.end = addr] \in Capability
          /\ [capa[h] EXCEPT !.start = addr, !.revoks = {}] \in Capability
      BY <1>2 DEF Capability
    <3> QED
      BY <1>4, <3>1
  <2>2. capa[h2] = None
    BY <1>1, ObjectFacts
  <2> QED
    BY <2>1, <2>2, NoneCapaAssumption
<1> QED
  BY <1>1, <1>2, <1>3, <1>4, <1>5, <1>6, <1>7, <1>8, <1>9, PinnedHeld DEF HeldInv

\* Objects that are held are not merged.
LEMMA MergeHeld ==
  ASSUME IInv, HeldInv, NEW h1 \in Handle, NEW h2 \in Handle,
         capa[h1] # None, capa[h2] # None, Merged(h1, h2)
  PROVE  /\ HeldInv' /\ Pinned /\ h1 # h2
         /\ capa[h1].revoks = {} /\ capa[h2].revoks = {}
         /\ capa'[h1] = [capa[h1] EXCEPT !.end = capa[h2].end] /\ capa'[h1] # None
         /\ capa'[h2] = None
         /\ \A g \in Handle \ {h1, h2} : capa'[g] = capa[g]
<1>1. /\ h1 # h2 /\ Outstanding(h1) = {} /\ Outstanding(h2) = {} /\ rev' = rev
      /\ region' = [region EXCEPT ![h1].end = region[h2].end, ![h2] = None]
  BY DEF Merged, MonMerge
<1>2. /\ capa[h1] \in Capability /\ capa[h2] \in Capability
      /\ capa[h1].revoks = {} /\ capa[h2].revoks = {}
  BY <1>1, ObjectFacts DEF Revoks
<1>3. /\ capa'[h1] = [capa[h1] EXCEPT !.end = capa[h2].end]
      /\ capa'[h2] = None
      /\ \A g \in Handle \ {h1, h2} : capa'[g] = capa[g]
  BY <1>1 DEF Merged, IInv, LibInv, LibTypeOK
<1>4. /\ capa'[h1].status = capa[h1].status /\ capa'[h1].revoks = capa[h1].revoks
      /\ capa'[h1].owned = capa[h1].owned /\ capa'[h1] # None
  <2>1. capa'[h1] \in Capability
    BY <1>2, <1>3 DEF Capability
  <2> QED
    BY <1>2, <1>3, <2>1, NoneCapaAssumption DEF Capability
<1>5. StatusMatchesRevoks'
  <2>1. StatusOK(capa[h1])
    BY ObjectStatus DEF HeldInv
  <2>2. StatusOK(capa'[h1])
    BY <1>4, <2>1 DEF StatusOK
  <2> QED
    BY <1>3, <2>2, StatusStep DEF HeldInv
<1>6. Pinned
  <2>1. ASSUME NEW r \in RevHandle, rev[r] # None
        PROVE  region'[rev[r].region] = region[rev[r].region]
    <3>1. rev[r].region \in Handle \ {h1, h2}
      BY <1>1, <2>1, HeldFacts
    <3> QED
      BY <1>1, <3>1 DEF IInv, LibInv, LibTypeOK, MonTypeOK
  <2> QED
    BY <1>1, <2>1 DEF Pinned
<1> QED
  BY <1>1, <1>2, <1>3, <1>4, <1>5, <1>6, PinnedHeld DEF HeldInv

\* What is asked for carries no revocation right.
LEMMA AccessAsked ==
  ASSUME NEW t, NEW a, access_is_less(translate_access(t), a)
  PROVE  translate_access(t) \subseteq a
  BY DEF access_is_less, translate_access

\* transfer_capa gives the object h, with the revocation handle r.
Gives(c, h, r, s) ==
  /\ Transferred(c, r, s)
  /\ \/ s = "Paused" /\ args[c].tpe \in Confidentials
     \/ /\ s = "Shared" /\ args[c].tpe \in Shareds
        /\ \A x \in capa[h].revoks : x.domain # args[c].dom

\* What the monitor and the object h have of it then.
Given(c, h, r, s) ==
  /\ rev[r] = None /\ rev'[r] # None /\ region' = region
  /\ rev'[r].domain = args[c].dom /\ rev'[r].region = h
  /\ rev'[r].access = translate_access(args[c].tpe)
  /\ region[h].start = args[c].start /\ region[h].end = args[c].end
  /\ [domain |-> args[c].dom, handle |-> r] \in RevokHandle
  /\ capa'[h] = WithRevoks(capa[h], s,
                  capa[h].revoks \cup {[domain |-> args[c].dom, handle |-> r]})
  /\ \A g \in Handle \ {h} : capa'[g] = capa[g]

\* A grant or a share of the exact range, with the rights found to be allowed.
LEMMA TransferredHeld ==
  ASSUME IInv, HeldInv, NEW c \in Caller, pc[c] = "give", TransferFacts(c),
         NEW r \in RevHandle, NEW h \in Handle, h = curr[c],
         NEW s \in Status, Gives(c, h, r, s)
  PROVE  HeldInv' /\ Given(c, h, r, s)
<1> DEFINE a == args[c]
           x == [domain |-> a.dom, handle |-> r]
           t == [region |-> h, domain |-> a.dom, conf |-> a.tpe \in Confidentials,
                 access |-> translate_access(a.tpe)]
<1>1. /\ capa[h] # None /\ a.start < a.end /\ TransferAllowed(h, a.tpe)
      /\ capa[h].start = a.start /\ capa[h].end = a.end
  BY DEF TransferFacts, IsRange
<1>2. /\ capa[h] \in Capability /\ region[h] # None
      /\ capa[h].start = region[h].start /\ capa[h].end = region[h].end
      /\ capa[h].access = region[h].access /\ capa[h].revoks \in SUBSET RevokHandle
  BY <1>1, ObjectFacts DEF Capability
<1>3. a \in Args
  BY ArgsType DEF IInv, InFlight, TransferPcs
<1>4. x \in RevokHandle /\ t \in Rev /\ t # None
  <2>1. a.dom \in Domain
    BY <1>3 DEF Args
  <2>2. x \in RevokHandle
    BY <2>1 DEF RevokHandle
  <2>3. t \in Rev
    BY <2>1, AccessType DEF Rev
  <2> QED
    BY <2>2, <2>3, NoneAssumption
<1>5. /\ rev[r] = None /\ rev' = [rev EXCEPT ![r] = t] /\ region' = region
      /\ capa' = [capa EXCEPT ![h].status = s, ![h].revoks = @ \cup {x}]
  BY DEF Gives, Transferred, MonTransfer
<1>6. /\ rev'[r] = t /\ \A q \in RevHandle \ {r} : rev'[q] = rev[q]
      /\ capa'[h] = WithRevoks(capa[h], s, capa[h].revoks \cup {x})
      /\ \A g \in Handle \ {h} : capa'[g] = capa[g]
  BY <1>5 DEF IInv, LibInv, LibTypeOK, MonTypeOK, WithRevoks
<1>7. StatusMatchesRevoks'
  <2>1. /\ capa'[h].status = s /\ capa'[h].revoks = capa[h].revoks \cup {x}
    BY <1>2, <1>4, <1>6, ObjectFields
  <2>2. StatusOK(capa[h])
    BY <1>1, ObjectStatus DEF HeldInv
  <2>3. CASE s = "Paused"
    <3>1. capa[h].status = "Active"
      BY <1>1, <2>3 DEF TransferAllowed, Gives
    <3>2. capa'[h].revoks = {x}
      BY <2>1, <2>2, <3>1 DEF StatusOK
    <3>3. StatusOK(capa'[h])
      BY <1>4, <2>1, <2>3, <3>2 DEF StatusOK
    <3> QED
      BY <1>6, <3>3, StatusStep DEF HeldInv
  <2>4. CASE s = "Shared" /\ \A y \in capa[h].revoks : y.domain # a.dom
    <3>1. \A y, z \in capa'[h].revoks : y.domain = z.domain => y = z
      BY <2>1, <2>2, <2>4 DEF StatusOK
    <3>2. StatusOK(capa'[h])
      BY <2>1, <2>4, <3>1 DEF StatusOK
    <3> QED
      BY <1>6, <3>2, StatusStep DEF HeldInv
  <2> QED
    BY <2>3, <2>4 DEF Gives
<1>8. AccessNeverGrows'
  <2>1. t.access \subseteq region[h].access
    BY <1>1, <1>2, AccessAsked DEF TransferAllowed
  <2> QED
    BY <1>5, <1>6, <2>1 DEF HeldInv, AccessNeverGrows
<1>9. HeldNotEmpty'
  <2>1. region[h].start < region[h].end
    BY <1>1, <1>2
  <2> QED
    BY <1>5, <1>6, <2>1 DEF HeldInv, HeldNotEmpty
<1>10. /\ rev'[r].domain = a.dom /\ rev'[r].region = h
       /\ rev'[r].access = translate_access(a.tpe)
  BY <1>6
<1>11. HeldInv'
  BY <1>7, <1>8, <1>9 DEF HeldInv
<1> HIDE DEF t
<1> QED
  BY <1>1, <1>2, <1>4, <1>5, <1>6, <1>10, <1>11 DEF Given

\* revoke_capa, called with a, uses the revocation handle x of the object h.
Revokes(h, x, s, a) ==
  /\ IsRange(h, a.start, a.end) /\ x.domain = a.dom
  /\ Revoked(h, x, s)
  /\ capa[h].status # "Active"
  /\ s = "Active" => capa[h].revoks \ {x} = {}
  /\ s = "Shared" =>
       capa[h].status = "Shared" /\ (capa[h].owned => capa[h].revoks \ {x} # {})

\* A revocation of the whole range: the domain holds nothing of it any more.
LEMMA RevokedHeld ==
  ASSUME IInv, MemOK, HeldInv, NEW h \in Handle, capa[h] # None,
         NEW x \in capa[h].revoks, NEW s \in {"Active", "Shared"}, NEW a, Revokes(h, x, s, a)
  PROVE  /\ HeldInv' /\ Gone(a)'
         /\ capa'[h] = WithRevoks(capa[h], s, capa[h].revoks \ {x})
         /\ \A g \in Handle \ {h} : capa'[g] = capa[g]
<1>0. /\ Revoked(h, x, s)
      /\ a.dom = x.domain /\ a.start = capa[h].start /\ a.end = capa[h].end
      /\ s = "Active" => capa[h].revoks \ {x} = {}
      /\ s = "Shared" /\ capa[h].owned => capa[h].revoks \ {x} # {}
  BY DEF Revokes, IsRange
<1>1. /\ capa[h] \in Capability /\ capa[h].revoks = Revoks(h) /\ region[h] # None
      /\ capa[h].start = region[h].start /\ capa[h].end = region[h].end
      /\ capa[h].start \in Int /\ capa[h].end \in Int
      /\ capa[h].revoks \in SUBSET RevokHandle /\ s \in Status
  BY ObjectFacts DEF Capability, Status
<1>2. x.handle \in RevHandle
  BY <1>1 DEF RevokHandle
<1>3. /\ rev' = [rev EXCEPT ![x.handle] = None] /\ region' = region
      /\ capa' = [capa EXCEPT ![h].status = s, ![h].revoks = @ \ {x}]
  BY <1>0 DEF Revoked, MonRevoke
<1>4. /\ rev'[x.handle] = None /\ \A q \in RevHandle \ {x.handle} : rev'[q] = rev[q]
      /\ capa'[h] = WithRevoks(capa[h], s, capa[h].revoks \ {x})
      /\ \A g \in Handle \ {h} : capa'[g] = capa[g]
  BY <1>2, <1>3 DEF IInv, LibInv, LibTypeOK, MonTypeOK, WithRevoks
<1>5. StatusOK(capa[h])
  BY ObjectStatus DEF HeldInv
<1>6. StatusMatchesRevoks'
  <2>1. /\ capa'[h].status = s /\ capa'[h].revoks = capa[h].revoks \ {x}
        /\ capa'[h].owned = capa[h].owned
    BY <1>1, <1>4, ObjectFields
  <2>2. StatusOK(capa'[h])
    BY <1>0, <1>5, <2>1 DEF StatusOK
  <2> QED
    BY <1>4, <2>2, StatusStep DEF HeldInv
<1>7. AccessNeverGrows' /\ HeldNotEmpty'
  BY <1>3, <1>4 DEF HeldInv, AccessNeverGrows, HeldNotEmpty
<1>8. x \in Revoks(h)
  BY <1>1
<1>9. region[h].start < region[h].end
  <2>1. PICK q \in Outstanding(h) : x.handle = q
    BY <1>8 DEF Revoks
  <2> QED
    BY <2>1 DEF Outstanding, HeldInv, HeldNotEmpty
<1>10. ASSUME NEW r \in RevHandle, rev'[r] # None, rev'[r].domain = a.dom
       PROVE  Disjoint(region'[rev'[r].region], a)
  <2>1. r # x.handle /\ rev[r] # None /\ rev'[r] = rev[r]
    BY <1>4, <1>10
  <2> DEFINE g == rev[r].region
  <2>2. /\ g \in Handle /\ region[g] # None /\ region[g].start \in Int /\ region[g].end \in Int
        /\ r \in Outstanding(g)
    BY <2>1, HeldFacts
  <2>3. g # h
    <3>1. SUFFICES ASSUME g = h PROVE FALSE
      OBVIOUS
    <3> DEFINE y == [domain |-> rev[r].domain, handle |-> r]
    <3>2. y \in capa[h].revoks
      BY <1>1, <2>2, <3>1 DEF Revoks
    <3>3. y.domain = x.domain /\ y # x
      BY <1>0, <1>10, <2>1
    <3> QED
      BY <1>5, <3>2, <3>3 DEF StatusOK
  <2>4. region[g].start < region[g].end
    BY <2>1 DEF HeldInv, HeldNotEmpty
  <2>5. Disjoint(region[g], region[h])
    BY <1>1, <1>9, <2>2, <2>3, <2>4, Apart
  <2> QED
    BY <1>0, <1>1, <1>3, <2>1, <2>5 DEF Disjoint
<1>11. Gone(a)'
  BY <1>10 DEF Gone
<1> QED
  BY <1>4, <1>6, <1>7, <1>11 DEF HeldInv

\* A refused grant: the object was Active and is so again.
LEMMA RefusedHeld ==
  ASSUME IInv, HeldInv, NEW h \in Handle, capa[h] # None, capa[h].status = "Active",
         capa' = [capa EXCEPT ![h].status = "Active"], UNCHANGED monVars
  PROVE  HeldInv' /\ capa' = capa
<1>1. capa[h] \in Capability
  BY ObjectFacts
<1>2. [capa[h] EXCEPT !.status = "Active"] = capa[h]
  BY <1>1 DEF Capability
<1>3. capa' = capa
  BY <1>2 DEF IInv, LibInv, LibTypeOK
<1> QED
  BY <1>3, HeldStutter DEF monVars

-----------------------------------------------------------------------------
\* A call that returns and leaves the library alone.
LEMMA SerialReturn ==
  ASSUME SInv, NEW c \in Caller, pc[c] \in InFlight, NEW res \in Returned \cup Dead,
         Return(c, res), UNCHANGED <<monVars, libVars>>
  PROVE  SerialInv'
<1>1. OneInFlight' /\ CallFacts'
  BY ReturnFacts DEF SInv, SerialInv
<1>2. HeldInv'
  BY HeldStutter DEF SInv, SerialInv, monVars, libVars
<1> QED
  BY <1>1, <1>2 DEF SerialInv

LEMMA SerialFail ==
  ASSUME SInv, NEW c \in Caller, pc[c] \in InFlight, Fail(c)
  PROVE  SerialInv'
  BY SerialReturn DEF Fail, Returned

\* The first objects are Active.
LEMMA SerialInitDomain ==
  ASSUME SInv, InitDomain
  PROVE  SerialInv'
<1>1. /\ initialised = "no" /\ UNCHANGED <<monVars, callVars>>
      /\ \A c \in Caller : pc[c] \in Returned
      /\ \A r \in RevHandle : rev[r] = None
  BY DEF InitDomain, SInv, IInv, BootOK
<1>2. \A h \in Handle : capa'[h] # None => StatusOK(capa'[h])
  <2>1. \A x : StatusOK(ReadCapa(x))
    BY DEF StatusOK, ReadCapa
  <2> QED
    BY <2>1 DEF InitDomain
<1>3. HeldInv'
  <2>1. StatusMatchesRevoks'
    BY <1>2, StatusStep DEF SInv, SerialInv, HeldInv
  <2>2. AccessNeverGrows' /\ HeldNotEmpty'
    BY <1>1 DEF AccessNeverGrows, HeldNotEmpty, monVars
  <2> QED
    BY <2>1, <2>2 DEF HeldInv
<1>4. OneInFlight'
  BY <1>1 DEF OneInFlight, SInv, SerialInv, callVars
<1>5. CallFacts'
  <2> SUFFICES ASSUME NEW c \in Caller PROVE TransferFacts(c)' /\ RevokeFacts(c)'
    BY DEF CallFacts
  <2>1. pc'[c] \in Returned /\ prev'[c] = prev[c] /\ pc'[c] = pc[c]
    BY <1>1 DEF callVars
  <2>2. prev[c] = None
    BY <1>1 DEF SInv, SerialInv, CallFacts, RevokeFacts, Returned
  <2> QED
    BY <2>1, <2>2 DEF TransferFacts, RevokeFacts, Returned
<1> QED
  BY <1>3, <1>4, <1>5 DEF SerialInv

\* Steps that leave the calls, the objects, the regions and the transfers alone.
LEMMA SerialStutter ==
  ASSUME SInv, UNCHANGED <<region, rev, capa, callVars>>
  PROVE  SerialInv'
<1>1. HeldInv' /\ \A a : Gone(a) => Gone(a)'
  BY HeldStutter DEF SInv, SerialInv
<1>2. OneInFlight'
  BY DEF OneInFlight, SInv, SerialInv, callVars
<1>3. CallFacts'
  <2> SUFFICES ASSUME NEW c \in Caller PROVE TransferFacts(c)' /\ RevokeFacts(c)'
    BY DEF CallFacts
  <2>1. TransferFacts(c) /\ RevokeFacts(c)
    BY DEF SInv, SerialInv, CallFacts
  <2>2. TransferFacts(c)'
    BY <2>1 DEF TransferFacts, TransferAllowed, IsRange, callVars
  <2>3. RevokeFacts(c)'
    BY <1>1, <2>1 DEF RevokeFacts, callVars
  <2> QED
    BY <2>2, <2>3
<1> QED
  BY <1>1, <1>2, <1>3 DEF SerialInv

\* A call begins when no other is in flight.
LEMMA SerialCall ==
  ASSUME Serialised, SInv, NEW c \in Caller, NEW d \in Domain, NEW q \in Ranges,
         \/ \E t \in Tpe : CallTransfer(c, d, q[1], q[2], t)
         \/ CallRevoke(c, d, q[1], q[2])
  PROVE  SerialInv'
<1>1. PICK k \in {"transfer", "revoke"} :
        /\ pc' = [pc EXCEPT ![c] = k] /\ UNCHANGED <<monVars, libVars, curr, prev, next>>
        /\ \A e \in Caller : pc[e] \in Returned \cup Dead
  BY DEF CallTransfer, CallRevoke, MayCall
<1>2. /\ pc'[c] = k /\ \A e \in Caller \ {c} : pc'[e] = pc[e]
  BY <1>1 DEF SInv, IInv, CallTypeOK
<1>3. HeldInv'
  BY <1>1, HeldStutter DEF SInv, SerialInv, monVars, libVars
<1>4. OneInFlight'
  BY <1>1, <1>2 DEF OneInFlight, InFlight, TransferPcs, RevokePcs, Returned, Dead
<1>5. CallFacts'
  <2> SUFFICES ASSUME NEW e \in Caller PROVE TransferFacts(e)' /\ RevokeFacts(e)'
    BY DEF CallFacts
  <2>1. pc'[e] \notin {"split", "split2", "give", "merge_left", "merge_right"}
    BY <1>1, <1>2 DEF Returned, Dead
  <2>2. pc[e] \notin {"merge_left", "merge_right"}
    BY <1>1 DEF Returned, Dead
  <2>3. prev'[e] = None
    BY <1>1, <2>2 DEF SInv, SerialInv, CallFacts, RevokeFacts
  <2> QED
    BY <2>1, <2>3 DEF TransferFacts, RevokeFacts
<1> QED
  BY <1>3, <1>4, <1>5 DEF SerialInv

\* A call goes on: its new facts are what remains to be shown.
LEMMA SerialGoesOn ==
  ASSUME SInv, NEW c \in Caller, pc[c] \in InFlight, HeldInv',
         \A d \in Caller \ {c} : pc'[d] = pc[d] /\ prev'[d] = prev[d],
         TransferFacts(c)', RevokeFacts(c)'
  PROVE  SerialInv'
<1>1. OneInFlight'
  BY OneStep DEF SInv, SerialInv
<1>2. CallFacts'
  BY OthersFacts DEF SInv, SerialInv, CallFacts
<1> QED
  BY <1>1, <1>2 DEF SerialInv

\* The first object that covers the range, if it may be transferred.
LEMMA SerialTransferFind ==
  ASSUME SInv, NEW c \in Caller, TransferFind(c)
  PROVE  SerialInv'
<1>1. pc[c] \in InFlight /\ pc[c] = "transfer"
  BY DEF TransferFind, InFlight, TransferPcs
<1>2. CASE Fail(c)
  BY <1>1, <1>2, SerialFail
<1>3. ASSUME NEW i \in DOMAIN list,
             args[c].start < args[c].end, Covers(list[i], args[c].start, args[c].end),
             TransferAllowed(list[i], args[c].tpe),
             curr' = [curr EXCEPT ![c] = list[i]],
             pc' = [pc EXCEPT ![c] =
                      IF IsRange(list[i], args[c].start, args[c].end) THEN "give" ELSE "split"],
             UNCHANGED <<monVars, libVars, args, prev, next>>
      PROVE  SerialInv'
  <2> DEFINE h == list[i]
  <2>1. h \in Handle /\ capa[h] # None
    BY DEF SInv, IInv, LibInv, LibTypeOK, ListIsLive, Live
  <2>2. /\ curr'[c] = h
        /\ pc'[c] = IF IsRange(h, args[c].start, args[c].end) THEN "give" ELSE "split"
        /\ \A d \in Caller \ {c} : pc'[d] = pc[d] /\ prev'[d] = prev[d]
        /\ capa' = capa /\ args' = args /\ prev' = prev
    BY <1>3 DEF SInv, IInv, CallTypeOK, libVars
  <2>3. HeldInv'
    BY <1>3, HeldStutter DEF SInv, SerialInv, monVars, libVars
  <2>4. prev[c] = None
    BY <1>1 DEF SInv, SerialInv, CallFacts, RevokeFacts
  <2>5. RevokeFacts(c)'
    BY <2>2, <2>4 DEF RevokeFacts
  <2>6. CASE IsRange(h, args[c].start, args[c].end)
    <3>1. TransferFacts(c)'
      BY <1>3, <2>1, <2>2, <2>6 DEF TransferFacts, TransferAllowed, IsRange
    <3> QED
      BY <1>1, <2>2, <2>3, <2>5, <3>1, SerialGoesOn
  <2>7. CASE ~IsRange(h, args[c].start, args[c].end)
    <3>1. args[c].end < capa[h].end
      BY <1>3, <2>7 DEF Covers, dll_contains
    <3>2. TransferFacts(c)'
      BY <1>3, <2>1, <2>2, <2>7, <3>1 DEF TransferFacts, TransferAllowed
    <3> QED
      BY <1>1, <2>2, <2>3, <2>5, <3>2, SerialGoesOn
  <2> QED
    BY <2>6, <2>7
<1> QED
  BY <1>2, <1>3 DEF TransferFind

\* The two splits: what is between start and end is left to be given.
LEMMA SerialTransferSplit ==
  ASSUME SInv, NEW c \in Caller, TransferSplit(c) \/ TransferSplit2(c)
  PROVE  SerialInv'
<1> DEFINE a == args[c]
<1>1. pc[c] \in InFlight /\ pc[c] \in {"split", "split2"}
  BY DEF TransferSplit, TransferSplit2, InFlight, TransferPcs
<1>2. CASE Fail(c)
  BY <1>1, <1>2, SerialFail
<1>3. PICK h \in Handle : h = curr[c] /\ capa[h] # None
  BY <1>1, CurrType DEF SInv, IInv, LibInv, Holding, SerialInv, CallFacts, TransferFacts
<1>4. a.start \in Addr /\ a.end \in Addr /\ a.start \in Int /\ a.end \in Int
  BY <1>1, ArgsType, AddrAssumption DEF SInv, IInv, Args, Addr
<1>5. /\ a.start < a.end /\ TransferAllowed(h, a.tpe) /\ prev[c] = None
      /\ capa[h] \in Capability /\ capa[h].end \in Int
  BY <1>1, <1>3, ObjectFacts DEF SInv, SerialInv, CallFacts, TransferFacts, RevokeFacts
<1>6. ASSUME TransferSplit(c), NEW h2 \in Handle, split_capa(h, a.start, h2),
             curr' = [curr EXCEPT ![c] = h2],
             pc' = [pc EXCEPT ![c] = IF capa'[h2].end > a.end THEN "split2" ELSE "give"],
             UNCHANGED <<args, prev, next>>
      PROVE  SerialInv'
  <2>1. /\ HeldInv' /\ capa'[h2] # None
        /\ capa'[h2].start = a.start /\ capa'[h2].end = capa[h].end
        /\ capa'[h2].access = capa[h].access /\ capa'[h2].status = capa[h].status
    BY <1>3, <1>4, <1>6, SplitHeld DEF SInv, SerialInv
  <2>2. a.end < capa[h].end
    BY <1>3, <1>6 DEF TransferSplit, SInv, SerialInv, CallFacts, TransferFacts
  <2>4. /\ curr'[c] = h2 /\ pc'[c] = "split2" /\ args'[c] = a /\ prev'[c] = prev[c]
        /\ \A d \in Caller \ {c} : pc'[d] = pc[d] /\ prev'[d] = prev[d]
    <3>1. capa'[h2].end > a.end
      BY <1>4, <1>5, <2>1, <2>2
    <3> QED
      BY <1>6, <3>1 DEF SInv, IInv, CallTypeOK
  <2>5. TransferFacts(c)' /\ RevokeFacts(c)'
    BY <1>5, <2>1, <2>2, <2>4 DEF TransferFacts, RevokeFacts, TransferAllowed
  <2> QED
    BY <1>1, <2>1, <2>4, <2>5, SerialGoesOn
<1>7. ASSUME TransferSplit2(c), NEW h2 \in Handle, split_capa(h, a.end, h2),
             pc' = [pc EXCEPT ![c] = "give"], UNCHANGED <<args, curr, prev, next>>
      PROVE  SerialInv'
  <2>1. /\ HeldInv' /\ capa'[h] # None /\ capa'[h].start = capa[h].start /\ capa'[h].end = a.end
        /\ capa'[h].access = capa[h].access /\ capa'[h].status = capa[h].status
    BY <1>3, <1>4, <1>7, SplitHeld DEF SInv, SerialInv
  <2>2. capa[h].start = a.start
    BY <1>3, <1>7 DEF TransferSplit2, SInv, SerialInv, CallFacts, TransferFacts
  <2>4. /\ curr'[c] = h /\ pc'[c] = "give" /\ args'[c] = a /\ prev'[c] = prev[c]
        /\ \A d \in Caller \ {c} : pc'[d] = pc[d] /\ prev'[d] = prev[d]
    BY <1>3, <1>7 DEF SInv, IInv, CallTypeOK
  <2>5. TransferFacts(c)' /\ RevokeFacts(c)'
    BY <1>5, <2>1, <2>2, <2>4 DEF TransferFacts, RevokeFacts, TransferAllowed, IsRange
  <2> QED
    BY <1>1, <2>1, <2>4, <2>5, SerialGoesOn
<1>8. CASE TransferSplit(c)
  BY <1>2, <1>3, <1>6, <1>8 DEF TransferSplit
<1>9. CASE TransferSplit2(c)
  BY <1>2, <1>3, <1>7, <1>9 DEF TransferSplit2
<1> QED
  BY <1>8, <1>9

\* The vmcall of transfer_capa, successful or refused.
LEMMA SerialGive ==
  ASSUME SInv, NEW c \in Caller, TransferGrant(c) \/ TransferShare(c)
  PROVE  SerialInv'
<1>1. pc[c] \in InFlight /\ pc[c] = "give" /\ TransferFacts(c)
  BY DEF TransferGrant, TransferShare, InFlight, TransferPcs, SInv, SerialInv, CallFacts
<1>2. CASE Fail(c)
  BY <1>1, <1>2, SerialFail
<1>3. PICK h \in Handle : h = curr[c] /\ capa[h] # None /\ TransferAllowed(h, args[c].tpe)
  BY <1>1, CurrType DEF SInv, IInv, LibInv, Holding, TransferFacts
<1>4. ASSUME NEW r \in RevHandle, NEW s \in Status, Gives(c, h, r, s)
      PROVE  SerialInv'
  <2>1. HeldInv'
    BY <1>1, <1>3, <1>4, TransferredHeld DEF SInv, SerialInv
  <2>2. OneInFlight' /\ CallFacts'
    BY <1>1, <1>4, ReturnFacts DEF SInv, SerialInv, Gives, Transferred, Returned
  <2> QED
    BY <2>1, <2>2 DEF SerialInv
<1>5. ASSUME args[c].tpe \in Confidentials, capa' = [capa EXCEPT ![h].status = "Active"],
             Return(c, "fail"), UNCHANGED monVars
      PROVE  SerialInv'
  <2>1. capa[h].status = "Active"
    BY <1>3, <1>5 DEF TransferAllowed
  <2>2. HeldInv'
    BY <1>3, <1>5, <2>1, RefusedHeld DEF SInv, SerialInv
  <2>3. OneInFlight' /\ CallFacts'
    BY <1>1, <1>5, ReturnFacts DEF SInv, SerialInv, Returned
  <2> QED
    BY <2>2, <2>3 DEF SerialInv
<1>6. CASE TransferGrant(c)
  <2>1. "Paused" \in Status
    BY DEF Status
  <2> QED
    BY <1>2, <1>3, <1>4, <1>5, <1>6, <2>1 DEF TransferGrant, Gives
<1>7. CASE TransferShare(c)
  <2>1. "Shared" \in Status
    BY DEF Status
  <2> QED
    BY <1>2, <1>3, <1>4, <1>7, <2>1 DEF TransferShare, Gives
<1> QED
  BY <1>6, <1>7

\* What revoke_capa does to the object it finds, and what is gone then.
LEMMA RevokeFindEffect ==
  ASSUME SInv, NEW c \in Caller, RevokeFind(c)
  PROVE  \/ Fail(c)
         \/ \E i \in DOMAIN list, s \in {"Active", "Shared"} : \E x \in capa[list[i]].revoks :
              Revokes(list[i], x, s, args[c]) /\ (AttemptMerge(c, i) \/ Return(c, "ok"))
<1> SUFFICES ASSUME ~Fail(c)
             PROVE  \E i \in DOMAIN list, s \in {"Active", "Shared"} :
                      \E x \in capa[list[i]].revoks :
                        /\ Revokes(list[i], x, s, args[c])
                        /\ AttemptMerge(c, i) \/ Return(c, "ok")
  OBVIOUS
<1>1. PICK i \in DOMAIN list :
        /\ IsRange(list[i], args[c].start, args[c].end)
        /\ \/ /\ capa[list[i]].status = "Paused"
              /\ \E x \in capa[list[i]].revoks :
                   x.domain = args[c].dom /\ Revoked(list[i], x, "Active")
              /\ AttemptMerge(c, i)
           \/ /\ capa[list[i]].status = "Shared"
              /\ \E x \in capa[list[i]].revoks :
                   /\ x.domain = args[c].dom
                   /\ IF capa[list[i]].revoks = {x} /\ capa[list[i]].owned
                      THEN Revoked(list[i], x, "Active") /\ AttemptMerge(c, i)
                      ELSE Revoked(list[i], x, "Shared") /\ Return(c, "ok")
           \/ capa[list[i]].status = "Active" /\ capa[list[i]].revoks # {}
  BY DEF RevokeFind
<1>2. PICK h \in Handle : h = list[i] /\ capa[h] # None
  BY DEF SInv, IInv, LibInv, LibTypeOK, ListIsLive, Live
<1>3. StatusOK(capa[h])
  BY <1>2, ObjectStatus DEF SInv, SerialInv, HeldInv
<1>4. CASE capa[h].status = "Paused"
  <2>1. PICK x \in capa[h].revoks :
          x.domain = args[c].dom /\ Revoked(h, x, "Active") /\ AttemptMerge(c, i)
    BY <1>1, <1>2, <1>4
  <2>2. capa[h].revoks \ {x} = {}
    BY <1>3, <1>4 DEF StatusOK
  <2>3. Revokes(h, x, "Active", args[c])
    BY <1>1, <1>2, <1>4, <2>1, <2>2 DEF Revokes
  <2> QED
    BY <1>2, <2>1, <2>3
<1>5. CASE capa[h].status = "Shared"
  <2>1. PICK x \in capa[h].revoks :
          /\ x.domain = args[c].dom
          /\ IF capa[h].revoks = {x} /\ capa[h].owned
             THEN Revoked(h, x, "Active") /\ AttemptMerge(c, i)
             ELSE Revoked(h, x, "Shared") /\ Return(c, "ok")
    BY <1>1, <1>2, <1>5
  <2>2. CASE capa[h].revoks = {x} /\ capa[h].owned
    <3>1. capa[h].revoks \ {x} = {}
      BY <2>2
    <3>2. Revokes(h, x, "Active", args[c])
      BY <1>1, <1>2, <1>5, <2>1, <2>2, <3>1 DEF Revokes
    <3> QED
      BY <1>2, <2>1, <2>2, <3>2
  <2>3. CASE ~(capa[h].revoks = {x} /\ capa[h].owned)
    <3>1. capa[h].owned => capa[h].revoks \ {x} # {}
      BY <2>3
    <3>2. Revokes(h, x, "Shared", args[c])
      BY <1>1, <1>2, <1>5, <2>1, <2>3, <3>1 DEF Revokes
    <3> QED
      BY <1>2, <2>1, <2>3, <3>2
  <2> QED
    BY <2>2, <2>3
<1>6. capa[h].status # "Active" \/ capa[h].revoks = {}
  BY <1>3 DEF StatusOK
<1> QED
  BY <1>1, <1>2, <1>4, <1>5, <1>6

\* The neighbours of an object in the list are live, and not the object.
LEMMA Neighbours ==
  ASSUME IInv, NEW i \in DOMAIN list
  PROVE  /\ list[i] \in Handle /\ capa[list[i]] # None
         /\ dll_prev(list, i) # None =>
              dll_prev(list, i) \in Handle /\ capa[dll_prev(list, i)] # None
         /\ dll_next(list, i) # None =>
              /\ dll_next(list, i) \in Handle /\ capa[dll_next(list, i)] # None
              /\ dll_next(list, i) # list[i] /\ dll_next(list, i) # dll_prev(list, i)
<1>1. /\ list \in Seq(Handle) /\ DOMAIN list = 1 .. Len(list) /\ Len(list) \in Nat
      /\ \A j \in DOMAIN list : list[j] \in Handle /\ capa[list[j]] # None
      /\ \A j, k \in DOMAIN list : list[j] = list[k] => j = k
  BY DEF IInv, LibInv, LibTypeOK, ListIsLive, Live
<1>2. dll_prev(list, i) # None => dll_prev(list, i) = list[i - 1] /\ i - 1 \in DOMAIN list
  BY <1>1 DEF dll_prev
<1>3. dll_next(list, i) # None =>
        dll_next(list, i) = list[i + 1] /\ i + 1 \in DOMAIN list /\ i + 1 # i
  BY <1>1 DEF dll_next
<1>4. dll_next(list, i) # None => dll_next(list, i) # dll_prev(list, i)
  <2>1. i + 1 # i - 1
    BY <1>1
  <2> QED
    BY <1>1, <1>2, <1>3, <2>1
<1> QED
  BY <1>1, <1>2, <1>3, <1>4

\* The revocation, and the locals at attempt_merge.
LEMMA SerialRevokeFind ==
  ASSUME SInv, NEW c \in Caller, RevokeFind(c)
  PROVE  SerialInv' /\ \A a : a = args[c] /\ pc'[c] = "ok" => Gone(a)'
<1>1. pc[c] \in InFlight
  BY DEF RevokeFind, InFlight, RevokePcs
<1>2. CASE Fail(c)
  <2>1. pc'[c] = "fail"
    BY <1>2 DEF Fail, Return, SInv, IInv, CallTypeOK
  <2> QED
    BY <1>1, <1>2, <2>1, SerialFail
<1>3. CASE ~Fail(c)
  <2>1. PICK i \in DOMAIN list, s \in {"Active", "Shared"} : \E x \in capa[list[i]].revoks :
          Revokes(list[i], x, s, args[c]) /\ (AttemptMerge(c, i) \/ Return(c, "ok"))
    BY <1>3, RevokeFindEffect
  <2>2. PICK h \in Handle : h = list[i] /\ capa[h] # None
    BY Neighbours DEF SInv
  <2>a. PICK a : a = args[c]
    OBVIOUS
  <2>3. PICK x \in capa[h].revoks : Revokes(h, x, s, a)
    BY <2>1, <2>2, <2>a
  <2>4. /\ HeldInv' /\ Gone(a)'
        /\ capa'[h] = WithRevoks(capa[h], s, capa[h].revoks \ {x})
        /\ \A g \in Handle \ {h} : capa'[g] = capa[g]
    <3>1. IInv /\ MemOK /\ HeldInv
      BY DEF SInv, SerialInv
    <3> QED
      BY <2>2, <2>3, <3>1, RevokedHeld
  <2>5. capa'[h] # None
    <3>1. capa[h] \in Capability /\ capa[h].revoks \ {x} \in SUBSET RevokHandle /\ s \in Status
      BY <2>2, ObjectFacts DEF SInv, Capability, Status
    <3>2. WithRevoks(capa[h], s, capa[h].revoks \ {x}) \in Capability
      BY <3>1, ObjectFields
    <3> QED
      BY <2>4, <3>2, NoneCapaAssumption
  <2>6. CASE Return(c, "ok")
    BY <1>1, <2>4, <2>a, <2>6, ReturnFacts DEF SInv, SerialInv, Returned
  <2>7. CASE AttemptMerge(c, i)
    <3>1. /\ pc'[c] = "merge_left" /\ curr'[c] = h /\ args'[c] = args[c]
          /\ prev'[c] = dll_prev(list, i) /\ next'[c] = dll_next(list, i)
          /\ \A d \in Caller \ {c} : pc'[d] = pc[d] /\ prev'[d] = prev[d]
      BY <2>2, <2>7 DEF AttemptMerge, SInv, IInv, CallTypeOK
    <3>2. \A g \in Handle : capa[g] # None => capa'[g] # None
      BY <2>4, <2>5
    <3>3. /\ prev'[c] # None => capa'[prev'[c]] # None
          /\ next'[c] # None =>
               capa'[next'[c]] # None /\ next'[c] # curr'[c] /\ next'[c] # prev'[c]
      BY <2>2, <3>1, <3>2, Neighbours DEF SInv
    <3>4. TransferFacts(c)' /\ RevokeFacts(c)'
      <4>1. Gone(args[c])'
        BY <2>4, <2>a, <3>1 DEF Gone
      <4> QED
        BY <2>5, <3>1, <3>3, <4>1 DEF TransferFacts, RevokeFacts
    <3> QED
      BY <1>1, <2>4, <3>1, <3>4, SerialGoesOn
  <2> QED
    BY <2>1, <2>6, <2>7
<1> QED
  BY <1>2, <1>3

\* The merge on the left leaves the pointers to live objects.
LEMMA SerialMergeLeft ==
  ASSUME SInv, NEW c \in Caller, MergeLeft(c)
  PROVE  SerialInv' /\ \A a : a = args[c] /\ pc'[c] = "ok" => Gone(a)'
<1>1. pc[c] \in InFlight /\ pc[c] = "merge_left" /\ RevokeFacts(c) /\ Gone(args[c])
  BY DEF MergeLeft, InFlight, RevokePcs, SInv, SerialInv, CallFacts, RevokeFacts
<1>2. PICK h \in Handle : h = curr[c] /\ capa[h] # None
  BY <1>1, CurrType DEF SInv, IInv, LibInv, Holding, RevokeFacts
<1>3. CASE Fail(c)
  <2>1. pc'[c] = "fail"
    BY <1>3 DEF Fail, Return, SInv, IInv, CallTypeOK
  <2> QED
    BY <1>1, <1>3, <2>1, SerialFail
<1>4. CASE Return(c, "ok") /\ UNCHANGED <<monVars, libVars>>
  <2>1. \A a : Gone(a) => Gone(a)'
    BY <1>4, HeldStutter DEF SInv, SerialInv, monVars, libVars
  <2> QED
    BY <1>1, <1>4, <2>1, SerialReturn DEF Returned
<1>5. CASE pc' = [pc EXCEPT ![c] = "merge_right"]
           /\ UNCHANGED <<monVars, libVars, args, curr, prev, next>>
  <2>1. /\ pc'[c] = "merge_right" /\ \A d \in Caller \ {c} : pc'[d] = pc[d] /\ prev'[d] = prev[d]
    BY <1>5 DEF SInv, IInv, CallTypeOK
  <2>2. HeldInv' /\ Gone(args[c])'
    <3>1. HeldInv' /\ \A a : Gone(a) => Gone(a)'
      BY <1>5, HeldStutter DEF SInv, SerialInv, monVars, libVars
    <3> QED
      BY <1>1, <1>5, <3>1 DEF Gone
  <2>3. TransferFacts(c)' /\ RevokeFacts(c)'
    BY <1>1, <1>5, <2>1, <2>2 DEF TransferFacts, RevokeFacts, libVars, Gone
  <2> QED
    BY <1>1, <2>1, <2>2, <2>3, SerialGoesOn
<1>6. CASE prev[c] # None /\ Merged(prev[c], curr[c]) /\ GoRight(c)
  <2>1. PICK p \in Handle : p = prev[c] /\ capa[p] # None
    BY <1>1, <1>6 DEF SInv, IInv, CallTypeOK, RevokeFacts
  <2>2. /\ HeldInv' /\ Pinned /\ p # h /\ capa'[p] # None
        /\ \A g \in Handle \ {p, h} : capa'[g] = capa[g]
    BY <1>2, <1>6, <2>1, MergeHeld DEF SInv, SerialInv
  <2>3. Gone(args[c])'
    <3>1. AccessNeverGrows /\ HeldNotEmpty /\ IInv
      BY DEF SInv, SerialInv, HeldInv
    <3>2. \A a : Gone(a) => Gone(a)'
      BY <2>2, <3>1, PinnedHeld
    <3>3. args' = args
      BY <1>6 DEF GoRight
    <3> QED
      BY <1>1, <3>2, <3>3 DEF Gone
  <2>4. /\ pc'[c] = "merge_right" /\ curr'[c] = p /\ args'[c] = args[c]
        /\ prev'[c] = p /\ next'[c] = next[c]
        /\ \A d \in Caller \ {c} : pc'[d] = pc[d] /\ prev'[d] = prev[d]
    BY <1>6, <2>1 DEF GoRight, SInv, IInv, CallTypeOK
  <2>5. next[c] # None => capa'[next[c]] # None /\ next[c] # p
    <3>1. next[c] # None =>
            next[c] \in Handle /\ capa[next[c]] # None /\ next[c] # h /\ next[c] # p
      BY <1>1, <1>2, <2>1 DEF RevokeFacts, SInv, IInv, CallTypeOK
    <3> QED
      BY <2>2, <3>1
  <2>6. TransferFacts(c)' /\ RevokeFacts(c)'
    BY <2>2, <2>3, <2>4, <2>5 DEF TransferFacts, RevokeFacts, Gone
  <2> QED
    BY <1>1, <2>2, <2>4, <2>6, SerialGoesOn
<1> QED
  BY <1>3, <1>4, <1>5, <1>6 DEF MergeLeft

\* The merge on the right, whatever it tests.
LEMMA SerialMergeRight ==
  ASSUME SInv, NEW c \in Caller, MergeRight(c)
  PROVE  SerialInv' /\ \A a : a = args[c] /\ pc'[c] = "ok" => Gone(a)'
<1>1. pc[c] \in InFlight /\ pc[c] = "merge_right" /\ RevokeFacts(c) /\ Gone(args[c])
  BY DEF MergeRight, InFlight, RevokePcs, SInv, SerialInv, CallFacts, RevokeFacts
<1>2. PICK h \in Handle : h = curr[c] /\ capa[h] # None
  BY <1>1, CurrType DEF SInv, IInv, LibInv, Holding, RevokeFacts
<1>3. ASSUME NEW res \in {"ok", "oops"}, Return(c, res), UNCHANGED <<monVars, libVars>>
      PROVE  SerialInv' /\ \A a : a = args[c] /\ pc'[c] = "ok" => Gone(a)'
  <2>1. \A a : Gone(a) => Gone(a)'
    BY <1>3, HeldStutter DEF SInv, SerialInv, monVars, libVars
  <2>2. res \in Returned \cup Dead
    BY DEF Returned, Dead
  <2> QED
    BY <1>1, <1>3, <2>1, <2>2, SerialReturn
<1>4. CASE next[c] # None /\ Merged(curr[c], next[c]) /\ Return(c, "ok")
  <2>1. PICK n \in Handle : n = next[c] /\ capa[n] # None
    BY <1>1, <1>4 DEF SInv, IInv, CallTypeOK, RevokeFacts
  <2>2. HeldInv' /\ Pinned
    BY <1>2, <1>4, <2>1, MergeHeld DEF SInv, SerialInv
  <2>3. OneInFlight' /\ CallFacts'
    BY <1>1, <1>4, ReturnFacts DEF SInv, SerialInv, Returned
  <2>4. \A a : Gone(a) => Gone(a)'
    BY <2>2, PinnedHeld DEF SInv, SerialInv, HeldInv
  <2> QED
    BY <1>1, <2>2, <2>3, <2>4 DEF SerialInv
<1> QED
  BY <1>3, <1>4 DEF MergeRight

\* With one call at a time there is no stale pointer to follow.
LEMMA SerialNoUseAfterFree ==
  ASSUME SInv, NEW c \in Caller
  PROVE  ~UseAfterFree(c)
  BY NotDangling DEF UseAfterFree, SInv, SerialInv, Holding

\* Before init_domain there are no objects, no transfers and no calls.
LEMMA SerialInit == Init => SerialInv
<1> SUFFICES ASSUME Init PROVE SerialInv
  OBVIOUS
<1>1. HeldInv
  BY DEF Init, MonInit, HeldInv, StatusMatchesRevoks, AccessNeverGrows, HeldNotEmpty, Live
<1>2. OneInFlight
  BY DEF Init, OneInFlight, InFlight, TransferPcs, RevokePcs
<1>3. CallFacts
  BY DEF Init, CallFacts, TransferFacts, RevokeFacts
<1> QED
  BY <1>1, <1>2, <1>3 DEF SerialInv

\* Every step keeps the invariant when the callers keep each other out.
LEMMA SerialStep ==
  ASSUME Serialised, SInv, [Next]_vars
  PROVE  SerialInv'
<1>1. CASE InitDomain
  BY <1>1, SerialInitDomain
<1>2. CASE InitDomainFails \/ UNCHANGED vars
  BY <1>2, SerialStutter DEF InitDomainFails, vars, monVars, libVars
<1>3. ASSUME NEW c \in Caller, NEW d \in Domain, create_domain(c, d) \/ seal_domain(c, d)
      PROVE  SerialInv'
  BY <1>3, SerialStutter DEF create_domain, seal_domain, MonCreate, MonSeal, libVars
<1>4. ASSUME NEW c \in Caller, NEW d \in Domain, NEW q \in Ranges,
             \/ \E t \in Tpe : CallTransfer(c, d, q[1], q[2], t)
             \/ CallRevoke(c, d, q[1], q[2])
      PROVE  SerialInv'
  BY <1>4, SerialCall
<1>5. ASSUME NEW c \in Caller,
             \/ TransferFind(c) \/ TransferSplit(c) \/ TransferSplit2(c)
             \/ TransferGrant(c) \/ TransferShare(c)
      PROVE  SerialInv'
  BY <1>5, SerialTransferFind, SerialTransferSplit, SerialGive
<1>6. ASSUME NEW c \in Caller, RevokeFind(c) \/ MergeLeft(c) \/ MergeRight(c)
      PROVE  SerialInv'
  BY <1>6, SerialRevokeFind, SerialMergeLeft, SerialMergeRight
<1>7. ASSUME NEW c \in Caller, UseAfterFree(c)
      PROVE  SerialInv'
  BY <1>7, SerialNoUseAfterFree
<1> QED
  BY <1>1, <1>2, <1>3, <1>4, <1>5, <1>6, <1>7 DEF Next

\* The invariant of the serialised library.
LEMMA SerialInvariance ==
  ASSUME Serialised
  PROVE  Spec => []SInv
<1>1. Init => SInv
  BY InitInv, MemInit, SerialInit DEF SInv
<1>2. SInv /\ [Next]_vars => SInv'
  BY StepInv, MemStep, SerialStep DEF SInv
<1> QED
  BY <1>1, <1>2, PTL DEF Spec

-----------------------------------------------------------------------------
\* With one call at a time, the status of an object and its revocation handles
\* agree, for any memory, domains and handles, whichever vmcalls are refused.
THEOREM StatusIsRight ==
  ASSUME Serialised
  PROVE  Spec => []StatusMatchesRevoks
<1>1. SInv => StatusMatchesRevoks
  BY DEF SInv, SerialInv, HeldInv
<1> QED
  BY <1>1, SerialInvariance, PTL

\* With one call at a time, no domain ever holds a region with a right that the
\* managing domain does not have.
THEOREM AccessStaysBelow ==
  ASSUME Serialised
  PROVE  Spec => []AccessNeverGrows
<1>1. SInv => AccessNeverGrows
  BY DEF SInv, SerialInv, HeldInv
<1> QED
  BY <1>1, SerialInvariance, PTL

\* A caller is dead of a stale pointer only if it has followed one.
LEMMA UafByUseAfterFree ==
  ASSUME IInv, [Next]_vars, NEW c \in Caller, pc[c] # "uaf", pc'[c] = "uaf"
  PROVE  \E d \in Caller : UseAfterFree(d)
<1> SUFFICES ASSUME \A d \in Caller : ~UseAfterFree(d) PROVE FALSE
  OBVIOUS
<1>0. pc \in [Caller -> Returned \cup Dead \cup TransferPcs \cup RevokePcs]
  BY DEF IInv, CallTypeOK
<1>1. pc' = pc \/ \E d \in Caller : \E k : k # "uaf" /\ pc' = [pc EXCEPT ![d] = k]
  <2>1. CASE InitDomain \/ InitDomainFails \/ UNCHANGED vars
    BY <2>1 DEF InitDomain, InitDomainFails, vars, callVars
  <2>2. ASSUME NEW d \in Caller, NEW e \in Domain, create_domain(d, e) \/ seal_domain(d, e)
        PROVE  pc' = pc
    BY <2>2 DEF create_domain, seal_domain, callVars
  <2>3. ASSUME NEW d \in Caller, NEW e, NEW s, NEW f, NEW t,
               CallTransfer(d, e, s, f, t) \/ CallRevoke(d, e, s, f)
        PROVE  \E k : k # "uaf" /\ pc' = [pc EXCEPT ![d] = k]
    BY <2>3 DEF CallTransfer, CallRevoke
  <2>4. ASSUME NEW d \in Caller, TransferFind(d) \/ TransferSplit(d) \/ TransferSplit2(d)
        PROVE  \E k : k # "uaf" /\ pc' = [pc EXCEPT ![d] = k]
    BY <2>4 DEF TransferFind, TransferSplit, TransferSplit2, Fail, Return
  <2>5. ASSUME NEW d \in Caller, TransferGrant(d) \/ TransferShare(d)
        PROVE  \E k : k # "uaf" /\ pc' = [pc EXCEPT ![d] = k]
    BY <2>5 DEF TransferGrant, TransferShare, Transferred, Fail, Return
  <2>6. ASSUME NEW d \in Caller, RevokeFind(d) \/ MergeLeft(d) \/ MergeRight(d)
        PROVE  \E k : k # "uaf" /\ pc' = [pc EXCEPT ![d] = k]
    BY <2>6 DEF RevokeFind, MergeLeft, MergeRight, AttemptMerge, GoRight, Fail, Return
  <2> QED
    BY <2>1, <2>2, <2>3, <2>4, <2>5, <2>6 DEF Next
<1> QED
  BY <1>0, <1>1

\* With one call at a time, no call follows a pointer to a freed object, whatever
\* the merges of revoke_capa free.
THEOREM NoStalePointer ==
  ASSUME Serialised
  PROVE  Spec => []NoUseAfterFree
<1>1. Init => NoUseAfterFree
  BY DEF Init, NoUseAfterFree
<1>2. SInv /\ NoUseAfterFree /\ [Next]_vars => NoUseAfterFree'
  <2> SUFFICES ASSUME SInv, NoUseAfterFree, [Next]_vars, NEW c \in Caller, pc'[c] = "uaf"
               PROVE  FALSE
    BY DEF NoUseAfterFree
  <2>1. \E d \in Caller : UseAfterFree(d)
    BY UafByUseAfterFree DEF SInv, NoUseAfterFree
  <2> QED
    BY <2>1, SerialNoUseAfterFree
<1> QED
  BY <1>1, <1>2, SerialInvariance, PTL DEF Spec

\* Only its own steps move a caller.
LEMMA OneMoves ==
  ASSUME IInv, [Next]_vars, NEW c \in Caller, pc'[c] # pc[c], pc[c] \in InFlight
  PROVE  \/ TransferFind(c) \/ TransferSplit(c) \/ TransferSplit2(c)
         \/ TransferGrant(c) \/ TransferShare(c)
         \/ RevokeFind(c) \/ MergeLeft(c) \/ MergeRight(c)
         \/ UseAfterFree(c)
<1>0. pc \in [Caller -> Returned \cup Dead \cup TransferPcs \cup RevokePcs]
  BY DEF IInv, CallTypeOK
<1>1. ~InitDomain /\ ~InitDomainFails /\ ~UNCHANGED vars
  BY DEF InitDomain, InitDomainFails, vars, callVars
<1>2. ASSUME NEW d \in Caller, NEW e \in Domain, create_domain(d, e) \/ seal_domain(d, e)
      PROVE  FALSE
  BY <1>2 DEF create_domain, seal_domain, callVars
<1>3. ASSUME NEW d \in Caller, NEW e, NEW s, NEW f, NEW t,
             CallTransfer(d, e, s, f, t) \/ CallRevoke(d, e, s, f)
      PROVE  FALSE
  <2>1. d # c
    BY <1>3 DEF CallTransfer, CallRevoke, MayCall, InFlight, Returned, TransferPcs, RevokePcs
  <2> QED
    BY <1>0, <1>3, <2>1 DEF CallTransfer, CallRevoke
<1>4. PICK d \in Caller :
         \/ TransferFind(d) \/ TransferSplit(d) \/ TransferSplit2(d)
         \/ TransferGrant(d) \/ TransferShare(d)
         \/ RevokeFind(d) \/ MergeLeft(d) \/ MergeRight(d)
         \/ UseAfterFree(d)
  BY <1>1, <1>2, <1>3 DEF Next
<1>5. pc' = pc \/ \E k : pc' = [pc EXCEPT ![d] = k]
  BY <1>4 DEF TransferFind, TransferSplit, TransferSplit2, TransferGrant, TransferShare,
     Transferred, RevokeFind, MergeLeft, MergeRight, AttemptMerge, GoRight, UseAfterFree,
     Fail, Return
<1>6. d = c
  BY <1>0, <1>5
<1> QED
  BY <1>4, <1>6

\* With one call at a time, what transfer_capa gives is exactly the requested range
\* with the requested rights, through however many splits it was cut out.
THEOREM TransfersAreExact ==
  ASSUME Serialised
  PROVE  Spec => TransferIsExact
<1> DEFINE Exact == \A c \in Caller :
             pc[c] \in TransferPcs /\ pc'[c] = "ok" =>
               \E r \in RevHandle :
                 /\ rev[r] = None /\ rev'[r] # None
                 /\ rev'[r].domain = args[c].dom
                 /\ rev'[r].access = translate_access(args[c].tpe)
                 /\ region'[rev'[r].region].start = args[c].start
                 /\ region'[rev'[r].region].end = args[c].end
<1>1. ASSUME SInv, [Next]_vars, NEW c \in Caller, pc[c] \in TransferPcs, pc'[c] = "ok"
      PROVE  \E r \in RevHandle :
               /\ rev[r] = None /\ rev'[r] # None
               /\ rev'[r].domain = args[c].dom
               /\ rev'[r].access = translate_access(args[c].tpe)
               /\ region'[rev'[r].region].start = args[c].start
               /\ region'[rev'[r].region].end = args[c].end
  <2>0. pc \in [Caller -> Returned \cup Dead \cup TransferPcs \cup RevokePcs]
    BY <1>1 DEF SInv, IInv, CallTypeOK
  <2>1. pc'[c] # pc[c] /\ pc[c] \in InFlight /\ pc[c] \notin RevokePcs /\ IInv
    BY <1>1 DEF TransferPcs, RevokePcs, InFlight, SInv
  <2>2. ~RevokeFind(c) /\ ~MergeLeft(c) /\ ~MergeRight(c)
    BY <2>1 DEF RevokeFind, MergeLeft, MergeRight, RevokePcs
  <2>3. ~UseAfterFree(c)
    BY <1>1, SerialNoUseAfterFree
  <2>4. ~Fail(c)
    BY <1>1, <2>0 DEF Fail, Return
  <2>5. ~TransferFind(c) /\ ~TransferSplit(c) /\ ~TransferSplit2(c)
    BY <1>1, <2>0, <2>4 DEF TransferFind, TransferSplit, TransferSplit2
  <2>6. TransferGrant(c) \/ TransferShare(c)
    BY <1>1, <2>1, <2>2, <2>3, <2>5, OneMoves
  <2>7. pc[c] = "give" /\ TransferFacts(c) /\ HeldInv
    BY <1>1, <2>6 DEF TransferGrant, TransferShare, SInv, SerialInv, CallFacts
  <2>8. PICK h \in Handle : h = curr[c]
    BY <2>1, <2>7, CurrType DEF IInv, LibInv, Holding
  <2>9. PICK r \in RevHandle, s \in Status : Gives(c, h, r, s)
    <3>1. CASE TransferGrant(c)
      <4>1. ~Return(c, "fail")
        BY <1>1, <2>0 DEF Return
      <4>2. "Paused" \in Status
        BY DEF Status
      <4> QED
        BY <2>4, <3>1, <4>1, <4>2 DEF TransferGrant, Gives
    <3>2. CASE TransferShare(c)
      <4>1. "Shared" \in Status
        BY DEF Status
      <4> QED
        BY <2>4, <2>8, <3>2, <4>1 DEF TransferShare, Gives
    <3> QED
      BY <2>6, <3>1, <3>2
  <2>10. Given(c, h, r, s)
    BY <1>1, <2>1, <2>7, <2>8, <2>9, TransferredHeld
  <2> QED
    BY <2>10 DEF Given
<1>2. SInv /\ [Next]_vars => [Exact]_vars
  BY <1>1
<1> QED
  BY <1>2, SerialInvariance, PTL DEF Spec, TransferIsExact

\* With one call at a time, when revoke_capa returns 0 the domain holds no page of
\* the range, also when it held it through a share and other domains keep theirs.
THEOREM RevocationIsComplete ==
  ASSUME Serialised
  PROVE  Spec => RevokedMeansGone
<1> DEFINE Complete == \A c \in Caller :
             pc[c] \in RevokePcs /\ pc'[c] = "ok" =>
               \A r \in RevHandle :
                 rev'[r] # None /\ rev'[r].domain = args[c].dom =>
                   Disjoint(region'[rev'[r].region], args[c])
<1>1. ASSUME SInv, [Next]_vars, NEW c \in Caller, pc[c] \in RevokePcs, pc'[c] = "ok"
      PROVE  \A r \in RevHandle :
               rev'[r] # None /\ rev'[r].domain = args[c].dom =>
                 Disjoint(region'[rev'[r].region], args[c])
  <2>1. pc'[c] # pc[c] /\ pc[c] \in InFlight /\ pc[c] \notin TransferPcs /\ IInv
    BY <1>1 DEF TransferPcs, RevokePcs, InFlight, SInv
  <2>2. /\ ~TransferFind(c) /\ ~TransferSplit(c) /\ ~TransferSplit2(c)
        /\ ~TransferGrant(c) /\ ~TransferShare(c)
    BY <2>1 DEF TransferFind, TransferSplit, TransferSplit2, TransferGrant, TransferShare,
       TransferPcs
  <2>3. ~UseAfterFree(c)
    BY <1>1, SerialNoUseAfterFree
  <2>4. RevokeFind(c) \/ MergeLeft(c) \/ MergeRight(c)
    BY <1>1, <2>1, <2>2, <2>3, OneMoves
  <2>5. PICK a : a = args[c]
    OBVIOUS
  <2>6. Gone(a)'
    BY <1>1, <2>4, <2>5, SerialRevokeFind, SerialMergeLeft, SerialMergeRight
  <2> QED
    BY <2>5, <2>6 DEF Gone
<1>2. SInv /\ [Next]_vars => [Complete]_vars
  BY <1>1
<1> QED
  BY <1>2, SerialInvariance, PTL DEF Spec, RevokedMeansGone

-----------------------------------------------------------------------------
\* The entry of the table of grants for the revocation handle x of h.
GrantAs(h, x) ==
  [domain |-> x.domain, start |-> capa[h].start, end |-> capa[h].end,
   conf |-> capa[h].status = "Paused"]

\* The entries that are due to the object h.
GrantsOf(h) == IF capa[h] = None THEN {} ELSE {GrantAs(h, x) : x \in capa[h].revoks}

\* The table is made up of the entries of all objects, before and after a step.
LEMMA GrantsByObject ==
  /\ Grants = UNION {GrantsOf(h) : h \in Handle}
  /\ Grants' = UNION {GrantsOf(h)' : h \in Handle}
<1>1. Grants = UNION {GrantsOf(h) : h \in Handle}
  BY DEF Grants, GrantsOf, GrantAs, Live
<1>2. Grants' = UNION {GrantsOf(h)' : h \in Handle}
  BY DEF Grants, GrantsOf, GrantAs, Live
<1> QED
  BY <1>1, <1>2

\* An entry of the table is of one object, has its range, and is not empty.
LEMMA GrantFacts ==
  ASSUME SInv, NEW h \in Handle, NEW g \in GrantsOf(h)
  PROVE  /\ capa[h] # None /\ g.start = capa[h].start /\ g.end = capa[h].end
         /\ capa[h].start < capa[h].end
         /\ region[h].start < region[h].end
         /\ g.conf = (capa[h].status = "Paused")
         /\ \E x \in capa[h].revoks : g = GrantAs(h, x)
         /\ g \in Table!Grant
<1>1. capa[h] # None
  BY DEF GrantsOf
<1>2. PICK x \in capa[h].revoks : g = GrantAs(h, x)
  BY <1>1 DEF GrantsOf
<1>3. /\ capa[h] \in Capability /\ capa[h].revoks = Revoks(h)
      /\ capa[h].start = region[h].start /\ capa[h].end = region[h].end
      /\ capa[h].start \in Addr /\ capa[h].end \in Addr /\ x \in RevokHandle
  BY <1>1, ObjectFacts DEF SInv, Capability
<1>4. PICK r \in Outstanding(h) : x = [domain |-> rev[r].domain, handle |-> r]
  BY <1>3 DEF Revoks
<1>5. region[h].start < region[h].end
  BY <1>4 DEF Outstanding, SInv, SerialInv, HeldInv, HeldNotEmpty
<1>6. x.domain \in Domain
  BY <1>3 DEF RevokHandle
<1>7. g \in Table!Grant
  BY <1>2, <1>3, <1>6 DEF GrantAs, Table!Grant
<1> QED
  BY <1>1, <1>2, <1>3, <1>5, <1>7 DEF GrantAs

\* Entries of two objects do not overlap.
LEMMA EntriesApart ==
  ASSUME SInv, NEW g \in Handle, NEW h \in Handle, NEW x \in GrantsOf(g), capa[h] # None,
         region[h].start < region[h].end, NEW y, y.start = capa[h].start, y.end = capa[h].end,
         Table!Overlap(x, y)
  PROVE  g = h
<1> SUFFICES ASSUME g # h PROVE FALSE
  OBVIOUS
<1>1. /\ capa[g] # None /\ x.start = capa[g].start /\ x.end = capa[g].end
      /\ region[g].start < region[g].end
  BY GrantFacts
<1>2. /\ region[g] # None /\ capa[g].start = region[g].start /\ capa[g].end = region[g].end
      /\ capa[g].start \in Int /\ capa[g].end \in Int
  BY <1>1, ObjectFacts DEF SInv
<1>3. /\ region[h] # None /\ capa[h].start = region[h].start /\ capa[h].end = region[h].end
      /\ capa[h].start \in Int /\ capa[h].end \in Int
  BY ObjectFacts DEF SInv
<1>4. Disjoint(region[g], region[h])
  BY <1>1, <1>2, <1>3, Apart DEF SInv
<1> QED
  BY <1>1, <1>2, <1>3, <1>4 DEF Disjoint, Table!Overlap

\* A step that leaves the entries of every object alone is invisible.
LEMMA SameGrants ==
  ASSUME \A h \in Handle : GrantsOf(h)' = GrantsOf(h)
  PROVE  Grants' = Grants
  BY GrantsByObject

\* Splits and merges are of objects without entries.
LEMMA QuietGrants ==
  ASSUME \A h \in Handle :
           \/ capa'[h] = capa[h]
           \/ /\ capa[h] = None \/ capa[h].revoks = {}
              /\ capa'[h] = None \/ capa'[h].revoks = {}
  PROVE  Grants' = Grants
<1>1. ASSUME NEW h \in Handle PROVE GrantsOf(h)' = GrantsOf(h)
  <2>1. CASE capa'[h] = capa[h]
    BY <2>1 DEF GrantsOf, GrantAs
  <2>2. CASE /\ capa[h] = None \/ capa[h].revoks = {}
             /\ capa'[h] = None \/ capa'[h].revoks = {}
    BY <2>2 DEF GrantsOf
  <2> QED
    BY <2>1, <2>2
<1> QED
  BY <1>1, SameGrants

\* A grant or a share adds one entry, of a range that nothing else overlaps.
LEMMA GivesGrant ==
  ASSUME SInv, NEW c \in Caller, pc[c] = "give", NEW r \in RevHandle,
         NEW h \in Handle, h = curr[c], NEW s \in Status, Gives(c, h, r, s)
  PROVE  Table!Next
<1> DEFINE a == args[c]
           x == [domain |-> a.dom, handle |-> r]
           g == [domain |-> a.dom, start |-> a.start, end |-> a.end, conf |-> s = "Paused"]
<1>1. TransferFacts(c) /\ Given(c, h, r, s)
  BY TransferredHeld DEF SInv, SerialInv, CallFacts
<1>2. /\ capa[h] # None /\ a.start < a.end /\ TransferAllowed(h, a.tpe)
      /\ capa[h].start = a.start /\ capa[h].end = a.end
  BY <1>1 DEF TransferFacts, IsRange
<1>3. /\ capa[h] \in Capability /\ capa[h].revoks \in SUBSET RevokHandle
      /\ region[h].start = a.start /\ region[h].end = a.end
      /\ x \in RevokHandle /\ capa[h].start \in Addr /\ capa[h].end \in Addr
      /\ capa'[h] = WithRevoks(capa[h], s, capa[h].revoks \cup {x})
      /\ \A k \in Handle \ {h} : capa'[k] = capa[k]
  BY <1>1, <1>2, ObjectFacts DEF Given, SInv, Capability
<1>4. /\ capa'[h] # None /\ capa'[h].status = s /\ capa'[h].revoks = capa[h].revoks \cup {x}
      /\ capa'[h].start = a.start /\ capa'[h].end = a.end
  <2>1. WithRevoks(capa[h], s, capa[h].revoks \cup {x}) \in Capability
    BY <1>3, ObjectFields
  <2> QED
    BY <1>2, <1>3, <2>1, ObjectFields, NoneCapaAssumption
<1>5. StatusOK(capa[h])
  BY <1>2, ObjectStatus DEF SInv, SerialInv, HeldInv
<1>6. \/ s = "Paused" /\ capa[h].revoks = {}
      \/ /\ s = "Shared" /\ capa[h].status # "Paused"
         /\ \A y \in capa[h].revoks : y.domain # a.dom
  BY <1>2, <1>5 DEF Gives, TransferAllowed, StatusOK
<1>7. GrantsOf(h)' = GrantsOf(h) \cup {g}
  <2>1. GrantsOf(h)' = {[domain |-> y.domain, start |-> a.start, end |-> a.end,
                         conf |-> s = "Paused"] : y \in capa[h].revoks \cup {x}}
    BY <1>4 DEF GrantsOf, GrantAs
  <2>2. GrantsOf(h) = {[domain |-> y.domain, start |-> a.start, end |-> a.end,
                        conf |-> capa[h].status = "Paused"] : y \in capa[h].revoks}
    BY <1>2 DEF GrantsOf, GrantAs
  <2>3. CASE s = "Paused" /\ capa[h].revoks = {}
    <3>1. GrantsOf(h) = {}
      BY <2>2, <2>3
    <3>2. GrantsOf(h)' = {g}
      BY <2>1, <2>3
    <3> QED
      BY <3>1, <3>2
  <2>4. CASE s = "Shared" /\ capa[h].status # "Paused"
    <3>1. (s = "Paused") = FALSE /\ (capa[h].status = "Paused") = FALSE
      BY <2>4
    <3> DEFINE E(y) == [domain |-> y.domain, start |-> a.start, end |-> a.end, conf |-> FALSE]
    <3>2. GrantsOf(h) = {E(y) : y \in capa[h].revoks}
      BY <2>2, <3>1
    <3>3. GrantsOf(h)' = {E(y) : y \in capa[h].revoks \cup {x}}
      BY <2>1, <3>1
    <3>4. E(x) = g
      BY <3>1
    <3> HIDE DEF E, x, g
    <3>5. {E(y) : y \in capa[h].revoks \cup {x}} = {E(y) : y \in capa[h].revoks} \cup {E(x)}
      OBVIOUS
    <3> QED
      BY <3>2, <3>3, <3>4, <3>5
  <2> QED
    BY <1>6, <2>3, <2>4
<1>8. \A k \in Handle \ {h} : GrantsOf(k)' = GrantsOf(k)
  <2>1. \A k \in Handle \ {h} : capa'[k] = capa[k]
    BY <1>3
  <2>2. ASSUME NEW k \in Handle \ {h} PROVE GrantsOf(k)' = GrantsOf(k)
    <3>1. capa'[k] = capa[k]
      BY <2>1
    <3> HIDE DEF a, x, g
    <3> QED
      BY <3>1 DEF GrantsOf, GrantAs
  <2> QED
    BY <2>2
<1>9. Grants' = Grants \cup {g}
  BY <1>7, <1>8, GrantsByObject
<1>10. g \in Table!Grant
  BY <1>2, <1>3 DEF RevokHandle, Table!Grant
<1>11. ASSUME NEW y \in Grants, Table!Overlap(y, g)
       PROVE  /\ y \in GrantsOf(h) /\ ~y.conf /\ ~g.conf /\ y.start = g.start /\ y.end = g.end
              /\ y.domain # g.domain
  <2>1. PICK k \in Handle : y \in GrantsOf(k)
    BY GrantsByObject
  <2>2. k = h
    BY <1>2, <1>3, <1>11, <2>1, EntriesApart
  <2>3. /\ y.start = capa[h].start /\ y.end = capa[h].end
        /\ y.conf = (capa[h].status = "Paused")
        /\ \E z \in capa[h].revoks : y = GrantAs(h, z)
    BY <2>1, <2>2, GrantFacts
  <2>4. s = "Shared" /\ capa[h].status # "Paused"
    BY <1>6, <2>3
  <2>5. y.domain # a.dom
    BY <1>6, <2>3, <2>4 DEF GrantAs
  <2> QED
    BY <1>2, <2>1, <2>2, <2>3, <2>4, <2>5
<1>12. g \notin Grants
  <2>1. Table!Overlap(g, g)
    BY <1>2 DEF Table!Overlap
  <2> QED
    BY <1>11, <2>1
<1>13. g.start < g.end
  BY <1>2
<1>14. Table!Give(g)
  BY <1>9, <1>11, <1>12, <1>13 DEF Table!Give
<1> QED
  BY <1>10, <1>14 DEF Table!Next

\* A revocation takes one entry back, and no other.
LEMMA RevokesGrant ==
  ASSUME SInv, NEW h \in Handle, capa[h] # None, NEW x \in capa[h].revoks,
         NEW s \in {"Active", "Shared"}, NEW a, Revokes(h, x, s, a)
  PROVE  Table!Next
<1> DEFINE g == GrantAs(h, x)
<1>1. /\ capa'[h] = WithRevoks(capa[h], s, capa[h].revoks \ {x})
      /\ \A k \in Handle \ {h} : capa'[k] = capa[k]
  BY RevokedHeld DEF SInv, SerialInv
<1>2. capa[h] \in Capability /\ capa[h].revoks \in SUBSET RevokHandle /\ s \in Status
  BY ObjectFacts DEF SInv, Capability, Status
<1>3. /\ capa'[h] # None /\ capa'[h].status = s /\ capa'[h].revoks = capa[h].revoks \ {x}
      /\ capa'[h].start = capa[h].start /\ capa'[h].end = capa[h].end
  <2>1. WithRevoks(capa[h], s, capa[h].revoks \ {x}) \in Capability
    BY <1>2, ObjectFields
  <2> QED
    BY <1>1, <1>2, <2>1, ObjectFields, NoneCapaAssumption
<1>4. StatusOK(capa[h])
  BY ObjectStatus DEF SInv, SerialInv, HeldInv
<1>5. g \in GrantsOf(h)
  BY DEF GrantsOf
<1>6. GrantsOf(h)' = GrantsOf(h) \ {g}
  <2>1. GrantsOf(h) = {GrantAs(h, y) : y \in capa[h].revoks}
    BY DEF GrantsOf
  <2>2. GrantsOf(h)' = {[domain |-> y.domain, start |-> capa[h].start, end |-> capa[h].end,
                         conf |-> s = "Paused"] : y \in capa[h].revoks \ {x}}
    BY <1>3 DEF GrantsOf, GrantAs
  <2>3. CASE capa[h].revoks \ {x} = {}
    <3>1. capa[h].revoks = {x}
      BY <2>3
    <3>2. GrantsOf(h) = {g}
      BY <2>1, <3>1
    <3>3. GrantsOf(h)' = {}
      BY <2>2, <2>3
    <3> QED
      BY <3>2, <3>3
  <2>4. CASE s = "Shared" /\ capa[h].status = "Shared"
    <3>1. (s = "Paused") = FALSE /\ (capa[h].status = "Paused") = FALSE
      BY <2>4
    <3>2. GrantsOf(h)' = {GrantAs(h, y) : y \in capa[h].revoks \ {x}}
      BY <2>2, <3>1 DEF GrantAs
    <3>3. \A y \in capa[h].revoks \ {x} : GrantAs(h, y) # g
      <4>1. \A y \in capa[h].revoks \ {x} : y.domain # x.domain
        BY <1>4 DEF StatusOK
      <4>2. \A y : GrantAs(h, y).domain = y.domain
        BY DEF GrantAs
      <4> QED
        BY <4>1, <4>2
    <3> HIDE DEF g
    <3> QED
      BY <2>1, <3>2, <3>3 DEF g
  <2> QED
    BY <2>3, <2>4 DEF Revokes
<1>7. \A k \in Handle \ {h} : GrantsOf(k)' = GrantsOf(k)
  BY <1>1 DEF GrantsOf, GrantAs
<1>8. \A k \in Handle \ {h} : g \notin GrantsOf(k)
  <2> SUFFICES ASSUME NEW k \in Handle \ {h}, g \in GrantsOf(k) PROVE FALSE
    OBVIOUS
  <2>1. /\ g.start = capa[h].start /\ g.end = capa[h].end /\ region[h].start < region[h].end
        /\ capa[h].start < capa[h].end
    BY <1>5, GrantFacts
  <2>2. Table!Overlap(g, g)
    BY <2>1 DEF Table!Overlap
  <2> HIDE DEF g
  <2> QED
    BY <2>1, <2>2, EntriesApart
<1> HIDE DEF g
<1>9. Grants' = Grants \ {g} /\ g \in Grants
  BY <1>5, <1>6, <1>7, <1>8, GrantsByObject
<1>10. g \in Table!Grant
  BY <1>5, GrantFacts
<1>11. Table!TakeBack(g)
  BY <1>9 DEF Table!TakeBack
<1> QED
  BY <1>10, <1>11 DEF Table!Next


\* The first objects have no entries.
LEMMA InitDomainGrants ==
  ASSUME SInv, InitDomain
  PROVE  Grants' = Grants
<1>1. ASSUME NEW h \in Handle
      PROVE  /\ capa[h] = None \/ capa[h].revoks = {}
             /\ capa'[h] = None \/ capa'[h].revoks = {}
  <2>1. capa[h] = None
    BY DEF InitDomain, SInv, IInv, BootOK
  <2>2. capa'[h] = None \/ \E x : capa'[h] = ReadCapa(x)
    BY DEF InitDomain
  <2>3. \A x : ReadCapa(x).revoks = {}
    BY DEF ReadCapa
  <2> QED
    BY <2>1, <2>2, <2>3
<1> QED
  BY <1>1, QuietGrants

\* Splits are of objects without entries.
LEMMA SplitGrants ==
  ASSUME SInv, NEW c \in Caller, TransferSplit(c) \/ TransferSplit2(c)
  PROVE  Grants' = Grants
<1>1. CASE Fail(c)
  BY <1>1, QuietGrants DEF Fail, libVars
<1>2. CASE ~Fail(c)
  <2>1. pc[c] \in InFlight /\ pc[c] \in {"split", "split2"}
    BY DEF TransferSplit, TransferSplit2, InFlight, TransferPcs
  <2>2. PICK h \in Handle : h = curr[c] /\ capa[h] # None
    BY <2>1, CurrType DEF SInv, IInv, LibInv, Holding, SerialInv, CallFacts, TransferFacts
  <2>3. args[c].start \in Addr /\ args[c].end \in Addr
    BY <2>1, ArgsType DEF SInv, IInv, Args
  <2>4. PICK addr \in Addr, h2 \in Handle : split_capa(h, addr, h2)
    BY <1>2, <2>2, <2>3 DEF TransferSplit, TransferSplit2
  <2>5. /\ capa[h].revoks = {} /\ capa'[h].revoks = {}
        /\ capa[h2] = None /\ capa'[h2].revoks = {}
        /\ \A g \in Handle \ {h, h2} : capa'[g] = capa[g]
    BY <2>2, <2>4, SplitHeld DEF SInv, SerialInv
  <2> QED
    BY <2>5, QuietGrants
<1> QED
  BY <1>1, <1>2

\* Merges are of objects without entries.
LEMMA MergedGrants ==
  ASSUME SInv, NEW h1 \in Handle, NEW h2 \in Handle,
         capa[h1] # None, capa[h2] # None, Merged(h1, h2)
  PROVE  Grants' = Grants
<1>1. /\ capa[h1].revoks = {} /\ capa[h2].revoks = {}
      /\ capa'[h1] = [capa[h1] EXCEPT !.end = capa[h2].end] /\ capa'[h2] = None
      /\ \A g \in Handle \ {h1, h2} : capa'[g] = capa[g]
  BY MergeHeld DEF SInv, SerialInv
<1>2. capa[h1] \in Capability
  BY ObjectFacts DEF SInv
<1>3. capa'[h1].revoks = {}
  BY <1>1, <1>2 DEF Capability
<1> QED
  BY <1>1, <1>3, QuietGrants

LEMMA MergeGrants ==
  ASSUME SInv, NEW c \in Caller, MergeLeft(c) \/ MergeRight(c)
  PROVE  Grants' = Grants
<1>1. pc[c] \in InFlight /\ pc[c] \in {"merge_left", "merge_right"} /\ RevokeFacts(c)
  BY DEF MergeLeft, MergeRight, InFlight, RevokePcs, SInv, SerialInv, CallFacts
<1>2. PICK h \in Handle : h = curr[c] /\ capa[h] # None
  BY <1>1, CurrType DEF SInv, IInv, LibInv, Holding, RevokeFacts
<1>3. CASE capa' = capa
  BY <1>3, QuietGrants
<1>4. CASE prev[c] # None /\ Merged(prev[c], curr[c])
  <2>1. PICK p \in Handle : p = prev[c] /\ capa[p] # None
    BY <1>1, <1>4 DEF SInv, IInv, CallTypeOK, RevokeFacts
  <2> QED
    BY <1>2, <1>4, <2>1, MergedGrants
<1>5. CASE next[c] # None /\ Merged(curr[c], next[c])
  <2>1. PICK n \in Handle : n = next[c] /\ capa[n] # None
    BY <1>1, <1>5 DEF SInv, IInv, CallTypeOK, RevokeFacts
  <2> QED
    BY <1>2, <1>5, <2>1, MergedGrants
<1>6. CASE MergeLeft(c)
  BY <1>3, <1>4, <1>6 DEF MergeLeft, Fail, libVars
<1>7. CASE MergeRight(c)
  BY <1>3, <1>5, <1>7 DEF MergeRight, libVars
<1> QED
  BY <1>6, <1>7

\* A grant or a share is an entry given, or refused without a trace.
LEMMA GiveGrants ==
  ASSUME SInv, NEW c \in Caller, TransferGrant(c) \/ TransferShare(c)
  PROVE  Table!Next \/ Grants' = Grants
<1>1. pc[c] \in InFlight /\ pc[c] = "give" /\ TransferFacts(c)
  BY DEF TransferGrant, TransferShare, InFlight, TransferPcs, SInv, SerialInv, CallFacts
<1>2. CASE Fail(c)
  BY <1>2, QuietGrants DEF Fail, libVars
<1>3. PICK h \in Handle : h = curr[c] /\ capa[h] # None /\ TransferAllowed(h, args[c].tpe)
  BY <1>1, CurrType DEF SInv, IInv, LibInv, Holding, TransferFacts
<1>4. ASSUME NEW r \in RevHandle, NEW s \in Status, Gives(c, h, r, s)
      PROVE  Table!Next
  BY <1>1, <1>3, <1>4, GivesGrant
<1>5. ASSUME args[c].tpe \in Confidentials, capa' = [capa EXCEPT ![h].status = "Active"],
             UNCHANGED monVars
      PROVE  Grants' = Grants
  <2>1. capa[h].status = "Active"
    BY <1>3, <1>5 DEF TransferAllowed
  <2>2. capa' = capa
    BY <1>3, <1>5, <2>1, RefusedHeld DEF SInv, SerialInv
  <2> QED
    BY <2>2, QuietGrants
<1>6. CASE TransferGrant(c)
  <2>1. "Paused" \in Status
    BY DEF Status
  <2> QED
    BY <1>2, <1>3, <1>4, <1>5, <1>6, <2>1 DEF TransferGrant, Gives
<1>7. CASE TransferShare(c)
  <2>1. "Shared" \in Status
    BY DEF Status
  <2> QED
    BY <1>2, <1>3, <1>4, <1>7, <2>1 DEF TransferShare, Gives
<1> QED
  BY <1>6, <1>7

\* A revocation is an entry taken back, or refused without a trace.
LEMMA RevokeGrants ==
  ASSUME SInv, NEW c \in Caller, RevokeFind(c)
  PROVE  Table!Next \/ Grants' = Grants
<1>1. CASE Fail(c)
  BY <1>1, QuietGrants DEF Fail, libVars
<1>2. CASE ~Fail(c)
  <2>1. PICK i \in DOMAIN list, s \in {"Active", "Shared"} :
          \E x \in capa[list[i]].revoks : Revokes(list[i], x, s, args[c])
    BY <1>2, RevokeFindEffect
  <2>2. PICK h \in Handle : h = list[i] /\ capa[h] # None
    BY Neighbours DEF SInv
  <2>3. PICK x \in capa[h].revoks : Revokes(h, x, s, args[c])
    BY <2>1, <2>2
  <2> QED
    BY <2>2, <2>3, RevokesGrant
<1> QED
  BY <1>1, <1>2

\* Every step of the serialised library is a step of the table or invisible to it.
LEMMA TableStep ==
  ASSUME SInv, [Next]_vars
  PROVE  [Table!Next]_Grants
<1>1. CASE InitDomain
  BY <1>1, InitDomainGrants
<1>2. CASE InitDomainFails \/ UNCHANGED vars
  BY <1>2, QuietGrants DEF InitDomainFails, vars, libVars
<1>3. ASSUME NEW c \in Caller, NEW d \in Domain, create_domain(c, d) \/ seal_domain(c, d)
      PROVE  Grants' = Grants
  BY <1>3, QuietGrants DEF create_domain, seal_domain, libVars
<1>4. ASSUME NEW c \in Caller, NEW d \in Domain, NEW q \in Ranges,
             \/ \E t \in Tpe : CallTransfer(c, d, q[1], q[2], t)
             \/ CallRevoke(c, d, q[1], q[2])
      PROVE  Grants' = Grants
  BY <1>4, QuietGrants DEF CallTransfer, CallRevoke, libVars
<1>5. ASSUME NEW c \in Caller, TransferFind(c) PROVE Grants' = Grants
  BY <1>5, QuietGrants DEF TransferFind, Fail, libVars
<1>6. ASSUME NEW c \in Caller, UseAfterFree(c) PROVE FALSE
  BY <1>6, SerialNoUseAfterFree
<1> QED
  BY <1>1, <1>2, <1>3, <1>4, <1>5, <1>6, SplitGrants, MergeGrants, GiveGrants, RevokeGrants
     DEF Next

\* With one call at a time, the library is a table of grants: ranges are given and
\* taken back as a whole, what is given confidentially is held by nobody else, and
\* splits, merges and refused vmcalls cannot be told from doing nothing.
THEOREM LibraryImplementsTable ==
  ASSUME Serialised
  PROVE  Spec => TableSpec
<1>1. Init => Table!Init
  BY DEF Init, Grants, Live, Table!Init
<1>2. SInv /\ [Next]_vars => [Table!Next]_Grants
  BY TableStep
<1> QED
  BY <1>1, <1>2, SerialInvariance, PTL DEF Spec, TableSpec, Table!Spec
=============================================================================
