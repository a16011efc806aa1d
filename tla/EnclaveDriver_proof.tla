------------------------- MODULE EnclaveDriver_proof -------------------------
(***************************************************************************)
(* What the driver keeps when any number of tasks issue ioctls at once,    *)
(* for any pages, domains and enclave_t objects.                           *)
(***************************************************************************)
EXTENDS EnclaveDriver, Lists_proof, TLAPS

\* The steps of an ioctl that has an enclave in the list in its hands.
LinkedSteps == {"create_domain", "commit_build", "commit_grant", "commit_seal",
                "delete_revoke", "delete_free", "transition"}

InList(o) == \E i \in DOMAIN enclaves : enclaves[i] = o

\* A pid belongs to one task, which is alive.
PidInv ==
  /\ \A t \in Task : pid[t] # None <=> task[t] = "alive"
  /\ \A t, u \in Task : pid[t] = pid[u] /\ pid[t] # None => t = u

\* The list holds live enclaves, each once; only the CREATE that has put an enclave
\* there sees it without a domain.
ListInv ==
  /\ \A i \in DOMAIN enclaves : encl[enclaves[i]] # None
  /\ \A i, j \in DOMAIN enclaves : enclaves[i] = enclaves[j] => i = j
  /\ \A i \in DOMAIN enclaves :
       \/ encl[enclaves[i]].dom # None
       \/ \E t \in Task : pc[t] = "create_domain" /\ cur[t] = enclaves[i]

\* A domain belongs to one enclave, and is not created again.
DomInv ==
  /\ \A o, p \in Live : encl[o].dom = encl[p].dom /\ encl[o].dom # None => o = p
  /\ \A o \in Live : encl[o].dom # None => doms[encl[o].dom] # "none"

\* What is granted is taken back as it was given.
GrantInv ==
  /\ \A g \in grants : g.start < g.end
  /\ \A g, h \in grants : Table!Overlap(g, h) /\ g # h =>
       ~g.conf /\ g.start = h.start /\ g.end = h.end

\* The page tables of an enclave are in its all_pages.
PtsInv ==
  \A o \in Live : \A p \in encl[o].pts : [page |-> p, conf |-> TRUE] \in encl[o].all_pages

\* An ioctl works on a live enclave with the pid of its task, which is in the list
\* from create_link on and has a domain from create_domain on.
CallInv(t) ==
  /\ cur[t] # None <=> pc[t] \in {"create_link"} \cup LinkedSteps
  /\ pc[t] \in Steps => pid[t] # None
  /\ cur[t] # None => encl[cur[t]] # None /\ encl[cur[t]].pid = pid[t]
  /\ pc[t] = "create_inc" => tmp[t] < MaxIds
  /\ pc[t] = "create_link" => ~InList(cur[t])
  /\ pc[t] \in LinkedSteps => InList(cur[t])
  /\ pc[t] \in {"create_link", "create_domain"} => encl[cur[t]].dom = None
  /\ pc[t] \in LinkedSteps \ {"create_domain"} => encl[cur[t]].dom # None

\* The loop of commit_enclave has granted the elements it has left behind.
CommitInv(t) ==
  /\ pc[t] \in {"commit_grant", "commit_seal"} =>
       /\ encl[cur[t]].regions \subseteq encl[cur[t]].all_pages
       /\ todo[t] \subseteq Elements(encl[cur[t]].all_pages)
       /\ \A x \in Elements(encl[cur[t]].all_pages) \ todo[t] : GrantOf(cur[t], x) \in grants
  /\ pc[t] = "commit_seal" => todo[t] = {}

Within(g, x) == x.start <= g.start /\ g.end <= x.end /\ g.conf = x.conf

\* The loop of delete_enclave has still to visit what the domain still holds.
DeleteInv(t) ==
  /\ pc[t] \in {"delete_revoke", "delete_free"} =>
       \A g \in grants : g.domain = encl[cur[t]].dom => \E x \in todo[t] : Within(g, x)
  /\ pc[t] = "delete_free" => todo[t] = {}

TaskInv(t) == CallInv(t) /\ CommitInv(t) /\ DeleteInv(t)

\* What concerns the enclaves and not the ioctls that work on them.
EnclaveInv == ListInv /\ DomInv /\ SealedEntersItself /\ GrantsAreTracked /\ GrantInv /\ PtsInv

\* The inductive invariant.
IInv == TypeOK /\ PidInv /\ EnclaveInv /\ \A t \in Task : TaskInv(t)

\* A step leaves the locals of task u alone.
Same(u) == pc'[u] = pc[u] /\ cur'[u] = cur[u] /\ tmp'[u] = tmp[u] /\ todo'[u] = todo[u]

\* The types of the locals.
CallType ==
  /\ pc \in [Task -> {"idle"} \cup Steps \cup {"uaf"}]
  /\ cur \in [Task -> Obj \cup {None}]
  /\ tmp \in [Task -> 0 .. MaxIds]
  /\ todo \in [Task -> SUBSET Element]

-----------------------------------------------------------------------------
\* The next element of a loop over all_pages is one that is left.
LEMMA LowestIn ==
  ASSUME NEW s \in SUBSET Element, s # {}
  PROVE  Lowest(s) \in s
<1> DEFINE S == {x.start : x \in s}
<1>1. S \in SUBSET Nat /\ S # {}
  BY PagesAssumption DEF Element, Addr
<1>2. PICK m \in S : \A k \in S : m <= k
  BY <1>1, LeastElement
<1>3. PICK x \in s : x.start = m
  BY <1>2
<1>4. \A y \in s : x.start <= y.start
  BY <1>2, <1>3
<1> QED
  BY <1>3, <1>4 DEF Lowest

\* Adjacent pages of one type lie in one element of all_pages: this is what lets
\* delete_enclave revoke by element what commit_enclave has granted by element.
LEMMA RunInElement ==
  ASSUME NEW s \in SUBSET Page, NEW a \in Addr, NEW b \in Addr, NEW c \in BOOLEAN, a < b,
         \A p \in a .. b - 1 : [page |-> p, conf |-> c] \in s
  PROVE  \E x \in Elements(s) : x.start <= a /\ b <= x.end /\ x.conf = c
<1> DEFINE In(p) == [page |-> p, conf |-> c] \in s
           Lo == {k \in 0 .. a : \A p \in k .. b - 1 : In(p)}
           Hi == {k \in Nat : k >= b /\ ~In(k)}
<1>0. a \in Nat /\ b \in Nat /\ b <= MaxPage + 1 /\ MaxPage \in Nat
  BY PagesAssumption DEF Addr
<1>1. \A p : In(p) => p \in 0 .. MaxPage
  <2>1. ASSUME NEW p, In(p) PROVE p \in 0 .. MaxPage
    <3>1. [page |-> p, conf |-> c] \in Page
      BY <2>1
    <3>2. p \in UserPage \cup PtPage
      BY <3>1 DEF Page
    <3> QED
      BY <3>2, PagesAssumption
  <2> QED
    BY <2>1
<1>2. \A p \in a .. b - 1 : In(p)
  OBVIOUS
<1> HIDE DEF In
<1>3. a \in Lo /\ Lo \in SUBSET Nat
  BY <1>0, <1>2
<1>4. PICK m \in Lo : \A k \in Lo : m <= k
  BY <1>3, LeastElement
<1>5. m \in Nat /\ m <= a /\ \A p \in m .. b - 1 : In(p)
  BY <1>0, <1>4
<1>6. ~In(m - 1)
  <2> SUFFICES ASSUME In(m - 1) PROVE FALSE
    OBVIOUS
  <2>1. m - 1 \in 0 .. a
    BY <1>0, <1>1, <1>5
  <2>2. \A p \in m - 1 .. b - 1 : In(p)
    BY <1>0, <1>5
  <2>3. m - 1 \in Lo
    BY <2>1, <2>2
  <2> QED
    BY <1>4, <1>5, <2>3
<1>7. MaxPage + 1 \in Hi /\ Hi \in SUBSET Nat
  BY <1>0, <1>1
<1>8. PICK n \in Hi : \A k \in Hi : n <= k
  BY <1>7, LeastElement
<1>9. n \in Nat /\ b <= n /\ n <= MaxPage + 1 /\ ~In(n)
  BY <1>0, <1>7, <1>8
<1>10. \A p \in m .. n - 1 : In(p)
  <2>1. ASSUME NEW p \in m .. n - 1, ~In(p) PROVE FALSE
    <3>1. p \in Nat /\ p >= b
      BY <1>0, <1>5, <1>9, <2>1
    <3>2. p \in Hi
      BY <2>1, <3>1
    <3> QED
      BY <1>8, <1>9, <3>1, <3>2
  <2> QED
    BY <2>1
<1> DEFINE x == [start |-> m, end |-> n, conf |-> c]
<1>11. x \in Element /\ x.start = m /\ x.end = n /\ x.conf = c
  BY <1>0, <1>5, <1>9 DEF Element, Addr
<1>12. m < n /\ m <= a /\ b <= n
  BY <1>0, <1>5, <1>9
<1> HIDE DEF x
<1>13. x \in Elements(s)
  BY <1>6, <1>9, <1>10, <1>11, <1>12 DEF Elements, In
<1> QED
  BY <1>11, <1>12, <1>13

\* find_enclave finds a live enclave in the list that has its domain and that no
\* ioctl has in its hands: nobody else has the caller's pid.
LEMMA FindEnclave ==
  ASSUME IInv, NEW t \in Task, NEW h, MayCall(t), find_enclave(t, h) # None
  PROVE  /\ find_enclave(t, h) \in Live
         /\ encl[find_enclave(t, h)].pid = pid[t]
         /\ encl[find_enclave(t, h)].dom # None
         /\ InList(find_enclave(t, h))
         /\ \A u \in Task : cur[u] # find_enclave(t, h)
<1> DEFINE hits == {i \in DOMAIN enclaves : encl[enclaves[i]].handle = h}
           first == CHOOSE i \in hits : \A j \in hits : i <= j
           o == find_enclave(t, h)
<1>1. hits # {} /\ o = enclaves[first] /\ encl[enclaves[first]].pid = pid[t]
  BY DEF find_enclave
<1>2. hits \in SUBSET Nat
  BY DEF IInv, TypeOK
<1>3. \E i \in hits : \A j \in hits : i <= j
  BY <1>1, <1>2, LeastElement
<1>4. first \in hits
  BY <1>3
<1> HIDE DEF first
<1>5. first \in DOMAIN enclaves
  BY <1>4
<1>6. o \in Obj /\ o \in Live /\ encl[o].pid = pid[t]
  BY <1>1, <1>5 DEF IInv, TypeOK, EnclaveInv, ListInv, Live
<1>7. \A u \in Task : cur[u] # o
  <2> SUFFICES ASSUME NEW u \in Task, cur[u] = o PROVE FALSE
    OBVIOUS
  <2>1. cur[u] # None
    BY <1>6, NoneAssumption
  <2>2. pid[u] = pid[t]
    BY <1>6, <2>1 DEF IInv, TaskInv, CallInv
  <2>3. u = t
    BY <2>2 DEF IInv, PidInv, MayCall
  <2> QED
    BY <2>1, <2>3 DEF IInv, TaskInv, CallInv, MayCall, LinkedSteps
<1>8. encl[o].dom # None
  BY <1>1, <1>5, <1>7 DEF IInv, EnclaveInv, ListInv
<1> QED
  BY <1>1, <1>5, <1>6, <1>7, <1>8 DEF InList

\* Two ioctls never have one enclave.
LEMMA OneAtATime ==
  ASSUME IInv, NEW t \in Task, NEW u \in Task, cur[t] = cur[u], cur[t] # None
  PROVE  t = u
<1>1. pid[t] = pid[u] /\ pid[t] # None
  BY DEF IInv, TaskInv, CallInv, LinkedSteps, Steps
<1> QED
  BY <1>1 DEF IInv, PidInv

\* What the list is after dll_remove of o.
LEMMA UnlinkedList ==
  ASSUME IInv, NEW o \in Obj, NEW k \in DOMAIN enclaves, enclaves[k] = o
  PROVE  /\ Unlinked(o) \in Seq(Obj)
         /\ \A j \in DOMAIN Unlinked(o) : Unlinked(o)[j] # o /\
              \E i \in DOMAIN enclaves : Unlinked(o)[j] = enclaves[i]
         /\ \A i \in DOMAIN enclaves : enclaves[i] # o =>
              \E j \in DOMAIN Unlinked(o) : Unlinked(o)[j] = enclaves[i]
         /\ \A i, j \in DOMAIN Unlinked(o) : Unlinked(o)[i] = Unlinked(o)[j] => i = j
<1> DEFINE n == Unlinked(o)
<1>0. enclaves \in Seq(Obj) /\ DOMAIN enclaves = 1 .. Len(enclaves) /\ Len(enclaves) \in Nat
  BY DEF IInv, TypeOK
<1>1. \A i, j \in DOMAIN enclaves : enclaves[i] = enclaves[j] => i = j
  BY DEF IInv, EnclaveInv, ListInv
<1>2. (CHOOSE i \in DOMAIN enclaves : enclaves[i] = o) = k
  BY <1>1
<1>3. n = Without(enclaves, k)
  BY <1>2 DEF Unlinked
<1> HIDE DEF n
<1>4. /\ n \in Seq(Obj) /\ Len(n) = Len(enclaves) - 1
      /\ \A j \in 1 .. Len(enclaves) - 1 :
           n[j] = IF j < k THEN enclaves[j] ELSE enclaves[j + 1]
  BY <1>0, <1>3, WithoutElement
<1>5. DOMAIN n = 1 .. Len(enclaves) - 1
  BY <1>4
<1>6. \A j \in DOMAIN n : n[j] # o /\ \E i \in DOMAIN enclaves : n[j] = enclaves[i]
  <2> SUFFICES ASSUME NEW j \in DOMAIN n
               PROVE  n[j] # o /\ \E i \in DOMAIN enclaves : n[j] = enclaves[i]
    OBVIOUS
  <2>1. CASE j < k
    BY <1>0, <1>1, <1>4, <1>5, <2>1
  <2>2. CASE ~(j < k)
    <3>1. j + 1 \in DOMAIN enclaves /\ j + 1 # k /\ n[j] = enclaves[j + 1]
      BY <1>0, <1>4, <1>5, <2>2
    <3> QED
      BY <1>1, <3>1
  <2> QED
    BY <2>1, <2>2
<1>7. \A i \in DOMAIN enclaves : enclaves[i] # o => \E j \in DOMAIN n : n[j] = enclaves[i]
  <2> SUFFICES ASSUME NEW i \in DOMAIN enclaves, enclaves[i] # o
               PROVE  \E j \in DOMAIN n : n[j] = enclaves[i]
    OBVIOUS
  <2>1. CASE i < k
    BY <1>0, <1>4, <1>5, <2>1
  <2>2. CASE i > k
    <3>1. i - 1 \in DOMAIN n /\ ~(i - 1 < k) /\ (i - 1) + 1 = i
      BY <1>0, <1>5, <2>2
    <3>2. n[i - 1] = enclaves[i]
      BY <1>4, <1>5, <3>1
    <3> QED
      BY <3>1, <3>2
  <2> QED
    BY <1>0, <2>1, <2>2
<1>8. \A i, j \in DOMAIN n : n[i] = n[j] => i = j
  <2> SUFFICES ASSUME NEW i \in DOMAIN n, NEW j \in DOMAIN n, n[i] = n[j]
               PROVE  i = j
    OBVIOUS
  <2> DEFINE at(x) == IF x < k THEN x ELSE x + 1
  <2>1. /\ n[i] = enclaves[at(i)] /\ at(i) \in DOMAIN enclaves
        /\ n[j] = enclaves[at(j)] /\ at(j) \in DOMAIN enclaves
    BY <1>0, <1>4, <1>5
  <2>2. at(i) = at(j)
    BY <1>1, <2>1
  <2> QED
    BY <1>0, <1>5, <2>2
<1> QED
  BY <1>4, <1>6, <1>7, <1>8 DEF n

-----------------------------------------------------------------------------
\* What a step must leave alone for an ioctl of another task to be undisturbed:
\* its locals, its enclave, whether that is in the list, and what its domain holds.
LEMMA Undisturbed ==
  ASSUME IInv, NEW u \in Task, Same(u), pid'[u] = pid[u],
         cur[u] # None =>
           /\ encl'[cur[u]] = encl[cur[u]]
           /\ InList(cur[u])' <=> InList(cur[u])
           /\ \A g : g.domain = encl[cur[u]].dom => (g \in grants' <=> g \in grants)
  PROVE  TaskInv(u)'
<1>0. TaskInv(u)
  BY DEF IInv
<1>1. CallInv(u)'
  BY <1>0 DEF Same, TaskInv, CallInv, LinkedSteps
<1>2. CommitInv(u)'
  <2> SUFFICES ASSUME pc[u] \in {"commit_grant", "commit_seal"} PROVE CommitInv(u)'
    BY DEF CommitInv, Same
  <2>1. cur[u] # None /\ encl'[cur[u]] = encl[cur[u]]
    BY <1>0 DEF TaskInv, CallInv, LinkedSteps
  <2>2. ASSUME NEW x PROVE GrantOf(cur[u], x)' = GrantOf(cur[u], x)
    BY <2>1 DEF GrantOf, Same
  <2>3. ASSUME NEW x, GrantOf(cur[u], x) \in grants
        PROVE  GrantOf(cur[u], x) \in grants'
    <3>1. GrantOf(cur[u], x).domain = encl[cur[u]].dom
      BY DEF GrantOf
    <3> QED
      BY <2>1, <2>3, <3>1
  <2> QED
    BY <1>0, <2>1, <2>2, <2>3 DEF TaskInv, CommitInv, Same
<1>3. DeleteInv(u)'
  BY <1>0 DEF Same, TaskInv, CallInv, DeleteInv, LinkedSteps
<1> QED
  BY <1>1, <1>2, <1>3 DEF TaskInv

\* The end of an ioctl.
LEMMA Returned ==
  ASSUME IInv, NEW t \in Task, NEW where \in {"idle", "uaf"}, Return(t, where)
  PROVE  /\ CallType' /\ TaskInv(t)' /\ \A u \in Task \ {t} : Same(u)
         /\ pc'[t] = where /\ cur'[t] = None
<1>0. CallType
  BY DEF IInv, TypeOK, CallType
<1>1. CallType'
  <2>1. 0 \in 0 .. MaxIds
    BY PagesAssumption
  <2> QED
    BY <1>0, <2>1 DEF CallType, Return
<1>2. pc'[t] = where /\ cur'[t] = None
  BY <1>0 DEF CallType, Return
<1>3. \A u \in Task \ {t} : Same(u)
  BY <1>0 DEF CallType, Return, Same
<1>4. TaskInv(t)'
  BY <1>2 DEF TaskInv, CallInv, CommitInv, DeleteInv, LinkedSteps, Steps
<1> QED
  BY <1>1, <1>2, <1>3, <1>4

\* The move of an ioctl to its next step.
LEMMA Moved ==
  ASSUME IInv, NEW t \in Task, NEW step \in Steps, NEW o \in Obj, NEW s \in SUBSET Element,
         Goto(t, step), cur' = [cur EXCEPT ![t] = o], todo' = [todo EXCEPT ![t] = s],
         UNCHANGED tmp
  PROVE  /\ CallType' /\ \A u \in Task \ {t} : Same(u)
         /\ pc'[t] = step /\ cur'[t] = o /\ todo'[t] = s
<1>0. CallType
  BY DEF IInv, TypeOK, CallType
<1> QED
  BY <1>0 DEF CallType, Goto, Same

\* What a call may do to an enclave: it keeps its pid and its domain, all_pages
\* does not shrink, and invoke is set when the domain is sealed.
Updates(o, e) ==
  /\ e \in Enclave /\ e.pid = encl[o].pid /\ e.dom = encl[o].dom
  /\ encl[o].all_pages \subseteq e.all_pages
  /\ \A p \in e.pts : [page |-> p, conf |-> TRUE] \in e.all_pages
  /\ encl' = [encl EXCEPT ![o] = e]
  /\ \/ UNCHANGED doms /\ e.invoke \in {encl[o].invoke, None}
     \/ doms' = [doms EXCEPT ![e.dom] = "sealed"] /\ e.invoke = e.dom

\* Such an update keeps the invariant of the enclaves.
LEMMA Updated ==
  ASSUME IInv, NEW o \in Live, NEW e, Updates(o, e),
         UNCHANGED <<enclaves, grants>>,
         \A u \in Task : pc[u] = "create_domain" => pc'[u] = pc[u] /\ cur'[u] = cur[u]
  PROVE  /\ EnclaveInv' /\ encl' \in [Obj -> Enclave \cup {None}]
         /\ doms' \in [Dom -> {"none", "created", "sealed"}]
         /\ Live' = Live /\ encl'[o] = e
         /\ \A p \in Live : encl'[p] # None /\ encl'[p].dom = encl[p].dom
         /\ \A p \in Obj \ {o} : encl'[p] = encl[p]
<1> USE DEF Updates
<1>0. /\ encl \in [Obj -> Enclave \cup {None}] /\ enclaves \in Seq(Obj)
      /\ o \in Obj /\ encl[o] \in Enclave
  BY DEF IInv, TypeOK, Live
<1>1. encl' \in [Obj -> Enclave \cup {None}]
  BY <1>0
<1>2. encl'[o] = e /\ e # None /\ \A p \in Obj \ {o} : encl'[p] = encl[p]
  BY <1>0, NoneAssumption
<1>3. Live' = Live
  BY <1>2 DEF Live
<1>4. \A p \in Live : encl'[p] # None /\ encl'[p].dom = encl[p].dom /\ p \in Obj
  BY <1>2 DEF Live
<1>5. ListInv'
  <2>1. \A i \in DOMAIN enclaves : enclaves[i] \in Live
    BY <1>0 DEF IInv, EnclaveInv, ListInv, Live
  <2> QED
    BY <1>4, <2>1 DEF IInv, EnclaveInv, ListInv
<1>6. /\ doms \in [Dom -> {"none", "created", "sealed"}]
      /\ doms' \in [Dom -> {"none", "created", "sealed"}]
      /\ \A d \in Dom : doms[d] # "none" => doms'[d] # "none"
      /\ \A p \in Live : encl[p].dom \in Dom \cup {None}
  <2>1. doms \in [Dom -> {"none", "created", "sealed"}]
    BY DEF IInv, TypeOK
  <2>2. \A p \in Live : encl[p].dom \in Dom \cup {None}
    BY <1>0 DEF Live, Enclave
  <2> QED
    BY <2>1, <2>2
<1>7. DomInv'
  BY <1>3, <1>4, <1>6 DEF IInv, EnclaveInv, DomInv
<1>8. SealedEntersItself'
  <2> SUFFICES ASSUME NEW p \in Live, encl'[p].dom # None, doms'[encl'[p].dom] = "sealed"
               PROVE  encl'[p].invoke \in {encl'[p].dom, None}
    BY <1>3 DEF SealedEntersItself, Sealed
  <2>1. encl[p].dom # None /\ encl[p].dom \in Dom /\ encl'[p].dom = encl[p].dom
    BY <1>4, <1>6
  <2>2. CASE p = o
    BY <1>2, <2>1, <2>2 DEF IInv, EnclaveInv, SealedEntersItself, Sealed
  <2>3. CASE p # o
    <3>1. encl[p].dom # e.dom
      BY <2>1, <2>3 DEF IInv, EnclaveInv, DomInv
    <3>2. doms[encl[p].dom] = "sealed"
      BY <1>6, <2>1, <3>1
    <3> QED
      BY <1>2, <1>4, <2>1, <2>3, <3>2 DEF IInv, EnclaveInv, SealedEntersItself, Sealed
  <2> QED
    BY <2>2, <2>3
<1>9. GrantsAreTracked'
  <2> SUFFICES ASSUME NEW g \in grants
               PROVE  \E p \in Live : /\ encl'[p].dom = g.domain
                                      /\ \A q \in g.start .. g.end - 1 :
                                           [page |-> q, conf |-> g.conf] \in encl'[p].all_pages
    BY <1>3 DEF GrantsAreTracked
  <2>1. PICK p \in Live : /\ encl[p].dom = g.domain
                          /\ \A q \in g.start .. g.end - 1 :
                               [page |-> q, conf |-> g.conf] \in encl[p].all_pages
    BY DEF IInv, EnclaveInv, GrantsAreTracked
  <2>2. encl[p].all_pages \subseteq encl'[p].all_pages
    BY <1>2, <1>4
  <2> QED
    BY <1>4, <2>1, <2>2
<1>10. GrantInv'
  BY DEF IInv, EnclaveInv, GrantInv
<1>11. PtsInv'
  BY <1>2, <1>3, <1>4 DEF IInv, EnclaveInv, PtsInv
<1> QED
  BY <1>1, <1>2, <1>3, <1>4, <1>5, <1>6, <1>7, <1>8, <1>9,
     <1>10, <1>11 DEF EnclaveInv

\* A call that leaves the enclaves alone keeps their invariant, unless it is the
\* one whose result makes an enclave of the list complete.
LEMMA EnclavesKept ==
  ASSUME IInv, UNCHANGED <<enclaves, encl, grants, doms>>,
         \A u \in Task : pc[u] = "create_domain" => pc'[u] = pc[u] /\ cur'[u] = cur[u]
  PROVE  EnclaveInv'
<1>1. ListInv'
  BY DEF IInv, EnclaveInv, ListInv
<1>2. DomInv' /\ SealedEntersItself' /\ PtsInv'
  BY DEF IInv, EnclaveInv, DomInv, SealedEntersItself, Sealed, PtsInv, Live
<1>3. GrantsAreTracked' /\ GrantInv'
  BY DEF IInv, EnclaveInv, GrantsAreTracked, GrantInv, Live
<1> QED
  BY <1>1, <1>2, <1>3 DEF EnclaveInv

\* An ioctl that returns and leaves everything as it is.
LEMMA JustReturned ==
  ASSUME IInv, NEW t \in Task, NEW where \in {"idle", "uaf"}, pc[t] # "create_domain",
         Return(t, where), UNCHANGED <<envVars, memVars, listVars, encl>>
  PROVE  IInv'
<1> USE DEF envVars, memVars, listVars
<1>1. CallType' /\ TaskInv(t)' /\ \A u \in Task \ {t} : Same(u)
  BY Returned
<1>2. TypeOK' /\ PidInv'
  BY <1>1 DEF IInv, TypeOK, CallType, PidInv
<1>3. EnclaveInv'
  BY <1>1, EnclavesKept DEF Same
<1>4. ASSUME NEW u \in Task \ {t} PROVE TaskInv(u)'
  BY <1>1, Undisturbed DEF InList, Same
<1> QED
  BY <1>1, <1>2, <1>3, <1>4 DEF IInv

\* An ioctl that returns after an update of its enclave.
LEMMA UpdatedReturned ==
  ASSUME IInv, NEW t \in Task, NEW o \in Live, NEW e, Updates(o, e),
         \A u \in Task \ {t} : cur[u] # o, pc[t] # "create_domain",
         Return(t, "idle"), free' \subseteq PtPage,
         UNCHANGED <<envVars, grants, listVars>>
  PROVE  IInv'
<1> USE DEF envVars, listVars
<1>1. CallType' /\ TaskInv(t)' /\ \A u \in Task \ {t} : Same(u)
  BY Returned
<1>2. /\ EnclaveInv' /\ encl' \in [Obj -> Enclave \cup {None}]
      /\ doms' \in [Dom -> {"none", "created", "sealed"}]
      /\ \A p \in Obj \ {o} : encl'[p] = encl[p]
  BY <1>1, Updated DEF Same
<1>3. TypeOK' /\ PidInv'
  BY <1>1, <1>2 DEF IInv, TypeOK, CallType, PidInv
<1>4. ASSUME NEW u \in Task \ {t} PROVE TaskInv(u)'
  <2>1. cur[u] # None => encl'[cur[u]] = encl[cur[u]]
    BY <1>2 DEF IInv, TypeOK
  <2> QED
    BY <1>1, <2>1, Undisturbed DEF InList, Same
<1> QED
  BY <1>1, <1>2, <1>3, <1>4 DEF IInv

\* The failure label of commit_enclave, for an enclave that only the caller has
\* and that the call has changed to e so far.
LEMMA CommitFailed ==
  ASSUME IInv, NEW t \in Task, NEW o \in Live, NEW e \in Enclave,
         e.pid = encl[o].pid, e.dom = encl[o].dom, e.invoke = encl[o].invoke,
         encl[o].all_pages \subseteq e.all_pages,
         \A u \in Task \ {t} : cur[u] # o, pc[t] # "create_domain",
         CommitFail(t, o, e)
  PROVE  IInv'
<1> DEFINE f == [e EXCEPT !.pas = IF @ = "live" THEN "freed" ELSE @, !.pts = {}]
<1>1. /\ f \in Enclave /\ f.pid = e.pid /\ f.dom = e.dom /\ f.invoke = e.invoke
      /\ f.all_pages = e.all_pages /\ f.pts = {}
  BY DEF Enclave
<1>2. encl' = [encl EXCEPT ![o] = f]
  BY DEF CommitFail
<1> HIDE DEF f
<1>3. Updates(o, f)
  BY <1>1, <1>2 DEF Updates, CommitFail
<1>4. free' \subseteq PtPage
  BY DEF CommitFail, Enclave, IInv, TypeOK
<1> QED
  BY <1>3, <1>4, UpdatedReturned DEF CommitFail

-----------------------------------------------------------------------------
\* The kernel gives a pid to one task at a time.
LEMMA SpawnStep ==
  ASSUME IInv, NEW t \in Task, NEW p \in Pid, Spawn(t, p)
  PROVE  IInv'
<1> USE DEF Spawn, memVars, listVars, callVars
<1>1. TypeOK'
  BY DEF IInv, TypeOK
<1>2. PidInv' /\ pid[t] = None
  BY NoneAssumption DEF IInv, TypeOK, PidInv
<1>3. EnclaveInv'
  BY EnclavesKept
<1>4. ASSUME NEW u \in Task PROVE TaskInv(u)'
  <2>1. CASE u = t
    <3>1. pc[t] \in {"idle", "uaf"} /\ cur[t] = None
      BY <1>2 DEF IInv, TypeOK, TaskInv, CallInv, LinkedSteps, Steps
    <3> QED
      BY <2>1, <3>1 DEF TaskInv, CallInv, CommitInv, DeleteInv, LinkedSteps, Steps
  <2>2. CASE u # t
    <3>1. pid'[u] = pid[u]
      BY <2>2 DEF IInv, TypeOK
    <3> QED
      BY <3>1, Undisturbed DEF Same, InList
  <2> QED
    BY <2>1, <2>2
<1> QED
  BY <1>1, <1>2, <1>3, <1>4 DEF IInv

\* A task exits between two ioctls: its enclaves stay, and no ioctl has them.
LEMMA ExitStep ==
  ASSUME IInv, NEW t \in Task, Exit(t)
  PROVE  IInv'
<1> USE DEF Exit, memVars, listVars, callVars
<1>1. TypeOK'
  BY DEF IInv, TypeOK
<1>2. PidInv'
  BY DEF IInv, TypeOK, PidInv
<1>3. EnclaveInv'
  BY EnclavesKept
<1>4. ASSUME NEW u \in Task PROVE TaskInv(u)'
  <2>1. CASE u = t
    <3>1. cur[t] = None
      BY DEF IInv, TaskInv, CallInv, LinkedSteps
    <3> QED
      BY <2>1, <3>1 DEF TaskInv, CallInv, CommitInv, DeleteInv, LinkedSteps, Steps
  <2>2. CASE u # t
    <3>1. pid'[u] = pid[u]
      BY <2>2 DEF IInv, TypeOK
    <3> QED
      BY <3>1, Undisturbed DEF Same, InList
  <2> QED
    BY <2>1, <2>2
<1> QED
  BY <1>1, <1>2, <1>3, <1>4 DEF IInv

\* The load of tyche_ids++.
LEMMA IoctlCreateStep ==
  ASSUME IInv, NEW t \in Task, IoctlCreate(t)
  PROVE  IInv'
<1> USE DEF IoctlCreate, MayCall, Goto, envVars, memVars, listVars
<1>1. /\ tmp' = [tmp EXCEPT ![t] = tyche_ids] /\ pc' = [pc EXCEPT ![t] = "create_inc"]
      /\ pc'[t] = "create_inc" /\ tmp'[t] = tyche_ids /\ cur[t] = None /\ pid[t] # None
  BY DEF IInv, TypeOK, PidInv, TaskInv, CallInv, LinkedSteps
<1>2. \A u \in Task \ {t} : Same(u)
  BY DEF IInv, TypeOK, Same
<1>3. TypeOK' /\ PidInv'
  BY <1>1 DEF IInv, TypeOK, PidInv, Steps
<1>4. EnclaveInv'
  BY <1>2, EnclavesKept DEF Same
<1>5. TaskInv(t)'
  BY <1>1 DEF TaskInv, CallInv, CommitInv, DeleteInv, LinkedSteps
<1>6. ASSUME NEW u \in Task \ {t} PROVE TaskInv(u)'
  BY <1>2, Undisturbed DEF InList
<1> QED
  BY <1>3, <1>4, <1>5, <1>6 DEF IInv

\* The store of tyche_ids++, which may write an older value.
LEMMA CreateIncStep ==
  ASSUME IInv, NEW t \in Task, CreateInc(t)
  PROVE  IInv'
<1> USE DEF CreateInc, Goto, envVars, memVars
<1>1. /\ pc'[t] = "create_check" /\ cur[t] = None /\ pid[t] # None
      /\ tmp[t] < MaxIds /\ tmp[t] \in 0 .. MaxIds
  BY DEF IInv, TypeOK, TaskInv, CallInv, LinkedSteps, Steps
<1>2. \A u \in Task \ {t} : Same(u)
  BY DEF IInv, TypeOK, Same
<1>3. tyche_ids' \in 0 .. MaxIds
  BY <1>1, PagesAssumption
<1>4. TypeOK' /\ PidInv'
  BY <1>3 DEF IInv, TypeOK, PidInv, Steps
<1>5. EnclaveInv'
  BY <1>2, EnclavesKept DEF Same
<1>6. TaskInv(t)'
  BY <1>1 DEF TaskInv, CallInv, CommitInv, DeleteInv, LinkedSteps
<1>7. ASSUME NEW u \in Task \ {t} PROVE TaskInv(u)'
  BY <1>2, Undisturbed DEF InList
<1> QED
  BY <1>4, <1>5, <1>6, <1>7 DEF IInv

\* add_enclave sets up an object that nobody uses.
LEMMA CreateCheckStep ==
  ASSUME IInv, NEW t \in Task, CreateCheck(t)
  PROVE  IInv'
<1> USE DEF CreateCheck, envVars, memVars, listVars
<1>1. CASE Fail(t)
  BY <1>1, JustReturned DEF Fail
<1>2. ASSUME NEW o \in Obj, NEW junk \in Dom \cup {None}, encl[o] = None,
             encl' = [encl EXCEPT ![o] =
               [handle |-> tmp[t], pid |-> pid[t], dom |-> None,
                regions |-> {}, pas |-> "none", pts |-> {},
                all_pages |-> {}, invoke |-> junk]],
             cur' = [cur EXCEPT ![t] = o], Goto(t, "create_link"),
             UNCHANGED <<envVars, memVars, listVars, tmp, todo>>
      PROVE  IInv'
  <2> DEFINE e == [handle |-> tmp[t], pid |-> pid[t], dom |-> None,
                   regions |-> {}, pas |-> "none", pts |-> {},
                   all_pages |-> {}, invoke |-> junk]
  <2>0. /\ encl \in [Obj -> Enclave \cup {None}] /\ enclaves \in Seq(Obj)
        /\ cur \in [Task -> Obj \cup {None}] /\ pid[t] # None
    BY DEF IInv, TypeOK, TaskInv, CallInv, Steps
  <2>1. e \in Enclave
    BY <1>2, <2>0 DEF IInv, TypeOK, Enclave
  <2>2. e.pid = pid[t] /\ e.dom = None /\ e.pts = {} /\ encl' = [encl EXCEPT ![o] = e]
    BY <1>2
  <2> HIDE DEF e
  <2>3. /\ encl' \in [Obj -> Enclave \cup {None}] /\ encl'[o] = e /\ e # None
        /\ \A p \in Obj \ {o} : encl'[p] = encl[p]
    BY <2>0, <2>1, <2>2, NoneAssumption
  <2>4. /\ CallType' /\ pc'[t] = "create_link" /\ cur'[t] = o
        /\ \A u \in Task \ {t} : Same(u)
    BY <1>2 DEF IInv, TypeOK, CallType, Goto, Steps, Same
  <2>5. TypeOK' /\ PidInv'
    BY <1>2, <2>3, <2>4 DEF IInv, TypeOK, CallType, PidInv
  <2>6. \A i \in DOMAIN enclaves : enclaves[i] \in Obj \ {o}
    BY <1>2, <2>0 DEF IInv, EnclaveInv, ListInv
  <2>7. \A p \in Live : p \in Obj \ {o} /\ encl'[p] = encl[p] /\ p \in Live'
    BY <1>2, <2>3 DEF Live
  <2>8. \A p \in Live' : p = o \/ p \in Live
    BY <2>3 DEF Live
  <2>9. EnclaveInv'
    <3>1. ListInv'
      BY <1>2, <2>3, <2>4, <2>6 DEF IInv, EnclaveInv, ListInv, Same
    <3>2. DomInv'
      BY <1>2, <2>2, <2>3, <2>7, <2>8 DEF IInv, EnclaveInv, DomInv
    <3>3. SealedEntersItself'
      BY <1>2, <2>2, <2>3, <2>7, <2>8 DEF IInv, EnclaveInv, SealedEntersItself, Sealed
    <3>4. GrantsAreTracked'
      BY <1>2, <2>7 DEF IInv, EnclaveInv, GrantsAreTracked
    <3>5. GrantInv'
      BY <1>2 DEF IInv, EnclaveInv, GrantInv
    <3>6. PtsInv'
      BY <2>2, <2>3, <2>7, <2>8 DEF IInv, EnclaveInv, PtsInv
    <3> QED
      BY <3>1, <3>2, <3>3, <3>4, <3>5, <3>6 DEF EnclaveInv
  <2>10. TaskInv(t)'
    <3>1. ~InList(o)'
      BY <1>2, <2>6 DEF InList
    <3> QED
      BY <1>2, <2>0, <2>2, <2>3, <2>4, <3>1, NoneAssumption
         DEF TaskInv, CallInv, CommitInv, DeleteInv, LinkedSteps, InList
  <2>11. ASSUME NEW u \in Task \ {t} PROVE TaskInv(u)'
    <3>1. cur[u] # None => cur[u] \in Live
      BY <2>0 DEF IInv, TaskInv, CallInv, Live
    <3> QED
      BY <1>2, <2>4, <2>7, <3>1, Undisturbed DEF InList, Same
  <2> QED
    BY <2>5, <2>9, <2>10, <2>11 DEF IInv
<1> QED
  BY <1>1, <1>2

\* dll_add of the new enclave, which is not in the list.
LEMMA CreateLinkStep ==
  ASSUME IInv, NEW t \in Task, CreateLink(t)
  PROVE  IInv'
<1> USE DEF CreateLink, Goto, envVars, memVars
<1> DEFINE o == cur[t]
<1>0. /\ enclaves \in Seq(Obj) /\ o \in Obj /\ o # None /\ encl[o] # None
      /\ encl[o].dom = None /\ encl[o].pid = pid[t] /\ pid[t] # None /\ ~InList(o)
  BY DEF IInv, TypeOK, TaskInv, CallInv, LinkedSteps, Steps
<1>1. /\ enclaves' \in Seq(Obj) /\ Len(enclaves') = Len(enclaves) + 1
      /\ \A k \in 1 .. Len(enclaves) + 1 :
           enclaves'[k] = IF k = Len(enclaves) + 1 THEN o ELSE enclaves[k]
  BY <1>0, AppendElement
<1>2. DOMAIN enclaves = 1 .. Len(enclaves) /\ DOMAIN enclaves' = 1 .. Len(enclaves) + 1
      /\ Len(enclaves) \in Nat
  BY <1>0, <1>1
<1>3. pc'[t] = "create_domain" /\ cur'[t] = o /\ \A u \in Task \ {t} : Same(u)
  BY DEF IInv, TypeOK, Same
<1>4. TypeOK' /\ PidInv'
  BY <1>1 DEF IInv, TypeOK, PidInv, Steps
<1>5. InList(o)' /\ \A p : p # o => (InList(p)' <=> InList(p))
  BY <1>1, <1>2 DEF InList
<1>6. EnclaveInv'
  <2>1. \A i \in DOMAIN enclaves' :
          (i \in DOMAIN enclaves /\ enclaves'[i] = enclaves[i])
          \/ (i = Len(enclaves) + 1 /\ enclaves'[i] = o)
    BY <1>1, <1>2
  <2>2. \A i, j \in DOMAIN enclaves' : enclaves'[i] = enclaves'[j] => i = j
    BY <1>0, <2>1 DEF IInv, EnclaveInv, ListInv, InList
  <2>3. ListInv'
    BY <1>0, <1>3, <2>1, <2>2 DEF IInv, EnclaveInv, ListInv, Same
  <2>4. DomInv' /\ SealedEntersItself' /\ PtsInv'
    BY DEF IInv, EnclaveInv, DomInv, SealedEntersItself, Sealed, PtsInv, Live
  <2>5. GrantsAreTracked' /\ GrantInv'
    BY DEF IInv, EnclaveInv, GrantsAreTracked, GrantInv, Live
  <2> QED
    BY <2>3, <2>4, <2>5 DEF EnclaveInv
<1>7. TaskInv(t)'
  BY <1>0, <1>3, <1>5 DEF TaskInv, CallInv, CommitInv, DeleteInv, LinkedSteps
<1>8. ASSUME NEW u \in Task \ {t} PROVE TaskInv(u)'
  <2>1. cur[u] # None => cur[u] # o
    BY OneAtATime
  <2> QED
    BY <1>3, <1>5, <2>1, Undisturbed DEF Same
<1> QED
  BY <1>4, <1>6, <1>7, <1>8 DEF IInv

\* tyche_domain_create gives the enclave a domain nobody has, or the enclave
\* leaves the list.
LEMMA CreateDomainStep ==
  ASSUME IInv, NEW t \in Task, CreateDomain(t)
  PROVE  IInv'
<1> USE DEF CreateDomain, envVars, memVars, listVars
<1> DEFINE o == cur[t]
<1>0. /\ encl \in [Obj -> Enclave \cup {None}] /\ enclaves \in Seq(Obj)
      /\ o \in Obj /\ o # None /\ encl[o] # None /\ encl[o] \in Enclave
      /\ encl[o].dom = None /\ InList(o)
  BY DEF IInv, TypeOK, TaskInv, CallInv, LinkedSteps
<1>1. CallType' /\ TaskInv(t)' /\ \A u \in Task \ {t} : Same(u)
  BY Returned
<1>2. \A u \in Task \ {t} : cur[u] # o
  BY <1>0, OneAtATime
<1>3. ASSUME NEW d \in Dom, doms[d] = "none", doms' = [doms EXCEPT ![d] = "created"],
             encl' = [encl EXCEPT ![cur[t]].dom = d],
             UNCHANGED <<envVars, grants, free, listVars>>
      PROVE  IInv'
  <2> DEFINE e == [encl[o] EXCEPT !.dom = d]
  <2>1. /\ e \in Enclave /\ e.dom = d /\ e.pid = encl[o].pid /\ e.pts = encl[o].pts
        /\ e.all_pages = encl[o].all_pages
    BY <1>0 DEF Enclave
  <2>2. encl' = [encl EXCEPT ![o] = e]
    BY <1>0, <1>3
  <2> HIDE DEF e
  <2>3. /\ encl' \in [Obj -> Enclave \cup {None}] /\ encl'[o] = e /\ e # None
        /\ \A p \in Obj \ {o} : encl'[p] = encl[p]
    BY <1>0, <2>1, <2>2, NoneAssumption
  <2>4. doms' \in [Dom -> {"none", "created", "sealed"}] /\ doms'[d] = "created"
        /\ \A c \in Dom \ {d} : doms'[c] = doms[c]
    BY <1>3 DEF IInv, TypeOK
  <2>5. TypeOK' /\ PidInv'
    BY <1>1, <1>3, <2>3, <2>4 DEF IInv, TypeOK, CallType, PidInv
  <2>6. Live' = Live /\ o \in Live
    BY <1>0, <2>3 DEF Live
  <2>7. \A p \in Live : p # o => encl'[p] = encl[p]
    BY <2>3 DEF Live
  <2>8. \A p \in Live : encl[p].dom \in Dom \cup {None}
    BY <1>0 DEF Live, Enclave
  <2>9. \A p \in Live : encl[p].dom # d
    BY <1>3, NoneAssumption DEF IInv, EnclaveInv, DomInv
  <2>10. EnclaveInv'
    <3>1. \A i \in DOMAIN enclaves : enclaves[i] \in Live
      BY <1>0 DEF IInv, EnclaveInv, ListInv, Live
    <3>2. ListInv'
      <4>1. \A i \in DOMAIN enclaves : encl'[enclaves[i]] # None
        BY <2>3, <2>7, <3>1 DEF Live
      <4>2. ASSUME NEW i \in DOMAIN enclaves
            PROVE  \/ encl'[enclaves[i]].dom # None
                   \/ \E u \in Task : pc'[u] = "create_domain" /\ cur'[u] = enclaves[i]
        <5>1. CASE enclaves[i] = o
          BY <2>1, <2>3, <5>1, NoneAssumption
        <5>2. CASE enclaves[i] # o
          BY <1>1, <2>7, <3>1, <5>2 DEF IInv, EnclaveInv, ListInv, Same
        <5> QED
          BY <5>1, <5>2
      <4> QED
        BY <1>3, <4>1, <4>2 DEF IInv, EnclaveInv, ListInv
    <3>3. DomInv'
      BY <2>1, <2>3, <2>4, <2>6, <2>7, <2>8, <2>9 DEF IInv, EnclaveInv, DomInv
    <3>4. SealedEntersItself'
      BY <2>1, <2>3, <2>4, <2>6, <2>7, <2>8, <2>9
         DEF IInv, EnclaveInv, SealedEntersItself, Sealed
    <3>5. GrantsAreTracked'
      <4>1. \A g \in grants : g.domain # None
        BY NoneAssumption DEF IInv, TypeOK, Table!Grant
      <4> QED
        BY <1>0, <1>3, <2>6, <2>7, <4>1 DEF IInv, EnclaveInv, GrantsAreTracked
    <3>6. GrantInv'
      BY <1>3 DEF IInv, EnclaveInv, GrantInv
    <3>7. PtsInv'
      BY <2>1, <2>3, <2>6, <2>7 DEF IInv, EnclaveInv, PtsInv
    <3> QED
      BY <3>2, <3>3, <3>4, <3>5, <3>6, <3>7 DEF EnclaveInv
  <2>11. ASSUME NEW u \in Task \ {t} PROVE TaskInv(u)'
    <3>1. cur[u] # None => encl'[cur[u]] = encl[cur[u]]
      BY <1>2, <2>3 DEF IInv, TypeOK
    <3> QED
      BY <1>1, <1>3, <3>1, Undisturbed DEF InList, Same
  <2> QED
    BY <1>1, <2>5, <2>10, <2>11 DEF IInv
<1>4. CASE enclaves' = Unlinked(cur[t]) /\ UNCHANGED <<envVars, memVars, tyche_ids, encl>>
  <2>0. /\ enclaves' \in Seq(Obj)
        /\ \A j \in DOMAIN enclaves' : enclaves'[j] # o /\
             \E i \in DOMAIN enclaves : enclaves'[j] = enclaves[i]
        /\ \A i \in DOMAIN enclaves : enclaves[i] # o =>
             \E j \in DOMAIN enclaves' : enclaves'[j] = enclaves[i]
        /\ \A i, j \in DOMAIN enclaves' : enclaves'[i] = enclaves'[j] => i = j
    BY <1>0, <1>4, UnlinkedList DEF InList
  <2>1. TypeOK' /\ PidInv'
    BY <1>1, <1>4, <2>0 DEF IInv, TypeOK, CallType, PidInv
  <2>2. EnclaveInv'
    <3>1. ListInv'
      BY <1>1, <1>4, <2>0 DEF IInv, EnclaveInv, ListInv, Same
    <3>2. DomInv' /\ SealedEntersItself' /\ PtsInv'
      BY <1>4 DEF IInv, EnclaveInv, DomInv, SealedEntersItself, Sealed, PtsInv, Live
    <3>3. GrantsAreTracked' /\ GrantInv'
      BY <1>4 DEF IInv, EnclaveInv, GrantsAreTracked, GrantInv, Live
    <3> QED
      BY <3>1, <3>2, <3>3 DEF EnclaveInv
  <2>3. ASSUME NEW u \in Task \ {t} PROVE TaskInv(u)'
    <3>1. cur[u] # o /\ cur'[u] = cur[u]
      BY <1>1, <1>2 DEF Same
    <3>2. InList(cur[u])' <=> InList(cur[u])
      BY <2>0, <3>1 DEF InList
    <3> QED
      BY <1>1, <1>4, <3>2, Undisturbed
  <2> QED
    BY <1>1, <2>1, <2>2, <2>3 DEF IInv
<1> QED
  BY <1>3, <1>4

\* A region is added to an enclave that only the caller has.
LEMMA AddRegionStep ==
  ASSUME IInv, NEW t \in Task, NEW h, NEW x \in Asked, AddRegion(t, h, x)
  PROVE  IInv'
<1> USE DEF AddRegion, envVars, memVars, listVars
<1> DEFINE o == find_enclave(t, h)
<1>1. CASE Fail(t)
  BY <1>1, JustReturned DEF Fail, MayCall
<1>2. CASE o # None /\ encl' = [encl EXCEPT ![o].regions = @ \cup {x}]
           /\ Return(t, "idle") /\ UNCHANGED <<envVars, memVars, listVars>>
  <2>1. o \in Live /\ \A u \in Task : cur[u] # o
    BY <1>2, FindEnclave
  <2> HIDE DEF o
  <2> DEFINE e == [encl[o] EXCEPT !.regions = @ \cup {x}]
  <2>2. encl \in [Obj -> Enclave \cup {None}] /\ o \in Obj /\ encl[o] \in Enclave
    BY <2>1 DEF IInv, TypeOK, Live
  <2>3. x \in Page
    BY AskedAssumption DEF Page
  <2>4. /\ e \in Enclave /\ e.dom = encl[o].dom /\ e.pid = encl[o].pid
        /\ e.pts = encl[o].pts /\ e.all_pages = encl[o].all_pages /\ e.invoke = encl[o].invoke
    BY <2>2, <2>3 DEF Enclave
  <2>5. encl' = [encl EXCEPT ![o] = e]
    BY <1>2, <2>2
  <2> HIDE DEF e
  <2>6. Updates(o, e)
    BY <1>2, <2>1, <2>4, <2>5 DEF Updates, IInv, EnclaveInv, PtsInv
  <2>7. free' \subseteq PtPage /\ pc[t] # "create_domain"
    BY <1>2 DEF IInv, TypeOK, MayCall
  <2> QED
    BY <1>2, <2>1, <2>6, <2>7, UpdatedReturned
<1> QED
  BY <1>1, <1>2

\* The end of the vmcall of a transition: invoke is of the domain entered, or none.
LEMMA TransitionReturnStep ==
  ASSUME IInv, NEW t \in Task, TransitionReturn(t)
  PROVE  IInv'
<1> USE DEF TransitionReturn, Rcx, envVars, memVars, listVars
<1> DEFINE o == cur[t]
<1>1. PICK i \in {encl[o].invoke, None} :
        encl' = [encl EXCEPT ![cur[t]].invoke = i]
  OBVIOUS
<1>2. /\ encl \in [Obj -> Enclave \cup {None}] /\ o \in Live /\ o \in Obj
      /\ encl[o] \in Enclave /\ o # None
  BY DEF IInv, TypeOK, TaskInv, CallInv, LinkedSteps, Live
<1> DEFINE e == [encl[o] EXCEPT !.invoke = i]
<1>3. /\ e \in Enclave /\ e.dom = encl[o].dom /\ e.pid = encl[o].pid
      /\ e.pts = encl[o].pts /\ e.all_pages = encl[o].all_pages /\ e.invoke = i
  BY <1>2 DEF Enclave
<1>4. encl' = [encl EXCEPT ![o] = e]
  BY <1>1, <1>2
<1> HIDE DEF e
<1>5. Updates(o, e)
  BY <1>1, <1>2, <1>3, <1>4 DEF Updates, IInv, EnclaveInv, PtsInv
<1>6. \A u \in Task \ {t} : cur[u] # o
  BY <1>2, OneAtATime
<1>7. free' \subseteq PtPage
  BY DEF IInv, TypeOK
<1> QED
  BY <1>2, <1>5, <1>6, <1>7, UpdatedReturned

\* The start of a TRANSITION.
LEMMA IoctlTransitionStep ==
  ASSUME IInv, NEW t \in Task, NEW h, IoctlTransition(t, h)
  PROVE  IInv'
<1> USE DEF IoctlTransition, envVars, memVars, listVars
<1> DEFINE o == find_enclave(t, h)
<1>1. CASE Fail(t)
  BY <1>1, JustReturned DEF Fail, MayCall
<1>2. CASE o # None /\ cur' = [cur EXCEPT ![t] = o] /\ Goto(t, "transition")
           /\ UNCHANGED <<envVars, memVars, listVars, encl, tmp, todo>>
  <2>1. o \in Live /\ encl[o].pid = pid[t] /\ encl[o].dom # None /\ InList(o)
    BY <1>2, FindEnclave
  <2> HIDE DEF o
  <2>2. o \in Obj /\ o # None /\ encl[o] # None /\ pid[t] # None
    BY <1>2, <2>1 DEF Live, IInv, PidInv, MayCall
  <2>3. CallType' /\ pc'[t] = "transition" /\ cur'[t] = o /\ \A u \in Task \ {t} : Same(u)
    BY <1>2, <2>2 DEF IInv, TypeOK, CallType, Goto, Steps, Same
  <2>4. TypeOK' /\ PidInv'
    BY <1>2, <2>3 DEF IInv, TypeOK, CallType, PidInv
  <2>5. EnclaveInv'
    BY <1>2, <2>3, EnclavesKept DEF Same, MayCall
  <2>6. TaskInv(t)'
    BY <1>2, <2>1, <2>2, <2>3
       DEF TaskInv, CallInv, CommitInv, DeleteInv, LinkedSteps, InList
  <2>7. ASSUME NEW u \in Task \ {t} PROVE TaskInv(u)'
    BY <1>2, <2>3, Undisturbed DEF InList, Same
  <2> QED
    BY <2>4, <2>5, <2>6, <2>7 DEF IInv
<1> QED
  BY <1>1, <1>2

-----------------------------------------------------------------------------
\* COMMIT, up to walk_and_collect_region.
LEMMA IoctlCommitStep ==
  ASSUME IInv, NEW t \in Task, NEW h, IoctlCommit(t, h)
  PROVE  IInv'
<1> USE DEF envVars, memVars, listVars
<1> DEFINE o == find_enclave(t, h)
           e == encl[o]
           collected == [e EXCEPT !.pas = "live"]
<1>0. MayCall(t) /\ pc[t] # "create_domain"
  BY DEF IoctlCommit, MayCall
<1>1. CASE o = None
  <2>1. Fail(t)
    BY <1>1 DEF IoctlCommit
  <2> QED
    BY <1>0, <2>1, JustReturned DEF Fail
<1>2. CASE o # None
  <2>1. /\ o \in Live /\ e.pid = pid[t] /\ e.dom # None /\ InList(o)
        /\ \A u \in Task : cur[u] # o
    BY <1>0, <1>2, FindEnclave
  <2>2. \/ Return(t, "uaf") /\ UNCHANGED <<envVars, memVars, listVars, encl>>
        \/ CommitFail(t, o, e) \/ CommitFail(t, o, collected)
        \/ /\ encl' = [encl EXCEPT ![o] = e] \/ encl' = [encl EXCEPT ![o] = collected]
           /\ cur' = [cur EXCEPT ![t] = o]
           /\ Goto(t, "commit_build")
           /\ UNCHANGED <<envVars, memVars, listVars, tmp, todo>>
    BY <1>2 DEF IoctlCommit
  <2> HIDE DEF o
  <2>3. o \in Obj /\ o # None /\ e # None /\ e \in Enclave /\ pid[t] # None
    BY <1>0, <1>2, <2>1 DEF Live, IInv, TypeOK, PidInv, MayCall
  <2>4. /\ collected \in Enclave /\ collected.pid = e.pid /\ collected.dom = e.dom
        /\ collected.invoke = e.invoke /\ collected.all_pages = e.all_pages
        /\ collected.pts = e.pts
    BY <2>3 DEF Enclave
  <2> HIDE DEF e, collected
  <2>5. CASE Return(t, "uaf") /\ UNCHANGED <<envVars, memVars, listVars, encl>>
    BY <1>0, <2>5, JustReturned
  <2>6. CASE CommitFail(t, o, e)
    BY <1>0, <2>1, <2>3, <2>6, CommitFailed DEF e
  <2>7. CASE CommitFail(t, o, collected)
    BY <1>0, <2>1, <2>4, <2>7, CommitFailed DEF e
  <2>8. ASSUME NEW f \in {e, collected}, encl' = [encl EXCEPT ![o] = f],
               cur' = [cur EXCEPT ![t] = o], Goto(t, "commit_build"),
               UNCHANGED <<envVars, memVars, listVars, tmp, todo>>
        PROVE  IInv'
    <3>1. f \in Enclave /\ f.pid = pid[t] /\ f.dom = e.dom /\ f # None
      BY <2>1, <2>3, <2>4, NoneAssumption
    <3>2. Updates(o, f)
      BY <2>1, <2>3, <2>4, <2>8 DEF Updates, e, IInv, EnclaveInv, PtsInv
    <3>3. CallType' /\ pc'[t] = "commit_build" /\ cur'[t] = o /\ \A u \in Task \ {t} : Same(u)
      BY <2>3, <2>8 DEF IInv, TypeOK, CallType, Goto, Steps, Same
    <3>4. /\ EnclaveInv' /\ encl' \in [Obj -> Enclave \cup {None}]
          /\ encl'[o] = f /\ \A p \in Obj \ {o} : encl'[p] = encl[p]
      BY <1>0, <2>1, <2>8, <3>2, <3>3, Updated DEF Same
    <3>5. TypeOK' /\ PidInv'
      BY <2>8, <3>3, <3>4 DEF IInv, TypeOK, CallType, PidInv
    <3>6. TaskInv(t)'
      BY <2>1, <2>3, <2>8, <3>1, <3>3, <3>4
         DEF TaskInv, CallInv, CommitInv, DeleteInv, LinkedSteps, InList
    <3>7. ASSUME NEW u \in Task \ {t} PROVE TaskInv(u)'
      <4>1. cur[u] # None => encl'[cur[u]] = encl[cur[u]]
        BY <2>1, <3>4 DEF IInv, TypeOK
      <4> QED
        BY <2>8, <3>3, <4>1, Undisturbed DEF InList, Same
    <3> QED
      BY <3>4, <3>5, <3>6, <3>7 DEF IInv
  <2> QED
    BY <2>2, <2>5, <2>6, <2>7, <2>8
<1> QED
  BY <1>1, <1>2

\* What the later steps of an ioctl know of its enclave.
LEMMA Working ==
  ASSUME IInv, NEW t \in Task, pc[t] \in LinkedSteps \ {"create_domain"}
  PROVE  /\ cur[t] \in Obj /\ cur[t] # None /\ cur[t] \in Live /\ encl[cur[t]] \in Enclave
         /\ encl[cur[t]] # None /\ encl[cur[t]].dom \in Dom /\ encl[cur[t]].dom # None
         /\ encl[cur[t]].pid = pid[t] /\ pid[t] # None
         /\ InList(cur[t]) /\ \A u \in Task \ {t} : cur[u] # cur[t]
<1>1. /\ cur[t] \in Obj /\ cur[t] # None /\ encl[cur[t]] \in Enclave /\ encl[cur[t]] # None
      /\ encl[cur[t]].dom # None /\ encl[cur[t]].pid = pid[t] /\ pid[t] # None
      /\ InList(cur[t])
  BY DEF IInv, TypeOK, TaskInv, CallInv, LinkedSteps, Steps
<1>2. cur[t] \in Live /\ encl[cur[t]].dom \in Dom
  BY <1>1 DEF Live, Enclave
<1>3. \A u \in Task \ {t} : cur[u] # cur[t]
  BY <1>1, OneAtATime
<1> QED
  BY <1>1, <1>2, <1>3

\* build_enclave_cr3 extends all_pages, and the loop starts with all its elements.
LEMMA CommitBuildStep ==
  ASSUME IInv, NEW t \in Task, CommitBuild(t)
  PROVE  IInv'
<1> USE DEF envVars, memVars, listVars
<1> DEFINE o == cur[t]
           e == encl[o]
<1>0. pc[t] = "commit_build" /\ pc[t] \in LinkedSteps \ {"create_domain"}
  BY DEF CommitBuild, LinkedSteps
<1>1. /\ o \in Obj /\ o # None /\ o \in Live /\ e \in Enclave /\ e # None /\ e.dom # None
      /\ e.pid = pid[t] /\ pid[t] # None
      /\ InList(o) /\ \A u \in Task \ {t} : cur[u] # o
  BY <1>0, Working
<1>2. PICK table \in Allocated(e), s \in SUBSET e.regions :
        LET b == Built(e, table, s) IN
        \/ /\ s = e.regions
           /\ encl' = [encl EXCEPT ![o] = b]
           /\ free' = free \ table
           /\ todo' = [todo EXCEPT ![t] = Elements(b.all_pages)]
           /\ Goto(t, "commit_grant")
           /\ UNCHANGED <<envVars, grants, doms, listVars, cur, tmp>>
        \/ s # e.regions /\ CommitFail(t, o, b)
  BY DEF CommitBuild
<1> DEFINE b == Built(e, table, s)
<1>3. table \subseteq PtPage /\ s \subseteq Page
  BY <1>1 DEF Allocated, IInv, TypeOK, Enclave
<1>4. \A p \in table : [page |-> p, conf |-> TRUE] \in Page
  BY <1>3 DEF Page
<1>5. /\ b \in Enclave /\ b.pid = e.pid /\ b.dom = e.dom /\ b.invoke = e.invoke
      /\ b.regions = e.regions /\ b.pts = e.pts \cup table
      /\ b.all_pages = e.all_pages \cup {[page |-> p, conf |-> TRUE] : p \in table} \cup s
  <2>1. e.all_pages \cup {[page |-> p, conf |-> TRUE] : p \in table} \cup s \in SUBSET Page
    BY <1>1, <1>3, <1>4 DEF Enclave
  <2>2. e.pts \cup table \in SUBSET PtPage
    BY <1>1, <1>3 DEF Enclave
  <2> HIDE DEF e
  <2> QED
    BY <1>1, <2>1, <2>2 DEF Enclave, Built
<1> HIDE DEF b
<1>6. \A p \in b.pts : [page |-> p, conf |-> TRUE] \in b.all_pages
  BY <1>1, <1>5 DEF IInv, EnclaveInv, PtsInv
<1>7. CASE CommitFail(t, o, b)
  BY <1>0, <1>1, <1>5, <1>7, CommitFailed
<1>8. CASE /\ s = e.regions
           /\ encl' = [encl EXCEPT ![o] = b]
           /\ free' = free \ table
           /\ todo' = [todo EXCEPT ![t] = Elements(b.all_pages)]
           /\ Goto(t, "commit_grant")
           /\ UNCHANGED <<envVars, grants, doms, listVars, cur, tmp>>
  <2>1. Updates(o, b)
    BY <1>5, <1>6, <1>8 DEF Updates
  <2>2. Elements(b.all_pages) \in SUBSET Element
    BY DEF Elements
  <2>3. /\ CallType' /\ pc'[t] = "commit_grant" /\ cur'[t] = o
        /\ todo'[t] = Elements(b.all_pages) /\ \A u \in Task \ {t} : Same(u)
    BY <1>8, <2>2 DEF IInv, TypeOK, CallType, Goto, Steps, Same
  <2>4. /\ EnclaveInv' /\ encl' \in [Obj -> Enclave \cup {None}] /\ encl'[o] # None
        /\ encl'[o] = b /\ \A p \in Obj \ {o} : encl'[p] = encl[p]
    BY <1>0, <1>1, <1>8, <2>1, <2>3, Updated DEF Same
  <2>5. TypeOK' /\ PidInv'
    BY <1>8, <2>3, <2>4 DEF IInv, TypeOK, CallType, PidInv
  <2>6. TaskInv(t)'
    <3>1. CallInv(t)'
      BY <1>1, <1>5, <1>8, <2>3, <2>4 DEF CallInv, LinkedSteps, InList
    <3>2. CommitInv(t)'
      <4>1. b.regions \subseteq b.all_pages
        BY <1>5, <1>8
      <4> QED
        BY <2>3, <2>4, <4>1 DEF CommitInv
    <3>3. DeleteInv(t)'
      BY <2>3 DEF DeleteInv
    <3> QED
      BY <3>1, <3>2, <3>3 DEF TaskInv
  <2>7. ASSUME NEW u \in Task \ {t} PROVE TaskInv(u)'
    <3>1. cur[u] # None => encl'[cur[u]] = encl[cur[u]]
      BY <1>1, <2>4 DEF IInv, TypeOK
    <3> QED
      BY <1>8, <2>3, <3>1, Undisturbed DEF InList, Same
  <2> QED
    BY <2>4, <2>5, <2>6, <2>7 DEF IInv
<1> QED
  BY <1>2, <1>7, <1>8 DEF b

\* tyche_split_grant gives the domain an element of all_pages, or the commit fails.
LEMMA CommitGrantStep ==
  ASSUME IInv, NEW t \in Task, CommitGrant(t)
  PROVE  IInv'
<1> USE DEF envVars, memVars, listVars
<1> DEFINE o == cur[t]
           x == Lowest(todo[t])
           g == GrantOf(o, x)
<1>0. pc[t] = "commit_grant" /\ pc[t] \in LinkedSteps \ {"create_domain"}
  BY DEF CommitGrant, LinkedSteps
<1>1. /\ o \in Obj /\ o # None /\ o \in Live /\ encl[o] \in Enclave /\ encl[o] # None
      /\ encl[o].dom # None /\ encl[o].dom \in Dom /\ encl[o].pid = pid[t] /\ pid[t] # None
      /\ InList(o) /\ \A u \in Task \ {t} : cur[u] # o
  BY <1>0, Working
<1>2. /\ encl[o].regions \subseteq encl[o].all_pages
      /\ todo[t] \subseteq Elements(encl[o].all_pages)
      /\ \A y \in Elements(encl[o].all_pages) \ todo[t] : GrantOf(o, y) \in grants
  BY <1>0 DEF IInv, TaskInv, CommitInv
<1>3. todo[t] \in SUBSET Element
  BY DEF IInv, TypeOK
<1>4. CASE todo[t] # {} /\ GrantRefused(t)
  BY <1>0, <1>1, <1>4, CommitFailed DEF GrantRefused
<1>5. CASE /\ todo[t] = {} /\ Goto(t, "commit_seal")
           /\ UNCHANGED <<envVars, memVars, listVars, encl, cur, tmp, todo>>
  <2>1. CallType' /\ pc'[t] = "commit_seal" /\ \A u \in Task \ {t} : Same(u)
    BY <1>5 DEF IInv, TypeOK, CallType, Goto, Steps, Same
  <2>2. TypeOK' /\ PidInv'
    BY <1>5, <2>1 DEF IInv, TypeOK, CallType, PidInv
  <2>3. EnclaveInv'
    BY <1>0, <1>5, <2>1, EnclavesKept DEF Same
  <2>4. TaskInv(t)'
    <3>1. CallInv(t)'
      BY <1>1, <1>5, <2>1 DEF CallInv, LinkedSteps, InList
    <3>2. CommitInv(t)' /\ DeleteInv(t)'
      BY <1>2, <1>5, <2>1 DEF CommitInv, DeleteInv, GrantOf
    <3> QED
      BY <3>1, <3>2 DEF TaskInv
  <2>5. ASSUME NEW u \in Task \ {t} PROVE TaskInv(u)'
    BY <1>5, <2>1, Undisturbed DEF InList
  <2> QED
    BY <2>2, <2>3, <2>4, <2>5 DEF IInv
<1>6. CASE /\ todo[t] # {} /\ Table!Give(g)
           /\ todo' = [todo EXCEPT ![t] = @ \ {x}]
           /\ UNCHANGED <<envVars, doms, free, listVars, encl, pc, cur, tmp>>
  <2>1. x \in todo[t] /\ x \in Element /\ x \in Elements(encl[o].all_pages)
    BY <1>2, <1>3, <1>6, LowestIn
  <2> HIDE DEF x
  <2>2. /\ g.domain = encl[o].dom /\ g.start = x.start /\ g.end = x.end /\ g.conf = x.conf
        /\ g \in Table!Grant
    BY <1>1, <2>1 DEF GrantOf, Table!Grant, Element
  <2>3. \A p \in g.start .. g.end - 1 : [page |-> p, conf |-> g.conf] \in encl[o].all_pages
    BY <2>1, <2>2 DEF Elements
  <2> HIDE DEF g
  <2>4. /\ g.start < g.end /\ grants' = grants \cup {g}
        /\ \A y \in grants : Table!Overlap(y, g) =>
             ~y.conf /\ ~g.conf /\ y.start = g.start /\ y.end = g.end
    BY <1>6 DEF Table!Give
  <2>5. CallType' /\ \A u \in Task \ {t} : Same(u)
    BY <1>6 DEF IInv, TypeOK, CallType, Same
  <2>6. TypeOK' /\ PidInv'
    BY <1>6, <2>2, <2>4, <2>5 DEF IInv, TypeOK, CallType, PidInv
  <2>7. EnclaveInv'
    <3>1. ListInv' /\ DomInv' /\ SealedEntersItself' /\ PtsInv'
      BY <1>6 DEF IInv, EnclaveInv, ListInv, DomInv, SealedEntersItself, Sealed, PtsInv, Live
    <3>2. GrantsAreTracked'
      BY <1>1, <1>6, <2>2, <2>3, <2>4 DEF IInv, EnclaveInv, GrantsAreTracked, Live
    <3>3. GrantInv'
      <4>1. \A y \in grants : Table!Overlap(g, y) => Table!Overlap(y, g)
        BY DEF Table!Overlap
      <4> QED
        BY <2>4, <4>1 DEF IInv, EnclaveInv, GrantInv
    <3> QED
      BY <3>1, <3>2, <3>3 DEF EnclaveInv
  <2>8. TaskInv(t)'
    <3>1. CallInv(t)'
      BY <1>0, <1>1, <1>6 DEF CallInv, LinkedSteps, InList
    <3>2. todo'[t] = todo[t] \ {x}
      BY <1>6 DEF IInv, TypeOK
    <3>3. ASSUME NEW y \in Elements(encl[o].all_pages) \ todo'[t] PROVE GrantOf(o, y) \in grants'
      <4>1. CASE y = x
        BY <2>4, <4>1 DEF g
      <4>2. CASE y # x
        BY <1>2, <2>4, <3>2, <4>2
      <4> QED
        BY <4>1, <4>2
    <3>4. CommitInv(t)'
      BY <1>0, <1>2, <1>6, <3>2, <3>3 DEF CommitInv, GrantOf
    <3>5. DeleteInv(t)'
      BY <1>0, <1>6 DEF DeleteInv
    <3> QED
      BY <3>1, <3>4, <3>5 DEF TaskInv
  <2>9. ASSUME NEW u \in Task \ {t} PROVE TaskInv(u)'
    <3>1. cur[u] # None => encl[cur[u]].dom # g.domain
      <4> SUFFICES ASSUME cur[u] # None PROVE encl[cur[u]].dom # g.domain
        OBVIOUS
      <4>1. cur[u] \in Live /\ cur[u] # o
        BY <1>1 DEF IInv, TypeOK, TaskInv, CallInv, Live
      <4> QED
        BY <1>1, <2>2, <4>1 DEF IInv, EnclaveInv, DomInv
    <3> QED
      BY <1>6, <2>4, <2>5, <3>1, Undisturbed DEF InList
  <2> QED
    BY <2>6, <2>7, <2>8, <2>9 DEF IInv
<1> QED
  BY <1>4, <1>5, <1>6 DEF CommitGrant

\* tyche_seal_enclave sets invoke to the domain that is sealed.
LEMMA CommitSealStep ==
  ASSUME IInv, NEW t \in Task, CommitSeal(t)
  PROVE  IInv'
<1> USE DEF envVars, memVars, listVars
<1> DEFINE o == cur[t]
           e == [encl[o] EXCEPT !.invoke = InvokeOf(o)]
<1>0. pc[t] = "commit_seal" /\ pc[t] \in LinkedSteps \ {"create_domain"}
  BY DEF CommitSeal, LinkedSteps
<1>1. /\ o \in Obj /\ o # None /\ o \in Live /\ encl[o] \in Enclave
      /\ encl[o].dom \in Dom /\ \A u \in Task \ {t} : cur[u] # o
  BY <1>0, Working
<1>2. CASE CommitFail(t, o, encl[o])
  BY <1>0, <1>1, <1>2, CommitFailed
<1>3. CASE /\ doms' = [doms EXCEPT ![encl[o].dom] = "sealed"]
           /\ encl' = [encl EXCEPT ![o].invoke = InvokeOf(o)]
           /\ Return(t, "idle")
           /\ UNCHANGED <<envVars, grants, free, listVars>>
  <2>1. /\ e \in Enclave /\ e.dom = encl[o].dom /\ e.pid = encl[o].pid
        /\ e.pts = encl[o].pts /\ e.all_pages = encl[o].all_pages /\ e.invoke = e.dom
    BY <1>1 DEF Enclave, InvokeOf
  <2>2. encl' = [encl EXCEPT ![o] = e]
    BY <1>1, <1>3 DEF IInv, TypeOK
  <2> HIDE DEF e
  <2>3. Updates(o, e)
    BY <1>1, <1>3, <2>1, <2>2 DEF Updates, IInv, EnclaveInv, PtsInv
  <2>4. free' \subseteq PtPage
    BY <1>3 DEF IInv, TypeOK
  <2> QED
    BY <1>0, <1>1, <1>3, <2>3, <2>4, UpdatedReturned
<1> QED
  BY <1>2, <1>3 DEF CommitSeal

-----------------------------------------------------------------------------
\* The start of a DELETE: whatever the domain holds lies in an element of all_pages.
LEMMA IoctlDeleteStep ==
  ASSUME IInv, NEW t \in Task, NEW h, IoctlDelete(t, h)
  PROVE  IInv'
<1> USE DEF IoctlDelete, envVars, memVars, listVars
<1> DEFINE o == find_enclave(t, h)
           s == Elements(encl[o].all_pages)
<1>1. CASE Fail(t)
  BY <1>1, JustReturned DEF Fail, MayCall
<1>2. CASE o # None /\ cur' = [cur EXCEPT ![t] = o] /\ Goto(t, "delete_revoke")
           /\ todo' = [todo EXCEPT ![t] = s]
           /\ UNCHANGED <<envVars, memVars, listVars, encl, tmp>>
  <2>1. o \in Live /\ encl[o].pid = pid[t] /\ encl[o].dom # None /\ InList(o)
    BY <1>2, FindEnclave
  <2> HIDE DEF o
  <2>2. o \in Obj /\ o # None /\ encl[o] # None /\ encl[o] \in Enclave /\ pid[t] # None
    BY <1>2, <2>1 DEF Live, IInv, TypeOK, PidInv, MayCall
  <2>3. s \in SUBSET Element
    BY DEF Elements
  <2>4. ASSUME NEW g \in grants, g.domain = encl[o].dom
        PROVE  \E x \in s : Within(g, x)
    <3>1. PICK p \in Live : /\ encl[p].dom = g.domain
                            /\ \A q \in g.start .. g.end - 1 :
                                 [page |-> q, conf |-> g.conf] \in encl[p].all_pages
      BY DEF IInv, EnclaveInv, GrantsAreTracked
    <3>2. p = o
      BY <2>1, <2>4, <3>1 DEF IInv, EnclaveInv, DomInv
    <3>3. /\ g.start \in Addr /\ g.end \in Addr /\ g.conf \in BOOLEAN /\ g.start < g.end
          /\ encl[o].all_pages \in SUBSET Page
      BY <2>2 DEF IInv, TypeOK, EnclaveInv, GrantInv, Table!Grant, Enclave
    <3> QED
      BY <3>1, <3>2, <3>3, RunInElement DEF Within
  <2> HIDE DEF s
  <2>5. /\ CallType' /\ pc'[t] = "delete_revoke" /\ cur'[t] = o /\ todo'[t] = s
        /\ \A u \in Task \ {t} : Same(u)
    BY <1>2, <2>2, <2>3 DEF IInv, TypeOK, CallType, Goto, Steps, Same
  <2>6. TypeOK' /\ PidInv'
    BY <1>2, <2>5 DEF IInv, TypeOK, CallType, PidInv
  <2>7. EnclaveInv'
    BY <1>2, <2>5, EnclavesKept DEF Same, MayCall
  <2>8. TaskInv(t)'
    <3>1. CallInv(t)' /\ CommitInv(t)'
      BY <1>2, <2>1, <2>2, <2>5 DEF CallInv, CommitInv, LinkedSteps, InList
    <3>2. DeleteInv(t)'
      BY <1>2, <2>4, <2>5 DEF DeleteInv
    <3> QED
      BY <3>1, <3>2 DEF TaskInv
  <2>9. ASSUME NEW u \in Task \ {t} PROVE TaskInv(u)'
    BY <1>2, <2>5, Undisturbed DEF InList, Same
  <2> QED
    BY <2>6, <2>7, <2>8, <2>9 DEF IInv
<1> QED
  BY <1>1, <1>2

\* tyche_revoke_region takes an element back as it was given: no other grant lies
\* in that element.
LEMMA DeleteRevokeStep ==
  ASSUME IInv, NEW t \in Task, DeleteRevoke(t)
  PROVE  IInv'
<1> USE DEF envVars, memVars, listVars
<1> DEFINE o == cur[t]
           x == Lowest(todo[t])
           g == GrantOf(o, x)
<1>0. pc[t] = "delete_revoke" /\ pc[t] \in LinkedSteps \ {"create_domain"}
  BY DEF DeleteRevoke, LinkedSteps
<1>1. /\ o \in Obj /\ o # None /\ o \in Live /\ encl[o] \in Enclave /\ encl[o] # None
      /\ encl[o].dom # None /\ encl[o].dom \in Dom /\ encl[o].pid = pid[t] /\ pid[t] # None
      /\ InList(o) /\ \A u \in Task \ {t} : cur[u] # o
  BY <1>0, Working
<1>2. \A k \in grants : k.domain = encl[o].dom => \E y \in todo[t] : Within(k, y)
  BY <1>0 DEF IInv, TaskInv, DeleteInv
<1>3. todo[t] \in SUBSET Element
  BY DEF IInv, TypeOK
<1>4. CASE todo[t] # {} /\ RevokeRefused(t)
  BY <1>0, <1>4, JustReturned DEF RevokeRefused, Fail
<1>5. CASE /\ todo[t] = {} /\ Goto(t, "delete_free")
           /\ UNCHANGED <<envVars, memVars, listVars, encl, cur, tmp, todo>>
  <2>1. CallType' /\ pc'[t] = "delete_free" /\ \A u \in Task \ {t} : Same(u)
    BY <1>5 DEF IInv, TypeOK, CallType, Goto, Steps, Same
  <2>2. TypeOK' /\ PidInv'
    BY <1>5, <2>1 DEF IInv, TypeOK, CallType, PidInv
  <2>3. EnclaveInv'
    BY <1>0, <1>5, <2>1, EnclavesKept DEF Same
  <2>4. TaskInv(t)'
    <3>1. CallInv(t)'
      BY <1>1, <1>5, <2>1 DEF CallInv, LinkedSteps, InList
    <3>2. CommitInv(t)' /\ DeleteInv(t)'
      BY <1>2, <1>5, <2>1 DEF CommitInv, DeleteInv
    <3> QED
      BY <3>1, <3>2 DEF TaskInv
  <2>5. ASSUME NEW u \in Task \ {t} PROVE TaskInv(u)'
    BY <1>5, <2>1, Undisturbed DEF InList
  <2> QED
    BY <2>2, <2>3, <2>4, <2>5 DEF IInv
<1>6. CASE /\ todo[t] # {} /\ Table!TakeBack(g)
           /\ todo' = [todo EXCEPT ![t] = @ \ {x}]
           /\ UNCHANGED <<envVars, doms, free, listVars, encl, pc, cur, tmp>>
  <2>1. x \in todo[t] /\ x \in Element
    BY <1>3, <1>6, LowestIn
  <2> HIDE DEF x
  <2>2. g.domain = encl[o].dom /\ g.start = x.start /\ g.end = x.end /\ g.conf = x.conf
    BY DEF GrantOf
  <2>3. g = [domain |-> g.domain, start |-> g.start, end |-> g.end, conf |-> g.conf]
    BY DEF GrantOf
  <2> HIDE DEF g
  <2>4. g \in grants /\ grants' = grants \ {g}
    BY <1>6 DEF Table!TakeBack
  <2>5. CallType' /\ \A u \in Task \ {t} : Same(u)
    BY <1>6 DEF IInv, TypeOK, CallType, Same
  <2>6. TypeOK' /\ PidInv'
    BY <1>6, <2>4, <2>5 DEF IInv, TypeOK, CallType, PidInv
  <2>7. EnclaveInv'
    <3>1. ListInv' /\ DomInv' /\ SealedEntersItself' /\ PtsInv'
      BY <1>6 DEF IInv, EnclaveInv, ListInv, DomInv, SealedEntersItself, Sealed, PtsInv, Live
    <3>2. GrantsAreTracked' /\ GrantInv'
      BY <1>6, <2>4 DEF IInv, EnclaveInv, GrantsAreTracked, GrantInv, Live
    <3> QED
      BY <3>1, <3>2 DEF EnclaveInv
  <2>8. TaskInv(t)'
    <3>1. CallInv(t)' /\ CommitInv(t)'
      BY <1>0, <1>1, <1>6 DEF CallInv, CommitInv, LinkedSteps, InList
    <3>2. todo'[t] = todo[t] \ {x}
      BY <1>6 DEF IInv, TypeOK
    <3>3. ASSUME NEW k \in grants', k.domain = encl[o].dom
          PROVE  \E y \in todo'[t] : Within(k, y)
      <4>1. k \in grants /\ k # g /\ k \in Table!Grant /\ k.start < k.end
        BY <2>4 DEF IInv, TypeOK, EnclaveInv, GrantInv
      <4>2. PICK y \in todo[t] : Within(k, y)
        BY <1>2, <3>3, <4>1
      <4>3. ASSUME y = x PROVE FALSE
        <5>1. k.start \in Nat /\ k.end \in Nat /\ g.start \in Nat /\ g.end \in Nat
          BY <2>1, <2>2, <4>1, PagesAssumption DEF Table!Grant, Element, Addr
        <5>2. Table!Overlap(k, g)
          BY <2>2, <4>1, <4>2, <4>3, <5>1 DEF Within, Table!Overlap
        <5>3. k.start = g.start /\ k.end = g.end
          BY <2>4, <4>1, <5>2 DEF IInv, EnclaveInv, GrantInv
        <5>4. k.domain = g.domain /\ k.conf = g.conf
          BY <2>2, <3>3, <4>2, <4>3 DEF Within
        <5>5. k = [domain |-> k.domain, start |-> k.start, end |-> k.end, conf |-> k.conf]
          BY <4>1 DEF Table!Grant
        <5> QED
          BY <2>3, <4>1, <5>3, <5>4, <5>5
      <4> QED
        BY <3>2, <4>2, <4>3
    <3>4. DeleteInv(t)'
      BY <1>0, <1>6, <3>3 DEF DeleteInv
    <3> QED
      BY <3>1, <3>4 DEF TaskInv
  <2>9. ASSUME NEW u \in Task \ {t} PROVE TaskInv(u)'
    <3>1. cur[u] # None => encl[cur[u]].dom # g.domain
      <4> SUFFICES ASSUME cur[u] # None PROVE encl[cur[u]].dom # g.domain
        OBVIOUS
      <4>1. cur[u] \in Live /\ cur[u] # o
        BY <1>1 DEF IInv, TypeOK, TaskInv, CallInv, Live
      <4> QED
        BY <1>1, <2>2, <4>1 DEF IInv, EnclaveInv, DomInv
    <3> QED
      BY <1>6, <2>4, <2>5, <3>1, Undisturbed DEF InList
  <2> QED
    BY <2>6, <2>7, <2>8, <2>9 DEF IInv
<1> QED
  BY <1>4, <1>5, <1>6 DEF DeleteRevoke

\* The object is freed when its domain holds nothing and it is out of the list.
LEMMA DeleteFreeStep ==
  ASSUME IInv, NEW t \in Task, DeleteFree(t)
  PROVE  IInv'
<1> USE DEF envVars, memVars, listVars
<1> DEFINE o == cur[t]
<1>0. pc[t] = "delete_free" /\ pc[t] \in LinkedSteps \ {"create_domain"}
  BY DEF DeleteFree, LinkedSteps
<1>1. /\ o \in Obj /\ o \in Live /\ encl[o].dom # None
      /\ InList(o) /\ \A u \in Task \ {t} : cur[u] # o
  BY <1>0, Working
<1>2. \A g \in grants : g.domain # encl[o].dom
  BY <1>0 DEF IInv, TaskInv, DeleteInv
<1>3. CASE Return(t, "uaf") /\ UNCHANGED <<envVars, memVars, listVars, encl>>
  BY <1>0, <1>3, JustReturned
<1>4. CASE /\ enclaves' = Unlinked(o) /\ encl' = [encl EXCEPT ![o] = None]
           /\ Return(t, "idle") /\ UNCHANGED <<envVars, memVars, tyche_ids>>
  <2>0. /\ enclaves' \in Seq(Obj)
        /\ \A j \in DOMAIN enclaves' : enclaves'[j] # o /\
             \E i \in DOMAIN enclaves : enclaves'[j] = enclaves[i]
        /\ \A i \in DOMAIN enclaves : enclaves[i] # o =>
             \E j \in DOMAIN enclaves' : enclaves'[j] = enclaves[i]
        /\ \A i, j \in DOMAIN enclaves' : enclaves'[i] = enclaves'[j] => i = j
    BY <1>1, <1>4, UnlinkedList DEF InList
  <2>1. CallType' /\ TaskInv(t)' /\ \A u \in Task \ {t} : Same(u)
    BY <1>4, Returned
  <2>2. /\ encl' \in [Obj -> Enclave \cup {None}]
        /\ \A p \in Obj \ {o} : encl'[p] = encl[p]
    BY <1>4 DEF IInv, TypeOK
  <2>3. TypeOK' /\ PidInv'
    BY <1>4, <2>0, <2>1, <2>2 DEF IInv, TypeOK, CallType, PidInv
  <2>4. \A p \in Obj : p \in Live' <=> (p \in Live /\ p # o)
    BY <1>4, <2>2 DEF IInv, TypeOK, Live
  <2>5. \A p \in Live' : p \in Obj /\ p \in Live /\ p # o /\ encl'[p] = encl[p]
    BY <2>2, <2>4 DEF Live
  <2>6. EnclaveInv'
    <3>1. ListInv'
      <4>1. \A j \in DOMAIN enclaves' : encl'[enclaves'[j]] = encl[enclaves'[j]]
        BY <2>0, <2>2
      <4>2. \A u \in Task : pc[u] = "create_domain" => pc'[u] = pc[u] /\ cur'[u] = cur[u]
        BY <1>0, <2>1 DEF Same
      <4> QED
        BY <2>0, <4>1, <4>2 DEF IInv, EnclaveInv, ListInv
    <3>2. DomInv' /\ SealedEntersItself' /\ PtsInv'
      BY <1>4, <2>5 DEF IInv, EnclaveInv, DomInv, SealedEntersItself, Sealed, PtsInv
    <3>3. GrantsAreTracked'
      <4> SUFFICES ASSUME NEW g \in grants
                   PROVE  \E p \in Live' :
                            /\ encl'[p].dom = g.domain
                            /\ \A q \in g.start .. g.end - 1 :
                                 [page |-> q, conf |-> g.conf] \in encl'[p].all_pages
        BY <1>4 DEF GrantsAreTracked
      <4>1. PICK p \in Live : /\ encl[p].dom = g.domain
                              /\ \A q \in g.start .. g.end - 1 :
                                   [page |-> q, conf |-> g.conf] \in encl[p].all_pages
        BY DEF IInv, EnclaveInv, GrantsAreTracked
      <4>2. p # o /\ p \in Obj
        BY <1>2, <4>1 DEF Live
      <4> QED
        BY <2>2, <2>4, <4>1, <4>2
    <3>4. GrantInv'
      BY <1>4 DEF IInv, EnclaveInv, GrantInv
    <3> QED
      BY <3>1, <3>2, <3>3, <3>4 DEF EnclaveInv
  <2>7. ASSUME NEW u \in Task \ {t} PROVE TaskInv(u)'
    <3>1. cur[u] # o /\ cur'[u] = cur[u]
      BY <1>1, <2>1 DEF Same
    <3>2. InList(cur[u])' <=> InList(cur[u])
      BY <2>0, <3>1 DEF InList
    <3>3. cur[u] # None => encl'[cur[u]] = encl[cur[u]]
      BY <2>2, <3>1 DEF IInv, TypeOK
    <3> QED
      BY <1>4, <2>1, <3>2, <3>3, Undisturbed
  <2> QED
    BY <2>1, <2>3, <2>6, <2>7 DEF IInv
<1> QED
  BY <1>3, <1>4 DEF DeleteFree

-----------------------------------------------------------------------------
\* Nothing exists when the driver is loaded.
LEMMA InitInv == Init => IInv
<1> SUFFICES ASSUME Init PROVE IInv
  OBVIOUS
<1> USE DEF Init
<1>1. TypeOK
  <2>1. tyche_ids \in 0 .. MaxIds /\ tmp \in [Task -> 0 .. MaxIds]
    BY PagesAssumption
  <2>2. enclaves \in Seq(Obj) /\ grants \subseteq Table!Grant /\ free \subseteq PtPage
    OBVIOUS
  <2> QED
    BY <2>1, <2>2 DEF TypeOK
<1>2. PidInv
  BY DEF PidInv
<1>3. Live = {} /\ DOMAIN enclaves = {}
  BY DEF Live
<1>4. EnclaveInv
  BY <1>3 DEF EnclaveInv, ListInv, DomInv, SealedEntersItself, GrantsAreTracked, GrantInv, PtsInv
<1>5. \A t \in Task : TaskInv(t)
  BY DEF TaskInv, CallInv, CommitInv, DeleteInv, LinkedSteps, Steps
<1> QED
  BY <1>1, <1>2, <1>4, <1>5 DEF IInv

\* Every step of every ioctl keeps the invariant, whatever the others do.
LEMMA StepInv == IInv /\ [Next]_vars => IInv'
<1> SUFFICES ASSUME IInv, [Next]_vars PROVE IInv'
  OBVIOUS
<1>1. ASSUME NEW t \in Task,
             \/ \E p \in Pid : Spawn(t, p)
             \/ Exit(t)
      PROVE  IInv'
  BY <1>1, SpawnStep, ExitStep
<1>2. ASSUME NEW t \in Task,
             IoctlCreate(t) \/ CreateInc(t) \/ CreateCheck(t) \/ CreateLink(t) \/ CreateDomain(t)
      PROVE  IInv'
  BY <1>2, IoctlCreateStep, CreateIncStep, CreateCheckStep, CreateLinkStep, CreateDomainStep
<1>3. ASSUME NEW t \in Task, NEW h \in 0 .. MaxIds - 1,
             \/ \E x \in Asked : AddRegion(t, h, x)
             \/ IoctlCommit(t, h) \/ IoctlDelete(t, h) \/ IoctlTransition(t, h)
      PROVE  IInv'
  BY <1>3, AddRegionStep, IoctlCommitStep, IoctlDeleteStep, IoctlTransitionStep
<1>4. ASSUME NEW t \in Task, CommitBuild(t) \/ CommitGrant(t) \/ CommitSeal(t)
      PROVE  IInv'
  BY <1>4, CommitBuildStep, CommitGrantStep, CommitSealStep
<1>5. ASSUME NEW t \in Task, DeleteRevoke(t) \/ DeleteFree(t) \/ TransitionReturn(t)
      PROVE  IInv'
  BY <1>5, DeleteRevokeStep, DeleteFreeStep, TransitionReturnStep
<1>6. CASE UNCHANGED vars
  <2> USE <1>6 DEF vars, envVars, memVars, listVars, callVars
  <2>1. TypeOK' /\ PidInv'
    BY DEF IInv, TypeOK, PidInv
  <2>2. EnclaveInv'
    BY EnclavesKept
  <2>3. ASSUME NEW u \in Task PROVE TaskInv(u)'
    BY Undisturbed DEF Same, InList
  <2> QED
    BY <2>1, <2>2, <2>3 DEF IInv
<1> QED
  BY <1>1, <1>2, <1>3, <1>4, <1>5, <1>6 DEF Next

\* The invariant holds of every behaviour of the driver.
LEMMA Invariance == Spec => []IInv
  BY InitInv, StepInv, PTL DEF Spec

-----------------------------------------------------------------------------
\* Every variable keeps its type: the handles stay in their range although
\* tyche_ids++ is not atomic, and nothing is granted but ranges of physical memory
\* to domains.
THEOREM TypeCorrect == Spec => []TypeOK
<1>1. IInv => TypeOK
  BY DEF IInv
<1> QED
  BY <1>1, Invariance, PTL

\* For any number of tasks, two ioctls never work on one enclave, and none works
\* on one that is freed: the pid check of find_enclave suffices, without a lock.
THEOREM EnclaveHasOneUser == Spec => []NoTwoOnOne
<1>1. IInv => NoTwoOnOne
  <2> SUFFICES ASSUME IInv, NEW t \in Task, NEW u \in Task, t # u, cur[t] # None
               PROVE  cur[t] # cur[u] /\ encl[cur[t]] # None
    BY DEF NoTwoOnOne
  <2>1. cur[t] # cur[u]
    BY OneAtATime
  <2>2. encl[cur[t]] # None
    BY DEF IInv, TaskInv, CallInv
  <2> QED
    BY <2>1, <2>2
<1> QED
  BY <1>1, Invariance, PTL

\* No commit or delete, wherever it fails, loses track of a page a domain holds.
THEOREM NothingIsForgotten == Spec => []GrantsAreTracked
<1>1. IInv => GrantsAreTracked
  BY DEF IInv, EnclaveInv
<1> QED
  BY <1>1, Invariance, PTL

\* A transition into a sealed enclave enters its own domain or none.
THEOREM TransitionEntersItself == Spec => []SealedEntersItself
<1>1. IInv => SealedEntersItself
  BY DEF IInv, EnclaveInv
<1> QED
  BY <1>1, Invariance, PTL

\* A step of one task does not move another one.
LEMMA OneMoves ==
  ASSUME IInv, [Next]_vars, NEW t \in Task, pc'[t] # pc[t]
  PROVE  \/ \E p \in Pid : Spawn(t, p)
         \/ Exit(t)
         \/ IoctlCreate(t) \/ CreateInc(t) \/ CreateCheck(t) \/ CreateLink(t) \/ CreateDomain(t)
         \/ \E h \in 0 .. MaxIds - 1 :
              \/ \E x \in Asked : AddRegion(t, h, x)
              \/ IoctlCommit(t, h) \/ IoctlDelete(t, h) \/ IoctlTransition(t, h)
         \/ CommitBuild(t) \/ CommitGrant(t) \/ CommitSeal(t)
         \/ DeleteRevoke(t) \/ DeleteFree(t)
         \/ TransitionReturn(t)
<1>1. PICK u \in Task :
         \/ \E p \in Pid : Spawn(u, p)
         \/ Exit(u)
         \/ IoctlCreate(u) \/ CreateInc(u) \/ CreateCheck(u) \/ CreateLink(u) \/ CreateDomain(u)
         \/ \E h \in 0 .. MaxIds - 1 :
              \/ \E x \in Asked : AddRegion(u, h, x)
              \/ IoctlCommit(u, h) \/ IoctlDelete(u, h) \/ IoctlTransition(u, h)
         \/ CommitBuild(u) \/ CommitGrant(u) \/ CommitSeal(u)
         \/ DeleteRevoke(u) \/ DeleteFree(u)
         \/ TransitionReturn(u)
  BY DEF Next, vars, callVars
<1>2. UNCHANGED pc \/ \E where : pc' = [pc EXCEPT ![u] = where]
  BY <1>1 DEF Spawn, Exit, IoctlCreate, CreateInc, CreateCheck, CreateLink, CreateDomain,
     AddRegion, IoctlCommit, IoctlDelete, IoctlTransition, CommitBuild, CommitGrant,
     CommitSeal, DeleteRevoke, DeleteFree, TransitionReturn, Goto, Return, Fail, CommitFail,
     GrantRefused, RevokeRefused, callVars
<1>3. u = t
  BY <1>2 DEF IInv, TypeOK
<1> QED
  BY <1>1, <1>3

\* When DELETE returns 0 the domain holds nothing, whatever was granted by however
\* many commits and in whatever elements.
THEOREM DeleteIsComplete == Spec => DeleteReleasesAll
<1> DEFINE Released == \A t \in Task :
             pc[t] = "delete_free" /\ pc'[t] = "idle" =>
               \A g \in grants' : g.domain # encl[cur[t]].dom
<1>1. ASSUME IInv, [Next]_vars, NEW t \in Task, pc[t] = "delete_free", pc'[t] = "idle"
      PROVE  \A g \in grants' : g.domain # encl[cur[t]].dom
  <2>1. DeleteFree(t)
    <3>0. pc'[t] # pc[t]
      BY <1>1
    <3>2. ~ \E p \in Pid : Spawn(t, p)
      BY <3>0 DEF Spawn, callVars
    <3>3. ~Exit(t) /\ ~MayCall(t)
      BY <1>1 DEF Exit, MayCall
    <3>4. /\ ~IoctlCreate(t) /\ ~CreateInc(t) /\ ~CreateCheck(t) /\ ~CreateLink(t)
          /\ ~CreateDomain(t)
      BY <1>1, <3>3 DEF IoctlCreate, CreateInc, CreateCheck, CreateLink, CreateDomain
    <3>5. ~ \E h \in 0 .. MaxIds - 1 :
              \/ \E x \in Asked : AddRegion(t, h, x)
              \/ IoctlCommit(t, h) \/ IoctlDelete(t, h) \/ IoctlTransition(t, h)
      BY <3>3 DEF AddRegion, IoctlCommit, IoctlDelete, IoctlTransition
    <3>6. /\ ~CommitBuild(t) /\ ~CommitGrant(t) /\ ~CommitSeal(t) /\ ~DeleteRevoke(t)
          /\ ~TransitionReturn(t)
      BY <1>1 DEF CommitBuild, CommitGrant, CommitSeal, DeleteRevoke, TransitionReturn
    <3> QED
      BY <1>1, <3>0, <3>2, <3>3, <3>4, <3>5, <3>6, OneMoves
  <2>2. \A g \in grants : g.domain # encl[cur[t]].dom
    BY <1>1 DEF IInv, TaskInv, DeleteInv
  <2> QED
    BY <2>1, <2>2 DEF DeleteFree, memVars
<1>2. IInv /\ [Next]_vars => [Released]_vars
  BY <1>1
<1> QED
  BY <1>2, Invariance, PTL DEF Spec, DeleteReleasesAll

\* The domain of an enclave is set once, to one that is not sealed.
LEMMA DomainStays ==
  ASSUME IInv, Next, NEW o \in Live, encl'[o] # None
  PROVE  encl'[o].dom = encl[o].dom \/ doms'[encl'[o].dom] = "created"
<1> DEFINE Kept == encl'[o].dom = encl[o].dom
<1>0. /\ encl \in [Obj -> Enclave \cup {None}] /\ o \in Obj /\ encl[o] \in Enclave
      /\ encl[o] # None /\ doms \in [Dom -> {"none", "created", "sealed"}]
  BY DEF IInv, TypeOK, Live
<1>1. ASSUME NEW p, NEW f, encl' = [encl EXCEPT ![p] = f], p = o => f.dom = encl[o].dom
      PROVE  Kept
  BY <1>0, <1>1
<1>2. ASSUME NEW t, NEW p, NEW f \in Enclave, p = o => f.dom = encl[o].dom, CommitFail(t, p, f)
      PROVE  Kept
  <2> DEFINE k == [f EXCEPT !.pas = IF @ = "live" THEN "freed" ELSE @, !.pts = {}]
  <2>1. k.dom = f.dom /\ encl' = [encl EXCEPT ![p] = k]
    BY <1>2 DEF CommitFail, Enclave
  <2> HIDE DEF k
  <2> QED
    BY <1>1, <1>2, <2>1
<1>3. CASE UNCHANGED encl
  BY <1>3
<1>4. ASSUME NEW t \in Task, CreateCheck(t) PROVE Kept
  BY <1>0, <1>1, <1>3, <1>4 DEF CreateCheck, Fail
<1>5. ASSUME NEW t \in Task, CreateDomain(t)
      PROVE  Kept \/ doms'[encl'[o].dom] = "created"
  <2>1. ASSUME NEW d \in Dom, doms' = [doms EXCEPT ![d] = "created"],
               encl' = [encl EXCEPT ![cur[t]].dom = d]
        PROVE  Kept \/ encl'[o].dom = d
    BY <1>0, <2>1 DEF Enclave
  <2> QED
    BY <1>0, <1>3, <1>5, <2>1 DEF CreateDomain
<1>6. ASSUME NEW t \in Task, NEW h, NEW x, AddRegion(t, h, x) PROVE Kept
  <2>1. CASE encl' = [encl EXCEPT ![find_enclave(t, h)].regions = @ \cup {x}]
    BY <1>0, <2>1 DEF Enclave
  <2> QED
    BY <1>3, <1>6, <2>1 DEF AddRegion, Fail
<1>7. ASSUME NEW t \in Task, NEW h, IoctlCommit(t, h) PROVE Kept
  <2> DEFINE p == find_enclave(t, h)
             e == encl[p]
             collected == [e EXCEPT !.pas = "live"]
  <2>1. CASE p = None
    BY <1>3, <1>7, <2>1 DEF IoctlCommit, Fail
  <2>2. CASE p # None
    <3>1. MayCall(t)
      BY <1>7 DEF IoctlCommit
    <3>2. \/ UNCHANGED encl \/ CommitFail(t, p, e) \/ CommitFail(t, p, collected)
          \/ encl' = [encl EXCEPT ![p] = e] \/ encl' = [encl EXCEPT ![p] = collected]
      BY <1>7, <2>2 DEF IoctlCommit
    <3>3. p \in Live
      BY <2>2, <3>1, FindEnclave
    <3> HIDE DEF p
    <3>4. e \in Enclave
      BY <3>3 DEF IInv, TypeOK, Live
    <3>5. collected \in Enclave /\ collected.dom = e.dom
      BY <3>4 DEF Enclave
    <3> HIDE DEF collected
    <3> QED
      BY <1>1, <1>2, <1>3, <3>2, <3>4, <3>5
  <2> QED
    BY <2>1, <2>2
<1>8. ASSUME NEW t \in Task, CommitBuild(t) PROVE Kept
  <2> DEFINE p == cur[t]
  <2>1. PICK table \in Allocated(encl[p]), s \in SUBSET encl[p].regions :
          \/ encl' = [encl EXCEPT ![p] = Built(encl[p], table, s)]
          \/ CommitFail(t, p, Built(encl[p], table, s))
    BY <1>8 DEF CommitBuild
  <2> DEFINE b == Built(encl[p], table, s)
  <2>2. encl[p] \in Enclave
    BY <1>8, Working DEF CommitBuild, LinkedSteps
  <2>3. table \subseteq PtPage /\ s \subseteq Page
    BY <2>2 DEF Allocated, IInv, TypeOK, Enclave
  <2>4. \A q \in table : [page |-> q, conf |-> TRUE] \in Page
    BY <2>3 DEF Page
  <2>5. b \in Enclave /\ b.dom = encl[p].dom
    <3>1. encl[p].all_pages \cup {[page |-> q, conf |-> TRUE] : q \in table} \cup s \in SUBSET Page
      BY <2>2, <2>3, <2>4 DEF Enclave
    <3>2. encl[p].pts \cup table \in SUBSET PtPage
      BY <2>2, <2>3 DEF Enclave
    <3> QED
      BY <2>2, <3>1, <3>2 DEF Enclave, Built
  <2> HIDE DEF b
  <2> QED
    BY <1>1, <1>2, <2>1, <2>5 DEF b
<1>9. ASSUME NEW t \in Task, CommitGrant(t) PROVE Kept
  <2>1. encl[cur[t]] \in Enclave
    BY <1>9, Working DEF CommitGrant, LinkedSteps
  <2> QED
    BY <1>2, <1>3, <1>9, <2>1 DEF CommitGrant, GrantRefused
<1>10. ASSUME NEW t \in Task, CommitSeal(t) PROVE Kept
  <2>1. encl[cur[t]] \in Enclave
    BY <1>10, Working DEF CommitSeal, LinkedSteps
  <2>2. CASE encl' = [encl EXCEPT ![cur[t]].invoke = InvokeOf(cur[t])]
    BY <1>0, <2>1, <2>2 DEF Enclave
  <2> QED
    BY <1>2, <1>10, <2>1, <2>2 DEF CommitSeal
<1>11. ASSUME NEW t \in Task, DeleteFree(t) PROVE Kept
  BY <1>0, <1>3, <1>11 DEF DeleteFree
<1>12. ASSUME NEW t \in Task, TransitionReturn(t) PROVE Kept
  <2>1. ASSUME NEW i, encl' = [encl EXCEPT ![cur[t]].invoke = i] PROVE Kept
    BY <1>0, <2>1 DEF Enclave
  <2> QED
    BY <1>12, <2>1 DEF TransitionReturn
<1>13. ASSUME NEW t \in Task, NEW h,
             \/ \E p \in Pid : Spawn(t, p)
             \/ Exit(t) \/ IoctlCreate(t) \/ CreateInc(t) \/ CreateLink(t)
             \/ IoctlDelete(t, h) \/ IoctlTransition(t, h) \/ DeleteRevoke(t)
       PROVE Kept
  BY <1>3, <1>13 DEF Spawn, Exit, IoctlCreate, CreateInc, CreateLink, IoctlDelete,
     IoctlTransition, DeleteRevoke, RevokeRefused, Fail
<1> QED
  BY <1>4, <1>5, <1>6, <1>7, <1>8, <1>9, <1>10, <1>11, <1>12, <1>13 DEF Next

\* Only the seal vmcall of commit_enclave seals a domain.
LEMMA OnlyCommitSeals ==
  ASSUME IInv, Next, NEW d \in Dom, doms[d] # "sealed", doms'[d] = "sealed"
  PROVE  \E t \in Task : CommitSeal(t) /\ d = encl[cur[t]].dom
<1>0. doms \in [Dom -> {"none", "created", "sealed"}]
  BY DEF IInv, TypeOK
<1>1. ASSUME NEW t \in Task, CreateDomain(t) PROVE FALSE
  <2>1. CASE UNCHANGED doms
    BY <2>1
  <2>2. ASSUME NEW c, doms' = [doms EXCEPT ![c] = "created"] PROVE FALSE
    BY <1>0, <2>2
  <2> QED
    BY <1>1, <2>1, <2>2 DEF CreateDomain, memVars
<1>2. ASSUME NEW t \in Task, CommitSeal(t) PROVE d = encl[cur[t]].dom
  <2>1. CASE UNCHANGED doms
    BY <2>1
  <2>2. CASE doms' = [doms EXCEPT ![encl[cur[t]].dom] = "sealed"]
    BY <1>0, <2>2
  <2> QED
    BY <1>2, <2>1, <2>2 DEF CommitSeal, CommitFail
<1>3. ASSUME NEW t \in Task, NEW h, NEW x,
             \/ \E p \in Pid : Spawn(t, p)
             \/ Exit(t) \/ IoctlCreate(t) \/ CreateInc(t) \/ CreateCheck(t) \/ CreateLink(t)
             \/ AddRegion(t, h, x) \/ IoctlCommit(t, h) \/ IoctlDelete(t, h)
             \/ IoctlTransition(t, h) \/ CommitBuild(t) \/ CommitGrant(t)
             \/ DeleteRevoke(t) \/ DeleteFree(t) \/ TransitionReturn(t)
      PROVE  FALSE
  <2>1. UNCHANGED doms
    BY <1>3 DEF Spawn, Exit, IoctlCreate, CreateInc, CreateCheck, CreateLink, AddRegion,
       IoctlCommit, IoctlDelete, IoctlTransition, CommitBuild, CommitGrant, DeleteRevoke,
       DeleteFree, TransitionReturn, Fail, CommitFail, GrantRefused, RevokeRefused, memVars
  <2> QED
    BY <2>1
<1> QED
  BY <1>1, <1>2, <1>3 DEF Next

\* When an enclave is sealed it holds all its regions and page tables, in the types
\* asked for: no grant that was refused goes unnoticed.
THEOREM SealedIsComplete == Spec => SealedHoldsItsMemory
<1> DEFINE Complete == \A o \in Live :
             encl'[o] # None /\ ~Sealed(o) /\ Sealed(o)' =>
               /\ \A x \in encl[o].regions : Holds(o, x)
               /\ \A p \in encl[o].pts : Holds(o, [page |-> p, conf |-> TRUE])
<1>1. ASSUME IInv, Next, NEW o \in Live, encl'[o] # None, ~Sealed(o), Sealed(o)'
      PROVE  /\ \A x \in encl[o].regions : Holds(o, x)
             /\ \A p \in encl[o].pts : Holds(o, [page |-> p, conf |-> TRUE])
  <2> DEFINE d == encl[o].dom
  <2>0. encl[o] \in Enclave /\ d \in Dom \cup {None}
    <3>1. encl[o] \in Enclave
      BY <1>1 DEF IInv, TypeOK, Live
    <3> QED
      BY <3>1 DEF Enclave
  <2>1. d # None /\ d \in Dom /\ doms[d] # "sealed" /\ doms'[d] = "sealed"
    BY <1>1, <2>0, DomainStays DEF Sealed
  <2>2. PICK t \in Task : CommitSeal(t) /\ d = encl[cur[t]].dom
    BY <1>1, <2>1, OnlyCommitSeals
  <2>3. cur[t] = o
    <3>1. cur[t] \in Live
      BY <1>1, <2>2, Working DEF CommitSeal, LinkedSteps
    <3> QED
      BY <1>1, <2>1, <2>2, <3>1 DEF IInv, EnclaveInv, DomInv
  <2>4. /\ encl[o].regions \subseteq encl[o].all_pages
        /\ \A y \in Elements(encl[o].all_pages) : GrantOf(o, y) \in grants
    BY <1>1, <2>2, <2>3 DEF CommitSeal, IInv, TaskInv, CommitInv
  <2>5. ASSUME NEW x \in encl[o].all_pages PROVE Holds(o, x)
    <3>1. encl[o].all_pages \in SUBSET Page /\ x \in Page
      BY <2>0 DEF Enclave
    <3>2. /\ x.page \in Addr /\ x.page + 1 \in Addr /\ x.conf \in BOOLEAN /\ x.page \in Nat
          /\ x = [page |-> x.page, conf |-> x.conf]
      <4>1. x.page \in UserPage \cup PtPage /\ x.conf \in BOOLEAN
        BY <3>1 DEF Page
      <4>2. x = [page |-> x.page, conf |-> x.conf]
        BY <3>1 DEF Page
      <4>3. x.page \in 0 .. MaxPage /\ MaxPage \in Nat
        BY <4>1, PagesAssumption
      <4> QED
        BY <4>1, <4>2, <4>3 DEF Addr
    <3>3. \A p \in x.page .. (x.page + 1) - 1 : [page |-> p, conf |-> x.conf] \in encl[o].all_pages
      <4>1. \A p \in x.page .. (x.page + 1) - 1 : p = x.page
        BY <3>2
      <4> QED
        BY <3>2, <4>1
    <3>4. PICK y \in Elements(encl[o].all_pages) :
            y.start <= x.page /\ x.page + 1 <= y.end /\ y.conf = x.conf
      <4> DEFINE all == encl[o].all_pages
                 first == x.page
                 last == x.page + 1
                 conf == x.conf
      <4>1. /\ all \in SUBSET Page /\ first \in Addr /\ last \in Addr /\ conf \in BOOLEAN
            /\ first < last
            /\ \A p \in first .. last - 1 : [page |-> p, conf |-> conf] \in all
        BY <3>1, <3>2, <3>3
      <4> HIDE DEF all, first, last, conf
      <4>2. \E y \in Elements(all) : y.start <= first /\ last <= y.end /\ y.conf = conf
        BY <4>1, RunInElement
      <4> QED
        BY <4>2 DEF all, first, last, conf
    <3>5. y.start \in Nat /\ y.end \in Nat
      BY PagesAssumption DEF Elements, Element, Addr
    <3> DEFINE g == GrantOf(o, y)
    <3>6. g.domain = encl[o].dom /\ g.start = y.start /\ g.end = y.end /\ g.conf = y.conf
      BY DEF GrantOf
    <3>7. g \in grants
      BY <2>4
    <3>8. x.page \in y.start .. y.end - 1
      BY <3>2, <3>4, <3>5
    <3> QED
      BY <3>4, <3>6, <3>7, <3>8 DEF Holds
  <2>6. \A p \in encl[o].pts : [page |-> p, conf |-> TRUE] \in encl[o].all_pages
    BY <1>1 DEF IInv, EnclaveInv, PtsInv
  <2> QED
    BY <2>4, <2>5, <2>6
<1>2. IInv /\ [Next]_vars => [Complete]_vars
  BY <1>1
<1> QED
  BY <1>2, Invariance, PTL DEF Spec, SealedHoldsItsMemory
=============================================================================
