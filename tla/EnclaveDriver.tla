--------------------------- MODULE EnclaveDriver ---------------------------
(***************************************************************************)
(* The enclave driver: the ioctls of modules/libraries/enclave/src/ioctl.c *)
(* and the life of an enclave_t in internal/enclave.c.                     *)
(*                                                                         *)
(* Tasks issue ioctls concurrently; the driver takes no lock.  An ioctl is *)
(* a sequence of steps, each with at most one call of the capability       *)
(* module, which appears here as the table of grants it implements         *)
(* (module GrantTable).  Every vmcall and allocation may fail.             *)
(*                                                                         *)
(* A call of the capability module is one step here, so calls of two tasks *)
(* do not overlap.  The library implements the table only then, and the    *)
(* driver has no lock that would see to it: what is shown here is what the *)
(* interleaving of ioctls between these calls can do.                      *)
(*                                                                         *)
(* A region is one physical page of the caller and its type; module        *)
(* Regions has the virtual side.  all_pages is the set of typed pages that *)
(* module PageTypes has add_merge_global implement; its elements, which    *)
(* are granted and revoked as a whole, are the runs of adjacent pages of   *)
(* one type (SortedAndMerged of module AllPages).                          *)
(***************************************************************************)
EXTENDS Integers, Sequences, FiniteSets, Lists

CONSTANTS
  Task, Pid,     \* tasks, and the pids the kernel gives them (and gives again)
  Obj,           \* addresses of enclave_t objects
  Dom,           \* tyche domains
  UserPage,      \* physical pages, as numbers, mapped by user space
  PtPage,        \* physical pages of the kernel's page allocator, as numbers
  MaxPage,       \* the last page of physical memory
  Asked,         \* the regions user space asks for
  MaxIds,        \* bound on CREATE ioctls
  None

ASSUME PagesAssumption ==
  /\ MaxPage \in Nat /\ MaxIds \in Nat
  /\ UserPage \subseteq 0 .. MaxPage /\ PtPage \subseteq 0 .. MaxPage
  /\ UserPage \cap PtPage = {}

VARIABLES
  task,       \* task[t] \in {"new", "alive", "dead"}
  pid,        \* pid[t]: current->pid of t
  tyche_ids,  \* the next handle
  enclaves,   \* the list of enclaves, in order
  encl,       \* encl[o]: the enclave_t at address o; None if it is free
  grants,     \* what the capability module has transferred
  doms,       \* doms[d] \in {"none", "created", "sealed"}; none is ever deleted
  free,       \* the pages in the kernel's page allocator
  pc,         \* per task: the ioctl's next step
  cur,        \* per task: the enclave the ioctl works on
  tmp,        \* per task: the handle the CREATE ioctl has read
  todo        \* per task: what a loop over all_pages has still to visit

envVars == <<task, pid>>
memVars == <<grants, doms, free>>
listVars == <<tyche_ids, enclaves>>
callVars == <<pc, cur, tmp, todo>>
vars == <<envVars, memVars, listVars, encl, callVars>>

Addr == 0 .. MaxPage + 1

Table == INSTANCE GrantTable WITH Domain <- Dom, grants <- grants

Page == [page: UserPage \cup PtPage, conf: BOOLEAN]
Element == [start: Addr, end: Addr, conf: BOOLEAN]

ASSUME AskedAssumption == Asked \subseteq [page: UserPage, conf: BOOLEAN]

Enclave ==
  [handle: 0 .. MaxIds, pid: Pid, dom: Dom \cup {None},
   regions: SUBSET Page,
   pas: {"none", "live", "freed"},   \* the pa_region_t of the regions
   pts: SUBSET PtPage, all_pages: SUBSET Page,
   invoke: Dom \cup {None}]          \* the domain that the capability enters

ASSUME NoneAssumption == None \notin Enclave /\ None \notin Obj \cup Dom \cup Pid

Steps == {"create_inc", "create_check", "create_link", "create_domain",
          "commit_build", "commit_grant", "commit_seal",
          "delete_revoke", "delete_free", "transition"}

TypeOK ==
  /\ task \in [Task -> {"new", "alive", "dead"}]
  /\ pid \in [Task -> Pid \cup {None}]
  /\ tyche_ids \in 0 .. MaxIds
  /\ enclaves \in Seq(Obj)
  /\ encl \in [Obj -> Enclave \cup {None}]
  /\ grants \subseteq Table!Grant
  /\ doms \in [Dom -> {"none", "created", "sealed"}]
  /\ free \subseteq PtPage
  /\ pc \in [Task -> {"idle"} \cup Steps \cup {"uaf"}]
  /\ cur \in [Task -> Obj \cup {None}]
  /\ tmp \in [Task -> 0 .. MaxIds]
  /\ todo \in [Task -> SUBSET Element]

Init ==
  /\ task = [t \in Task |-> "new"]
  /\ pid = [t \in Task |-> None]
  /\ tyche_ids = 0
  /\ enclaves = <<>>
  /\ encl = [o \in Obj |-> None]
  /\ grants = {} /\ doms = [d \in Dom |-> "none"] /\ free = PtPage
  /\ pc = [t \in Task |-> "idle"]
  /\ cur = [t \in Task |-> None]
  /\ tmp = [t \in Task |-> 0]
  /\ todo = [t \in Task |-> {}]

-----------------------------------------------------------------------------
\* The kernel starts and ends tasks.  The driver is not told: fops has no
\* release operation.
Spawn(t, p) ==
  /\ task[t] = "new"
  /\ \A u \in Task : pid[u] # p
  /\ task' = [task EXCEPT ![t] = "alive"]
  /\ pid' = [pid EXCEPT ![t] = p]
  /\ UNCHANGED <<memVars, listVars, encl, callVars>>

Exit(t) ==
  /\ task[t] = "alive" /\ pc[t] = "idle"
  /\ task' = [task EXCEPT ![t] = "dead"]
  /\ pid' = [pid EXCEPT ![t] = None]
  /\ UNCHANGED <<memVars, listVars, encl, callVars>>

-----------------------------------------------------------------------------
MayCall(t) == task[t] = "alive" /\ pc[t] = "idle"

\* The ioctl returns ("idle"), or its task dies ("uaf"); its locals die.
Return(t, where) ==
  /\ pc' = [pc EXCEPT ![t] = where]
  /\ cur' = [cur EXCEPT ![t] = None]
  /\ tmp' = [tmp EXCEPT ![t] = 0]
  /\ todo' = [todo EXCEPT ![t] = {}]

\* The ioctl returns and leaves everything as it is.
Fail(t) == Return(t, "idle") /\ UNCHANGED <<envVars, memVars, listVars, encl>>

Goto(t, step) == pc' = [pc EXCEPT ![t] = step]

\* A slip: the pid is not compared.
find_enclave_any_pid(t, h) ==
  LET hits == {i \in DOMAIN enclaves : encl[enclaves[i]].handle = h}
  IN IF hits = {} THEN None
     ELSE enclaves[CHOOSE i \in hits : \A j \in hits : i <= j]

\* The first enclave in the list with the handle, if the caller has its pid.
find_enclave(t, h) ==
  LET hits == {i \in DOMAIN enclaves : encl[enclaves[i]].handle = h}
      first == CHOOSE i \in hits : \A j \in hits : i <= j
  IN IF hits # {} /\ encl[enclaves[first]].pid = pid[t] THEN enclaves[first] ELSE None

\* dll_remove of o, which is in the list.
Unlinked(o) == Without(enclaves, CHOOSE i \in DOMAIN enclaves : enclaves[i] = o)

\* The elements of the list all_pages: its runs of adjacent pages of one type.
\* Page-table pages and confidential pages have the same type.
Elements(s) ==
  {x \in Element :
     /\ x.start < x.end
     /\ \A p \in x.start .. x.end - 1 : [page |-> p, conf |-> x.conf] \in s
     /\ [page |-> x.start - 1, conf |-> x.conf] \notin s
     /\ [page |-> x.end, conf |-> x.conf] \notin s}

\* The list is sorted by address.
Lowest(s) == CHOOSE x \in s : \A y \in s : x.start <= y.start

GrantOf(o, x) ==
  [domain |-> encl[o].dom, start |-> x.start, end |-> x.end, conf |-> x.conf]

-----------------------------------------------------------------------------
\* TYCHE_ENCLAVE_CREATE: tyche_ids++ is a load and a store.
IoctlCreate(t) ==
  /\ MayCall(t)
  /\ tyche_ids < MaxIds
  /\ tmp' = [tmp EXCEPT ![t] = tyche_ids]
  /\ Goto(t, "create_inc")
  /\ UNCHANGED <<envVars, memVars, listVars, encl, cur, todo>>

CreateInc(t) ==
  /\ pc[t] = "create_inc"
  /\ tyche_ids' = tmp[t] + 1
  /\ Goto(t, "create_check")
  /\ UNCHANGED <<envVars, memVars, enclaves, encl, cur, tmp, todo>>

\* add_enclave: the handle must be fresh; the object is allocated and set up.
\* invoke is not: what kmalloc returns may hold the index of any capability,
\* the ones of sealed domains included, or of none.
CreateCheck(t) ==
  /\ pc[t] = "create_check"
  /\ \/ /\ \A i \in DOMAIN enclaves : encl[enclaves[i]].handle # tmp[t]
        /\ \E o \in Obj, junk \in {d \in Dom : doms[d] = "sealed"} \cup {None} :
             /\ encl[o] = None
             /\ encl' = [encl EXCEPT ![o] =
                  [handle |-> tmp[t], pid |-> pid[t], dom |-> None,
                   regions |-> {}, pas |-> "none", pts |-> {},
                   all_pages |-> {}, invoke |-> junk]]
             /\ cur' = [cur EXCEPT ![t] = o]
        /\ Goto(t, "create_link")
        /\ UNCHANGED <<envVars, memVars, listVars, tmp, todo>>
     \/ Fail(t)

CreateLink(t) ==
  /\ pc[t] = "create_link"
  /\ enclaves' = Append(enclaves, cur[t])
  /\ Goto(t, "create_domain")
  /\ UNCHANGED <<envVars, memVars, tyche_ids, encl, cur, tmp, todo>>

\* tyche_domain_create, and the copy of the handle to user space.  When the
\* vmcall fails the object leaves the list and is not freed; when the copy
\* fails the enclave stays.
CreateDomain(t) ==
  /\ pc[t] = "create_domain"
  /\ \/ /\ \E d \in Dom :
             /\ doms[d] = "none"
             /\ doms' = [doms EXCEPT ![d] = "created"]
             /\ encl' = [encl EXCEPT ![cur[t]].dom = d]
        /\ Return(t, "idle")
        /\ UNCHANGED <<envVars, grants, free, listVars>>
     \/ /\ enclaves' = Unlinked(cur[t])
        /\ Return(t, "idle")
        /\ UNCHANGED <<envVars, memVars, tyche_ids, encl>>

\* TYCHE_ENCLAVE_ADD_REGION and TYCHE_ENCLAVE_ADD_STACK.
AddRegion(t, h, x) ==
  LET o == find_enclave(t, h) IN
  /\ MayCall(t)
  /\ \/ /\ o # None
        /\ encl' = [encl EXCEPT ![o].regions = @ \cup {x}]
        /\ Return(t, "idle")
        /\ UNCHANGED <<envVars, memVars, listVars>>
     \/ Fail(t)

-----------------------------------------------------------------------------
\* A slip: all_pages is emptied too, with its grants outstanding.
CommitFail_forgets(t, o, e) ==
  /\ encl' = [encl EXCEPT ![o] =
       [e EXCEPT !.pas = IF @ = "live" THEN "freed" ELSE @, !.pts = {},
                 !.all_pages = {}]]
  /\ free' = free \cup e.pts
  /\ Return(t, "idle")
  /\ UNCHANGED <<envVars, grants, doms, listVars>>

\* A slip: every page of all_pages goes to the kernel's allocator.
CommitFail_frees_all(t, o, e) ==
  /\ encl' = [encl EXCEPT ![o] =
       [e EXCEPT !.pas = IF @ = "live" THEN "freed" ELSE @, !.pts = {}]]
  /\ free' = free \cup {x.page : x \in e.all_pages}
  /\ Return(t, "idle")
  /\ UNCHANGED <<envVars, grants, doms, listVars>>

\* The failure label of commit_enclave: the pa_region_t objects are freed but
\* stay in the lists of the regions, the page-table pages go back to the
\* kernel, and all_pages and the grants stay.
CommitFail(t, o, e) ==
  /\ encl' = [encl EXCEPT ![o] =
       [e EXCEPT !.pas = IF @ = "live" THEN "freed" ELSE @, !.pts = {}]]
  /\ free' = free \cup e.pts
  /\ Return(t, "idle")
  /\ UNCHANGED <<envVars, grants, doms, listVars>>

\* TYCHE_ENCLAVE_COMMIT, up to walk_and_collect_region.  A page that is
\* already in the list of its region is an overlap.
IoctlCommit(t, h) ==
  LET o == find_enclave(t, h)
      e == encl[o]
      collected == [e EXCEPT !.pas = "live"]
  IN
  /\ MayCall(t)
  /\ \/ o = None /\ Fail(t)
     \/ /\ o # None /\ e.pas = "freed"
        /\ Return(t, "uaf") /\ UNCHANGED <<envVars, memVars, listVars, encl>>
     \/ o # None /\ e.pas = "live" /\ CommitFail(t, o, e)
     \/ /\ o # None /\ e.pas = "none" /\ e.regions # {}
        /\ CommitFail(t, o, e) \/ CommitFail(t, o, collected)
     \/ /\ o # None /\ e.pas = "none"
        /\ encl' = [encl EXCEPT ![o] = IF e.regions = {} THEN e ELSE collected]
        /\ cur' = [cur EXCEPT ![t] = o]
        /\ Goto(t, "commit_build")
        /\ UNCHANGED <<envVars, memVars, listVars, tmp, todo>>

\* No page may be in all_pages twice, whatever its types.
OncePerPage(s) == \A x, y \in s : x.page = y.page => x = y

\* What allocate returns for the page table, one page standing for all of its
\* levels: a free page that is not in all_pages, or NULL.
Allocated(e) == {{p} : p \in free \ {x.page : x \in e.all_pages}} \cup {{}}

\* e with the page table, and with the pages s of its regions, in all_pages.
Built(e, table, s) ==
  [e EXCEPT !.pts = @ \cup table,
            !.all_pages = @ \cup {[page |-> p, conf |-> TRUE] : p \in table} \cup s]

\* build_enclave_cr3.  It does not look whether allocate returned NULL.  It fails
\* when a page of a region is in all_pages already, or on a failed kmalloc.
CommitBuild(t) ==
  LET o == cur[t]
      e == encl[o]
  IN
  /\ pc[t] = "commit_build"
  /\ \E table \in Allocated(e), s \in SUBSET e.regions :
       LET b == Built(e, table, s) IN
       /\ e.all_pages \cap s = {} /\ OncePerPage(b.all_pages)
       /\ \/ /\ s = e.regions
             /\ encl' = [encl EXCEPT ![o] = b]
             /\ free' = free \ table
             /\ todo' = [todo EXCEPT ![t] = Elements(b.all_pages)]
             /\ Goto(t, "commit_grant")
             /\ UNCHANGED <<envVars, grants, doms, listVars, cur, tmp>>
          \/ s # e.regions /\ CommitFail(t, o, b)

\* A slip: the loop goes on after a failure.
GrantRefused_goes_on(t) ==
  /\ todo' = [todo EXCEPT ![t] = @ \ {Lowest(@)}]
  /\ UNCHANGED <<envVars, memVars, listVars, encl, pc, cur, tmp>>

GrantRefused(t) == CommitFail(t, cur[t], encl[cur[t]])

\* tyche_split_grant for the next element of all_pages.
CommitGrant(t) ==
  LET x == Lowest(todo[t]) IN
  /\ pc[t] = "commit_grant"
  /\ \/ /\ todo[t] # {}
        /\ Table!Give(GrantOf(cur[t], x))
        /\ todo' = [todo EXCEPT ![t] = @ \ {x}]
        /\ UNCHANGED <<envVars, doms, free, listVars, encl, pc, cur, tmp>>
     \/ /\ todo[t] = {}
        /\ Goto(t, "commit_seal")
        /\ UNCHANGED <<envVars, memVars, listVars, encl, cur, tmp, todo>>
     \/ todo[t] # {} /\ GrantRefused(t)

\* A slip: the index that the vmcall returns is not stored.
InvokeOf_stale(o) == encl[o].invoke

\* *invoke_capa = frame.ret_1
InvokeOf(o) == encl[o].dom

\* tyche_seal_enclave, and the copy of the result to user space.  A domain is
\* sealed once.
CommitSeal(t) ==
  LET o == cur[t] IN
  /\ pc[t] = "commit_seal"
  /\ \/ /\ doms[encl[o].dom] = "created"
        /\ doms' = [doms EXCEPT ![encl[o].dom] = "sealed"]
        /\ encl' = [encl EXCEPT ![o].invoke = InvokeOf(o)]
        /\ Return(t, "idle")
        /\ UNCHANGED <<envVars, grants, free, listVars>>
     \/ CommitFail(t, o, encl[o])

-----------------------------------------------------------------------------
\* TYCHE_ENCLAVE_DELETE.
IoctlDelete(t, h) ==
  LET o == find_enclave(t, h) IN
  /\ MayCall(t)
  /\ \/ o = None /\ Fail(t)
     \/ /\ o # None
        /\ cur' = [cur EXCEPT ![t] = o]
        /\ todo' = [todo EXCEPT ![t] = Elements(encl[o].all_pages)]
        /\ Goto(t, "delete_revoke")
        /\ UNCHANGED <<envVars, memVars, listVars, encl, tmp>>

\* A slip: the loop goes on after a failure.
RevokeRefused_goes_on(t) ==
  /\ todo' = [todo EXCEPT ![t] = @ \ {Lowest(@)}]
  /\ UNCHANGED <<envVars, memVars, listVars, encl, pc, cur, tmp>>

RevokeRefused(t) == Fail(t)

\* tyche_revoke_region for the next element; a failure leaves the rest.
DeleteRevoke(t) ==
  LET x == Lowest(todo[t]) IN
  /\ pc[t] = "delete_revoke"
  /\ \/ /\ todo[t] # {}
        /\ Table!TakeBack(GrantOf(cur[t], x))
        /\ todo' = [todo EXCEPT ![t] = @ \ {x}]
        /\ UNCHANGED <<envVars, doms, free, listVars, encl, pc, cur, tmp>>
     \/ /\ todo[t] = {}
        /\ Goto(t, "delete_free")
        /\ UNCHANGED <<envVars, memVars, listVars, encl, cur, tmp, todo>>
     \/ todo[t] # {} /\ RevokeRefused(t)

\* Everything but the page-table pages is freed.
DeleteFree(t) ==
  LET o == cur[t] IN
  /\ pc[t] = "delete_free"
  /\ \/ /\ encl[o].pas = "freed"
        /\ Return(t, "uaf")
        /\ UNCHANGED <<envVars, memVars, listVars, encl>>
     \/ /\ encl[o].pas # "freed"
        /\ enclaves' = Unlinked(o)
        /\ encl' = [encl EXCEPT ![o] = None]
        /\ Return(t, "idle")
        /\ UNCHANGED <<envVars, memVars, tyche_ids>>

-----------------------------------------------------------------------------
\* TYCHE_TRANSITION, up to the vmcall that enters the domain of invoke.
IoctlTransition(t, h) ==
  LET o == find_enclave(t, h) IN
  /\ MayCall(t)
  /\ \/ o = None /\ Fail(t)
     \/ /\ o # None
        /\ cur' = [cur EXCEPT ![t] = o]
        /\ Goto(t, "transition")
        /\ UNCHANGED <<envVars, memVars, listVars, encl, tmp, todo>>

\* What the vmcall leaves in rcx.  An assumption on the monitor: whether it has
\* entered the domain or refuses, rcx holds an index that enters the same domain
\* as the one it was given, or none.
Rcx(index) == {index, None}

\* The vmcall returns, after the domain has run or with an error.  In either case
\* the driver takes what is in rcx for the new invoke.
TransitionReturn(t) ==
  /\ pc[t] = "transition"
  /\ \E i \in Rcx(encl[cur[t]].invoke) :
       encl' = [encl EXCEPT ![cur[t]].invoke = i]
  /\ Return(t, "idle")
  /\ UNCHANGED <<envVars, memVars, listVars>>

Next ==
  \E t \in Task :
    \/ \E p \in Pid : Spawn(t, p)
    \/ Exit(t)
    \/ IoctlCreate(t) \/ CreateInc(t) \/ CreateCheck(t) \/ CreateLink(t) \/ CreateDomain(t)
    \/ \E h \in 0 .. MaxIds - 1 :
         \/ \E x \in Asked : AddRegion(t, h, x)
         \/ IoctlCommit(t, h) \/ IoctlDelete(t, h) \/ IoctlTransition(t, h)
    \/ CommitBuild(t) \/ CommitGrant(t) \/ CommitSeal(t)
    \/ DeleteRevoke(t) \/ DeleteFree(t)
    \/ TransitionReturn(t)

Spec == Init /\ [][Next]_vars

-----------------------------------------------------------------------------
Live == {o \in Obj : encl[o] # None}

Sealed(o) == encl[o].dom # None /\ doms[encl[o].dom] = "sealed"

Holds(o, x) ==
  \E g \in grants :
    g.domain = encl[o].dom /\ g.conf = x.conf /\ x.page \in g.start .. g.end - 1

\* Nothing is granted that the driver has forgotten: every page a domain holds is
\* in all_pages, with its type, of the live enclave with that domain, also after
\* a commit or a delete that failed half-way.
GrantsAreTracked ==
  \A g \in grants : \E o \in Live :
    /\ encl[o].dom = g.domain
    /\ \A p \in g.start .. g.end - 1 : [page |-> p, conf |-> g.conf] \in encl[o].all_pages

\* When the DELETE ioctl returns 0, the domain holds no memory any more, however
\* the pages were merged into elements between the commits.
DeleteReleasesAll ==
  [][\A t \in Task :
       pc[t] = "delete_free" /\ pc'[t] = "idle" =>
         \A g \in grants' : g.domain # encl[cur[t]].dom]_vars

\* When an enclave is sealed, it holds every page of its regions, with the type
\* asked for, and every page in its pts, confidentially: no refused grant of
\* commit_enclave is overlooked.
SealedHoldsItsMemory ==
  [][\A o \in Live :
       encl'[o] # None /\ ~Sealed(o) /\ Sealed(o)' =>
         /\ \A x \in encl[o].regions : Holds(o, x)
         /\ \A p \in encl[o].pts : Holds(o, [page |-> p, conf |-> TRUE])]_vars

\* TRANSITION into an enclave that was committed enters the domain of that
\* enclave or is refused, whatever invoke held when the object was allocated and
\* whichever transitions, of it and of others, came before and after the seal.
\* That a refused vmcall leaves no foreign index is assumed of the monitor (Rcx).
SealedEntersItself ==
  \A o \in Live : Sealed(o) => encl[o].invoke \in {encl[o].dom, None}

\* An enclave in use by an ioctl is not freed, or used, by another task's ioctl,
\* also during the vmcall of a transition: the pid check of find_enclave is what
\* keeps two ioctls off one enclave, even when two enclaves share a handle.
NoTwoOnOne ==
  \A t, u \in Task : t # u /\ cur[t] # None => cur[t] # cur[u] /\ encl[cur[t]] # None

\* "Delete all the pas" (enclave.c:365): what a failed commit has freed is not
\* used, or freed, again.
NoUseAfterFree == \A t \in Task : pc[t] # "uaf"

\* "Confidentiality means that enclave is the only enntity able to read enclave
\* memory" (README.md of the driver): what a domain holds confidentially is
\* not handed out by the kernel's page allocator.
GrantedIsNotFree ==
  \A g \in grants : g.conf => (g.start .. g.end - 1) \cap free = {}
=============================================================================
