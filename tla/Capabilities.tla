---------------------------- MODULE Capabilities ----------------------------
(***************************************************************************)
(* The capability library of the managing domain                           *)
(* (programs/libs/capabilities/src/lib.c).  local_domain.capabilities is a *)
(* list of capability objects; transfer_capa splits an object to the       *)
(* requested range and grants or shares it, revoke_capa takes it back and  *)
(* tries to merge the object with its neighbours in the list.              *)
(*                                                                         *)
(* A call is a sequence of steps, each with at most one vmcall.  The       *)
(* library takes no lock: steps of two callers interleave unless the       *)
(* callers keep each other out (Serialised).  Every vmcall and every       *)
(* allocation may fail.  Addresses are counted in pages, so the alignment  *)
(* checks of the code always pass.                                         *)
(***************************************************************************)
EXTENDS Monitor, FiniteSets

CONSTANTS
  Caller,       \* kernel threads that call the library
  Serialised,   \* TRUE when at most one call is in flight at a time
  Ranges,       \* the <<start, end>> pairs callers pass
  Tpe           \* the capability_type_t values callers pass

VARIABLES
  initialised,  \* "no", "ready" or "failed": progress of init_domain
  list,         \* local_domain.capabilities: the handles in list order
  capa,         \* capa[h]: the capability_t with handle h; None once freed
  pc,           \* what each caller does next, or how its last call returned
  args,         \* the arguments of each caller's call
  curr, prev, next  \* the caller's local pointers of those names

libVars == <<initialised, list, capa>>
callVars == <<pc, args, curr, prev, next>>
vars == <<monVars, libVars, callVars>>

-----------------------------------------------------------------------------
Shareds == {"SharedRO", "SharedRW", "SharedRX", "Shared"}
Confidentials == {"ConfidentialRO", "ConfidentialRW", "ConfidentialRX", "Confidential"}

ASSUME RangesAssumption == Ranges \subseteq Addr \X Addr

ASSUME TpeAssumption == Tpe \subseteq Shareds \cup Confidentials

ASSUME SerialisedAssumption == Serialised \in BOOLEAN

translate_access(t) ==
  {"read"} \cup (IF t \in {"SharedRW", "ConfidentialRW", "Shared", "Confidential"}
                 THEN {"write"} ELSE {})
           \cup (IF t \in {"SharedRX", "ConfidentialRX", "Shared", "Confidential"}
                 THEN {"exec"} ELSE {})

\* A slip: the rights are not compared.
access_is_less_always(a1, a2) == TRUE

\* Only the three permission bits of the first mask are compared.
access_is_less(a1, a2) == (a1 \ {"revok"}) \subseteq a2

Status == {"Active", "Shared", "Paused"}

RevokHandle == [domain: Domain, handle: RevHandle]

Capability == [start: Addr, end: Addr, owned: BOOLEAN, shared: BOOLEAN,
               access: SUBSET Rights, status: Status, revoks: SUBSET RevokHandle]

Args == [dom: Domain, start: Addr, end: Addr, tpe: Tpe \cup {None}]

ASSUME NoneCapaAssumption == None \notin Capability /\ None \notin Args

Returned == {"ok", "fail"}   \* the last call returned 0, or -1
Dead == {"oops", "uaf"}      \* the thread followed a null, or a freed, pointer
TransferPcs == {"transfer", "split", "split2", "give"}
RevokePcs == {"revoke", "merge_left", "merge_right"}

TypeOK ==
  /\ MonTypeOK
  /\ initialised \in {"no", "ready", "failed"}
  /\ list \in Seq(Handle)
  /\ capa \in [Handle -> Capability \cup {None}]
  /\ pc \in [Caller -> Returned \cup Dead \cup TransferPcs \cup RevokePcs]
  /\ args \in [Caller -> Args \cup {None}]
  /\ curr \in [Caller -> Handle \cup {None}]
  /\ prev \in [Caller -> Handle \cup {None}]
  /\ next \in [Caller -> Handle \cup {None}]

Init ==
  /\ MonInit
  /\ initialised = "no"
  /\ list = <<>>
  /\ capa = [h \in Handle |-> None]
  /\ pc = [c \in Caller |-> "ok"]
  /\ args = [c \in Caller |-> None]
  /\ curr = [c \in Caller |-> None]
  /\ prev = [c \in Caller |-> None]
  /\ next = [c \in Caller |-> None]

-----------------------------------------------------------------------------
\* A slip: the neighbour is unlinked instead.
dll_remove_neighbour(l, i) == SubSeq(l, 1, i) \o SubSeq(l, i + 2, Len(l))

\* The list: dll_add appends, dll_remove takes out the i-th element.
dll_add(l, h) == Append(l, h)
dll_remove(l, i) == SubSeq(l, 1, i - 1) \o SubSeq(l, i + 1, Len(l))
dll_prev(l, i) == IF i = 1 THEN None ELSE l[i - 1]
dll_next(l, i) == IF i = Len(l) THEN None ELSE l[i + 1]
dll_contains(start, end, val) == start <= val /\ val < end

\* A read capability_t: the fields of the region, Active, without revoks.
ReadCapa(r) ==
  [start |-> r.start, end |-> r.end, owned |-> r.owned, shared |-> r.shared,
   access |-> r.access, status |-> "Active", revoks |-> {}]

\* The call of c returns; its locals die.
Return(c, result) ==
  /\ pc' = [pc EXCEPT ![c] = result]
  /\ args' = [args EXCEPT ![c] = None]
  /\ curr' = [curr EXCEPT ![c] = None]
  /\ prev' = [prev EXCEPT ![c] = None]
  /\ next' = [next EXCEPT ![c] = None]

Fail(c) == Return(c, "fail") /\ UNCHANGED <<monVars, libVars>>

\* Between two steps another caller may have freed what c still points to, and
\* is about to dereference.
Dangling(c) ==
  \E h \in {curr[c], prev[c]} \cup (IF pc[c] = "merge_right" THEN {next[c]} ELSE {}) :
    h # None /\ capa[h] = None

\* The steps that dereference their pointers die when one is stale.
UseAfterFree(c) ==
  /\ pc[c] \in {"split", "split2", "give", "merge_left", "merge_right"}
  /\ Dangling(c)
  /\ Return(c, "uaf")
  /\ UNCHANGED <<monVars, libVars>>

-----------------------------------------------------------------------------
\* init_domain: one object per ECS entry, in order.  An entry that is itself a
\* revocation handle makes it fail.
InitDomain ==
  /\ initialised = "no"
  /\ \A i \in DOMAIN Boot : "revok" \notin Boot[i].access
  /\ \E l \in [DOMAIN Boot -> Handle] :
       /\ \A i \in DOMAIN Boot : region[l[i]] = Boot[i]
       /\ list' = l
  /\ capa' = [h \in Handle |-> IF region[h] = None THEN None ELSE ReadCapa(region[h])]
  /\ initialised' = "ready"
  /\ UNCHANGED <<monVars, callVars>>

\* A failed vmcall or allocation, or a revocation handle: the list is emptied
\* and the module is not loaded.
InitDomainFails ==
  /\ initialised = "no"
  /\ initialised' = "failed"
  /\ UNCHANGED <<monVars, list, capa, callVars>>

\* Nothing in the library keeps two calls apart; its callers may.
MayCall(c) ==
  /\ initialised = "ready"
  /\ pc[c] \in Returned
  /\ Serialised => \A d \in Caller : pc[d] \in Returned \cup Dead

create_domain(c, d) == MayCall(c) /\ MonCreate(d) /\ UNCHANGED <<libVars, callVars>>

seal_domain(c, d) == MayCall(c) /\ MonSeal(d) /\ UNCHANGED <<libVars, callVars>>

-----------------------------------------------------------------------------
\* split_capa's own checks of the capability and of the address.
CanSplit(h, addr) ==
  /\ "revok" \notin capa[h].access
  /\ capa[h].owned /\ ~capa[h].shared
  /\ dll_contains(capa[h].start, capa[h].end, addr)

\* A slip: "capa->end = split_addr" is missing.
split_capa_keeps_end(h, addr, h2) ==
  /\ CanSplit(h, addr)
  /\ MonSplit(h, addr, h2)
  /\ capa' = [capa EXCEPT ![h2] = [capa[h] EXCEPT !.start = addr, !.revoks = {}]]
  /\ list' = dll_add(list, h2)
  /\ UNCHANGED initialised

\* A successful split_capa(h, addr): h2 goes to the tail of the list.
split_capa(h, addr, h2) ==
  /\ CanSplit(h, addr)
  /\ MonSplit(h, addr, h2)
  /\ capa' = [capa EXCEPT ![h].end = addr,
                          ![h2] = [capa[h] EXCEPT !.start = addr, !.revoks = {}]]
  /\ list' = dll_add(list, h2)
  /\ UNCHANGED initialised

\* The search of transfer_capa stops at the first object that is exactly the
\* range, or that contains both of its ends.  Objects are half-open, so one that
\* ends where the range ends does not contain it, unless it is the range.
IsRange(h, start, end) == capa[h].start = start /\ capa[h].end = end

\* A slip: only the start of the range is looked for.
Covers_start(h, start, end) == dll_contains(capa[h].start, capa[h].end, start)

Covers(h, start, end) ==
  \/ IsRange(h, start, end)
  \/ /\ dll_contains(capa[h].start, capa[h].end, start)
     /\ dll_contains(capa[h].start, capa[h].end, end)

\* A slip: the status is not looked at.
TransferAllowed_any_status(h, t) == access_is_less(translate_access(t), capa[h].access)

\* Access may not grow; what is granted cannot be shared; only what is Active
\* can be granted.
TransferAllowed(h, t) ==
  /\ access_is_less(translate_access(t), capa[h].access)
  /\ t \in Shareds => capa[h].status # "Paused"
  /\ t \in Confidentials => capa[h].status = "Active"

CallTransfer(c, d, start, end, t) ==
  /\ MayCall(c)
  /\ pc' = [pc EXCEPT ![c] = "transfer"]
  /\ args' = [args EXCEPT ![c] = [dom |-> d, start |-> start, end |-> end, tpe |-> t]]
  /\ UNCHANGED <<monVars, libVars, curr, prev, next>>

\* transfer_capa up to the first split.
TransferFind(c) ==
  LET a == args[c]
      Found(i) == /\ i \in DOMAIN list
                  /\ Covers(list[i], a.start, a.end)
                  /\ \A j \in 1 .. i - 1 : ~Covers(list[j], a.start, a.end)
      Usable(i) == a.start < a.end /\ Found(i) /\ TransferAllowed(list[i], a.tpe)
  IN /\ pc[c] = "transfer"
     /\ \/ \E i \in DOMAIN list :
             /\ Usable(i)
             /\ curr' = [curr EXCEPT ![c] = list[i]]
             /\ pc' = [pc EXCEPT ![c] =
                         IF IsRange(list[i], a.start, a.end) THEN "give" ELSE "split"]
             /\ UNCHANGED <<monVars, libVars, args, prev, next>>
        \/ (\A i \in DOMAIN list : ~Usable(i)) /\ Fail(c)

\* The split at start; the new object is the one to transfer.
TransferSplit(c) ==
  /\ pc[c] = "split"
  /\ ~Dangling(c)
  /\ \/ \E h2 \in Handle :
          /\ split_capa(curr[c], args[c].start, h2)
          /\ curr' = [curr EXCEPT ![c] = h2]
          /\ pc' = [pc EXCEPT ![c] = IF capa'[h2].end > args[c].end
                                     THEN "split2" ELSE "give"]
          /\ UNCHANGED <<args, prev, next>>
     \/ Fail(c)

\* The split at end; when it fails, the first split stays.
TransferSplit2(c) ==
  /\ pc[c] = "split2"
  /\ ~Dangling(c)
  /\ \/ \E h2 \in Handle :
          /\ split_capa(curr[c], args[c].end, h2)
          /\ pc' = [pc EXCEPT ![c] = "give"]
          /\ UNCHANGED <<args, curr, prev, next>>
     \/ Fail(c)

\* The object is marked before the vmcall and gets its revocation handle after;
\* this is one step.
Transferred(c, r, status) ==
  /\ MonTransfer(args[c].dom, curr[c], args[c].tpe \in Confidentials,
                 translate_access(args[c].tpe), r)
  /\ capa' = [capa EXCEPT
       ![curr[c]].status = status,
       ![curr[c]].revoks = @ \cup {[domain |-> args[c].dom, handle |-> r]}]
  /\ UNCHANGED <<initialised, list>>
  /\ Return(c, "ok")

\* tyche_grant_capa.  When the monitor refuses, the object is made Active.
TransferGrant(c) ==
  /\ pc[c] = "give" /\ args[c].tpe \in Confidentials
  /\ ~Dangling(c)
  /\ \/ \E r \in RevHandle : Transferred(c, r, "Paused")
     \/ /\ capa' = [capa EXCEPT ![curr[c]].status = "Active"]
        /\ Return(c, "fail")
        /\ UNCHANGED <<monVars, initialised, list>>
     \/ Fail(c)   \* no memory for the revocation handle

\* tyche_share_capa, unless the domain already holds a share of this object.
TransferShare(c) ==
  /\ pc[c] = "give" /\ args[c].tpe \in Shareds
  /\ ~Dangling(c)
  /\ \/ /\ \A x \in capa[curr[c]].revoks : x.domain # args[c].dom
        /\ \E r \in RevHandle : Transferred(c, r, "Shared")
     \/ Fail(c)

-----------------------------------------------------------------------------
CallRevoke(c, d, start, end) ==
  /\ MayCall(c)
  /\ pc' = [pc EXCEPT ![c] = "revoke"]
  /\ args' = [args EXCEPT ![c] = [dom |-> d, start |-> start, end |-> end, tpe |-> None]]
  /\ UNCHANGED <<monVars, libVars, curr, prev, next>>

\* The locals of revoke_capa at attempt_merge, for the i-th object.
AttemptMerge(c, i) ==
  /\ pc' = [pc EXCEPT ![c] = "merge_left"]
  /\ curr' = [curr EXCEPT ![c] = list[i]]
  /\ prev' = [prev EXCEPT ![c] = dll_prev(list, i)]
  /\ next' = [next EXCEPT ![c] = dll_next(list, i)]
  /\ UNCHANGED args

\* A slip: the monitor is not asked.
Revoked_locally(h, x, status) ==
  /\ capa' = [capa EXCEPT ![h].status = status, ![h].revoks = @ \ {x}]
  /\ UNCHANGED <<monVars, initialised, list>>

\* A slip: all revocation handles of the object are dropped.
Revoked_all(h, x, status) ==
  /\ MonRevoke(x.handle)
  /\ capa' = [capa EXCEPT ![h].status = status, ![h].revoks = {}]
  /\ UNCHANGED <<initialised, list>>

\* The revocation handle x of h is used and freed.
Revoked(h, x, status) ==
  /\ MonRevoke(x.handle)
  /\ capa' = [capa EXCEPT ![h].status = status, ![h].revoks = @ \ {x}]
  /\ UNCHANGED <<initialised, list>>

\* revoke_capa up to attempt_merge, for the first object that is the range.  The
\* search, the vmcall and what follows it are one step: a caller that would change
\* the object in between is not modelled.
RevokeFind(c) ==
  LET a == args[c]
      Found(i) == /\ i \in DOMAIN list
                  /\ IsRange(list[i], a.start, a.end)
                  /\ \A j \in 1 .. i - 1 : ~IsRange(list[j], a.start, a.end)
  IN /\ pc[c] = "revoke"
     /\ \/ \E i \in DOMAIN list :
             LET h == list[i] IN
             /\ a.start < a.end /\ Found(i)
             /\ \/ /\ capa[h].status = "Paused" /\ Cardinality(capa[h].revoks) = 1
                   /\ \E x \in capa[h].revoks : x.domain = a.dom /\ Revoked(h, x, "Active")
                   /\ AttemptMerge(c, i)
                \/ /\ capa[h].status = "Shared"
                   /\ \E x \in capa[h].revoks :
                        /\ x.domain = a.dom
                        /\ IF capa[h].revoks = {x} /\ capa[h].owned
                           THEN Revoked(h, x, "Active") /\ AttemptMerge(c, i)
                           ELSE Revoked(h, x, "Shared") /\ Return(c, "ok")
                \/ /\ capa[h].status = "Active" /\ capa[h].revoks # {}
                   /\ AttemptMerge(c, i)
                   /\ UNCHANGED <<monVars, libVars>>
        \/ \* not found, not held by the domain, or the vmcall failed
           /\ \A i \in DOMAIN list :
                Found(i) => capa[list[i]].status # "Active" \/ capa[list[i]].revoks = {}
           /\ Fail(c)

\* h2 starts where h1 ends, and is an Active, owned object of the same access.
Mergeable(h1, h2, other) ==
  /\ capa[h1].end = capa[h2].start
  /\ capa[other].owned
  /\ capa[other].status = "Active"
  /\ capa[h1].access = capa[h2].access

\* A slip: the merged object is one page too long.
Merged_too_long(h1, h2) ==
  /\ MonMerge(h1, h2)
  /\ capa' = [capa EXCEPT ![h1].end = capa[h2].end + 1, ![h2] = None]
  /\ \E i \in DOMAIN list : list[i] = h2 /\ list' = dll_remove(list, i)
  /\ UNCHANGED initialised

\* h1 takes over the range of h2, which leaves the list and is freed.
Merged(h1, h2) ==
  /\ MonMerge(h1, h2)
  /\ capa' = [capa EXCEPT ![h1].end = capa[h2].end, ![h2] = None]
  /\ \E i \in DOMAIN list : list[i] = h2 /\ list' = dll_remove(list, i)
  /\ UNCHANGED initialised

\* A slip: "curr = prev" is missing.
GoRight_with_freed(c) ==
  /\ pc' = [pc EXCEPT ![c] = "merge_right"]
  /\ UNCHANGED <<args, curr, prev, next>>

\* The object merged on the left goes on with the neighbour on the right.
GoRight(c) ==
  /\ pc' = [pc EXCEPT ![c] = "merge_right"]
  /\ curr' = [curr EXCEPT ![c] = prev[c]]
  /\ UNCHANGED <<args, prev, next>>

\* The merge on the left.  A refused merge ends the call, successfully.
MergeLeft(c) ==
  LET h == curr[c]
      p == prev[c]
      mergeable == p # None /\ Mergeable(p, h, p) /\ capa[p].revoks = {}
  IN /\ pc[c] = "merge_left"
     /\ ~Dangling(c)
     /\ \/ capa[h].status # "Active" /\ Fail(c)
        \/ /\ capa[h].status = "Active" /\ ~mergeable
           /\ pc' = [pc EXCEPT ![c] = "merge_right"]
           /\ UNCHANGED <<monVars, libVars, args, curr, prev, next>>
        \/ /\ capa[h].status = "Active" /\ mergeable
           /\ \/ Merged(p, h) /\ GoRight(c)
              \/ Return(c, "ok") /\ UNCHANGED <<monVars, libVars>>

\* The merge on the right.  The code tests the revoks of prev, not of next.
MergeRight(c) ==
  LET h == curr[c]
      n == next[c]
      contiguous == n # None /\ Mergeable(h, n, n)
  IN /\ pc[c] = "merge_right"
     /\ ~Dangling(c)
     /\ \/ contiguous /\ prev[c] = None
           /\ Return(c, "oops") /\ UNCHANGED <<monVars, libVars>>
        \/ /\ contiguous /\ prev[c] # None
           /\ capa[prev[c]].revoks = {}
           /\ Merged(h, n) /\ Return(c, "ok")
        \/ /\ ~contiguous \/ prev[c] # None   \* nothing to merge, or refused
           /\ Return(c, "ok") /\ UNCHANGED <<monVars, libVars>>

Next ==
  \/ InitDomain \/ InitDomainFails
  \/ \E c \in Caller :
       \/ \E d \in Domain : create_domain(c, d) \/ seal_domain(c, d)
       \/ \E d \in Domain, q \in Ranges :
            \/ \E t \in Tpe : CallTransfer(c, d, q[1], q[2], t)
            \/ CallRevoke(c, d, q[1], q[2])
       \/ TransferFind(c) \/ TransferSplit(c) \/ TransferSplit2(c)
       \/ TransferGrant(c) \/ TransferShare(c)
       \/ RevokeFind(c) \/ MergeLeft(c) \/ MergeRight(c)
       \/ UseAfterFree(c)

Spec == Init /\ [][Next]_vars

-----------------------------------------------------------------------------
Live == {h \in Handle : capa[h] # None}

\* The library's list and the monitor agree: they name the same regions, with
\* the same bounds, rights and outstanding transfers.  It must survive every
\* refused vmcall and failed allocation of transfer_capa and revoke_capa.
MirrorsMonitor ==
  initialised = "ready" =>
    /\ \A h \in Handle : capa[h] = None <=> region[h] = None
    /\ \A h \in Live :
         /\ capa[h].start = region[h].start /\ capa[h].end = region[h].end
         /\ capa[h].access = region[h].access
         /\ capa[h].revoks = {[domain |-> rev[r].domain, handle |-> r] : r \in Outstanding(h)}

\* The list holds exactly the objects that are not freed, each of them once.
ListIsLive ==
  /\ \A h \in Handle : h \in Live <=> \E i \in DOMAIN list : list[i] = h
  /\ \A i, j \in DOMAIN list : list[i] = list[j] => i = j

\* "There should be only one revocation handle for a paused capa" (lib.c:304):
\* an Active object is not transferred, a Paused one is granted once, a Shared
\* one never twice to a domain and, when it is owned, never to nobody.
StatusMatchesRevoks ==
  \A h \in Live :
    /\ capa[h].status = "Active" => capa[h].revoks = {}
    /\ capa[h].status = "Paused" => \E x \in RevokHandle : capa[h].revoks = {x}
    /\ capa[h].status = "Shared" /\ capa[h].owned => capa[h].revoks # {}
    /\ \A x, y \in capa[h].revoks : x.domain = y.domain => x = y

Pages(x) == x.start .. (x.end - 1)

\* Splits and merges neither lose nor duplicate memory: no page is in two objects
\* (a split at the start of an object leaves an empty one), and the objects make up
\* the memory the domain booted with.
MemoryConserved ==
  initialised = "ready" =>
    /\ \A h1, h2 \in Live : h1 # h2 => Pages(capa[h1]) \cap Pages(capa[h2]) = {}
    /\ UNION {Pages(capa[h]) : h \in Live} = UNION {Pages(Boot[i]) : i \in DOMAIN Boot}

\* "attempt to increase access rights in transfer" (lib.c:190) never succeeds,
\* not even through a split or a merge of the object.
AccessNeverGrows ==
  \A r \in RevHandle : rev[r] # None => rev[r].access \subseteq region[rev[r].region].access

\* No call follows a pointer to an object another step has freed.
NoUseAfterFree == \A c \in Caller : pc[c] # "uaf"

\* "Revoke access to a region" (tyche_capabilities.h:88): when revoke_capa
\* returns 0, the domain no longer holds any page of the range.
RevokedMeansGone ==
  [][\A c \in Caller :
       pc[c] \in RevokePcs /\ pc'[c] = "ok" =>
         \A r \in RevHandle :
           rev'[r] # None /\ rev'[r].domain = args[c].dom =>
             Disjoint(region'[rev'[r].region], args[c])]_vars

\* When transfer_capa returns 0, the domain holds exactly the requested range,
\* with the requested rights, and nothing around it.
TransferIsExact ==
  [][\A c \in Caller :
       pc[c] \in TransferPcs /\ pc'[c] = "ok" =>
         \E r \in RevHandle :
           /\ rev[r] = None /\ rev'[r] # None
           /\ rev'[r].domain = args[c].dom
           /\ rev'[r].access = translate_access(args[c].tpe)
           /\ region'[rev'[r].region].start = args[c].start
           /\ region'[rev'[r].region].end = args[c].end]_vars

\* The library's bookkeeping implements the table of grants: splits and merges
\* are invisible, ranges are given and taken back whole, and what is given
\* confidentially is held by nobody else.
Grants ==
  UNION {{[domain |-> x.domain, start |-> capa[h].start, end |-> capa[h].end,
           conf |-> capa[h].status = "Paused"] : x \in capa[h].revoks} : h \in Live}

Table == INSTANCE GrantTable WITH grants <- Grants

TableSpec == Table!Spec

=============================================================================
