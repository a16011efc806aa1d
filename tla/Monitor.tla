------------------------------ MODULE Monitor ------------------------------
(***************************************************************************)
(* The Tyche monitor, as the capability library uses it through the        *)
(* vmcalls of tyche_api.c.  The monitor is not part of the repository: the *)
(* operators below say what a vmcall does when it returns 0, and a caller  *)
(* must expect any vmcall to be refused.                                   *)
(*                                                                         *)
(* A region is named by a handle the monitor chooses; each grant or share  *)
(* of a region is named by a revocation handle.  A region with outstanding *)
(* revocation handles is pinned: it cannot be split, merged or granted.    *)
(***************************************************************************)
EXTENDS Integers, Sequences

CONSTANTS
  MaxAddr,     \* addresses are page numbers 0 .. MaxAddr
  Boot,        \* the regions the managing domain owns at boot, in ECS order
  Handle,      \* names of regions
  RevHandle,   \* names of grants and shares
  Domain,      \* the domains the managing domain may create
  None         \* "no such object"

VARIABLES
  region,      \* region[h]: what handle h names, or None
  rev,         \* rev[r]: the transfer that r revokes, or None
  domain       \* domain[d] \in {"none", "open", "sealed"}

monVars == <<region, rev, domain>>

\* Bits of an access mask: CAPA_READ, CAPA_WRITE, CAPA_EXEC, CAPA_REVOK.
Rights == {"read", "write", "exec", "revok"}

Addr == 0 .. MaxAddr

Region == [start: Addr, end: Addr, owned: BOOLEAN, shared: BOOLEAN,
           access: SUBSET Rights]

Rev == [region: Handle, domain: Domain, conf: BOOLEAN, access: SUBSET Rights]

Disjoint(a, b) == a.end <= b.start \/ b.end <= a.start

ASSUME AddrAssumption == MaxAddr \in Nat

ASSUME NoneAssumption ==
  /\ None \notin Region /\ None \notin Rev
  /\ None \notin Handle /\ None \notin RevHandle

ASSUME BootAssumption ==
  /\ Boot \in Seq(Region)
  /\ \A i \in DOMAIN Boot : Boot[i].start < Boot[i].end
  /\ \A i, j \in DOMAIN Boot : i # j => Disjoint(Boot[i], Boot[j])

MonTypeOK ==
  /\ region \in [Handle -> Region \cup {None}]
  /\ rev \in [RevHandle -> Rev \cup {None}]
  /\ domain \in [Domain -> {"none", "open", "sealed"}]

\* Every boot region has one handle; no domain exists and nothing is transferred.
MonInit ==
  /\ region \in [Handle -> {Boot[i] : i \in DOMAIN Boot} \cup {None}]
  /\ \A i \in DOMAIN Boot : \E h \in Handle : region[h] = Boot[i]
  /\ \A h1, h2 \in Handle : h1 # h2 => region[h1] = None \/ region[h1] # region[h2]
  /\ rev = [r \in RevHandle |-> None]
  /\ domain = [d \in Domain |-> "none"]

\* The transfers of region h that have not been revoked.
Outstanding(h) == {r \in RevHandle : rev[r] # None /\ rev[r].region = h}

-----------------------------------------------------------------------------
\* TYCHE_REGION_SPLIT: h keeps [start, addr) and h2 names [addr, end).
MonSplit(h, addr, h2) ==
  /\ region[h] # None /\ region[h2] = None
  /\ region[h].start <= addr /\ addr < region[h].end
  /\ Outstanding(h) = {}
  /\ region' = [region EXCEPT ![h].end = addr,
                              ![h2] = [region[h] EXCEPT !.start = addr]]
  /\ UNCHANGED <<rev, domain>>

\* TYCHE_REGION_MERGE: h1 is extended to the end of h2, and h2 disappears.
MonMerge(h1, h2) ==
  /\ h1 # h2 /\ region[h1] # None /\ region[h2] # None
  /\ region[h1].end = region[h2].start
  /\ Outstanding(h1) = {} /\ Outstanding(h2) = {}
  /\ region' = [region EXCEPT ![h1].end = region[h2].end,
                              ![h2] = None]
  /\ UNCHANGED <<rev, domain>>

\* TYCHE_DOMAIN_GRANT_REGION and TYCHE_DOMAIN_SHARE_REGION: r names the
\* transfer.  A grant needs the whole region, a share only that it is not granted.
MonTransfer(d, h, conf, access, r) ==
  /\ region[h] # None /\ rev[r] = None
  /\ domain[d] # "none"
  /\ IF conf THEN Outstanding(h) = {} ELSE \A x \in Outstanding(h) : ~rev[x].conf
  /\ rev' = [rev EXCEPT ![r] = [region |-> h, domain |-> d, conf |-> conf,
                                access |-> access]]
  /\ UNCHANGED <<region, domain>>

\* TYCHE_DOMAIN_REVOK_REGION.
MonRevoke(r) ==
  /\ rev[r] # None
  /\ rev' = [rev EXCEPT ![r] = None]
  /\ UNCHANGED <<region, domain>>

\* TYCHE_DOMAIN_CREATE.
MonCreate(d) ==
  /\ domain[d] = "none"
  /\ domain' = [domain EXCEPT ![d] = "open"]
  /\ UNCHANGED <<region, rev>>

\* TYCHE_DOMAIN_SEAL.
MonSeal(d) ==
  /\ domain[d] = "open"
  /\ domain' = [domain EXCEPT ![d] = "sealed"]
  /\ UNCHANGED <<region, rev>>
=============================================================================
