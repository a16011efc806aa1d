# Verification of the Tyche capability library and enclave driver

The repository builds the Linux image that runs as the *managing domain* of the
Tyche monitor. Its own logic is small and sits in two kernel modules and the C
libraries they share: the **capability library** keeps the managing domain's
picture of the memory it owns and has given away, and the **enclave driver**
turns ioctls of user programs into domains with memory. This directory holds
TLA+ models of them, TLC configurations that check the models on small
instances, and TLAPS proofs.

Paths below are relative to `src/`.

## 1. Inventory

| Component | Source | State | Operations |
|---|---|---|---|
| Capability library | `programs/libs/capabilities/src/lib.c` | `local_domain.capabilities`, a list of `capability_t` (range, rights, status, list of revocation handles) | `init_domain`, `create_domain`, `split_capa`, `transfer_capa`, `seal_domain`, `revoke_capa` |
| Monitor interface | `programs/libs/capabilities/src/tyche_api.c`, `ecs.c` | none; the monitor's state is behind the vmcalls | one wrapper per vmcall, `translate_access`, enumeration at boot |
| Capability kernel module | `modules/libraries/tyche-capabilities/src/driver.c` | none of its own | `tc_*` forwarders, module load |
| Doubly linked lists | `programs/libs/dll/include/dll.h` | links | `dll_init_list`, `dll_init_elem`, `dll_add`, `dll_add_after`, `dll_add_first`, `dll_remove`, `dll_foreach` |
| Physical pages of an enclave | `modules/libraries/enclave/src/internal/enclave.c` | `enclave_t.all_pages`, sorted and merged `pa_region_t` | `add_merge_global` |
| Virtual regions of an enclave | same file | `enclave_t.regions`, sorted and merged `region_t` | `add_region` |
| Enclave driver | `modules/libraries/enclave/src/ioctl.c`, `internal/enclave.c`, `internal/tyche_vmcall.c` | `tyche_ids`, the list of `enclave_t` | CREATE, ADD_REGION, ADD_STACK, COMMIT, DELETE, TRANSITION, DBG |
| Page-table construction | `internal/mapper.c`, `programs/libs/pts` | the page tables of an enclave, `enclave_t.pts` | `build_enclave_cr3`, `allocate`, `default_mapper`, `pt_walk_page_range` |
| Collection of physical pages | `internal/process.c` | `region_t.pas` | `walk_and_collect_region` |
| Enclave loader | `programs/libs/enclave/loader` | `library_plugin`; per enclave a `load_encl_t`: file, arrays, mappings, descriptor of the driver, handle | `init_enclave_loader`, `load_enclave`, `delete_enclave`, `enclave_driver_transition` |
| ELF reader | `programs/libs/elf64` | none | reading headers and sections |
| Transition debugging, enclave runtime | `dbg/dbg.c`, `programs/libs/enclave/runtime` | saved registers | assembly |
| Test programs, image build | `programs/user`, Makefiles, busybox | | |

How they interact. A user program opens the driver's device and issues ioctls.
COMMIT collects the physical pages behind each region, builds page tables in
pages of the kernel's allocator, records all of these in `all_pages`, and for
each element of that list calls the capability module to transfer it; then it
seals the domain. DELETE revokes each element. The capability module finds the
`capability_t` that covers the range, splits it with up to two vmcalls,
transfers it with another, and keeps the revocation handle; a revocation uses
that handle and then merges the object with its list neighbours.

What is hard.

* *No locks.* Neither the driver nor the library takes one. The kernel is built
  with `CONFIG_SMP=y`, and `unlocked_ioctl` runs on behalf of any number of
  tasks, so ioctls of two tasks interleave. `current->pid` is the task's own id:
  two threads of a process are two tasks here.
* *Refusals.* Every vmcall can be refused and every allocation can fail, also in
  the middle of a call that has already changed something.
* *List order is not address order* in the capability library: a split goes to
  the tail, while the merge looks at list neighbours.
* *Loops that edit the list they walk and step back* in `add_merge_global` and
  `add_region`.
* *Retries*: COMMIT after a failed COMMIT, DELETE after a failed DELETE.
* *Objects that outlive their creator*: the driver has no `release` operation.
* *Two walks that must agree*: COMMIT collects the pages of a region with the
  kernel's walker and maps them with a recursive walker of its own.
* *A ladder of error labels* in the loader, each releasing a different part of
  what the process, the driver and the monitor hold by then.
* *Memory that is recycled*: list elements are unlinked, freed, allocated again
  and linked elsewhere, with whatever the links held before.

What makes each component correct: library and monitor agree on every region
and every outstanding transfer; memory is neither lost nor duplicated by splits
and merges; rights never grow; a revocation that returns 0 took everything back;
`all_pages` and `regions` are sorted, disjoint, and cover exactly what was
accepted; what an enclave has been granted can always be found and revoked; an
enclave is sealed only with all its memory; its page table maps exactly the
pages the process had, with the rights asked for; a transition enters the domain
of its enclave; the links of a list spell out one sequence in both directions;
the loader releases everything once and nothing that a domain still holds.

## 2. Modules

| Module | Models | Uses |
|---|---|---|
| `Monitor` | the monitor's regions, transfers and domains, one operator per vmcall | |
| `GrantTable` | abstract: a table of ranges held by other domains | |
| `Capabilities` | the capability library on top of the monitor | `Monitor`, implements `GrantTable` |
| `MCCapabilities` | its small instances | |
| `Capabilities_proof` | theorems about `Capabilities` | TLAPS |
| `Dll` | the macros of `dll.h`, pointer by pointer | `Lists` |
| `Dll_proof` | theorems about `Dll` | `Lists_proof` |
| `Lists` | the same macros as operations on sequences | |
| `Lists_proof` | what these operations return | TLAPS |
| `PageTypes` | abstract: a set of pages, each with a type | |
| `AllPages` | `add_merge_global` | `Lists`, implements `PageTypes` |
| `AllPages_proof` | theorems about `AllPages` | `Lists_proof` |
| `Regions`, `MCRegions` | `add_region`, and its requests | `Lists` |
| `Regions_proof` | theorems about `Regions` | `Lists_proof` |
| `EnclaveDriver`, `MCEnclaveDriver` | the ioctls and concurrent tasks | `Lists`; `GrantTable` in place of the library |
| `EnclaveDriver_proof` | theorems about `EnclaveDriver` | `Lists_proof` |
| `PageTable`, `MCPageTable` | collection of the pages, `build_enclave_cr3`, `pt_walk_page_range` | |
| `PageTable_proof` | theorems about `PageTable` | `Lists_proof` |
| `Loader` | the loader's resources and error labels | |
| `Loader_proof` | theorems about `Loader` | TLAPS |

The composition is by contract: `Capabilities` implements `GrantTable` (property
`TableSpec`, theorem `LibraryImplementsTable`), and `EnclaveDriver` performs its
grants and revocations as `Table!Give` and `Table!TakeBack` of the same module.
`AllPages` implements `PageTypes`, a set of typed pages (property `AbstractSpec`,
theorem `PagesImplementTypes`), and `EnclaveDriver` keeps `all_pages` as such a
set, whose maximal runs are the list's elements. `Loader` takes the ioctls by what
`EnclaveDriver` shows of them. Every module that keeps a list as a sequence rests
on `Dll`, whose theorems say that the links spell out the sequence.

The first of these contracts has a condition that the code does not meet. The
library implements the table if its callers keep each other out; in `EnclaveDriver`
a call of it is one step, so the tasks do keep each other out there; but
`ioctl.c` takes no lock, and two COMMITs may be inside `transfer_capa` at once. With
two callers TLC finds that a transfer returns 0 having given a part of the range,
because the other caller has split the object in the meantime, that a revocation
returns 0 while the domain holds the range again, and that a freed object is
followed; the first two by calls for overlapping ranges. So what is shown of the
driver is what ioctls can do to each other *between* calls of the capability module,
and it carries over to the running system where these calls do not overlap. What
holds of the library without that condition (`MemoryConserved`, `MirrorsMonitor`,
`ListIsLive`) is proved for any callers.

`GrantTable` promises that a range is given and taken back as a whole: of two
grants that overlap both are shares of the same range. The driver depends on it,
as it revokes whole elements of `all_pages`; the library provides it because an
object with outstanding transfers is neither split nor merged.

### Capabilities and Monitor

`region`, `rev` and `domain` are the monitor's; `list` and `capa` are
`local_domain.capabilities` and the objects in it, named by their monitor handle
(`capa[h] = None`: freed or never allocated); `pc`, `args`, `curr`, `prev`, `next`
are the locals of each calling thread. A call is cut into steps at its vmcalls:
`CallTransfer`, `TransferFind` (search and checks), `TransferSplit` and
`TransferSplit2` (the two `split_capa`), `TransferGrant` or `TransferShare`;
`CallRevoke`, `RevokeFind` (search, revocation, status), `MergeLeft` and
`MergeRight`. Each step that follows a pointer has a twin, `UseAfterFree`, for
the case that another thread has freed the object since; a thread that follows a
null or a freed pointer stops there ("oops", "uaf"), for what it would do then is
not defined.

The monitor is not in the repository. `Monitor` says what each vmcall does when
it returns 0, as far as the library depends on it, and nothing says that it will
return 0. One assumption matters and is made explicit in the guards of
`MonSplit` and `MonMerge`: a region with outstanding transfers is pinned. It is
what the library relies on when its own checks let such a split through (below).
The driver adds an assumption of its own, the operator `Rcx` of `EnclaveDriver`:
the vmcall of a transition, whether it succeeds or not, leaves in `rcx` an index that
enters the domain it was called for, or none. `enclave.c:490` stores what it finds
there without looking at the result, so `SealedEntersItself` depends on this.

Addresses are counted in pages, so the alignment tests always pass. Register
passing, the ECS byte layout and error messages are left out. An access mask is a
set of rights.

A step takes a vmcall together with the code around it up to the next one.
`RevokeFind` is the search, the revocation and the change of the object,
`TransferGrant` marks the object, transfers it and stores the handle. With callers
that keep each other out nothing is lost by this. With others, interleavings inside
such a step, around its vmcall or on the list's link fields, are not modelled: the
theorems for any callers are about steps of this size.

### AllPages and Regions

One action per branch of the loop. The list is a sequence; `iter` and `prev` are
positions in it, with `Len + 1` and `0` for NULL. `dll_remove`, `dll_add_after`
and `dll_add_first` are operations on sequences, and the step backwards after a
merge is a change of position. In `Regions`, `accepted` is a history variable.
`AllPages` is called for any range; `Regions` for a fixed set of requests.

### EnclaveDriver

Tasks with pids run ioctls as sequences of steps, cut at each call of the
capability module and, for CREATE, also between the load and the store of
`tyche_ids++`, the freshness check and the insertion. `encl[o]` is the
`enclave_t` at address `o`; `pas` says whether the `pa_region_t` objects of its
regions are there, or freed and still linked; `free` is the kernel's page
allocator. A region is one user page with its type; one page stands for all
levels of the page tables.

`all_pages` is a set of typed pages, and `Elements` are its maximal runs of
adjacent pages of one type. Page-table pages have the type of confidential ones,
so a page of a later COMMIT may join an element that is granted already. A grant
or a revocation is of a whole element, as in the code; that of an element which
matches no entry of the table is refused.

`doms[d]` says how far a domain has come at the monitor, `invoke` which domain
the stored capability index enters. CREATE does not set `invoke`, so it starts as
any index `kmalloc` may have left there. TRANSITION is cut at its vmcall, during
which the domain runs and other ioctls go on; what the vmcall returns is `Rcx`. The failure label of
`commit_enclave` is the operator `CommitFail`, used by each of its `goto`s.

### PageTable

One COMMIT, from `walk_and_collect_region` to the end of `build_enclave_cr3`.
`pte_entry`, `hugetlb_entry` and `pte_hole` are the callbacks of the kernel's
page walker, once for each page of a region in ascending order; `pmap` is a
history variable with what the process has mapped. `stack` holds the activations
of the recursive `pt_walk_page_range`; one action is one iteration of its loop,
chosen as in the code by `x86_64_how_map` (the entry is present or not) and the
level (leaf or not): `WalkEntry`, `MapPage`, `MapTable`, `MapError`, and `Leave`
at the loop's end. Levels and entries per table are constants. Addresses are in
pages; the virtual address of an iteration is computed as in the code, from the
index and the start (`curr_va`). `Reached` is the MMU: the tables it reads for an
address, from the root down; `Mapping` is what it finds, the leaf's entry with the
bits of all levels combined.

Regions lie within the addresses of the table and are disjoint (`Region`,
`LayoutsAssumption`). Neither is guaranteed by the code: `region_check`
(`enclave.c:45-66`) has no upper bound, and `regions_overlap` shows that
`add_region` may accept an overlap. What happens to a region that goes beyond the
table is among the deviations below.

Two final states besides success and failure are the code's undefined
behaviour: "wild" (physical page 0 is used as a table, after a failed allocation)
and "oops" (the failed `TEST(0)` of a nested walk).

### Dll

`head`, `tail`, `next` and `prev` are the pointers; `ready` the elements on which
`dll_init_elem` was called since they left a list or were allocated; `kmalloc`
gives an element arbitrary links. `seq` is a history variable: each macro does one
operation on sequences to it, the one that the other modules use in its place.
`loop` is a `dll_foreach` in progress. A macro is one step. That holds within a
thread; between processors nothing in the code guarantees it.

### Loader

One process at a time and one `load_encl_t`. The steps are the calls that may
fail; `ptr` says of each pointer or descriptor whether it is NULL, live or
dangling, `mappings` which page each segment got, `twice` that something was
released again. Each error label is an action, and a `goto` sets `pc` to it, so
the ladder in the code is the order of the actions. The driver and the domains
are `enclaves` and `held`, with the partial outcomes of COMMIT and DELETE. A
process may end between calls, or abort in the ELF reader; what the driver and
the domains have stays. A segment fills one page.

## 3. Runs

Passing runs:

| Run | Instance | Shows |
|---|---|---|
| `capabilities` | one region of three owned pages, one page not owned next to it, two domains, four region handles, three revocation handles, a share type and a grant type, calls one at a time | see below |
| `capabilities_two` | two pages, one domain, two callers that interleave freely | `MemoryConserved` needs no lock |
| `all_pages` | five pages, two types, every range | `add_merge_global` keeps the list `SortedAndMerged`, implements `PageTypes`, rejects only overlaps, and ends |
| `regions` | twelve requests, as a linker would lay segments out, plus overlapping and malformed ones, in any order | no overlap is accepted, the list is sorted and covers exactly what was accepted, the loop ends |
| `driver` | two tasks, two enclaves, a user page, granted or shared, and a page-table page next to it | `GrantsAreTracked`, `NoTwoOnOne`, `SealedEntersItself`, `DeleteReleasesAll`, `SealedHoldsItsMemory` |
| `pagetable` | three levels of two entries, four frames, no region, one of up to four pages, or two of up to two pages each, anywhere in the eight pages of virtual memory and in either order | `MapsWhatWasCollected`, `TablesFormATree`, `MappedIsGranted`, `Terminates` |
| `dll` | three elements, two lists, arbitrary memory | `Linked`, `Separate`, `ForeachVisitsAll` |
| `loader` | three program headers of which the first and the last are loadable, three pages, three descriptors, three CREATEs | `LoadedIsWhole`, `HeldStaysMapped`, `NoDoubleFree`, `DeleteReclaims` |

The properties of `capabilities`:
`MirrorsMonitor` (library and monitor agree), `ListIsLive` (the list links
exactly the live objects, once each), `StatusMatchesRevoks` (status and
revocation handles are in step), `MemoryConserved` (no page is in two objects, and
together they make up the boot memory; a split at the start of an object leaves an
empty one, so this is about pages and not about bounds), `AccessNeverGrows`, `NoUseAfterFree`, `RevokedMeansGone`
and `TransferIsExact` (what a return value of 0 promises), and `TableSpec`
(refinement of the grant table).

Of `driver`: every page a domain holds is in `all_pages` of a live enclave with
that domain (`GrantsAreTracked`); two ioctls never work on one enclave, even when
two enclaves have one handle (`NoTwoOnOne`); a transition into a sealed enclave
enters its own domain or is refused (`SealedEntersItself`); a DELETE that returns 0
leaves the domain nothing, however its pages were merged (`DeleteReleasesAll`);
an enclave is sealed only with everything granted (`SealedHoldsItsMemory`).

Of `pagetable`: when `build_enclave_cr3` returns 0 with a root, each address of a
region leads to the page the process has at the same offset, with exactly the
region's rights, and no other address leads anywhere (`MapsWhatWasCollected`);
no page-table page is lost or linked twice, at any step (`TablesFormATree`); what
is mapped will be granted (`MappedIsGranted`); the recursion ends (`Terminates`).

Of `dll`: the pointers spell out the sequence in both directions (`Linked`), no
element is in two places and one that may be added has clean links (`Separate`),
a loop visits each element once, in order (`ForeachVisitsAll`).

Of `loader`: an enclave reported as loaded is whole (`LoadedIsWhole`); no page that
a domain holds is unmapped while its caller has the enclave, also after a DELETE
that failed half-way (`HeldStaysMapped`); nothing is released twice
(`NoDoubleFree`); a deletion that returns 0 has taken everything back
(`DeleteReclaims`).

Bounds. Three owned pages let a transfer need no split, or be of a range at the
start of an object (the first split leaves it empty) or inside it, with a second
split at the end; a range that ends where the object ends is found only if it is the
object, as the search compares half-open bounds (`lib.c:174`). Four handles are enough to have every page of them and the
foreign page as an object of its own, which is as fragmented as four pages get;
three revocation handles allow two shares of an object together with a grant of
another. The foreign page exercises refused splits and the transfer of an object
that is not owned. In `capabilities_two` a second page gives each caller an
object to merge away under the other. Five pages with two types let a call of
`add_merge_global` merge on both sides and still overlap further on. In `driver`
the two pages are neighbours. When the user page is confidential they are of one
type and one element, and a region added after a COMMIT joins the element already
granted; when it is shared there are two elements, and a COMMIT or a DELETE may stop
between them with one granted or revoked. The state constraint `OneRegion` bounds
the run: at any time the enclaves have one region in all, which the other one may ask
for after a DELETE, while both take part with their page tables. Longer lists, and
shares of one page with several domains, are left to the theorems. Two CREATEs
are the fewest that can race, and with two pids a pid is given again after an
exit. In `pagetable` three levels give a root, a middle and a leaf level, which
is every case the walker tells apart; regions of up to four pages among tables of
two cross the borders of leaf and of middle tables, begin and end inside a table,
and two regions share tables of each level. In `dll` three elements give a first,
a middle and a last one, and two lists let an element move. In `loader` a header
that is not loadable lies between two that are, so the loops of the error paths
meet an empty entry; three pages let a later load avoid a page that a
half-failed COMMIT has left with a domain, or get it.

Symmetry: handles, domains, callers, tasks, pids and objects are only compared
for equality, and no run with symmetry checks liveness. `CHECK_DEADLOCK FALSE` is
used where the system may stop: `init_domain` may fail, a thread may have died,
tasks exit, a COMMIT has ended, the bound on handles is reached.

Fairness. Liveness is claimed only of three loops, those of `add_merge_global` and
`add_region` and the recursion of the page-table walk. All are kernel code that
neither waits nor depends on anyone, so weak fairness of their steps taken
together is what the scheduler gives. Nothing is assumed about calls being made.

Violation runs. Each states what a comment, a message or a document of the
repository says; TLC finds a behaviour of the code that contradicts it.

| Run | Property | What happens |
|---|---|---|
| `regions_overlap` | `NoOverlapAccepted` | a neighbour with equal attributes and a non-contiguous `src` leaves the list unsorted, then an overlap is accepted (`enclave.c:213`) |
| `regions_src` | `SrcPreserved` | a region that takes in its predecessor keeps its own `src` (`enclave.c:248`) |
| `driver_freed` | `NoUseAfterFree` | COMMIT or DELETE after a failed COMMIT follows freed `pa_region_t` (`enclave.c:368`) |
| `driver_pt` | `GrantedIsNotFree` | a failed COMMIT returns granted page-table pages to the kernel (`enclave.c:376`) |

The models contain more deviations, for which no run is kept.

In the capability library:

* `revoke_capa` of the list's head with a mergeable right neighbour reads
  `prev->revoks` with `prev` NULL (`lib.c:385`; `next` is meant). The caller ends
  in "oops" in `Capabilities`.
* Two threads grant one object; the refused one marks it Active (`lib.c:233`)
  though the other's grant stands.
* A range that ends where an object ends, and does not start where it starts, is
  not found: `dll_contains` is half-open and is asked about the end itself
  (`lib.c:174`). The last part of an object cannot be transferred alone.
* `split_capa` refuses shared capabilities by `is_shared`, which shares never set,
  so a Shared object passes its check and the monitor's refusal is what stops the
  split (`lib.c:114`).

In the driver:

* Two concurrent CREATEs may get one handle (`ioctl.c:144`), though `enclave.h:56`
  and line 131 of the driver's README take it for an identifier. The pid check
  keeps their owners apart.
* A task that is given the pid of an exited creator passes the check of
  `find_enclave` (`enclave.c:90`).
* An element of `all_pages` that has grown after it was granted can neither be
  granted again nor revoked (`enclave.c:518`): after a second COMMIT of that kind
  the enclave cannot be sealed or deleted. A DELETE retried after a partial failure
  asks again for revocations already done, and is refused too (`enclave.c:423`).
* TRANSITION before a COMMIT uses an uninitialised `invoke` and may enter another
  enclave's domain (`enclave.c:490`).

In the page tables:

* `build_enclave_cr3` and `default_mapper` do not look whether a page was
  allocated (`mapper.c:193`), and go on with physical page 0 ("wild").
* A nested walk that fails, after a huge page was passed over in silence, meets
  `TEST(0)`, which dereferences NULL (`pts/src/lib.c:119`), where `pts_api.h:118`
  has it return -1 ("oops").
* A region that goes beyond the last address of the table (2^48) is mapped as far as
  the entries of the root go, and the walk reports success; one that starts beyond
  it gets the entries of a lower address, as the index leaves the upper bits out
  (`pts/src/lib.c:6`). This one is outside the model.

In the loader:

* After a COMMIT that failed half-way `fail_unmap` returns pages to the kernel
  that the domain holds, and the enclave is not deleted (`lib.c:306`).
* A failed load leaves `elf_content` mapped; one that fails between CREATE and the
  segments leaves the segments mapped and `sizes` allocated.
* A failed `munmap` or `close` at the end of `load_enclave` returns an error and
  frees the sections of a live enclave.
* `delete_enclave` does not close the driver, a refused
  `enclave_driver_transition` does not close its own descriptor.

Note what `regions` and `regions_overlap` say together: `add_region` is correct
on requests whose neighbours differ in attributes or continue each other in
memory too, as the loader's are, and is not on others. Exactly, it needs two
conditions on the requests, stated in `Regions`: those that touch and have equal
attributes continue each other in memory (`Contiguous`), and no three of them follow
each other (`Unchained`). The second is there because a region that has taken in its
predecessor keeps its own `src`: it does not look contiguous to a third one. The
assumptions of `MCRegions` say which of its request sets meet them: the
`Segments` of `regions` both, the `AnyRequests` of `regions_overlap` not the first,
the `Identity` of `regions_src` not the second.

## 4. Proofs

`Capabilities_proof` proves, for any memory, any finite or infinite sets of
handles, domains and callers, and with or without serialisation of the calls:

* `TypeCorrect`: `Spec => []TypeOK`;
* `ListStaysLive`: `Spec => []ListIsLive`;
* `LibraryMirrorsMonitor`: `Spec => []MirrorsMonitor`.

The assumptions are those named in `Monitor` and `Capabilities`: `None` is none of
the objects it is told apart from, the boot regions are well formed and disjoint,
callers pass addresses and known capability types. TLC evaluates them in each
run.

The argument. `MirrorsMonitor` alone is not inductive, for four reasons that give
the conjuncts of `IInv == LibInv /\ CallTypeOK /\ BootOK`:

* freeing the merged object is right only if the list had it once, so
  `ListIsLive` is part of `LibInv`, and `RemoveElement` and `RemoveLive` say what
  `dll_remove` leaves;
* a split or a merge changes regions, and the revocation handles of the new
  objects are right only because no transfer refers to a region that does not
  exist, or to a pinned one (`RevOK`);
* a step of a call relies on what earlier steps left in its locals (`CallOK` in
  `CallTypeOK`);
* `init_domain` builds the list from the monitor's regions, which must still be
  the boot regions, each once, with nothing transferred (`BootOK`).

Steps on objects are proved once (`SplitInv`, `MergeInv`, `TransferredInv`,
`RevokedInv`, `RefusedInv`) and used by the step of each action
(`TransferSplitStep`, `RevokeFindStep`, `MergeLeftStep`, and so on); `StepInv`
collects them, `Invariance` is the temporal conclusion. That no lock is needed for
these three is a consequence of each step leaving the library's state
consistent; the stale pointers of the other callers are then caught by
`UseAfterFree`.

A fourth theorem holds for any callers too: `MemoryStaysWhole`, `Spec =>
[]MemoryConserved`. It adds `MemOK` to the invariant, which says the same of the
monitor's regions page by page (`SplitMem`, `MergeMem`), and carries it over to the
objects with `MirrorsMonitor`.

The remaining theorems have the hypothesis `Serialised`, at most one call in
flight:

* `StatusIsRight`: `Spec => []StatusMatchesRevoks`;
* `AccessStaysBelow`: `Spec => []AccessNeverGrows`;
* `NoStalePointer`: `Spec => []NoUseAfterFree`;
* `TransfersAreExact`, `RevocationIsComplete`: the action properties
  `TransferIsExact` and `RevokedMeansGone`;
* `LibraryImplementsTable`: `Spec => TableSpec`, the refinement of `GrantTable`.

The hypothesis is needed: two unserialised grants of an object end with status
Active and a revocation handle, a merge frees objects other callers point to, and a
split changes the bounds of an object that another caller is about to transfer.
(`AccessNeverGrows` is the exception as far as is known: two callers do not break it.)
Neither the library nor the driver takes a lock, so it is a condition on the
callers, and the theorems say what is at stake when it is not met. The invariant is
`SInv == IInv /\ MemOK /\ SerialInv`. `SerialInv` has `OneInFlight`; `HeldInv`, the
two invariants together with the fact that no empty object was ever transferred
(a split may leave one, and an empty range would hide from the overlap tests); and
`CallFacts`, what the call in flight has established about its object, such as
that after the second split the object is exactly the range. The refinement maps
each outstanding revocation handle to an entry of the table; `QuietGrants` says
which steps leave all entries alone (splits and merges do, since objects with
handles are pinned), `GivesGrant` and `RevokesGrant` treat the two that do not. A
confidential grant is exclusive because the object had no handle, and no other
object has a page of it.

`Lists_proof` has the lemmas on sequences that the proofs share: what appending,
`Without` and `After` leave at each position, and that a set of natural numbers that
is not empty has a least element, on which the inductions of `PageTable_proof` rest.
The positions are given by `IsAfter` and the like, predicates that stay closed where
the provers need no more than their name.

`Dll_proof` proves, for any elements, any number of lists and any length:

* `ListsAreLinked`: `Spec => []Linked`;
* `ListsAreSeparate`: `Spec => []Separate`;
* `ForeachIsComplete`: `Spec => []ForeachVisitsAll`.

There is one assumption: the null pointer is no element. `Linked` is not inductive,
because the pointers alone do not tell which links a macro may overwrite; with
`Separate` (no element in two places, clean links in an element that may be added)
it is, so `IInv == TypeOK /\ Linked /\ Separate`. What a macro does to a sequence is
an insertion or a deletion at a position (`FirstElement`, `AppendElement`,
`AfterElement`, `WithoutElement`); `ChainInserted` and `ChainDeleted` say that the
corresponding changes of links keep the chain of that list, `Relinked` that they do
not touch the others, and one lemma per macro puts these together. The loop needs
`LoopInv`, that its cursor is the element after the ones visited. The theorems are
what allows the other modules to treat lists as sequences.

`AllPages_proof` proves, for memory of any size and any types:

* `TypeCorrect`: `Spec => []TypeOK`, so the positions stay inside the list;
* `StaysSortedAndMerged`: `Spec => []SortedAndMerged`;
* `PagesImplementTypes`: `Spec => AbstractSpec`, the refinement of `PageTypes`;
* `RejectionMeansOverlap`: `Spec => RejectsOnlyOverlap`.

The list is sorted at every iteration, also while an element is missing from it
because the region has taken it in (`Sorted`). What makes this inductive is that
everything the loop has passed is before the region (`Passed`), that the region has
only grown downwards (`Grown`), and `Committed`: once an element has been taken in,
nothing in the list overlaps the region. So a call that has changed the list cannot
be rejected any more, which is what the refinement rests on: the abstract set
changes at the return and by the whole range.

`EnclaveDriver_proof` proves, for any sets of tasks, pids, objects, domains and
pages and any bound on handles:

* `TypeCorrect`: `Spec => []TypeOK`;
* `EnclaveHasOneUser`: `Spec => []NoTwoOnOne`;
* `NothingIsForgotten`: `Spec => []GrantsAreTracked`;
* `TransitionEntersItself`: `Spec => []SealedEntersItself`;
* `DeleteIsComplete`, `SealedIsComplete`: the action properties `DeleteReleasesAll`
  and `SealedHoldsItsMemory`.

The assumptions are that `None` is no object, domain or pid, that user pages and
pages for page tables are different pages, and that what user space asks for is
made of its pages; and, as part of the model, that calls of the capability module do
not overlap and that `Rcx` is what the monitor returns (section 2). The invariant has three parts. `PidInv`: a pid has one live
task. `EnclaveInv`: the list holds live enclaves, once each (`ListInv`); a domain
belongs to one enclave and is never created again (`DomInv`); grants overlap only
if they are shares of one range (`GrantInv`, from the contract); page tables are in
`all_pages` (`PtsInv`). `TaskInv(t)`: what a task's program counter says of its
enclave (`CallInv`: it is live, has the task's pid and is in the list), of the
elements a COMMIT has left behind (`CommitInv`: they are granted) and of what a
DELETE has yet to visit (`DeleteInv`: whatever the domain still holds lies in an
element still to come). `NoTwoOnOne` follows from `CallInv` and `PidInv`: handles
are not unique, pids of live tasks are. `GrantsAreTracked` is an invariant although
elements grow after they were granted, because a set of pages only grows.

`Loader_proof` proves, for any program headers, finite sets of pages, and numbers
of descriptors and handles:

* `TypeCorrect`: `Spec => []TypeOK`;
* `LoadSucceedsWhole`: `Spec => []LoadedIsWhole`;
* `HeldPagesAreMapped`: `Spec => []HeldStaysMapped`;
* `ReleasedOnce`: `Spec => []NoDoubleFree`;
* `DeleteIsComplete`: the action property `DeleteReclaims`.

The invariant says what each label finds: which pointers are live (`HeapInv`),
whether the descriptor is open (`FdInv`), what is mapped (`MapInv`), whether the
library is initialised (`LibraryInv`), what the caller was given (`GivenInv`), and
what driver and domain know of the pages (`DriverInv`). It is the table that a
reader of the error ladder would draw: a label may release a pointer because every
`goto` to it comes from a step at which the pointer is live.

`Regions_proof` proves, for any requests,

* `TypeCorrect`: `Spec => []TypeOK`, the positions stay inside the list;

and for any requests that are `Contiguous` and `Unchained`, in any order and number:

* `StaysSorted`: `Spec => []Sorted`;
* `OverlapIsRefused`: `Spec => []NoOverlapAccepted`;
* `AcceptedIsCovered`: `Spec => []CoversAccepted`.

The argument is that of `AllPages_proof` (`Passed`, `Grown`, `Committed`), with a
difference: an element is merged only if memory continues too, and where it does not
the new region would be put in the wrong place. So the invariant says of each element
that it is a request or two requests joined (`Pieces`), and `Joined` concludes that
neighbours with equal attributes are two plain requests: with one of them joined
already three would follow each other. Hence each merge that the addresses call for
happens. `Covered` accounts for each page with its attributes, those taken into the
new region included; `Apart` is `NoOverlapAccepted` in terms of bounds.

`PageTable_proof` proves, for any number of levels and of entries per table, any
frames and any disjoint regions within the addresses, and whichever allocations fail:

* `TypeCorrect`: `Spec => []TypeOK`;
* `OneTree`: `Spec => []TablesFormATree`;
* `MapsExactly`: `Spec => []MapsWhatWasCollected`;
* `MappedStaysGranted`: `Spec => []MappedIsGranted`.

The assumptions are `ShapeAssumption` (a level, two entries), `LayoutsAssumption` (the
regions lie within the table and are disjoint, which the code does not see to; section
2) and `FrameAssumption`: page-table pages and frames are different pages, which is why
positions in `tables` are numbers and frames are not. The invariant is `IInv ==
TypeOK /\ StackInv /\ WalkInv /\ LevelInv /\ TreeInv`. Types alone are not inductive: a
walk follows `entry.to`, which may be a frame; `LevelInv` says that tables have
levels, that what an entry leads to depends on the level of its table and that an
activation is at the level of its table, so that `to` is a table wherever it is
followed. `StackInv` bounds the indices: a caller always has an entry left to go on
from, and its address does not become negative. `TreeInv` is `TablesFormATree` as
uniqueness and existence of the entry (`Leads`). `MapTable` writes the address of the
new table into the entry and starts on it in one iteration; `GrowKeeps` is that step.
`Size` is a recursive function; that it satisfies its equation (`SizeUnfolds`) is
proved by taking the least number for which it would not.

The last two theorems rest on a second invariant, `MInv`, which uses `IInv`. Levels do
not tell which addresses a table is for, so `PlaceInv` gives each table a block, the
number of its range of addresses among those of its level: the entry `i` of a table
with block `b` leads to one with block `b * Entries + i`, no two tables of a level have
one block, and an activation works on the table for the block of its start. The leaves
then hold exactly the pages mapped so far: `Holds` (nothing but the regions' pages) and
`HoldsAll` (all of them, up to `Upto`). `PosInv` ties the two walks together: the
address of an iteration is the start of the region plus the number of pages mapped, or
the region is mapped. `ChainInv` is needed for it: when an activation ends, its
caller's next entry begins where it stopped (`CallerAddress`). `CollectInv` says that
as many pages can have been collected as the region has only if none was passed over
or met twice; `MergedInv` that the pages of finished regions are in `all_pages`. Since
regions are disjoint, a leaf's entry is never present when the walk comes to it
(`LeafIsEmpty`), so no page is skipped. At a new table `FreeBlock` shows that the block
had none. The arithmetic is that of `Euclid` and `Quotients`, division by a product and
uniqueness of quotient and remainder. Of the MMU, `Downwards` shows that every table it
reads is the one for the address's block, `Upwards` that it comes to the leaf for the
address, through entries with `intermed_flags`, which take no right away.

Only model-checked: liveness under fairness (`Terminates`), for which the prover has
no support.

## 5. Not modelled

* The monitor itself, beyond its contract; register and memory layout of vmcalls.
* Calls of the capability module that overlap, in the model of the driver; a caller
  that runs between the search of `revoke_capa` and its vmcall, in that of the library.
* Regions beyond the last address of the page table, and page tables of regions that
  overlap.
* The DBG ioctl, which switches `cr3` by hand-written assembly to try out a page
  table, the assembly of the runtime and its trampolines: no state besides saved
  registers.
* Registration of the device; when its last step fails, device and cdev stay
  registered (`ioctl.c:80`).
* The ELF64 reader. It reads headers and sections of a file into structures, pure
  I/O; `Loader` has its outcomes, a result or an abort.
* Interleavings inside a macro of `dll.h`, or of a loop over the list of enclaves
  with a change of it on another processor. The code takes no lock, so they can
  happen; what a half-linked list does then is not defined by the source.
* Changes of the process's memory while COMMIT runs: `walk_page_range` is called
  without the mmap lock and the pages are not pinned (`process.c:141`).
* A COMMIT whose argument could not be copied goes on with an uninitialised
  structure (`ioctl.c:175`): for the state modelled this is a COMMIT with another
  handle; the stack and entry point it passes on are not modelled.
* Visitors and other profiles of the page-table library, which the driver does not
  use, and huge mappings, which cannot arise as every collected range is one page.
* Test and demo programs, the image build, and the vendored busybox tree with its
  generated headers under `downloads/` and `builds/`. They make up nearly all lines
  of the repository (about 380,000); the program's own code is about 3,200 lines of
  C, and the models stand for the larger part of it. The rest is the items above.

## 6. Plan

Every invariant and action property of the passing runs, and both refinements, are
theorems; the liveness properties stay with TLC. What could be added: a composition of
`PageTable` with `AllPages`, in which the page-table pages take part in the merges of
`add_merge_global` too, and the interleavings inside the macros of `dll.h`, if the code
comes to define them by a lock.
