------------------------------- MODULE Loader -------------------------------
(***************************************************************************)
(* The enclave loader, programs/libs/enclave/loader/lib.c: what a process  *)
(* acquires and releases while it initialises the loader, loads an enclave *)
(* into a load_encl_t, and deletes it.                                     *)
(*                                                                         *)
(* Every call of the C library, the kernel and the driver may fail.  The   *)
(* driver is taken by what module EnclaveDriver shows of its ioctls: a     *)
(* COMMIT that fails leaves a part of the pages with the domain, a DELETE  *)
(* that succeeds leaves none.  A process may end at any time between two   *)
(* calls and another one starts; the driver is not told.                   *)
(***************************************************************************)
EXTENDS Integers, FiniteSets, FiniteSetsExt

CONSTANTS
  Seg,         \* the indices of the program headers
  Loadable,    \* those of type PT_LOAD
  Page,        \* physical pages, as numbers; a segment fills one page
  MaxFds,      \* descriptors of the driver a process may have open
  MaxHandles   \* bound on CREATE ioctls

Null == 0
Failed == -1   \* MAP_FAILED

ASSUME LoaderAssumption ==
  /\ Seg \subseteq Nat /\ Loadable \subseteq Seg
  /\ IsFiniteSet(Seg) /\ IsFiniteSet(Page) /\ Page \subseteq Nat \ {0}
  /\ MaxFds \in Nat /\ MaxHandles \in Nat

VARIABLES
  pc,        \* the step of the running call; "idle" between calls
  library,   \* library_plugin, its mapping, and whether vmcall_gate is set
  ptr,       \* the pointers and descriptors of the load_encl_t
  mappings,  \* mappings[s], while the array is allocated
  handle,    \* load_encl_t.handle
  given,     \* what load_enclave and delete_enclave have told the caller
  fds,       \* open descriptors of the driver
  mapped,    \* pages mapped for segments in the process
  enclaves,  \* the driver's enclaves: handle |-> its pages
  held,      \* the pages each domain holds, by handle
  ids,       \* handles given so far
  twice      \* something was freed or unmapped a second time

driverVars == <<enclaves, held, ids>>
structVars == <<ptr, mappings, handle, given>>
memVars == <<mapped, twice>>
vars == <<pc, library, structVars, fds, memVars, driverVars>>

Block == {"elf_fd", "elf_content", "sections", "segments", "entry_point",
          "mappings", "sizes", "driver_fd"}

\* What must not be released twice.  A second close is an error code:
\* load_enclave closes elf_fd again when its close has failed.
Heap == Block \ {"elf_fd", "driver_fd"}

Handle == 0 .. MaxHandles

Steps == {"init_map", "init_copy", "init_gate",
          "parse", "find_stack", "map", "map_segments", "map_fail_unmap", "map_fail_free",
          "create", "create_ioctl", "add_shared", "add_segments", "commit",
          "create_fail_unmap", "create_fail_free", "create_fail_close",
          "unmap_file", "close_file", "fail_free", "fail_close", "delete_free"}

TypeOK ==
  /\ pc \in {"idle", "aborted"} \cup Steps
  /\ library \in [plugin: {"null", "live"}, text: {"null", "live"}, gate: BOOLEAN]
  /\ ptr \in [Block -> {"null", "live", "dangling"}]
  /\ mappings \in [Seg -> Page \cup {Null, Failed}]
  /\ handle \in Handle
  /\ given \in {"nothing", "loaded", "deleted"}
  /\ fds \in 0 .. MaxFds
  /\ mapped \subseteq Page
  /\ DOMAIN enclaves \subseteq Handle /\ \A h \in DOMAIN enclaves : enclaves[h] \subseteq Page
  /\ held \in [Handle -> SUBSET Page]
  /\ ids \in Handle
  /\ twice \in BOOLEAN

Unset == [s \in Seg |-> Null]
Fresh == [b \in Block |-> "null"]
NoLibrary == [plugin |-> "null", text |-> "null", gate |-> FALSE]

Init ==
  /\ pc = "idle" /\ library = NoLibrary
  /\ ptr = Fresh /\ mappings = Unset /\ handle = 0 /\ given = "nothing"
  /\ fds = 0 /\ mapped = {}
  /\ enclaves = [h \in {} |-> {}] /\ held = [h \in Handle |-> {}] /\ ids = 0
  /\ twice = FALSE

-----------------------------------------------------------------------------
\* The process ends, by exit or abort: its memory goes, what the driver and the
\* domains hold does not.
ProcessEnds ==
  /\ pc \in {"idle", "aborted"}
  /\ pc' = "idle" /\ library' = NoLibrary
  /\ ptr' = Fresh /\ mappings' = Unset /\ handle' = 0 /\ given' = "nothing"
  /\ fds' = 0 /\ mapped' = {} /\ twice' = FALSE
  /\ UNCHANGED driverVars

Goto(step) == pc' = step

\* free, close or munmap of the blocks bs, of which the ones that are NULL are
\* left alone.
Free(bs) ==
  /\ ptr' = [b \in Block |-> IF b \in bs /\ ptr[b] = "live" THEN "dangling" ELSE ptr[b]]
  /\ twice' = (twice \/ \E b \in bs \cap Heap : ptr[b] = "dangling")

Acquire(bs) == ptr' = [b \in Block |-> IF b \in bs THEN "live" ELSE ptr[b]]

\* The pages munmap is called for when a loop goes through the mappings.
Pages == {mappings[s] : s \in Seg} \ {Null, Failed}

\* The pages that another enclave holds, which the driver cannot grant.
Foreign == UNION {held[h] : h \in Handle \ {handle}}

-----------------------------------------------------------------------------
\* init_enclave_loader, up to malloc.  The ELF reader aborts on a bad file.
InitEnclaveLoader ==
  /\ pc = "idle"
  /\ library.plugin = "null"
  /\ \/ UNCHANGED <<pc, library>>
     \/ Goto("aborted") /\ UNCHANGED library
     \/ library' = [library EXCEPT !.plugin = "live"] /\ Goto("init_map")
  /\ UNCHANGED <<structVars, fds, memVars, driverVars>>

\* A slip: the static pointer is not reset.
InitFail_keeps ==
  /\ library' = [library EXCEPT !.text = "null"]
  /\ Goto("idle")

\* The labels fail_unmap and fail_free.
InitFail ==
  /\ library' = NoLibrary
  /\ Goto("idle")

InitMap ==
  /\ pc = "init_map"
  /\ \/ library' = [library EXCEPT !.text = "live"] /\ Goto("init_copy")
     \/ InitFail
  /\ UNCHANGED <<structVars, fds, memVars, driverVars>>

InitCopy ==
  /\ pc = "init_copy"
  /\ \/ Goto("init_gate") /\ UNCHANGED library
     \/ InitFail
  /\ UNCHANGED <<structVars, fds, memVars, driverVars>>

\* find_symbol returns the symbol or aborts: its last test is an assignment.
InitGate ==
  /\ pc = "init_gate"
  /\ \/ library' = [library EXCEPT !.gate = TRUE] /\ Goto("idle")
     \/ Goto("aborted") /\ UNCHANGED library
  /\ UNCHANGED <<structVars, fds, memVars, driverVars>>

-----------------------------------------------------------------------------
\* load_enclave, up to mmap_file, which fails before or after open: the
\* structure is wiped first.
LoadEnclave ==
  /\ pc = "idle"
  /\ library.plugin = "live"
  /\ mappings' = Unset /\ handle' = 0 /\ given' = "nothing"
  /\ \/ ptr' = Fresh /\ Goto("idle")
     \/ ptr' = [Fresh EXCEPT !["elf_fd"] = "dangling"] /\ Goto("idle")
     \/ /\ ptr' = [Fresh EXCEPT !["elf_fd"] = "live", !["elf_content"] = "live"]
        /\ Goto("parse")
  /\ UNCHANGED <<library, fds, memVars, driverVars>>

\* parse_enclave: the reader aborts on a bad file.
ParseEnclave ==
  /\ pc = "parse"
  /\ \/ Goto("aborted") /\ UNCHANGED ptr
     \/ Acquire({"sections", "segments"}) /\ Goto("find_stack")
  /\ UNCHANGED <<library, mappings, handle, given, fds, memVars, driverVars>>

\* A slip: the caller cleans up as after a failed map_enclave.
ParseFail_twice == Free({"sections", "segments"}) /\ Goto("fail_free")

\* The label fail of parse_enclave.
ParseFail == Free({"sections", "segments"}) /\ Goto("fail_close")

\* The stack section may be missing; find_symbol aborts without the symbol.
FindStack ==
  /\ pc = "find_stack"
  /\ \/ ParseFail
     \/ Goto("aborted") /\ UNCHANGED <<ptr, twice>>
     \/ Acquire({"entry_point"}) /\ Goto("map") /\ UNCHANGED twice
  /\ UNCHANGED <<library, mappings, handle, given, fds, mapped, driverVars>>

-----------------------------------------------------------------------------
\* map_enclave, up to the loop.
MapEnclave ==
  /\ pc = "map"
  /\ \/ Goto("fail_free") /\ UNCHANGED ptr
     \/ Acquire({"mappings"}) /\ Goto("map_fail_free")
     \/ Acquire({"mappings", "sizes"}) /\ Goto("map_segments")
  /\ UNCHANGED <<library, mappings, handle, given, fds, memVars, driverVars>>

\* The loadable segments the loop has still to visit.
ToMap == {s \in Loadable : mappings[s] = Null}

\* An iteration, or the end of the loop.  The kernel maps pages that are free,
\* whoever holds their capability.
MapSegment ==
  /\ pc = "map_segments"
  /\ \/ ToMap = {} /\ Goto("create") /\ UNCHANGED <<mappings, mapped>>
     \/ /\ ToMap # {}
        /\ \/ \E p \in Page \ mapped :
                /\ mappings' = [mappings EXCEPT ![Min(ToMap)] = p]
                /\ mapped' = mapped \cup {p}
                /\ UNCHANGED pc
           \/ /\ mappings' = [mappings EXCEPT ![Min(ToMap)] = Failed]
              /\ Goto("map_fail_unmap")
              /\ UNCHANGED mapped
  /\ UNCHANGED <<library, ptr, handle, given, fds, twice, driverVars>>

\* A loop that unmaps the segments, then free(sizes).
UnmapAll(next) ==
  /\ mapped' = mapped \ Pages
  /\ ptr' = [ptr EXCEPT !["sizes"] = "dangling"]
  /\ twice' = (twice \/ ~(Pages \subseteq mapped) \/ ptr["sizes"] = "dangling")
  /\ Goto(next)
  /\ UNCHANGED <<library, mappings, handle, given, fds, driverVars>>

MapFailUnmap == pc = "map_fail_unmap" /\ UnmapAll("map_fail_free")

\* A slip: the labels of create_enclave follow.
MapFailFree_create ==
  /\ pc = "map_fail_free"
  /\ Free({"mappings"}) /\ Goto("create_fail_close")
  /\ UNCHANGED <<library, mappings, handle, given, fds, mapped, driverVars>>

MapFailFree ==
  /\ pc = "map_fail_free"
  /\ Free({"mappings"}) /\ Goto("fail_free")
  /\ UNCHANGED <<library, mappings, handle, given, fds, mapped, driverVars>>

-----------------------------------------------------------------------------
\* create_enclave: the open, which fails at the limit and for other reasons.
CreateOpen ==
  /\ pc = "create"
  /\ \/ Goto("fail_free") /\ UNCHANGED <<ptr, fds>>
     \/ /\ fds < MaxFds
        /\ fds' = fds + 1
        /\ Acquire({"driver_fd"})
        /\ Goto("create_ioctl")
  /\ UNCHANGED <<library, mappings, handle, given, memVars, driverVars>>

\* TYCHE_ENCLAVE_CREATE.  The driver may fail after it has taken a handle, and
\* with the enclave in its list when only the copy to user space fails.
CreateIoctl ==
  /\ pc = "create_ioctl"
  /\ ids < MaxHandles
  /\ ids' = ids + 1
  /\ \/ UNCHANGED <<enclaves, handle>> /\ Goto("create_fail_close")
     \/ /\ enclaves' = [h \in DOMAIN enclaves \cup {ids} |->
                         IF h = ids THEN {} ELSE enclaves[h]]
        /\ \/ handle' = ids /\ Goto("add_shared")
           \/ UNCHANGED handle /\ Goto("create_fail_close")
  /\ UNCHANGED <<library, ptr, mappings, given, fds, memVars, held>>

\* The regions of the plugin and of the caller's extras: on a refusal the
\* segments stay mapped, and only their array is freed.
AddShared ==
  /\ pc = "add_shared"
  /\ Goto("add_segments") \/ Goto("create_fail_free")
  /\ UNCHANGED <<library, structVars, fds, memVars, driverVars>>

AddSegments ==
  /\ pc = "add_segments"
  /\ Goto("commit") \/ Goto("create_fail_unmap")
  /\ UNCHANGED <<library, structVars, fds, memVars, driverVars>>

\* TYCHE_ENCLAVE_COMMIT: the driver grants the pages in the order of their
\* addresses.  A COMMIT that fails has granted those below some address, and
\* may have failed before the pages got into the enclave's list.
Commit ==
  /\ pc = "commit"
  /\ \/ /\ Pages \cap Foreign = {}
        /\ enclaves' = [enclaves EXCEPT ![handle] = Pages]
        /\ held' = [held EXCEPT ![handle] = Pages]
        /\ Goto("unmap_file")
     \/ Goto("create_fail_unmap") /\ UNCHANGED <<enclaves, held>>
     \/ \E granted \in {{q \in Pages : q < p} : p \in Pages \cup {Max(Page) + 1}} :
          /\ granted \cap Foreign = {}
          /\ enclaves' = [enclaves EXCEPT ![handle] = Pages]
          /\ held' = [held EXCEPT ![handle] = granted]
          /\ Goto("create_fail_unmap")
  /\ UNCHANGED <<library, structVars, fds, memVars, ids>>

\* The labels of create_enclave.
CreateFailUnmap == pc = "create_fail_unmap" /\ UnmapAll("create_fail_free")

CreateFailFree ==
  /\ pc = "create_fail_free"
  /\ Free({"mappings"}) /\ Goto("create_fail_close")
  /\ UNCHANGED <<library, mappings, handle, given, fds, mapped, driverVars>>

CreateFailClose ==
  /\ pc = "create_fail_close"
  /\ Free({"driver_fd"}) /\ fds' = fds - 1 /\ Goto("fail_free")
  /\ UNCHANGED <<library, mappings, handle, given, mapped, driverVars>>

-----------------------------------------------------------------------------
\* The end of load_enclave.  A descriptor is gone even when close fails.
UnmapFile ==
  /\ pc = "unmap_file"
  /\ \/ Free({"elf_content"}) /\ Goto("close_file")
     \/ Goto("fail_free") /\ UNCHANGED <<ptr, twice>>
  /\ UNCHANGED <<library, mappings, handle, given, fds, mapped, driverVars>>

CloseFile ==
  /\ pc = "close_file"
  /\ \/ /\ ptr' = [ptr EXCEPT !["elf_fd"] = "dangling", !["elf_content"] = "null"]
        /\ given' = "loaded"
        /\ Goto("idle")
     \/ /\ ptr' = [ptr EXCEPT !["elf_fd"] = "dangling"]
        /\ UNCHANGED given
        /\ Goto("fail_free")
  /\ UNCHANGED <<library, mappings, handle, fds, memVars, driverVars>>

\* The labels of load_enclave.
FailFree ==
  /\ pc = "fail_free"
  /\ Free({"sections", "segments"}) /\ Goto("fail_close")
  /\ UNCHANGED <<library, mappings, handle, given, fds, mapped, driverVars>>

FailClose ==
  /\ pc = "fail_close"
  /\ Free({"elf_fd"}) /\ Goto("idle")
  /\ UNCHANGED <<library, mappings, handle, given, fds, mapped, driverVars>>

-----------------------------------------------------------------------------
\* A slip: the result of the ioctl is not looked at.
DeleteRefused_goes_on == Goto("delete_free")

DeleteRefused == UNCHANGED pc

\* delete_enclave, of an enclave that load_enclave has returned, also a second
\* time.  TYCHE_ENCLAVE_DELETE revokes in the order of the addresses and stops
\* at the first page that is refused, one that is no longer held included.
DeleteEnclave ==
  /\ pc = "idle"
  /\ given # "nothing"
  /\ \/ handle \notin DOMAIN enclaves /\ DeleteRefused /\ UNCHANGED driverVars
     \/ /\ handle \in DOMAIN enclaves
        /\ enclaves[handle] \subseteq held[handle]
        /\ held' = [held EXCEPT ![handle] = {}]
        /\ enclaves' = [h \in DOMAIN enclaves \ {handle} |-> enclaves[h]]
        /\ Goto("delete_free")
        /\ UNCHANGED ids
     \/ /\ handle \in DOMAIN enclaves
        /\ \E p \in enclaves[handle] :
             LET revoked == {q \in enclaves[handle] : q < p} IN
             /\ revoked \subseteq held[handle]
             /\ held' = [held EXCEPT ![handle] = @ \ revoked]
        /\ DeleteRefused
        /\ UNCHANGED <<enclaves, ids>>
  /\ UNCHANGED <<library, structVars, fds, memVars>>

\* A slip: only the arrays are freed.
Reclaimed_not == mapped

\* The loop of delete_enclave over all the mappings.
Reclaimed == mapped \ Pages

\* The rest of delete_enclave; the descriptor of the driver stays open.
DeleteFree ==
  /\ pc = "delete_free"
  /\ ptr' = [b \in Block |->
       IF b \in {"mappings", "sizes"} THEN "null"
       ELSE IF b \in {"sections", "segments", "entry_point"} THEN "dangling" ELSE ptr[b]]
  /\ twice' = (twice \/ ~(Pages \subseteq mapped)
                 \/ \E b \in {"sections", "segments", "entry_point", "mappings", "sizes"} :
                      ptr[b] = "dangling")
  /\ mapped' = Reclaimed
  /\ given' = "deleted"
  /\ Goto("idle")
  /\ UNCHANGED <<library, mappings, handle, fds, driverVars>>

\* enclave_driver_transition: its own descriptor stays open when the driver
\* refuses.
EnclaveDriverTransition ==
  /\ pc = "idle"
  /\ given # "nothing"
  /\ fds < MaxFds
  /\ fds' = fds \/ fds' = fds + 1
  /\ UNCHANGED <<pc, library, structVars, memVars, driverVars>>

Next ==
  \/ ProcessEnds
  \/ InitEnclaveLoader \/ InitMap \/ InitCopy \/ InitGate
  \/ LoadEnclave \/ ParseEnclave \/ FindStack
  \/ MapEnclave \/ MapSegment \/ MapFailUnmap \/ MapFailFree
  \/ CreateOpen \/ CreateIoctl \/ AddShared \/ AddSegments \/ Commit
  \/ CreateFailUnmap \/ CreateFailFree \/ CreateFailClose
  \/ UnmapFile \/ CloseFile \/ FailFree \/ FailClose
  \/ DeleteEnclave \/ DeleteFree \/ EnclaveDriverTransition

Spec == Init /\ [][Next]_vars

-----------------------------------------------------------------------------
\* When load_enclave has returned 0, the enclave is whole: every loadable
\* segment is in memory of the process, the driver knows exactly these pages
\* for the handle, the plugin that was added to the enclave is mapped and has
\* its gate, and everything delete_enclave will release is there.
LoadedIsWhole ==
  given = "loaded" /\ pc = "idle" =>
    /\ \A s \in Loadable : mappings[s] \in mapped
    /\ handle \in DOMAIN enclaves /\ enclaves[handle] = Pages
    /\ library = [plugin |-> "live", text |-> "live", gate |-> TRUE]
    /\ \A b \in {"sections", "segments", "entry_point", "mappings", "sizes", "driver_fd"} :
         ptr[b] = "live"

\* While its caller has an enclave, also after delete_enclave has failed
\* half-way, no page that the domain holds is given back to the kernel.
HeldStaysMapped == given # "nothing" => held[handle] \subseteq mapped

\* Nothing is freed or unmapped twice, whatever fails during a load and however
\* often an enclave is deleted.
NoDoubleFree == ~twice

\* delete_enclave returns 0 only when the domain holds nothing, the driver has
\* forgotten the enclave and every page of its segments is back in the kernel.
DeleteReclaims ==
  [][given = "loaded" /\ given' = "deleted" =>
       /\ held'[handle] = {} /\ handle \notin DOMAIN enclaves'
       /\ Pages \cap mapped' = {}]_vars
=============================================================================
