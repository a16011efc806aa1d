---------------------------- MODULE Loader_proof ----------------------------
(***************************************************************************)
(* What the loader's error labels keep, for any program headers, any pages *)
(* and any number of descriptors and handles.                              *)
(***************************************************************************)
EXTENDS Loader, TLAPS

Whole == [plugin |-> "live", text |-> "live", gate |-> TRUE]

\* The steps of load_enclave by what has been acquired and not yet released.
CreateSteps == {"create_ioctl", "add_shared", "add_segments", "commit"}
EndSteps == {"unmap_file", "close_file"}
FailSteps == {"map_fail_unmap", "map_fail_free", "create_fail_unmap", "create_fail_free",
              "create_fail_close", "fail_free", "fail_close"}
LoadSteps == {"parse", "find_stack", "map", "map_segments", "create"}
             \cup CreateSteps \cup EndSteps \cup FailSteps

\* The steps at which all that map_enclave acquires is there.
MappedSteps == {"map_segments", "map_fail_unmap", "create", "create_fail_unmap"}
               \cup CreateSteps \cup EndSteps

\* The plugin is whole whenever a load goes on or has succeeded.
LibraryInv ==
  /\ pc = "init_map" => library = [plugin |-> "live", text |-> "null", gate |-> FALSE]
  /\ pc \in {"init_copy", "init_gate"} =>
       library = [plugin |-> "live", text |-> "live", gate |-> FALSE]
  /\ pc \in {"idle", "delete_free"} => library \in {NoLibrary, Whole}
  /\ pc \in LoadSteps \/ given # "nothing" => library = Whole

\* A call finds given as the last one has left it.
GivenInv ==
  /\ given # "nothing" => pc \in {"idle", "delete_free"}
  /\ pc = "delete_free" => given = "loaded"

\* At each step, what the labels still ahead release is live.
HeapInv ==
  /\ pc \in ({"parse", "find_stack", "map"} \cup MappedSteps) \ {"close_file"} =>
       ptr["elf_content"] = "live"
  /\ pc \in LoadSteps \ {"parse", "fail_close"} \/ given = "loaded" =>
       ptr["sections"] = "live" /\ ptr["segments"] = "live"
  /\ pc \in MappedSteps \cup {"map_fail_free", "create_fail_free"} \/ given = "loaded" =>
       ptr["mappings"] = "live"
  /\ pc \in MappedSteps \/ given = "loaded" =>
       ptr["sizes"] = "live" /\ ptr["entry_point"] = "live"
  /\ pc = "map" => ptr["entry_point"] = "live"
  /\ pc \in CreateSteps \cup EndSteps \/ given = "loaded" => ptr["driver_fd"] = "live"
  /\ ~twice

\* create_enclave has its descriptor open until it closes it.
FdInv ==
  pc \in CreateSteps \cup {"create_fail_unmap", "create_fail_free", "create_fail_close"} =>
    fds > 0

\* The segments: none is forgotten, and what munmap is called for is mapped.
MapInv ==
  /\ pc \in {"parse", "find_stack", "map"} => mappings = Unset
  /\ pc \in MappedSteps \/ given = "loaded" => Pages \subseteq mapped
  /\ pc = "map_segments" => \A s \in Seg : mappings[s] # Failed
  /\ pc \in {"create"} \cup CreateSteps \cup EndSteps \/ given = "loaded" =>
       \A s \in Loadable : mappings[s] \in mapped

\* The driver knows the pages of the enclave, and the domain holds no others.
DriverInv ==
  /\ enclaves \in [DOMAIN enclaves -> SUBSET Page]
  /\ pc \in {"add_shared", "add_segments", "commit"} \cup EndSteps => handle \in DOMAIN enclaves
  /\ pc \in EndSteps => enclaves[handle] = Pages /\ held[handle] \subseteq Pages
  /\ given = "loaded" /\ pc = "idle" =>
       handle \in DOMAIN enclaves /\ enclaves[handle] = Pages /\ held[handle] \subseteq Pages
  /\ pc = "delete_free" \/ given = "deleted" =>
       handle \notin DOMAIN enclaves /\ held[handle] = {}

\* The inductive invariant.
IInv == TypeOK /\ LibraryInv /\ GivenInv /\ HeapInv /\ FdInv /\ MapInv /\ DriverInv

\* The end of a process keeps the invariant: it starts over, and what the
\* driver holds for it is not part of any load.
LEMMA ProcessEndsStep ==
  ASSUME IInv, ProcessEnds
  PROVE  IInv'
<1> USE DEF ProcessEnds, NoLibrary, Fresh, Unset, driverVars
<1>1. TypeOK'
  <2>1. library' \in [plugin: {"null", "live"}, text: {"null", "live"}, gate: BOOLEAN]
    BY DEF NoLibrary
  <2>2. ptr' \in [Block -> {"null", "live", "dangling"}]
    BY DEF Fresh
  <2>3. mappings' \in [Seg -> Page \cup {Null, Failed}]
    BY DEF Unset, Null
  <2>4. handle' \in Handle
    BY LoaderAssumption DEF Handle
  <2>5. fds' \in 0 .. MaxFds
    BY LoaderAssumption
  <2> QED
    BY <2>1, <2>2, <2>3, <2>4, <2>5 DEF IInv, TypeOK, Steps
<1>2. LibraryInv'
  BY DEF IInv, LibraryInv, GivenInv, NoLibrary, Whole, LoadSteps, MappedSteps,
     CreateSteps, EndSteps, FailSteps
<1>3. GivenInv'
  BY DEF IInv, GivenInv, DriverInv, LoadSteps, MappedSteps, CreateSteps, EndSteps, FailSteps
<1>4. HeapInv'
  BY DEF IInv, TypeOK, GivenInv, HeapInv, Block, Heap, LoadSteps, MappedSteps,
     CreateSteps, EndSteps, FailSteps
<1>5. FdInv'
  BY DEF IInv, TypeOK, FdInv, LoadSteps, MappedSteps, CreateSteps, EndSteps, FailSteps
<1>6. MapInv'
  BY DEF IInv, TypeOK, GivenInv, MapInv, Pages, Unset, Null, Failed, LoadSteps,
     MappedSteps, CreateSteps, EndSteps, FailSteps
<1>7. DriverInv'
  BY DEF IInv, TypeOK, GivenInv, MapInv, DriverInv, Pages, Handle, LoadSteps,
     MappedSteps, CreateSteps, EndSteps, FailSteps
<1> QED
  BY <1>1, <1>2, <1>3, <1>4, <1>5, <1>6, <1>7 DEF IInv

\* The first part of init_enclave_loader keeps the invariant.
LEMMA InitEnclaveLoaderStep ==
  ASSUME IInv, InitEnclaveLoader
  PROVE  IInv'
<1> USE DEF InitEnclaveLoader, Goto, structVars, memVars, driverVars
<1>1. TypeOK'
  BY DEF IInv, TypeOK, Steps, Block, Handle, Null, Failed
<1>2. LibraryInv'
  BY DEF IInv, LibraryInv, GivenInv, NoLibrary, Whole, LoadSteps, MappedSteps,
     CreateSteps, EndSteps, FailSteps
<1>3. GivenInv'
  BY DEF IInv, LibraryInv, GivenInv, Whole
<1>4. HeapInv'
  BY DEF IInv, TypeOK, GivenInv, HeapInv, Block, Heap, LoadSteps, MappedSteps,
     CreateSteps, EndSteps, FailSteps
<1>5. FdInv'
  BY DEF IInv, TypeOK, FdInv, LoadSteps, MappedSteps, CreateSteps, EndSteps, FailSteps
<1>6. MapInv'
  BY DEF IInv, TypeOK, GivenInv, MapInv, Pages, Unset, Null, Failed, LoadSteps,
     MappedSteps, CreateSteps, EndSteps, FailSteps
<1>7. DriverInv'
  BY DEF IInv, TypeOK, GivenInv, MapInv, DriverInv, Pages, Handle, LoadSteps,
     MappedSteps, CreateSteps, EndSteps, FailSteps
<1> QED
  BY <1>1, <1>2, <1>3, <1>4, <1>5, <1>6, <1>7 DEF IInv

\* The mmap of the plugin keeps it, also when it fails.
LEMMA InitMapStep ==
  ASSUME IInv, InitMap
  PROVE  IInv'
<1> USE DEF InitMap, InitFail, Goto, structVars, memVars, driverVars
<1>1. TypeOK'
  <2>1. library' \in [plugin: {"null", "live"}, text: {"null", "live"}, gate: BOOLEAN]
    <3>1. NoLibrary \in [plugin: {"null", "live"}, text: {"null", "live"}, gate: BOOLEAN]
      BY DEF NoLibrary
    <3>2. [library EXCEPT !.text = "live"] \in
            [plugin: {"null", "live"}, text: {"null", "live"}, gate: BOOLEAN]
      BY DEF IInv, TypeOK
    <3> QED
      BY <3>1, <3>2
  <2> QED
    BY <2>1 DEF IInv, TypeOK, Steps
<1>2. LibraryInv'
  BY DEF IInv, LibraryInv, GivenInv, NoLibrary, Whole, LoadSteps, MappedSteps,
     CreateSteps, EndSteps, FailSteps
<1>3. GivenInv'
  BY DEF IInv, GivenInv, DriverInv, LoadSteps, MappedSteps, CreateSteps, EndSteps, FailSteps
<1>4. HeapInv'
  BY DEF IInv, TypeOK, GivenInv, HeapInv, Block, Heap, LoadSteps, MappedSteps,
     CreateSteps, EndSteps, FailSteps
<1>5. FdInv'
  BY DEF IInv, TypeOK, FdInv, LoadSteps, MappedSteps, CreateSteps, EndSteps, FailSteps
<1>6. MapInv'
  BY DEF IInv, TypeOK, GivenInv, MapInv, Pages, Unset, Null, Failed, LoadSteps,
     MappedSteps, CreateSteps, EndSteps, FailSteps
<1>7. DriverInv'
  BY DEF IInv, TypeOK, GivenInv, MapInv, DriverInv, Pages, Handle, LoadSteps,
     MappedSteps, CreateSteps, EndSteps, FailSteps
<1> QED
  BY <1>1, <1>2, <1>3, <1>4, <1>5, <1>6, <1>7 DEF IInv

\* The copy of the plugin's segments keeps it, also when it fails.
LEMMA InitCopyStep ==
  ASSUME IInv, InitCopy
  PROVE  IInv'
<1> USE DEF InitCopy, InitFail, Goto, structVars, memVars, driverVars
<1>1. TypeOK'
  <2>1. library' \in [plugin: {"null", "live"}, text: {"null", "live"}, gate: BOOLEAN]
    <3>1. NoLibrary \in [plugin: {"null", "live"}, text: {"null", "live"}, gate: BOOLEAN]
      BY DEF NoLibrary
    <3>2. library \in [plugin: {"null", "live"}, text: {"null", "live"}, gate: BOOLEAN]
      BY DEF IInv, TypeOK
    <3> QED
      BY <3>1, <3>2
  <2> QED
    BY <2>1 DEF IInv, TypeOK, Steps
<1>2. LibraryInv'
  BY DEF IInv, LibraryInv, GivenInv, NoLibrary, Whole, LoadSteps, MappedSteps,
     CreateSteps, EndSteps, FailSteps
<1>3. GivenInv'
  BY DEF IInv, GivenInv, DriverInv, LoadSteps, MappedSteps, CreateSteps, EndSteps, FailSteps
<1>4. HeapInv'
  BY DEF IInv, TypeOK, GivenInv, HeapInv, Block, Heap, LoadSteps, MappedSteps,
     CreateSteps, EndSteps, FailSteps
<1>5. FdInv'
  BY DEF IInv, TypeOK, FdInv, LoadSteps, MappedSteps, CreateSteps, EndSteps, FailSteps
<1>6. MapInv'
  BY DEF IInv, TypeOK, GivenInv, MapInv, Pages, Unset, Null, Failed, LoadSteps,
     MappedSteps, CreateSteps, EndSteps, FailSteps
<1>7. DriverInv'
  BY DEF IInv, TypeOK, GivenInv, MapInv, DriverInv, Pages, Handle, LoadSteps,
     MappedSteps, CreateSteps, EndSteps, FailSteps
<1> QED
  BY <1>1, <1>2, <1>3, <1>4, <1>5, <1>6, <1>7 DEF IInv

\* Setting vmcall_gate completes the plugin.
LEMMA InitGateStep ==
  ASSUME IInv, InitGate
  PROVE  IInv'
<1> USE DEF InitGate, Goto, structVars, memVars, driverVars
<1>1. TypeOK'
  BY DEF IInv, TypeOK, Steps, Block, Handle, Null, Failed
<1>2. LibraryInv'
  BY DEF IInv, LibraryInv, GivenInv, NoLibrary, Whole, LoadSteps, MappedSteps,
     CreateSteps, EndSteps, FailSteps
<1>3. GivenInv'
  BY DEF IInv, GivenInv, DriverInv, LoadSteps, MappedSteps, CreateSteps, EndSteps, FailSteps
<1>4. HeapInv'
  BY DEF IInv, TypeOK, GivenInv, HeapInv, Block, Heap, LoadSteps, MappedSteps,
     CreateSteps, EndSteps, FailSteps
<1>5. FdInv'
  BY DEF IInv, TypeOK, FdInv, LoadSteps, MappedSteps, CreateSteps, EndSteps, FailSteps
<1>6. MapInv'
  BY DEF IInv, TypeOK, GivenInv, MapInv, Pages, Unset, Null, Failed, LoadSteps,
     MappedSteps, CreateSteps, EndSteps, FailSteps
<1>7. DriverInv'
  BY DEF IInv, TypeOK, GivenInv, MapInv, DriverInv, Pages, Handle, LoadSteps,
     MappedSteps, CreateSteps, EndSteps, FailSteps
<1> QED
  BY <1>1, <1>2, <1>3, <1>4, <1>5, <1>6, <1>7 DEF IInv

\* A load starts from a wiped structure, whatever the last one has left.
LEMMA LoadEnclaveStep ==
  ASSUME IInv, LoadEnclave
  PROVE  IInv'
<1> USE DEF LoadEnclave, Goto, Fresh, Unset, memVars, driverVars
<1>1. TypeOK'
  <2>1. ptr' \in [Block -> {"null", "live", "dangling"}]
    BY DEF Fresh, Block
  <2>2. mappings' \in [Seg -> Page \cup {Null, Failed}]
    BY DEF Unset, Null
  <2>3. handle' \in Handle
    BY LoaderAssumption DEF Handle
  <2> QED
    BY <2>1, <2>2, <2>3 DEF IInv, TypeOK, Steps
<1>2. LibraryInv'
  BY DEF IInv, LibraryInv, GivenInv, NoLibrary, Whole, LoadSteps, MappedSteps,
     CreateSteps, EndSteps, FailSteps
<1>3. GivenInv'
  BY DEF IInv, GivenInv, DriverInv, LoadSteps, MappedSteps, CreateSteps, EndSteps, FailSteps
<1>4. HeapInv'
  BY DEF IInv, TypeOK, GivenInv, HeapInv, Block, Heap, LoadSteps, MappedSteps,
     CreateSteps, EndSteps, FailSteps
<1>5. FdInv'
  BY DEF IInv, TypeOK, FdInv, LoadSteps, MappedSteps, CreateSteps, EndSteps, FailSteps
<1>6. MapInv'
  BY DEF IInv, TypeOK, GivenInv, MapInv, Pages, Unset, Null, Failed, LoadSteps,
     MappedSteps, CreateSteps, EndSteps, FailSteps
<1>7. DriverInv'
  BY DEF IInv, TypeOK, GivenInv, MapInv, DriverInv, Pages, Handle, LoadSteps,
     MappedSteps, CreateSteps, EndSteps, FailSteps
<1> QED
  BY <1>1, <1>2, <1>3, <1>4, <1>5, <1>6, <1>7 DEF IInv

\* parse_enclave acquires the section and program headers.
LEMMA ParseEnclaveStep ==
  ASSUME IInv, ParseEnclave
  PROVE  IInv'
<1> USE DEF ParseEnclave, Acquire, Goto, memVars, driverVars
<1>1. TypeOK'
  BY DEF IInv, TypeOK, Steps, Block, Handle, Null, Failed
<1>2. LibraryInv'
  BY DEF IInv, LibraryInv, GivenInv, NoLibrary, Whole, LoadSteps, MappedSteps,
     CreateSteps, EndSteps, FailSteps
<1>3. GivenInv'
  BY DEF IInv, GivenInv, DriverInv, LoadSteps, MappedSteps, CreateSteps, EndSteps, FailSteps
<1>4. HeapInv'
  BY DEF IInv, TypeOK, GivenInv, HeapInv, Block, Heap, LoadSteps, MappedSteps,
     CreateSteps, EndSteps, FailSteps
<1>5. FdInv'
  BY DEF IInv, TypeOK, FdInv, LoadSteps, MappedSteps, CreateSteps, EndSteps, FailSteps
<1>6. MapInv'
  BY DEF IInv, TypeOK, GivenInv, MapInv, Pages, Unset, Null, Failed, LoadSteps,
     MappedSteps, CreateSteps, EndSteps, FailSteps
<1>7. DriverInv'
  BY DEF IInv, TypeOK, GivenInv, MapInv, DriverInv, Pages, Handle, LoadSteps,
     MappedSteps, CreateSteps, EndSteps, FailSteps
<1> QED
  BY <1>1, <1>2, <1>3, <1>4, <1>5, <1>6, <1>7 DEF IInv

\* The label fail of parse_enclave frees what parse_enclave has read, once.
LEMMA FindStackStep ==
  ASSUME IInv, FindStack
  PROVE  IInv'
<1> USE DEF FindStack, ParseFail, Free, Acquire, Goto, driverVars
<1>1. TypeOK'
  <2>1. ptr' \in [Block -> {"null", "live", "dangling"}]
    BY DEF IInv, TypeOK
  <2>2. twice' \in BOOLEAN
    BY DEF IInv, TypeOK
  <2> QED
    BY <2>1, <2>2 DEF IInv, TypeOK, Steps
<1>2. LibraryInv'
  BY DEF IInv, LibraryInv, GivenInv, NoLibrary, Whole, LoadSteps, MappedSteps,
     CreateSteps, EndSteps, FailSteps
<1>3. GivenInv'
  BY DEF IInv, GivenInv, DriverInv, LoadSteps, MappedSteps, CreateSteps, EndSteps, FailSteps
<1>4. HeapInv'
  BY DEF IInv, TypeOK, GivenInv, HeapInv, Block, Heap, LoadSteps, MappedSteps,
     CreateSteps, EndSteps, FailSteps
<1>5. FdInv'
  BY DEF IInv, TypeOK, FdInv, LoadSteps, MappedSteps, CreateSteps, EndSteps, FailSteps
<1>6. MapInv'
  BY DEF IInv, TypeOK, GivenInv, MapInv, Pages, Unset, Null, Failed, LoadSteps,
     MappedSteps, CreateSteps, EndSteps, FailSteps
<1>7. DriverInv'
  BY DEF IInv, TypeOK, GivenInv, MapInv, DriverInv, Pages, Handle, LoadSteps,
     MappedSteps, CreateSteps, EndSteps, FailSteps
<1> QED
  BY <1>1, <1>2, <1>3, <1>4, <1>5, <1>6, <1>7 DEF IInv

\* map_enclave acquires its arrays one after the other.
LEMMA MapEnclaveStep ==
  ASSUME IInv, MapEnclave
  PROVE  IInv'
<1> USE DEF MapEnclave, Acquire, Goto, memVars, driverVars
<1>1. TypeOK'
  BY DEF IInv, TypeOK, Steps, Block, Handle, Null, Failed
<1>2. LibraryInv'
  BY DEF IInv, LibraryInv, GivenInv, NoLibrary, Whole, LoadSteps, MappedSteps,
     CreateSteps, EndSteps, FailSteps
<1>3. GivenInv'
  BY DEF IInv, GivenInv, DriverInv, LoadSteps, MappedSteps, CreateSteps, EndSteps, FailSteps
<1>4. HeapInv'
  BY DEF IInv, TypeOK, GivenInv, HeapInv, Block, Heap, LoadSteps, MappedSteps,
     CreateSteps, EndSteps, FailSteps
<1>5. FdInv'
  BY DEF IInv, TypeOK, FdInv, LoadSteps, MappedSteps, CreateSteps, EndSteps, FailSteps
<1>6. MapInv'
  BY DEF IInv, TypeOK, GivenInv, MapInv, Pages, Unset, Null, Failed, LoadSteps,
     MappedSteps, CreateSteps, EndSteps, FailSteps
<1>7. DriverInv'
  BY DEF IInv, TypeOK, GivenInv, MapInv, DriverInv, Pages, Handle, LoadSteps,
     MappedSteps, CreateSteps, EndSteps, FailSteps
<1> QED
  BY <1>1, <1>2, <1>3, <1>4, <1>5, <1>6, <1>7 DEF IInv

\* An iteration of the loop of map_enclave maps a page that was not mapped,
\* and the loop ends only when no loadable segment is left.
LEMMA MapSegmentStep ==
  ASSUME IInv, MapSegment
  PROVE  IInv'
<1> USE DEF MapSegment, Goto, driverVars
<1>1. TypeOK'
  BY DEF IInv, TypeOK, Steps, Block, Handle, Null, Failed
<1>2. LibraryInv'
  BY DEF IInv, LibraryInv, GivenInv, NoLibrary, Whole, LoadSteps, MappedSteps,
     CreateSteps, EndSteps, FailSteps
<1>3. GivenInv'
  BY DEF IInv, GivenInv, DriverInv, LoadSteps, MappedSteps, CreateSteps, EndSteps, FailSteps
<1>4. HeapInv'
  BY DEF IInv, TypeOK, GivenInv, HeapInv, Block, Heap, LoadSteps, MappedSteps,
     CreateSteps, EndSteps, FailSteps
<1>5. FdInv'
  BY DEF IInv, TypeOK, FdInv, LoadSteps, MappedSteps, CreateSteps, EndSteps, FailSteps
<1>6. MapInv'
  <2> USE DEF Null, Failed
  <2>1. CASE ToMap = {} /\ Goto("create") /\ UNCHANGED <<mappings, mapped>>
    <3>1. \A s \in Loadable : mappings[s] \in Pages
      BY <2>1, LoaderAssumption DEF IInv, MapInv, ToMap, Pages
    <3>2. Pages \subseteq mapped
      BY DEF IInv, MapInv, MappedSteps
    <3> QED
      BY <2>1, <3>1, <3>2 DEF IInv, GivenInv, MapInv, Pages
  <2>2. ASSUME NEW p \in Page \ mapped,
               mappings' = [mappings EXCEPT ![Min(ToMap)] = p],
               mapped' = mapped \cup {p}, UNCHANGED pc
        PROVE  MapInv'
    <3>1. p \in Nat \ {0}
      BY LoaderAssumption
    <3>2. \A s \in Seg : mappings'[s] \in {mappings[s], p}
      BY <2>2 DEF IInv, TypeOK
    <3>3. Pages' \subseteq mapped'
      BY <2>2, <3>2 DEF IInv, MapInv, Pages, MappedSteps
    <3>4. \A s \in Seg : mappings'[s] # Failed
      BY <2>2, <3>1, <3>2 DEF IInv, MapInv
    <3> QED
      BY <2>2, <3>3, <3>4 DEF IInv, GivenInv, MapInv, CreateSteps, EndSteps
  <2>3. CASE /\ mappings' = [mappings EXCEPT ![Min(ToMap)] = Failed]
             /\ Goto("map_fail_unmap")
             /\ UNCHANGED mapped
    <3>1. \A s \in Seg : mappings'[s] \in {mappings[s], Failed}
      BY <2>3 DEF IInv, TypeOK
    <3>2. Pages' \subseteq mapped'
      BY <2>3, <3>1 DEF IInv, MapInv, Pages, MappedSteps
    <3> QED
      BY <2>3, <3>2 DEF IInv, GivenInv, MapInv, CreateSteps, EndSteps
  <2> QED
    BY <2>1, <2>2, <2>3
<1>7. DriverInv'
  BY DEF IInv, TypeOK, GivenInv, MapInv, DriverInv, Pages, Handle, LoadSteps,
     MappedSteps, CreateSteps, EndSteps, FailSteps
<1> QED
  BY <1>1, <1>2, <1>3, <1>4, <1>5, <1>6, <1>7 DEF IInv

\* The first label of map_enclave unmaps what is mapped, and frees sizes once.
LEMMA MapFailUnmapStep ==
  ASSUME IInv, MapFailUnmap
  PROVE  IInv'
<1> USE DEF MapFailUnmap, UnmapAll, Goto, driverVars
<1>1. TypeOK'
  BY DEF IInv, TypeOK, Steps, Block, Handle, Null, Failed
<1>2. LibraryInv'
  BY DEF IInv, LibraryInv, GivenInv, NoLibrary, Whole, LoadSteps, MappedSteps,
     CreateSteps, EndSteps, FailSteps
<1>3. GivenInv'
  BY DEF IInv, GivenInv, DriverInv, LoadSteps, MappedSteps, CreateSteps, EndSteps, FailSteps
<1>4. HeapInv'
  BY DEF IInv, TypeOK, GivenInv, HeapInv, MapInv, Block, LoadSteps, MappedSteps,
     CreateSteps, EndSteps, FailSteps
<1>5. FdInv'
  BY DEF IInv, TypeOK, FdInv, LoadSteps, MappedSteps, CreateSteps, EndSteps, FailSteps
<1>6. MapInv'
  BY DEF IInv, TypeOK, GivenInv, MapInv, Pages, Unset, Null, Failed, LoadSteps,
     MappedSteps, CreateSteps, EndSteps, FailSteps
<1>7. DriverInv'
  BY DEF IInv, TypeOK, GivenInv, MapInv, DriverInv, Pages, Handle, LoadSteps,
     MappedSteps, CreateSteps, EndSteps, FailSteps
<1> QED
  BY <1>1, <1>2, <1>3, <1>4, <1>5, <1>6, <1>7 DEF IInv

\* The second label of map_enclave frees mappings once.
LEMMA MapFailFreeStep ==
  ASSUME IInv, MapFailFree
  PROVE  IInv'
<1> USE DEF MapFailFree, Free, Goto, driverVars
<1>1. TypeOK'
  BY DEF IInv, TypeOK, Steps, Block, Handle, Null, Failed
<1>2. LibraryInv'
  BY DEF IInv, LibraryInv, GivenInv, NoLibrary, Whole, LoadSteps, MappedSteps,
     CreateSteps, EndSteps, FailSteps
<1>3. GivenInv'
  BY DEF IInv, GivenInv, DriverInv, LoadSteps, MappedSteps, CreateSteps, EndSteps, FailSteps
<1>4. HeapInv'
  BY DEF IInv, TypeOK, GivenInv, HeapInv, Block, Heap, LoadSteps, MappedSteps,
     CreateSteps, EndSteps, FailSteps
<1>5. FdInv'
  BY DEF IInv, TypeOK, FdInv, LoadSteps, MappedSteps, CreateSteps, EndSteps, FailSteps
<1>6. MapInv'
  BY DEF IInv, TypeOK, GivenInv, MapInv, Pages, Unset, Null, Failed, LoadSteps,
     MappedSteps, CreateSteps, EndSteps, FailSteps
<1>7. DriverInv'
  BY DEF IInv, TypeOK, GivenInv, MapInv, DriverInv, Pages, Handle, LoadSteps,
     MappedSteps, CreateSteps, EndSteps, FailSteps
<1> QED
  BY <1>1, <1>2, <1>3, <1>4, <1>5, <1>6, <1>7 DEF IInv

\* create_enclave opens its descriptor below the limit.
LEMMA CreateOpenStep ==
  ASSUME IInv, CreateOpen
  PROVE  IInv'
<1> USE DEF CreateOpen, Acquire, Goto, memVars, driverVars
<1>1. TypeOK'
  <2>1. ptr' \in [Block -> {"null", "live", "dangling"}]
    BY DEF IInv, TypeOK
  <2>2. fds' \in 0 .. MaxFds
    BY LoaderAssumption DEF IInv, TypeOK
  <2> QED
    BY <2>1, <2>2 DEF IInv, TypeOK, Steps
<1>2. LibraryInv'
  BY DEF IInv, LibraryInv, GivenInv, NoLibrary, Whole, LoadSteps, MappedSteps,
     CreateSteps, EndSteps, FailSteps
<1>3. GivenInv'
  BY DEF IInv, GivenInv, DriverInv, LoadSteps, MappedSteps, CreateSteps, EndSteps, FailSteps
<1>4. HeapInv'
  BY DEF IInv, TypeOK, GivenInv, HeapInv, Block, Heap, LoadSteps, MappedSteps,
     CreateSteps, EndSteps, FailSteps
<1>5. FdInv'
  BY DEF IInv, TypeOK, FdInv, LoadSteps, MappedSteps, CreateSteps, EndSteps, FailSteps
<1>6. MapInv'
  BY DEF IInv, TypeOK, GivenInv, MapInv, Pages, Unset, Null, Failed, LoadSteps,
     MappedSteps, CreateSteps, EndSteps, FailSteps
<1>7. DriverInv'
  BY DEF IInv, TypeOK, GivenInv, MapInv, DriverInv, Pages, Handle, LoadSteps,
     MappedSteps, CreateSteps, EndSteps, FailSteps
<1> QED
  BY <1>1, <1>2, <1>3, <1>4, <1>5, <1>6, <1>7 DEF IInv

\* CREATE gives a fresh handle or none.
LEMMA CreateIoctlStep ==
  ASSUME IInv, CreateIoctl
  PROVE  IInv'
<1> USE DEF CreateIoctl, Goto, memVars
<1>1. TypeOK'
  <2>1. ids' \in Handle
    BY LoaderAssumption DEF IInv, TypeOK, Handle
  <2>2. handle' \in Handle
    BY DEF IInv, TypeOK
  <2>3. DOMAIN enclaves' \subseteq Handle /\ \A h \in DOMAIN enclaves' : enclaves'[h] \subseteq Page
    BY DEF IInv, TypeOK
  <2> QED
    BY <2>1, <2>2, <2>3 DEF IInv, TypeOK, Steps
<1>2. LibraryInv'
  BY DEF IInv, LibraryInv, GivenInv, NoLibrary, Whole, LoadSteps, MappedSteps,
     CreateSteps, EndSteps, FailSteps
<1>3. GivenInv'
  BY DEF IInv, GivenInv, DriverInv, LoadSteps, MappedSteps, CreateSteps, EndSteps, FailSteps
<1>4. HeapInv'
  BY DEF IInv, TypeOK, GivenInv, HeapInv, Block, Heap, LoadSteps, MappedSteps,
     CreateSteps, EndSteps, FailSteps
<1>5. FdInv'
  BY DEF IInv, TypeOK, FdInv, LoadSteps, MappedSteps, CreateSteps, EndSteps, FailSteps
<1>6. MapInv'
  BY DEF IInv, TypeOK, GivenInv, MapInv, Pages, Unset, Null, Failed, LoadSteps,
     MappedSteps, CreateSteps, EndSteps, FailSteps
<1>7. DriverInv'
  BY DEF IInv, TypeOK, GivenInv, MapInv, DriverInv, Pages, Handle, LoadSteps,
     MappedSteps, CreateSteps, EndSteps, FailSteps
<1> QED
  BY <1>1, <1>2, <1>3, <1>4, <1>5, <1>6, <1>7 DEF IInv

\* The regions of the plugin and the extras leave the structure alone.
LEMMA AddSharedStep ==
  ASSUME IInv, AddShared
  PROVE  IInv'
<1> USE DEF AddShared, Goto, structVars, memVars, driverVars
<1>1. TypeOK'
  BY DEF IInv, TypeOK, Steps, Block, Handle, Null, Failed
<1>2. LibraryInv'
  BY DEF IInv, LibraryInv, GivenInv, NoLibrary, Whole, LoadSteps, MappedSteps,
     CreateSteps, EndSteps, FailSteps
<1>3. GivenInv'
  BY DEF IInv, GivenInv, DriverInv, LoadSteps, MappedSteps, CreateSteps, EndSteps, FailSteps
<1>4. HeapInv'
  BY DEF IInv, TypeOK, GivenInv, HeapInv, Block, Heap, LoadSteps, MappedSteps,
     CreateSteps, EndSteps, FailSteps
<1>5. FdInv'
  BY DEF IInv, TypeOK, FdInv, LoadSteps, MappedSteps, CreateSteps, EndSteps, FailSteps
<1>6. MapInv'
  BY DEF IInv, TypeOK, GivenInv, MapInv, Pages, Unset, Null, Failed, LoadSteps,
     MappedSteps, CreateSteps, EndSteps, FailSteps
<1>7. DriverInv'
  BY DEF IInv, TypeOK, GivenInv, MapInv, DriverInv, Pages, Handle, LoadSteps,
     MappedSteps, CreateSteps, EndSteps, FailSteps
<1> QED
  BY <1>1, <1>2, <1>3, <1>4, <1>5, <1>6, <1>7 DEF IInv

\* The regions of the segments leave the structure alone.
LEMMA AddSegmentsStep ==
  ASSUME IInv, AddSegments
  PROVE  IInv'
<1> USE DEF AddSegments, Goto, structVars, memVars, driverVars
<1>1. TypeOK'
  BY DEF IInv, TypeOK, Steps, Block, Handle, Null, Failed
<1>2. LibraryInv'
  BY DEF IInv, LibraryInv, GivenInv, NoLibrary, Whole, LoadSteps, MappedSteps,
     CreateSteps, EndSteps, FailSteps
<1>3. GivenInv'
  BY DEF IInv, GivenInv, DriverInv, LoadSteps, MappedSteps, CreateSteps, EndSteps, FailSteps
<1>4. HeapInv'
  BY DEF IInv, TypeOK, GivenInv, HeapInv, Block, Heap, LoadSteps, MappedSteps,
     CreateSteps, EndSteps, FailSteps
<1>5. FdInv'
  BY DEF IInv, TypeOK, FdInv, LoadSteps, MappedSteps, CreateSteps, EndSteps, FailSteps
<1>6. MapInv'
  BY DEF IInv, TypeOK, GivenInv, MapInv, Pages, Unset, Null, Failed, LoadSteps,
     MappedSteps, CreateSteps, EndSteps, FailSteps
<1>7. DriverInv'
  BY DEF IInv, TypeOK, GivenInv, MapInv, DriverInv, Pages, Handle, LoadSteps,
     MappedSteps, CreateSteps, EndSteps, FailSteps
<1> QED
  BY <1>1, <1>2, <1>3, <1>4, <1>5, <1>6, <1>7 DEF IInv

\* A COMMIT that succeeds leaves the driver with exactly the mapped pages.
LEMMA CommitStep ==
  ASSUME IInv, Commit
  PROVE  IInv'
<1> USE DEF Commit, Goto, structVars, memVars
<1>1. TypeOK'
  <2>0. Pages \subseteq Page
    BY DEF IInv, TypeOK, Pages, Null, Failed
  <2>1. DOMAIN enclaves' \subseteq Handle /\ \A h \in DOMAIN enclaves' : enclaves'[h] \subseteq Page
    BY <2>0 DEF IInv, TypeOK, DriverInv
  <2>2. held' \in [Handle -> SUBSET Page]
    BY <2>0 DEF IInv, TypeOK
  <2> QED
    BY <2>1, <2>2 DEF IInv, TypeOK, Steps
<1>2. LibraryInv'
  BY DEF IInv, LibraryInv, GivenInv, NoLibrary, Whole, LoadSteps, MappedSteps,
     CreateSteps, EndSteps, FailSteps
<1>3. GivenInv'
  BY DEF IInv, GivenInv, DriverInv, LoadSteps, MappedSteps, CreateSteps, EndSteps, FailSteps
<1>4. HeapInv'
  BY DEF IInv, TypeOK, GivenInv, HeapInv, Block, Heap, LoadSteps, MappedSteps,
     CreateSteps, EndSteps, FailSteps
<1>5. FdInv'
  BY DEF IInv, TypeOK, FdInv, LoadSteps, MappedSteps, CreateSteps, EndSteps, FailSteps
<1>6. MapInv'
  BY DEF IInv, TypeOK, GivenInv, MapInv, Pages, Unset, Null, Failed, LoadSteps,
     MappedSteps, CreateSteps, EndSteps, FailSteps
<1>7. DriverInv'
  <2> USE DEF IInv, TypeOK, GivenInv, MapInv, DriverInv, Handle, EndSteps
  <2>1. Pages \subseteq Page /\ Pages' = Pages
    BY DEF Pages, Null, Failed
  <2>2. CASE UNCHANGED <<enclaves, held>> /\ Goto("create_fail_unmap")
    BY <2>2
  <2>3. CASE /\ enclaves' = [enclaves EXCEPT ![handle] = Pages]
             /\ held' = [held EXCEPT ![handle] = Pages]
             /\ Goto("unmap_file")
    BY <2>1, <2>3
  <2>4. CASE /\ enclaves' = [enclaves EXCEPT ![handle] = Pages]
             /\ Goto("create_fail_unmap")
    BY <2>1, <2>4
  <2> QED
    BY <2>2, <2>3, <2>4
<1> QED
  BY <1>1, <1>2, <1>3, <1>4, <1>5, <1>6, <1>7 DEF IInv

\* The first label of create_enclave unmaps what is mapped, once.
LEMMA CreateFailUnmapStep ==
  ASSUME IInv, CreateFailUnmap
  PROVE  IInv'
<1> USE DEF CreateFailUnmap, UnmapAll, Goto, driverVars
<1>1. TypeOK'
  BY DEF IInv, TypeOK, Steps, Block, Handle, Null, Failed
<1>2. LibraryInv'
  BY DEF IInv, LibraryInv, GivenInv, NoLibrary, Whole, LoadSteps, MappedSteps,
     CreateSteps, EndSteps, FailSteps
<1>3. GivenInv'
  BY DEF IInv, GivenInv, DriverInv, LoadSteps, MappedSteps, CreateSteps, EndSteps, FailSteps
<1>4. HeapInv'
  BY DEF IInv, TypeOK, GivenInv, HeapInv, MapInv, Block, LoadSteps, MappedSteps,
     CreateSteps, EndSteps, FailSteps
<1>5. FdInv'
  BY DEF IInv, TypeOK, FdInv, LoadSteps, MappedSteps, CreateSteps, EndSteps, FailSteps
<1>6. MapInv'
  BY DEF IInv, TypeOK, GivenInv, MapInv, Pages, Unset, Null, Failed, LoadSteps,
     MappedSteps, CreateSteps, EndSteps, FailSteps
<1>7. DriverInv'
  BY DEF IInv, TypeOK, GivenInv, MapInv, DriverInv, Pages, Handle, LoadSteps,
     MappedSteps, CreateSteps, EndSteps, FailSteps
<1> QED
  BY <1>1, <1>2, <1>3, <1>4, <1>5, <1>6, <1>7 DEF IInv

\* The second label of create_enclave frees mappings, once.
LEMMA CreateFailFreeStep ==
  ASSUME IInv, CreateFailFree
  PROVE  IInv'
<1> USE DEF CreateFailFree, Free, Goto, driverVars
<1>1. TypeOK'
  BY DEF IInv, TypeOK, Steps, Block, Handle, Null, Failed
<1>2. LibraryInv'
  BY DEF IInv, LibraryInv, GivenInv, NoLibrary, Whole, LoadSteps, MappedSteps,
     CreateSteps, EndSteps, FailSteps
<1>3. GivenInv'
  BY DEF IInv, GivenInv, DriverInv, LoadSteps, MappedSteps, CreateSteps, EndSteps, FailSteps
<1>4. HeapInv'
  BY DEF IInv, TypeOK, GivenInv, HeapInv, Block, Heap, LoadSteps, MappedSteps,
     CreateSteps, EndSteps, FailSteps
<1>5. FdInv'
  BY DEF IInv, TypeOK, FdInv, LoadSteps, MappedSteps, CreateSteps, EndSteps, FailSteps
<1>6. MapInv'
  BY DEF IInv, TypeOK, GivenInv, MapInv, Pages, Unset, Null, Failed, LoadSteps,
     MappedSteps, CreateSteps, EndSteps, FailSteps
<1>7. DriverInv'
  BY DEF IInv, TypeOK, GivenInv, MapInv, DriverInv, Pages, Handle, LoadSteps,
     MappedSteps, CreateSteps, EndSteps, FailSteps
<1> QED
  BY <1>1, <1>2, <1>3, <1>4, <1>5, <1>6, <1>7 DEF IInv

\* The last label of create_enclave closes a descriptor that is open.
LEMMA CreateFailCloseStep ==
  ASSUME IInv, CreateFailClose
  PROVE  IInv'
<1> USE DEF CreateFailClose, Free, Goto, driverVars
<1>1. TypeOK'
  <2>1. ptr' \in [Block -> {"null", "live", "dangling"}]
    BY DEF IInv, TypeOK
  <2>2. fds' \in 0 .. MaxFds
    BY LoaderAssumption DEF IInv, TypeOK, FdInv
  <2>3. twice' \in BOOLEAN
    BY DEF IInv, TypeOK
  <2> QED
    BY <2>1, <2>2, <2>3 DEF IInv, TypeOK, Steps
<1>2. LibraryInv'
  BY DEF IInv, LibraryInv, GivenInv, NoLibrary, Whole, LoadSteps, MappedSteps,
     CreateSteps, EndSteps, FailSteps
<1>3. GivenInv'
  BY DEF IInv, GivenInv, DriverInv, LoadSteps, MappedSteps, CreateSteps, EndSteps, FailSteps
<1>4. HeapInv'
  BY DEF IInv, TypeOK, GivenInv, HeapInv, Block, Heap, LoadSteps, MappedSteps,
     CreateSteps, EndSteps, FailSteps
<1>5. FdInv'
  BY DEF IInv, TypeOK, FdInv, LoadSteps, MappedSteps, CreateSteps, EndSteps, FailSteps
<1>6. MapInv'
  BY DEF IInv, TypeOK, GivenInv, MapInv, Pages, Unset, Null, Failed, LoadSteps,
     MappedSteps, CreateSteps, EndSteps, FailSteps
<1>7. DriverInv'
  BY DEF IInv, TypeOK, GivenInv, MapInv, DriverInv, Pages, Handle, LoadSteps,
     MappedSteps, CreateSteps, EndSteps, FailSteps
<1> QED
  BY <1>1, <1>2, <1>3, <1>4, <1>5, <1>6, <1>7 DEF IInv

\* The file is unmapped after the enclave is complete.
LEMMA UnmapFileStep ==
  ASSUME IInv, UnmapFile
  PROVE  IInv'
<1> USE DEF UnmapFile, Free, Goto, driverVars
<1>1. TypeOK'
  <2>1. ptr' \in [Block -> {"null", "live", "dangling"}]
    BY DEF IInv, TypeOK
  <2>2. twice' \in BOOLEAN
    BY DEF IInv, TypeOK
  <2> QED
    BY <2>1, <2>2 DEF IInv, TypeOK, Steps
<1>2. LibraryInv'
  BY DEF IInv, LibraryInv, GivenInv, NoLibrary, Whole, LoadSteps, MappedSteps,
     CreateSteps, EndSteps, FailSteps
<1>3. GivenInv'
  BY DEF IInv, GivenInv, DriverInv, LoadSteps, MappedSteps, CreateSteps, EndSteps, FailSteps
<1>4. HeapInv'
  BY DEF IInv, TypeOK, GivenInv, HeapInv, Block, Heap, LoadSteps, MappedSteps,
     CreateSteps, EndSteps, FailSteps
<1>5. FdInv'
  BY DEF IInv, TypeOK, FdInv, LoadSteps, MappedSteps, CreateSteps, EndSteps, FailSteps
<1>6. MapInv'
  BY DEF IInv, TypeOK, GivenInv, MapInv, Pages, Unset, Null, Failed, LoadSteps,
     MappedSteps, CreateSteps, EndSteps, FailSteps
<1>7. DriverInv'
  BY DEF IInv, TypeOK, GivenInv, MapInv, DriverInv, Pages, Handle, LoadSteps,
     MappedSteps, CreateSteps, EndSteps, FailSteps
<1> QED
  BY <1>1, <1>2, <1>3, <1>4, <1>5, <1>6, <1>7 DEF IInv

\* load_enclave returns 0 with everything in place.
LEMMA CloseFileStep ==
  ASSUME IInv, CloseFile
  PROVE  IInv'
<1> USE DEF CloseFile, Goto, memVars, driverVars
<1>1. TypeOK'
  BY DEF IInv, TypeOK, Steps, Block, Handle, Null, Failed
<1>2. LibraryInv'
  BY DEF IInv, LibraryInv, GivenInv, NoLibrary, Whole, LoadSteps, MappedSteps,
     CreateSteps, EndSteps, FailSteps
<1>3. GivenInv'
  BY DEF IInv, GivenInv, DriverInv, LoadSteps, MappedSteps, CreateSteps, EndSteps, FailSteps
<1>4. HeapInv'
  BY DEF IInv, TypeOK, GivenInv, HeapInv, Block, Heap, LoadSteps, MappedSteps,
     CreateSteps, EndSteps, FailSteps
<1>5. FdInv'
  BY DEF IInv, TypeOK, FdInv, LoadSteps, MappedSteps, CreateSteps, EndSteps, FailSteps
<1>6. MapInv'
  BY DEF IInv, TypeOK, GivenInv, MapInv, Pages, Unset, Null, Failed, LoadSteps,
     MappedSteps, CreateSteps, EndSteps, FailSteps
<1>7. DriverInv'
  BY DEF IInv, TypeOK, GivenInv, MapInv, DriverInv, Pages, Handle, LoadSteps,
     MappedSteps, CreateSteps, EndSteps, FailSteps
<1> QED
  BY <1>1, <1>2, <1>3, <1>4, <1>5, <1>6, <1>7 DEF IInv

\* The label fail_free of load_enclave frees the headers, once.
LEMMA FailFreeStep ==
  ASSUME IInv, FailFree
  PROVE  IInv'
<1> USE DEF FailFree, Free, Goto, driverVars
<1>1. TypeOK'
  BY DEF IInv, TypeOK, Steps, Block, Handle, Null, Failed
<1>2. LibraryInv'
  BY DEF IInv, LibraryInv, GivenInv, NoLibrary, Whole, LoadSteps, MappedSteps,
     CreateSteps, EndSteps, FailSteps
<1>3. GivenInv'
  BY DEF IInv, GivenInv, DriverInv, LoadSteps, MappedSteps, CreateSteps, EndSteps, FailSteps
<1>4. HeapInv'
  BY DEF IInv, TypeOK, GivenInv, HeapInv, Block, Heap, LoadSteps, MappedSteps,
     CreateSteps, EndSteps, FailSteps
<1>5. FdInv'
  BY DEF IInv, TypeOK, FdInv, LoadSteps, MappedSteps, CreateSteps, EndSteps, FailSteps
<1>6. MapInv'
  BY DEF IInv, TypeOK, GivenInv, MapInv, Pages, Unset, Null, Failed, LoadSteps,
     MappedSteps, CreateSteps, EndSteps, FailSteps
<1>7. DriverInv'
  BY DEF IInv, TypeOK, GivenInv, MapInv, DriverInv, Pages, Handle, LoadSteps,
     MappedSteps, CreateSteps, EndSteps, FailSteps
<1> QED
  BY <1>1, <1>2, <1>3, <1>4, <1>5, <1>6, <1>7 DEF IInv

\* The label fail_close of load_enclave ends a load that failed.
LEMMA FailCloseStep ==
  ASSUME IInv, FailClose
  PROVE  IInv'
<1> USE DEF FailClose, Free, Goto, driverVars
<1>1. TypeOK'
  BY DEF IInv, TypeOK, Steps, Block, Handle, Null, Failed
<1>2. LibraryInv'
  BY DEF IInv, LibraryInv, GivenInv, NoLibrary, Whole, LoadSteps, MappedSteps,
     CreateSteps, EndSteps, FailSteps
<1>3. GivenInv'
  BY DEF IInv, GivenInv, DriverInv, LoadSteps, MappedSteps, CreateSteps, EndSteps, FailSteps
<1>4. HeapInv'
  BY DEF IInv, TypeOK, GivenInv, HeapInv, Block, Heap, LoadSteps, MappedSteps,
     CreateSteps, EndSteps, FailSteps
<1>5. FdInv'
  BY DEF IInv, TypeOK, FdInv, LoadSteps, MappedSteps, CreateSteps, EndSteps, FailSteps
<1>6. MapInv'
  BY DEF IInv, TypeOK, GivenInv, MapInv, Pages, Unset, Null, Failed, LoadSteps,
     MappedSteps, CreateSteps, EndSteps, FailSteps
<1>7. DriverInv'
  BY DEF IInv, TypeOK, GivenInv, MapInv, DriverInv, Pages, Handle, LoadSteps,
     MappedSteps, CreateSteps, EndSteps, FailSteps
<1> QED
  BY <1>1, <1>2, <1>3, <1>4, <1>5, <1>6, <1>7 DEF IInv

\* A DELETE that is refused, before or half-way, leaves the caller's enclave
\* with no page it did not have; one that succeeds leaves it none.
LEMMA DeleteEnclaveStep ==
  ASSUME IInv, DeleteEnclave
  PROVE  IInv'
<1> USE DEF DeleteEnclave, DeleteRefused, Goto, structVars, memVars, driverVars
<1>1. TypeOK'
  BY DEF IInv, TypeOK, Steps, Block, Handle, Null, Failed
<1>2. LibraryInv'
  BY DEF IInv, LibraryInv, GivenInv, NoLibrary, Whole, LoadSteps, MappedSteps,
     CreateSteps, EndSteps, FailSteps
<1>3. GivenInv'
  BY DEF IInv, TypeOK, GivenInv, DriverInv
<1>4. HeapInv'
  BY DEF IInv, TypeOK, GivenInv, HeapInv, Block, Heap, LoadSteps, MappedSteps,
     CreateSteps, EndSteps, FailSteps
<1>5. FdInv'
  BY DEF IInv, TypeOK, FdInv, LoadSteps, MappedSteps, CreateSteps, EndSteps, FailSteps
<1>6. MapInv'
  BY DEF IInv, TypeOK, GivenInv, MapInv, Pages, Unset, Null, Failed, LoadSteps,
     MappedSteps, CreateSteps, EndSteps, FailSteps
<1>7. DriverInv'
  <2> USE DEF IInv, TypeOK, GivenInv, DriverInv, Handle
  <2>1. Pages' = Pages
    BY DEF Pages
  <2>2. CASE UNCHANGED <<pc, enclaves>> /\ \A h \in Handle : held'[h] \subseteq held[h]
    <3>1. held[handle] = {} => held'[handle] = {}
      BY <2>2
    <3> QED
      BY <2>1, <2>2, <3>1 DEF EndSteps
  <2>3. CASE /\ held' = [held EXCEPT ![handle] = {}]
             /\ enclaves' = [h \in DOMAIN enclaves \ {handle} |-> enclaves[h]]
             /\ Goto("delete_free")
    BY <2>3 DEF EndSteps
  <2>4. CASE UNCHANGED driverVars /\ DeleteRefused
    BY <2>2, <2>4
  <2>5. ASSUME NEW revoked, held' = [held EXCEPT ![handle] = @ \ revoked],
               UNCHANGED <<enclaves, pc>>
        PROVE  DriverInv'
    <3>1. \A h \in Handle : held'[h] \subseteq held[h]
      BY <2>5
    <3> QED
      BY <2>2, <2>5, <3>1
  <2> QED
    BY <2>3, <2>4, <2>5
<1> QED
  BY <1>1, <1>2, <1>3, <1>4, <1>5, <1>6, <1>7 DEF IInv

\* The rest of delete_enclave releases what load_enclave has acquired.
LEMMA DeleteFreeStep ==
  ASSUME IInv, DeleteFree
  PROVE  IInv'
<1> USE DEF DeleteFree, Reclaimed, Goto, driverVars
<1>1. TypeOK'
  BY DEF IInv, TypeOK, Steps, Block, Handle, Null, Failed
<1>2. LibraryInv'
  BY DEF IInv, LibraryInv, GivenInv, NoLibrary, Whole, LoadSteps, MappedSteps,
     CreateSteps, EndSteps, FailSteps
<1>3. GivenInv'
  BY DEF IInv, GivenInv, DriverInv, LoadSteps, MappedSteps, CreateSteps, EndSteps, FailSteps
<1>4. HeapInv'
  BY DEF IInv, TypeOK, GivenInv, HeapInv, MapInv, Block, LoadSteps, MappedSteps,
     CreateSteps, EndSteps, FailSteps
<1>5. FdInv'
  BY DEF IInv, TypeOK, FdInv, LoadSteps, MappedSteps, CreateSteps, EndSteps, FailSteps
<1>6. MapInv'
  BY DEF IInv, TypeOK, GivenInv, MapInv, Pages, Unset, Null, Failed, LoadSteps,
     MappedSteps, CreateSteps, EndSteps, FailSteps
<1>7. DriverInv'
  BY DEF IInv, TypeOK, GivenInv, MapInv, DriverInv, Pages, Handle, LoadSteps,
     MappedSteps, CreateSteps, EndSteps, FailSteps
<1> QED
  BY <1>1, <1>2, <1>3, <1>4, <1>5, <1>6, <1>7 DEF IInv

\* enclave_driver_transition changes nothing but the descriptors.
LEMMA EnclaveDriverTransitionStep ==
  ASSUME IInv, EnclaveDriverTransition
  PROVE  IInv'
<1> USE DEF EnclaveDriverTransition, structVars, memVars, driverVars
<1>1. TypeOK'
  <2>1. fds' \in 0 .. MaxFds
    BY LoaderAssumption DEF IInv, TypeOK
  <2> QED
    BY <2>1 DEF IInv, TypeOK, Steps
<1>2. LibraryInv'
  BY DEF IInv, LibraryInv, GivenInv, NoLibrary, Whole, LoadSteps, MappedSteps,
     CreateSteps, EndSteps, FailSteps
<1>3. GivenInv'
  BY DEF IInv, GivenInv, DriverInv, LoadSteps, MappedSteps, CreateSteps, EndSteps, FailSteps
<1>4. HeapInv'
  BY DEF IInv, TypeOK, GivenInv, HeapInv, Block, Heap, LoadSteps, MappedSteps,
     CreateSteps, EndSteps, FailSteps
<1>5. FdInv'
  BY DEF IInv, TypeOK, FdInv, LoadSteps, MappedSteps, CreateSteps, EndSteps, FailSteps
<1>6. MapInv'
  BY DEF IInv, TypeOK, GivenInv, MapInv, Pages, Unset, Null, Failed, LoadSteps,
     MappedSteps, CreateSteps, EndSteps, FailSteps
<1>7. DriverInv'
  BY DEF IInv, TypeOK, GivenInv, MapInv, DriverInv, Pages, Handle, LoadSteps,
     MappedSteps, CreateSteps, EndSteps, FailSteps
<1> QED
  BY <1>1, <1>2, <1>3, <1>4, <1>5, <1>6, <1>7 DEF IInv

\* The invariant holds when the first process starts.
LEMMA InitInv == Init => IInv
<1> SUFFICES ASSUME Init PROVE IInv
  OBVIOUS
<1> USE DEF Init
<1>1. TypeOK
  <2>1. library \in [plugin: {"null", "live"}, text: {"null", "live"}, gate: BOOLEAN]
    BY DEF NoLibrary
  <2>2. ptr \in [Block -> {"null", "live", "dangling"}]
    BY DEF Fresh
  <2>3. mappings \in [Seg -> Page \cup {Null, Failed}]
    BY DEF Unset
  <2>4. handle \in Handle /\ ids \in Handle /\ fds \in 0 .. MaxFds
    BY LoaderAssumption DEF Handle
  <2>5. held \in [Handle -> SUBSET Page]
    OBVIOUS
  <2> QED
    BY <2>1, <2>2, <2>3, <2>4, <2>5 DEF TypeOK
<1>2. LibraryInv
  BY DEF LibraryInv, LoadSteps, CreateSteps, EndSteps, FailSteps
<1>3. GivenInv /\ FdInv
  BY DEF GivenInv, FdInv, CreateSteps
<1>4. HeapInv
  BY DEF HeapInv, LoadSteps, MappedSteps, CreateSteps, EndSteps, FailSteps
<1>5. MapInv
  BY DEF MapInv, MappedSteps, CreateSteps, EndSteps
<1>6. DriverInv
  BY DEF DriverInv, EndSteps
<1> QED
  BY <1>1, <1>2, <1>3, <1>4, <1>5, <1>6 DEF IInv

\* Every step of the loader keeps the invariant, whatever fails.
LEMMA StepInv == IInv /\ [Next]_vars => IInv'
<1> SUFFICES ASSUME IInv, [Next]_vars PROVE IInv'
  OBVIOUS
<1>1. CASE ProcessEnds
  BY <1>1, ProcessEndsStep
<1>2. CASE InitEnclaveLoader
  BY <1>2, InitEnclaveLoaderStep
<1>3. CASE InitMap
  BY <1>3, InitMapStep
<1>4. CASE InitCopy
  BY <1>4, InitCopyStep
<1>5. CASE InitGate
  BY <1>5, InitGateStep
<1>6. CASE LoadEnclave
  BY <1>6, LoadEnclaveStep
<1>7. CASE ParseEnclave
  BY <1>7, ParseEnclaveStep
<1>8. CASE FindStack
  BY <1>8, FindStackStep
<1>9. CASE MapEnclave
  BY <1>9, MapEnclaveStep
<1>10. CASE MapSegment
  BY <1>10, MapSegmentStep
<1>11. CASE MapFailUnmap
  BY <1>11, MapFailUnmapStep
<1>12. CASE MapFailFree
  BY <1>12, MapFailFreeStep
<1>13. CASE CreateOpen
  BY <1>13, CreateOpenStep
<1>14. CASE CreateIoctl
  BY <1>14, CreateIoctlStep
<1>15. CASE AddShared
  BY <1>15, AddSharedStep
<1>16. CASE AddSegments
  BY <1>16, AddSegmentsStep
<1>17. CASE Commit
  BY <1>17, CommitStep
<1>18. CASE CreateFailUnmap
  BY <1>18, CreateFailUnmapStep
<1>19. CASE CreateFailFree
  BY <1>19, CreateFailFreeStep
<1>20. CASE CreateFailClose
  BY <1>20, CreateFailCloseStep
<1>21. CASE UnmapFile
  BY <1>21, UnmapFileStep
<1>22. CASE CloseFile
  BY <1>22, CloseFileStep
<1>23. CASE FailFree
  BY <1>23, FailFreeStep
<1>24. CASE FailClose
  BY <1>24, FailCloseStep
<1>25. CASE DeleteEnclave
  BY <1>25, DeleteEnclaveStep
<1>26. CASE DeleteFree
  BY <1>26, DeleteFreeStep
<1>27. CASE EnclaveDriverTransition
  BY <1>27, EnclaveDriverTransitionStep
<1>28. CASE UNCHANGED vars
  <2> USE <1>28 DEF vars, structVars, memVars, driverVars
  <2>1. Pages' = Pages
    BY DEF Pages
  <2>2. TypeOK' /\ LibraryInv' /\ GivenInv'
    BY DEF IInv, TypeOK, LibraryInv, GivenInv
  <2>3. HeapInv' /\ FdInv'
    BY DEF IInv, HeapInv, FdInv
  <2>4. MapInv' /\ DriverInv'
    BY <2>1 DEF IInv, MapInv, DriverInv
  <2> QED
    BY <2>2, <2>3, <2>4 DEF IInv
<1> QED
  BY <1>1, <1>2, <1>3, <1>4, <1>5, <1>6, <1>7, <1>8, <1>9, <1>10, <1>11, <1>12,
     <1>13, <1>14, <1>15, <1>16, <1>17, <1>18, <1>19, <1>20, <1>21, <1>22, <1>23,
     <1>24, <1>25, <1>26, <1>27, <1>28 DEF Next

\* The invariant holds of every behaviour of the loader.
LEMMA Invariance == Spec => []IInv
  BY InitInv, StepInv, PTL DEF Spec

-----------------------------------------------------------------------------
\* Every variable keeps its type: in particular no load, deletion or entry opens
\* more descriptors than a process may have, and none is closed that is not open.
THEOREM TypeCorrect == Spec => []TypeOK
<1>1. IInv => TypeOK
  BY DEF IInv
<1> QED
  BY <1>1, Invariance, PTL

\* After a load_enclave that returned 0 the enclave is whole, for any file and
\* whatever failed in earlier loads, deletions and initialisations.
THEOREM LoadSucceedsWhole == Spec => []LoadedIsWhole
<1>1. IInv => LoadedIsWhole
  BY DEF IInv, LibraryInv, HeapInv, MapInv, DriverInv, LoadedIsWhole, Whole
<1> QED
  BY <1>1, Invariance, PTL

\* No page that the domain of a loaded enclave holds goes back to the kernel,
\* also when delete_enclave stops half-way and is tried again.
THEOREM HeldPagesAreMapped == Spec => []HeldStaysMapped
<1>1. IInv => HeldStaysMapped
  BY DEF IInv, TypeOK, GivenInv, MapInv, DriverInv, HeldStaysMapped
<1> QED
  BY <1>1, Invariance, PTL

\* The error labels of parse_enclave, map_enclave, create_enclave and
\* load_enclave, and delete_enclave, release nothing twice.
THEOREM ReleasedOnce == Spec => []NoDoubleFree
<1>1. IInv => NoDoubleFree
  BY DEF IInv, HeapInv, NoDoubleFree
<1> QED
  BY <1>1, Invariance, PTL

\* A delete_enclave that returns 0 has taken every page back from the domain and
\* unmapped every segment.
THEOREM DeleteIsComplete == Spec => DeleteReclaims
<1> DEFINE Reclaims == given = "loaded" /\ given' = "deleted" =>
                         /\ held'[handle] = {} /\ handle \notin DOMAIN enclaves'
                         /\ Pages \cap mapped' = {}
<1>1. ASSUME IInv, [Next]_vars, given = "loaded", given' = "deleted"
      PROVE  DeleteFree
  BY <1>1 DEF Next, vars, ProcessEnds, InitEnclaveLoader, InitMap, InitCopy, InitGate,
     LoadEnclave, ParseEnclave, FindStack, MapEnclave, MapSegment, MapFailUnmap,
     MapFailFree, CreateOpen, CreateIoctl, AddShared, AddSegments, Commit,
     CreateFailUnmap, CreateFailFree, CreateFailClose, UnmapFile, CloseFile,
     FailFree, FailClose, DeleteEnclave, EnclaveDriverTransition, UnmapAll, structVars
<1>2. ASSUME IInv, DeleteFree
      PROVE  Reclaims
  BY <1>2 DEF IInv, DriverInv, DeleteFree, Reclaimed, driverVars
<1>3. IInv /\ [Next]_vars => [Reclaims]_vars
  BY <1>1, <1>2
<1> QED
  BY <1>3, Invariance, PTL DEF Spec, DeleteReclaims

=============================================================================
