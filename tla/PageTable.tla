----------------------------- MODULE PageTable -----------------------------
(***************************************************************************)
(* The page table of an enclave: walk_and_collect_region asks the kernel   *)
(* for the pages behind each region (internal/process.c), and              *)
(* build_enclave_cr3 maps them in the same order into a new table          *)
(* (internal/mapper.c) with the generic walker of programs/libs/pts.       *)
(*                                                                         *)
(* pt_walk_page_range is recursive: stack holds its activations, and one   *)
(* action is one iteration of the loop.  Virtual addresses are counted in  *)
(* pages, so that an entry of level l covers Entries^l of them and the     *)
(* leaves are at level 0.  Every collected range is one page (pte_entry),  *)
(* so the huge mappings of default_mapper never arise.                     *)
(***************************************************************************)
EXTENDS Integers, Sequences, FiniteSets

CONSTANTS
  Levels,    \* nb_levels of the profile
  Entries,   \* nb_entries
  Frame,     \* the physical pages of the process
  Layouts    \* the lists of regions an enclave may have

ASSUME ShapeAssumption == Levels \in Nat \ {0} /\ Entries \in Nat \ {0, 1}

\* Page-table pages are told apart from the frames of the process: positions in
\* tables are numbers, frames are not.
ASSUME FrameAssumption == Frame \cap Nat = {}

VARIABLES
  regions,    \* encl->regions: a sequence of [start, end, flags]
  pmap,       \* history: per region, what the process maps at src, src + 1, ...
  pas,        \* per region: the collected pages, in order
  all_pages,  \* the frames in encl->all_pages
  tables,     \* the page-table pages, in the order of their allocation
  cr3,        \* the root: a position in tables, or 0 for NULL
  pc,
  r,          \* the region at hand
  pa,         \* info->pa_region: a position in pas[r]; Len(pas[r]) + 1 is NULL
  stack       \* the activations of pt_walk_page_range, innermost first

vars == <<regions, pmap, pas, all_pages, tables, cr3, pc, r, pa, stack>>

Flags == SUBSET {"read", "write", "exec", "user"}
Bits == {"P", "RW", "NX", "USR"}

\* Size[l]: the pages that an entry of level l covers.
Size[l \in Nat] == IF l = 0 THEN 1 ELSE Entries * Size[l - 1]

VA == 0 .. Size[Levels] - 1

\* Regions lie within the addresses of the table and are disjoint.  region_check
\* has no upper bound, and add_region keeps regions apart on some requests only
\* (module Regions): both are assumptions here.
Region == [start: VA, end: VA \cup {Size[Levels]}, flags: Flags \ {{}}]

ASSUME LayoutsAssumption ==
  \A l \in Layouts :
    /\ l \in Seq(Region)
    /\ \A i \in 1 .. Len(l) : l[i].start < l[i].end
    /\ \A i, j \in 1 .. Len(l) :
         i # j => l[i].end <= l[j].start \/ l[j].end <= l[i].start

\* A leaf holds a frame, any other entry a table; 0 is physical page 0.
Entry == [to: Frame \cup Nat, bits: SUBSET Bits]
Empty == [i \in 0 .. Entries - 1 |-> [to |-> 0, bits |-> {}]]

Final == {"done", "failed", "oops", "wild"}

TypeOK ==
  /\ regions \in Layouts
  /\ pmap \in [DOMAIN regions -> Seq(Frame \cup {"huge"})]
  /\ pas \in [DOMAIN regions -> Seq(Frame)]
  /\ all_pages \subseteq Frame
  /\ tables \in Seq([0 .. Entries - 1 -> Entry])
  /\ cr3 \in 0 .. Len(tables)
  /\ pc \in {"collect", "root", "region", "walk", "merge"} \cup Final
  /\ r \in 1 .. Len(regions) + 1
  /\ pa \in Nat \ {0}
  /\ stack \in Seq([table: DOMAIN tables, level: 0 .. Levels - 1, start: VA,
                    i: 0 .. Entries])

Init ==
  /\ regions \in Layouts
  /\ pmap = [k \in DOMAIN regions |-> <<>>]
  /\ pas = [k \in DOMAIN regions |-> <<>>]
  /\ all_pages = {} /\ tables = <<>> /\ cr3 = 0
  /\ pc = "collect" /\ r = 1 /\ pa = 1 /\ stack = <<>>

Pages(x) == x.end - x.start
InSeq(x, s) == \E k \in DOMAIN s : s[k] = x

-----------------------------------------------------------------------------
\* walk_and_collect_region: the kernel calls back once per page of the region.
\* A frame is appended to pas, unless it is there already; a hole, a page
\* without the rights or a failed kmalloc ends the walk; a huge page is passed
\* over in silence.
Collecting == pc = "collect" /\ r <= Len(regions) /\ Len(pmap[r]) < Pages(regions[r])

pte_entry(f) ==
  /\ Collecting
  /\ pmap' = [pmap EXCEPT ![r] = Append(@, f)]
  /\ IF InSeq(f, pas[r]) THEN pc' = "failed" /\ pas' = pas
     ELSE pc' = pc /\ pas' = [pas EXCEPT ![r] = Append(@, f)]
  /\ UNCHANGED <<regions, all_pages, tables, cr3, r, pa, stack>>

hugetlb_entry ==
  /\ Collecting
  /\ pmap' = [pmap EXCEPT ![r] = Append(@, "huge")]
  /\ UNCHANGED <<regions, pas, all_pages, tables, cr3, pc, r, pa, stack>>

pte_hole ==
  /\ Collecting
  /\ pc' = "failed"
  /\ UNCHANGED <<regions, pmap, pas, all_pages, tables, cr3, r, pa, stack>>

Collected ==
  /\ pc = "collect" /\ ~Collecting
  /\ IF r <= Len(regions) THEN r' = r + 1 /\ pc' = pc
                          ELSE r' = 1 /\ pc' = "root"
  /\ UNCHANGED <<regions, pmap, pas, all_pages, tables, cr3, pa, stack>>

-----------------------------------------------------------------------------
\* allocate: a zeroed page that is recorded in pts and in all_pages, or NULL.
allocate(ts, new) == \/ new = Len(ts) + 1 /\ tables' = Append(ts, Empty)
                     \/ new = 0 /\ tables' = ts

\* build_enclave_cr3 does not look whether it got a root.
AllocateRoot ==
  /\ pc = "root"
  /\ \E new \in {0, 1} : allocate(tables, new) /\ cr3' = new
  /\ pc' = "region"
  /\ UNCHANGED <<regions, pmap, pas, all_pages, r, pa, stack>>

get_index(addr, level) == (addr \div Size[level]) % Entries

Activation(table, level, start) ==
  [table |-> table, level |-> level, start |-> start, i |-> get_index(start, level)]

\* map_region; without a root the walk takes physical page 0 for it.
map_region ==
  /\ pc = "region" /\ r <= Len(regions)
  /\ pa' = 1
  /\ IF cr3 = 0 THEN pc' = "wild" /\ stack' = stack
     ELSE /\ pc' = "walk"
          /\ stack' = <<Activation(cr3, Levels - 1, regions[r].start)>>
  /\ UNCHANGED <<regions, pmap, pas, all_pages, tables, cr3, r>>

Done ==
  /\ pc = "region" /\ r > Len(regions)
  /\ pc' = "done"
  /\ UNCHANGED <<regions, pmap, pas, all_pages, tables, cr3, r, pa, stack>>

-----------------------------------------------------------------------------
act == stack[1]

\* A slip: the lower bits are kept in every iteration.
curr_va_keeps_low(a) == a.start + (a.i - get_index(a.start, a.level)) * Size[a.level]

\* The address of the iteration: start in the first one, and then the first
\* address of each following entry.
curr_va(a) ==
  LET va == a.start + (a.i - get_index(a.start, a.level)) * Size[a.level]
  IN IF a.i = get_index(a.start, a.level) THEN va
     ELSE (va \div Size[a.level]) * Size[a.level]

InRange(a) == a.i < Entries /\ curr_va(a) < regions[r].end

\* A slip: continue in place of the next iteration.
Advanced_not(s) == s

\* A slip: the index is moved in the body of the loop too.
Advanced_twice(s) == [s EXCEPT ![1].i = @ + 2]

\* The next iteration of the innermost activation.
Advanced(s) == [s EXCEPT ![1].i = @ + 1]

entry == tables[act.table][act.i]

\* A slip: every entry is mapped, the present ones again.
x86_64_how_map_always == "MAP"

x86_64_how_map == IF "P" \in entry.bits THEN "WALK" ELSE "MAP"

translate_flags(flags) ==
  {b \in Bits : \/ b = "P" /\ flags # {}
                \/ b = "NX" /\ "exec" \notin flags
                \/ b = "RW" /\ "write" \in flags
                \/ b = "USR" /\ "user" \in flags}

intermed_flags == {"P", "RW", "USR"}

\* The recursive call for the table that the entry points to.
Descend(to) ==
  IF to = 0 THEN pc' = "wild" /\ stack' = stack
  ELSE /\ pc' = pc
       /\ stack' = <<Activation(to, act.level - 1, curr_va(act))>> \o stack

Iterating(how) == pc = "walk" /\ InRange(act) /\ x86_64_how_map = how

\* The entry is present: a leaf is left alone, a table is walked.
WalkEntry ==
  /\ Iterating("WALK")
  /\ IF act.level = 0 THEN pc' = pc /\ stack' = Advanced(stack)
                      ELSE Descend(entry.to)
  /\ UNCHANGED <<regions, pmap, pas, all_pages, tables, cr3, r, pa>>

\* default_mapper: nothing is left to map.  The walk returns -1; its caller, if
\* it is the walk of a higher level, fails its TEST(0).
MapError ==
  /\ Iterating("MAP")
  /\ pa > Len(pas[r])
  /\ pc' = IF Len(stack) = 1 THEN "failed" ELSE "oops"
  /\ UNCHANGED <<regions, pmap, pas, all_pages, tables, cr3, r, pa, stack>>

\* default_mapper at a leaf.
MapPage ==
  /\ Iterating("MAP") /\ act.level = 0
  /\ pa <= Len(pas[r])
  /\ tables' = [tables EXCEPT ![act.table][act.i] =
                  [to |-> pas[r][pa], bits |-> translate_flags(regions[r].flags)]]
  /\ pa' = pa + 1
  /\ stack' = Advanced(stack)
  /\ UNCHANGED <<regions, pmap, pas, all_pages, cr3, pc, r>>

\* default_mapper above the leaves; NULL is written into the entry like a page.
MapTable ==
  /\ Iterating("MAP") /\ act.level > 0
  /\ pa <= Len(pas[r])
  /\ \E new \in {0, Len(tables) + 1} :
       /\ allocate([tables EXCEPT ![act.table][act.i] =
                      [to |-> new, bits |-> intermed_flags]], new)
       /\ Descend(new)
  /\ UNCHANGED <<regions, pmap, pas, all_pages, cr3, r, pa>>

\* The loop of an activation ends; its caller goes on with its next entry.
Leave ==
  /\ pc = "walk" /\ ~InRange(act)
  /\ IF Len(stack) = 1 THEN pc' = "merge" /\ stack' = <<>>
                       ELSE pc' = pc /\ stack' = Advanced(Tail(stack))
  /\ UNCHANGED <<regions, pmap, pas, all_pages, tables, cr3, r, pa>>

\* A slip: a region's pages are not added.
MergePages_none(s, k) == s

\* The first k collected pages of the region, one add_merge_global each.
MergePages(s, k) == s \cup {pas[r][j] : j \in 1 .. k}

\* A page that is in all_pages already is refused, as is a failed kmalloc.
Merge ==
  /\ pc = "merge"
  /\ \E k \in 0 .. Len(pas[r]) :
       /\ \A j \in 1 .. k : pas[r][j] \notin all_pages
       /\ all_pages' = MergePages(all_pages, k)
       /\ IF k = Len(pas[r]) THEN pc' = "region" /\ r' = r + 1
                             ELSE pc' = "failed" /\ r' = r
  /\ UNCHANGED <<regions, pmap, pas, tables, cr3, pa, stack>>

Next ==
  \/ \E f \in Frame : pte_entry(f)
  \/ hugetlb_entry \/ pte_hole \/ Collected
  \/ AllocateRoot \/ map_region \/ Done
  \/ WalkEntry \/ MapError \/ MapPage \/ MapTable \/ Leave \/ Merge

\* Kernel code that does not wait: it runs to its end.
Spec == Init /\ [][Next]_vars /\ WF_vars(Next)

-----------------------------------------------------------------------------
\* What table t of level l has for an address: a table or a frame, or 0 for nothing
\* (a walk that wrote page 0 into a table is wild and returns no table).
Below(t, l, va) ==
  LET e == tables[t][get_index(va, l)]
  IN IF t # 0 /\ "P" \in e.bits THEN e.to ELSE 0

\* The MMU: the tables that it reads for an address, from the root downwards.
Reached(va) ==
  LET at[d \in 0 .. Levels - 1] == IF d = 0 THEN cr3 ELSE Below(at[d - 1], Levels - d, va)
  IN at

\* What it finds: the entry of the leaf, with the rights that every level gives.
Mapping(va) ==
  LET found(d) == tables[Reached(va)[d]][get_index(va, Levels - 1 - d)]
  IN IF Reached(va)[Levels - 1] = 0 THEN [to |-> 0, bits |-> {}]
     ELSE [to |-> found(Levels - 1).to,
           bits |-> {b \in Bits : IF b = "NX" THEN \E d \in 0 .. Levels - 1 : b \in found(d).bits
                                  ELSE \A d \in 0 .. Levels - 1 : b \in found(d).bits}]

\* When build_enclave_cr3 returns 0, the enclave's addresses mean what was asked
\* for: each page of each region is the page that the process has at the same
\* offset of src, with exactly the region's rights, and nothing else is mapped;
\* "We walk the physical page exactly in the same order we collected them"
\* (mapper.c:168).
MapsWhatWasCollected ==
  pc = "done" /\ cr3 # 0 =>
    \A va \in VA :
      LET m == Mapping(va)
          in == {k \in DOMAIN regions : regions[k].start <= va /\ va < regions[k].end}
      IN /\ in = {} => "P" \notin m.bits
         /\ \A k \in in :
              /\ m.to = pmap[k][va - regions[k].start + 1]
              /\ "P" \in m.bits
              /\ "RW" \in m.bits <=> "write" \in regions[k].flags
              /\ "NX" \notin m.bits <=> "exec" \in regions[k].flags
              /\ "USR" \in m.bits <=> "user" \in regions[k].flags

\* The page-table pages form one tree at every step of the walk: each of them
\* but the root is in one entry of another, so that the pages in pts are the
\* ones the MMU reads and none is lost.
TablesFormATree ==
  LET Points(n, i, m) == tables[n][i].to = m /\ "P" \in tables[n][i].bits
      refs(m) == {s \in (1 .. Len(tables)) \X (0 .. Entries - 1) : Points(s[1], s[2], m)}
  IN \A m \in 1 .. Len(tables) :
       IF m = cr3 THEN refs(m) = {} ELSE Cardinality(refs(m)) = 1

\* Every frame the finished table can reach is in all_pages, which is what
\* commit_enclave grants: the enclave has no address it may not touch.
MappedIsGranted ==
  pc = "done" /\ cr3 # 0 =>
    \A va \in VA : "P" \in Mapping(va).bits => Mapping(va).to \in all_pages

\* The recursion and its loops end.
Terminates == <>(pc \in Final)
=============================================================================
