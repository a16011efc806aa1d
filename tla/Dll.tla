-------------------------------- MODULE Dll --------------------------------
(***************************************************************************)
(* The doubly linked lists of programs/libs/dll/include/dll.h, pointer by  *)
(* pointer.  Capabilities, regions, pages and enclaves are kept in them,   *)
(* and the other modules treat such a list as a sequence; here the         *)
(* sequence is the history variable seq, changed by one operation on       *)
(* sequences per macro, and Linked says that the pointers spell it out.    *)
(*                                                                         *)
(* Elements come from kmalloc with arbitrary links, are prepared by        *)
(* dll_init_elem, and are in at most one list at a time, as everywhere in  *)
(* the repository.                                                         *)
(***************************************************************************)
EXTENDS Integers, Sequences, Lists

CONSTANTS
  Elem,    \* addresses of elements
  List,    \* the lists
  Null     \* the null pointer

ASSUME NullAssumption == Null \notin Elem

VARIABLES
  head, tail,    \* per list
  next, prev,    \* per element
  ready,         \* the elements that may be added: initialised, in no list
  seq,           \* history: per list, its elements in order
  each,          \* the list that a dll_foreach is going through; or Null
  curr,          \* its cursor
  visited        \* history: the elements it has visited, in order

links == <<head, tail, next, prev>>
loop == <<each, curr, visited>>
vars == <<links, ready, seq, loop>>

Ptr == Elem \cup {Null}

TypeOK ==
  /\ head \in [List -> Ptr] /\ tail \in [List -> Ptr]
  /\ next \in [Elem -> Ptr] /\ prev \in [Elem -> Ptr]
  /\ ready \subseteq Elem
  /\ seq \in [List -> Seq(Elem)]
  /\ each \in List \cup {Null} /\ curr \in Ptr /\ visited \in Seq(Elem)

\* dll_init_list, and memory as it comes.
Init ==
  /\ head = [l \in List |-> Null] /\ tail = [l \in List |-> Null]
  /\ next \in [Elem -> Ptr] /\ prev \in [Elem -> Ptr]
  /\ ready = {}
  /\ seq = [l \in List |-> <<>>]
  /\ each = Null /\ curr = Null /\ visited = <<>>

In(e, l) == \E i \in DOMAIN seq[l] : seq[l][i] = e
InNone(e) == \A l \in List : ~In(e, l)

\* With After and Without, what the macros do to the sequences.
First(s, e) == <<e>> \o s

\* A list is not changed while a dll_foreach goes through it.  Within one call the
\* users of the macros keep to that; between calls on two processors nothing
\* does, as the README says.
Quiet(l) == each # l

-----------------------------------------------------------------------------
\* An element is freed and its memory allocated again.
kmalloc(e) ==
  /\ InNone(e)
  /\ \E n, p \in Ptr :
       /\ next' = [next EXCEPT ![e] = n]
       /\ prev' = [prev EXCEPT ![e] = p]
  /\ ready' = ready \ {e}
  /\ UNCHANGED <<head, tail, seq, loop>>

dll_init_elem(e) ==
  /\ InNone(e)
  /\ prev' = [prev EXCEPT ![e] = Null]
  /\ next' = [next EXCEPT ![e] = Null]
  /\ ready' = ready \cup {e}
  /\ UNCHANGED <<head, tail, seq, loop>>

dll_add(l, e) ==
  /\ e \in ready /\ Quiet(l)
  /\ head' = IF head[l] = Null THEN [head EXCEPT ![l] = e] ELSE head
  /\ tail' = [tail EXCEPT ![l] = e]
  /\ next' = IF head[l] = Null THEN next ELSE [next EXCEPT ![tail[l]] = e]
  /\ prev' = IF head[l] = Null THEN prev ELSE [prev EXCEPT ![e] = tail[l]]
  /\ ready' = ready \ {e}
  /\ seq' = [seq EXCEPT ![l] = Append(@, e)]
  /\ UNCHANGED loop

\* A slip: the tail stays where it is.
dll_add_after_tail(l, e, i) ==
  LET previous == seq[l][i] IN
  /\ e \in ready /\ Quiet(l)
  /\ next' = [x \in Elem |-> IF x = e THEN next[previous]
                             ELSE IF x = previous THEN e ELSE next[x]]
  /\ prev' = [x \in Elem |-> IF x = e THEN previous
                             ELSE IF x = next[previous] THEN e ELSE prev[x]]
  /\ ready' = ready \ {e}
  /\ seq' = [seq EXCEPT ![l] = After(@, i, e)]
  /\ UNCHANGED <<head, tail, loop>>

\* previous is the element at position i.
dll_add_after(l, e, i) ==
  LET previous == seq[l][i] IN
  /\ e \in ready /\ Quiet(l)
  /\ next' = [x \in Elem |-> IF x = e THEN next[previous]
                             ELSE IF x = previous THEN e ELSE next[x]]
  /\ prev' = [x \in Elem |-> IF x = e THEN previous
                             ELSE IF x = next[previous] THEN e ELSE prev[x]]
  /\ tail' = IF tail[l] = previous THEN [tail EXCEPT ![l] = e] ELSE tail
  /\ ready' = ready \ {e}
  /\ seq' = [seq EXCEPT ![l] = After(@, i, e)]
  /\ UNCHANGED <<head, loop>>

dll_add_first(l, e) ==
  /\ e \in ready /\ Quiet(l)
  /\ next' = [next EXCEPT ![e] = head[l]]
  /\ prev' = [x \in Elem |-> IF x = e THEN Null
                             ELSE IF x = head[l] THEN e ELSE prev[x]]
  /\ head' = [head EXCEPT ![l] = e]
  /\ tail' = IF tail[l] = Null THEN [tail EXCEPT ![l] = e] ELSE tail
  /\ ready' = ready \ {e}
  /\ seq' = [seq EXCEPT ![l] = First(@, e)]
  /\ UNCHANGED loop

\* A slip: the links of the removed element stay.
dll_remove_keeps(l, i) ==
  LET e == seq[l][i] IN
  /\ Quiet(l)
  /\ next' = [x \in Elem |-> IF x = prev[e] THEN next[e] ELSE next[x]]
  /\ prev' = [x \in Elem |-> IF x = next[e] THEN prev[e] ELSE prev[x]]
  /\ head' = IF head[l] = e THEN [head EXCEPT ![l] = next[e]] ELSE head
  /\ tail' = IF tail[l] = e THEN [tail EXCEPT ![l] = prev[e]] ELSE tail
  /\ ready' = ready \cup {e}
  /\ seq' = [seq EXCEPT ![l] = Without(@, i)]
  /\ UNCHANGED loop

\* The element at position i; afterwards it may be added to a list again.
dll_remove(l, i) ==
  LET e == seq[l][i] IN
  /\ Quiet(l)
  /\ next' = [x \in Elem |-> IF x = e THEN Null
                             ELSE IF x = prev[e] THEN next[e] ELSE next[x]]
  /\ prev' = [x \in Elem |-> IF x = e THEN Null
                             ELSE IF x = next[e] THEN prev[e] ELSE prev[x]]
  /\ head' = IF head[l] = e THEN [head EXCEPT ![l] = next[e]] ELSE head
  /\ tail' = IF tail[l] = e THEN [tail EXCEPT ![l] = prev[e]] ELSE tail
  /\ ready' = ready \cup {e}
  /\ seq' = [seq EXCEPT ![l] = Without(@, i)]
  /\ UNCHANGED loop

\* dll_foreach: the loop's start, and one element of it.
ForeachStart(l) ==
  /\ each = Null
  /\ each' = l /\ curr' = head[l] /\ visited' = <<>>
  /\ UNCHANGED <<links, ready, seq>>

\* A slip: the loop stops at the last element.
ForeachStep_last ==
  /\ each # Null /\ curr # Null
  /\ IF next[curr] = Null
     THEN curr' = Null /\ visited' = visited
     ELSE curr' = next[curr] /\ visited' = Append(visited, curr)
  /\ UNCHANGED <<links, ready, seq, each>>

ForeachStep ==
  /\ each # Null /\ curr # Null
  /\ visited' = Append(visited, curr)
  /\ curr' = next[curr]
  /\ UNCHANGED <<links, ready, seq, each>>

ForeachEnd ==
  /\ each # Null /\ curr = Null
  /\ each' = Null
  /\ UNCHANGED <<links, ready, seq, curr, visited>>

Next ==
  \/ \E e \in Elem : kmalloc(e) \/ dll_init_elem(e)
  \/ \E l \in List :
       \/ \E e \in Elem : dll_add(l, e) \/ dll_add_first(l, e)
       \/ \E e \in Elem, i \in DOMAIN seq[l] : dll_add_after(l, e, i)
       \/ \E i \in DOMAIN seq[l] : dll_remove(l, i)
       \/ ForeachStart(l)
  \/ ForeachStep \/ ForeachEnd

Spec == Init /\ [][Next]_vars

-----------------------------------------------------------------------------
\* The pointers of list l spell out seq[l], forwards and backwards.
LinkedList(l) ==
  LET s == seq[l] IN
  /\ head[l] = IF s = <<>> THEN Null ELSE s[1]
  /\ tail[l] = IF s = <<>> THEN Null ELSE s[Len(s)]
  /\ \A i \in 1 .. Len(s) :
       /\ next[s[i]] = IF i = Len(s) THEN Null ELSE s[i + 1]
       /\ prev[s[i]] = IF i = 1 THEN Null ELSE s[i - 1]

\* Whatever sequence of macros is applied to elements that go in and out of
\* lists, each list is the sequence its users take it for: a macro never leaves
\* a dangling link, a cycle or a lost element behind.
Linked == \A l \in List : LinkedList(l)

\* An element is in one place of one list at most, and a removed or initialised
\* one has no links left that a later dll_add would take over.
Separate ==
  /\ \A l \in List : \A i, j \in 1 .. Len(seq[l]) : seq[l][i] = seq[l][j] => i = j
  /\ \A l, m \in List : l # m =>
       \A i \in 1 .. Len(seq[l]), j \in 1 .. Len(seq[m]) : seq[l][i] # seq[m][j]
  /\ \A e \in ready : next[e] = Null /\ prev[e] = Null /\ InNone(e)

\* dll_foreach visits each element of the list once, in order, and ends there.
ForeachVisitsAll ==
  each # Null =>
    /\ visited = SubSeq(seq[each], 1, Len(visited))
    /\ curr = Null => visited = seq[each]
    /\ curr # Null => curr = seq[each][Len(visited) + 1]
=============================================================================
