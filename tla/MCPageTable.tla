---------------------------- MODULE MCPageTable ----------------------------
\* Three levels of two entries: eight pages of virtual memory.
EXTENDS PageTable

Rw == {"read", "write"}
Rxu == {"read", "exec", "user"}

Reg(s, n, f) == [start |-> s, end |-> s + n, flags |-> f]

\* No region; one of up to MaxPages pages anywhere; and two, in either order of
\* the list, that may lie in one leaf table or cross any border of tables.
MaxPages == Cardinality(Frame)

One == {Reg(s, n, Rw) : s \in VA, n \in 1 .. MaxPages}
Other == {Reg(s, n, Rxu) : s \in VA, n \in 1 .. 2}

Fits(x) == x.end <= Size[Levels]
Apart(x, y) == x.end <= y.start \/ y.end <= x.start

MCLayouts ==
  {<<>>} \cup {<<x>> : x \in {y \in One : Fits(y)}}
  \cup {<<x, y>> : x \in {a \in One : Fits(a) /\ Pages(a) <= 2}, y \in {b \in Other : Fits(b)}}

Legal == {l \in MCLayouts : Len(l) = 2 => Apart(l[1], l[2])}
=============================================================================
