----------------------------- MODULE MCRegions -----------------------------
EXTENDS Regions

Rw(s, e, src) == [start |-> s, end |-> e, src |-> src, flags |-> {"read", "write"},
                  tpe |-> "Confidential"]
Ro(s, e, src) == [Rw(s, e, src) EXCEPT !.flags = {"read"}]
Wx(s, e, src) == [Rw(s, e, src) EXCEPT !.flags = {"write", "exec"}]

\* Segments as a linker lays them out: neighbours differ in flags, except one
\* segment that is asked for in two halves; overlapping and malformed requests.
Segments == {Rw(0, 1, 10), Rw(1, 2, 11), Ro(2, 3, 12), Ro(3, 4, 13), Rw(4, 5, 14), Rw(6, 7, 16),
             Rw(0, 2, 10), Ro(2, 4, 12), Rw(1, 3, 11), Ro(3, 5, 13),
             Wx(5, 6, 15), Rw(5, 5, 15)}

\* Any order, any neighbours, contiguous in memory or not.
AnyRequests == {Rw(s, s + 1, s + 10) : s \in 0 .. 3} \cup {Rw(s, s + 1, s + 20) : s \in 1 .. 2}
               \cup {Rw(1, 3, 21), Ro(2, 3, 12)}

\* The same, always at the caller's own addresses.
Identity == {Rw(s, s + 1, s) : s \in 0 .. 3} \cup {Rw(1, 3, 1)}

\* The first set is one that add_region can put in order.  Of the others one misses
\* the first condition and one the second, and on both the list comes out of order.
ASSUME SegmentsAssumption == Contiguous(Segments) /\ Unchained(Segments)
ASSUME OthersAssumption ==
  ~Contiguous(AnyRequests) /\ Contiguous(Identity) /\ ~Unchained(Identity)
=============================================================================
