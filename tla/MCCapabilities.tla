--------------------------- MODULE MCCapabilities ---------------------------
(***************************************************************************)
(* A small managing domain: three pages it owns and, next to them, one it  *)
(* does not.                                                               *)
(***************************************************************************)
EXTENDS Capabilities, TLC

CONSTANTS h1, h2, h3, h4, r1, r2, r3, d1, d2, c1, c2

MCBoot ==
  <<[start |-> 0, end |-> 3, owned |-> TRUE, shared |-> FALSE,
     access |-> {"read", "write", "exec"}],
    [start |-> 3, end |-> 4, owned |-> FALSE, shared |-> FALSE,
     access |-> {"read", "write"}]>>

\* Every range of the four pages, and one whose ends are swapped.
MCRanges == {<<s, e>> \in Addr \X Addr : s < e} \cup {<<2, 1>>}

\* Two pages, for two callers at once.
MCBootTwo == <<[MCBoot[1] EXCEPT !.end = 2]>>

MCRangesTwo == {<<0, 1>>, <<1, 2>>, <<0, 2>>}

MCHandleTwo == {h1, h2, h3}

MCHandle == {h1, h2, h3, h4}
MCRevHandle == {r1, r2, r3}

\* Handles, domains and callers are only compared for equality.
Symmetry == Permutations(MCHandle) \cup Permutations(MCRevHandle)
            \cup Permutations(Domain) \cup Permutations(Caller)

SymmetryTwo == Permutations(MCHandleTwo) \cup Permutations({r1, r2}) \cup Permutations(Caller)
=============================================================================
