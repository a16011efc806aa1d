----------------------------- MODULE GrantTable -----------------------------
(***************************************************************************)
(* What the capability library promises callers that keep each other out:  *)
(* a table of the memory ranges other domains hold.  A range is given and  *)
(* taken back as a whole: while it is held, no part of it and nothing      *)
(* beyond it is given.  A range given confidentially is held by nobody     *)
(* else.                                                                   *)
(***************************************************************************)
EXTENDS Naturals

CONSTANTS Domain, Addr

VARIABLE grants

Grant == [domain: Domain, start: Addr, end: Addr, conf: BOOLEAN]

Overlap(a, b) == a.start < b.end /\ b.start < a.end

Init == grants = {}

\* transfer_capa returned 0.
Give(g) ==
  /\ g.start < g.end
  /\ g \notin grants
  /\ \A x \in grants : Overlap(x, g) =>
       ~x.conf /\ ~g.conf /\ x.start = g.start /\ x.end = g.end
  /\ grants' = grants \cup {g}

\* revoke_capa obtained the revocation.
TakeBack(g) ==
  /\ g \in grants
  /\ grants' = grants \ {g}

Next == \E g \in Grant : Give(g) \/ TakeBack(g)

Spec == Init /\ [][Next]_grants
=============================================================================
