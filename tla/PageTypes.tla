----------------------------- MODULE PageTypes -----------------------------
(***************************************************************************)
(* What add_merge_global promises: a set of physical pages, each with one  *)
(* type, to which a range is added whole or not at all.                    *)
(***************************************************************************)
EXTENDS Integers

CONSTANTS MaxAddr, Tpe

VARIABLE typed   \* the pairs <<page, type>> of the enclave

Range(s, e) == s .. (e - 1)

Init == typed = {}

\* The range [s, e) is added with type t; no page of it was there.
Add(s, e, t) ==
  /\ \A p \in Range(s, e), u \in Tpe : <<p, u>> \notin typed
  /\ typed' = typed \cup (Range(s, e) \X {t})

Next == \E s, e \in 0 .. MaxAddr, t \in Tpe : s < e /\ Add(s, e, t)

Spec == Init /\ [][Next]_typed
=============================================================================
