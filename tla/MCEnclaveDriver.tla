-------------------------- MODULE MCEnclaveDriver --------------------------
\* Small instances of the enclave driver: see the configurations.
EXTENDS EnclaveDriver, TLC

\* Every page of user space, in either type.
AnyType == [page: UserPage, conf: BOOLEAN]

\* The bound of the passing run: the enclaves have one region in all.
OneRegion ==
  \A o, p \in Live : \A x \in encl[o].regions, y \in encl[p].regions : o = p /\ x = y

Symmetry == Permutations(Task) \cup Permutations(Obj) \cup Permutations(Dom)
            \cup Permutations(Pid)
=============================================================================
