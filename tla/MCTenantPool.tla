---------------------------- MODULE MCTenantPool ----------------------------
(* Instances of TenantPool for TLC.                                          *)
EXTENDS TenantPool, TLC

\* Connections, requests and tenants are interchangeable.
Symmetry == Permutations(Conns) \cup Permutations(Procs) \cup Permutations(Tenants)
=============================================================================
