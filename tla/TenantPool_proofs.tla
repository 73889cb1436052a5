------------------------- MODULE TenantPool_proofs -------------------------
(***************************************************************************)
(* Tenant isolation of the connection pool, for any number of connections,   *)
(* requests and tenants.                                                     *)
(***************************************************************************)
EXTENDS TenantPool, TLAPS

\* The inductive invariant.
Inv == TypeOK /\ HolderInv /\ CleanInv /\ TenantIsolation

\* Initially every connection is closed and has no tenant.
LEMMA InitInv == Init => Inv
BY TenantsAssumption, NoneAssumption
   DEF Init, Inv, TypeOK, HolderInv, Held, CleanInv, TenantIsolation, Contexts, setTenantExists

\* Every step of the hooks, of a request and of the migration keeps isolation.
LEMMA StepInv == Inv /\ [Next]_vars => Inv'
<1> SUFFICES ASSUME Inv, [Next]_vars PROVE Inv'
    OBVIOUS
<1> USE TenantsAssumption, NoneAssumption
    DEF Inv, TypeOK, HolderInv, Held, CleanInv, TenantIsolation, Contexts, setTenantExists
<1>1. CASE RunMigrations
    BY <1>1 DEF RunMigrations, conns
<1>2. ASSUME NEW p \in Procs, NEW t \in Contexts, Request(p, t) PROVE Inv'
    BY <1>2 DEF Request, conns
<1>3. ASSUME NEW p \in Procs, NEW c \in Conns, Acquire(p, c) PROVE Inv'
    BY <1>3 DEF Acquire, SetConn
<1>4. ASSUME NEW p \in Procs, NEW c \in Conns, BeforeAcquire(p, c) PROVE Inv'
    <2>0. /\ state[c] = "acquired" /\ holder[c] = p /\ tenant[c] = NoTenant
          /\ UNCHANGED <<setTenant, ctx>>
        BY <1>4 DEF BeforeAcquire
    <2>1. CASE ctx[p] \notin Tenants /\ Use(p, c, NoTenant)
        BY <2>0, <2>1 DEF Use, SetConn
    <2>2. CASE ctx[p] \in Tenants /\ setTenantExists /\ Use(p, c, ctx[p])
        BY <2>0, <2>2 DEF Use, SetConn
    <2>3. CASE ctx[p] \in Tenants /\ ~setTenantExists /\ Use(p, c, NoTenant)
        BY <2>0, <2>3 DEF Use, SetConn
    <2>4. CASE Discard(p, c)
        BY <2>0, <2>4 DEF Discard, SetConn
    <2> QED BY <1>4, <2>0, <2>1, <2>2, <2>3, <2>4 DEF BeforeAcquire
<1>5. ASSUME NEW p \in Procs, NEW c \in Conns, Release(p, c) PROVE Inv'
    BY <1>5 DEF Release, SetConn
<1>6. ASSUME NEW c \in Conns, AfterRelease(c) PROVE Inv'
    BY <1>6 DEF AfterRelease, SetConn
<1>7. CASE UNCHANGED vars
    BY <1>7 DEF vars
<1> QED BY <1>1, <1>2, <1>3, <1>4, <1>5, <1>6, <1>7 DEF Next

\* No request sees the tenant of the request that had its connection before,
\* however hooks fail and whenever set_tenant is created.
THEOREM Isolation == Spec => []TenantIsolation
<1>1. Inv => TenantIsolation
    BY DEF Inv
<1> QED BY InitInv, StepInv, <1>1, PTL DEF Spec

\* The hooks keep the variables in their shape: a request is never left between two
\* of its states, whichever hook fails.
THEOREM TypeCorrectness == Spec => []TypeOK
<1>1. Inv => TypeOK
    BY DEF Inv
<1> QED BY InitInv, StepInv, <1>1, PTL DEF Spec
=============================================================================
