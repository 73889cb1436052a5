----------------------------- MODULE TenantPool -----------------------------
(***************************************************************************)
(* The tenant of a pooled connection: the hooks that setupMultitenancy of    *)
(* db/db.go installs in pgxpool.  BeforeAcquire stores the tenant of the      *)
(* request's context in the connection (app.current_tenant), AfterRelease     *)
(* clears it, in a goroutine of its own, before the connection is idle again. *)
(* Both tolerate that the SQL function set_tenant does not exist yet: the     *)
(* core migration creates it.  A hook that returns false makes the pool       *)
(* destroy the connection and the request take another one.                  *)
(***************************************************************************)
EXTENDS Integers, FiniteSets

CONSTANTS
    Conns,          \* connections the pool may have open
    Procs,          \* requests; one that uses two connections at once counts twice
    Tenants,
    NoTenant,       \* no tenant, or the empty one
    SystemTenant,   \* tenantctx.SystemTenant: AdminContext
    NoProc,
    Faults          \* "set", "clear": the calls of set_tenant that may fail

ASSUME TenantsAssumption == NoTenant \notin Tenants /\ SystemTenant \notin Tenants
                            /\ NoTenant # SystemTenant
ASSUME NoneAssumption == NoProc \notin Procs
ASSUME FaultsAssumption == Faults \subseteq {"set", "clear"}

VARIABLES
    setTenant,  \* the function: pending, created while running, or there from the start
    state,      \* of each connection: closed, idle, acquired, used, released
    tenant,     \* app.current_tenant of each connection
    holder,     \* the request that has the connection
    pc,         \* of each request: idle, waiting, checking, using
    ctx         \* the tenant in its context

vars == <<setTenant, state, tenant, holder, pc, ctx>>
conns == <<state, tenant, holder>>

Contexts == Tenants \cup {NoTenant, SystemTenant}
setTenantExists == setTenant # "pending"

Init ==
    /\ setTenant \in {"pending", "present"}
    /\ state = [c \in Conns |-> "closed"]
    /\ tenant = [c \in Conns |-> NoTenant]
    /\ holder = [c \in Conns |-> NoProc]
    /\ pc = [p \in Procs |-> "idle"]
    /\ ctx = [p \in Procs |-> NoTenant]

\* A connection of the pool goes to state s; a closed one forgets its session.
SetConn(c, s, t, p) ==
    /\ state' = [state EXCEPT ![c] = s]
    /\ tenant' = [tenant EXCEPT ![c] = IF s = "closed" THEN NoTenant ELSE t]
    /\ holder' = [holder EXCEPT ![c] = p]

-----------------------------------------------------------------------------
\* RunMigrations creates the function, while requests may already be served.
RunMigrations ==
    /\ ~setTenantExists
    /\ setTenant' = "created"
    /\ UNCHANGED <<conns, pc, ctx>>

\* A request asks for a connection.
Request(p, t) ==
    /\ pc[p] = "idle"
    /\ pc' = [pc EXCEPT ![p] = "waiting"]
    /\ ctx' = [ctx EXCEPT ![p] = t]
    /\ UNCHANGED <<setTenant, conns>>

\* The pool takes an idle connection or opens one.
Acquire(p, c) ==
    /\ pc[p] = "waiting"
    /\ state[c] \in {"idle", "closed"}
    /\ SetConn(c, "acquired", tenant[c], p)
    /\ pc' = [pc EXCEPT ![p] = "checking"]
    /\ UNCHANGED <<setTenant, ctx>>

Use(p, c, t) ==
    /\ SetConn(c, "used", t, p)
    /\ pc' = [pc EXCEPT ![p] = "using"]
Discard(p, c) ==
    /\ SetConn(c, "closed", NoTenant, NoProc)
    /\ pc' = [pc EXCEPT ![p] = "waiting"]

\* Mutant: the administrator's context is not an exception.
BeforeAcquireSystem(p, c) ==
    /\ state[c] = "acquired" /\ holder[c] = p
    /\ Use(p, c, IF setTenantExists THEN ctx[p] ELSE tenant[c])
    /\ UNCHANGED <<setTenant, ctx>>
BeforeAcquire(p, c) ==
    /\ state[c] = "acquired" /\ holder[c] = p
    /\ \/ ctx[p] \in {NoTenant, SystemTenant} /\ Use(p, c, tenant[c])
       \/ ctx[p] \in Tenants /\ setTenantExists /\ Use(p, c, ctx[p])
       \/ ctx[p] \in Tenants /\ ~setTenantExists /\ Use(p, c, tenant[c])
       \/ ctx[p] \in Tenants /\ "set" \in Faults /\ Discard(p, c)
    /\ UNCHANGED <<setTenant, ctx>>

\* The request gives the connection back; the pool closes one that is broken,
\* busy or in a transaction without calling AfterRelease.
Release(p, c) ==
    /\ state[c] = "used" /\ holder[c] = p
    /\ \/ SetConn(c, "released", tenant[c], NoProc)
       \/ SetConn(c, "closed", NoTenant, NoProc)
    /\ pc' = [pc EXCEPT ![p] = "idle"]
    /\ ctx' = [ctx EXCEPT ![p] = NoTenant]
    /\ UNCHANGED setTenant

\* Mutant: a connection that could not be cleared stays in the pool.
AfterReleaseTolerant(c) ==
    /\ state[c] = "released"
    /\ \/ setTenantExists /\ SetConn(c, "idle", NoTenant, NoProc)
       \/ "clear" \in Faults /\ SetConn(c, "idle", tenant[c], NoProc)
    /\ UNCHANGED <<setTenant, pc, ctx>>
AfterRelease(c) ==
    /\ state[c] = "released"
    /\ \/ setTenantExists /\ SetConn(c, "idle", NoTenant, NoProc)
       \/ ~setTenantExists /\ SetConn(c, "idle", tenant[c], NoProc)
       \/ "clear" \in Faults /\ SetConn(c, "closed", NoTenant, NoProc)
    /\ UNCHANGED <<setTenant, pc, ctx>>

Next == \/ RunMigrations
        \/ \E p \in Procs : \/ \E t \in Contexts : Request(p, t)
                            \/ \E c \in Conns : \/ Acquire(p, c)
                                                \/ BeforeAcquire(p, c)
                                                \/ Release(p, c)
        \/ \E c \in Conns : AfterRelease(c)

Spec == Init /\ [][Next]_vars

-----------------------------------------------------------------------------
(* Properties.                                                             *)

\* Connections and requests keep their shape.
TypeOK ==
    /\ setTenant \in {"pending", "created", "present"}
    /\ state \in [Conns -> {"closed", "idle", "acquired", "used", "released"}]
    /\ tenant \in [Conns -> Tenants \cup {NoTenant}]
    /\ holder \in [Conns -> Procs \cup {NoProc}]
    /\ pc \in [Procs -> {"idle", "waiting", "checking", "using"}]
    /\ ctx \in [Procs -> Contexts]

\* A connection that is held belongs to one request, and that request has no other.
Held(c) == state[c] \in {"acquired", "used"}
HolderInv ==
    /\ \A c \in Conns : Held(c) <=> holder[c] # NoProc
    /\ \A c \in Conns : state[c] = "acquired" => pc[holder[c]] = "checking"
    /\ \A c \in Conns : state[c] = "used" => pc[holder[c]] = "using"
    /\ \A c, d \in Conns : Held(c) /\ Held(d) /\ holder[c] = holder[d] => c = d

\* A connection that nobody uses has no tenant, unless it still waits for
\* AfterRelease; and none has one before set_tenant exists.
CleanInv ==
    /\ \A c \in Conns : state[c] \in {"closed", "idle", "acquired"} => tenant[c] = NoTenant
    /\ ~setTenantExists => \A c \in Conns : tenant[c] = NoTenant

\* What a request sees of the tenant: with a tenant in its context, that one;
\* without, or as administrator, none.  It never sees the tenant of the request
\* that had the connection before.  Only where set_tenant was missing at first
\* may the connection of a tenant's request have no tenant at all.
TenantIsolation ==
    \A c \in Conns : \A p \in Procs :
        state[c] = "used" /\ holder[c] = p =>
            IF ctx[p] \in Tenants
            THEN tenant[c] = ctx[p] \/ (setTenant # "present" /\ tenant[c] = NoTenant)
            ELSE tenant[c] = NoTenant
=============================================================================
