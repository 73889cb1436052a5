------------------------ MODULE Provisioning_proofs ------------------------
(* Proofs about Provisioning, for every value of its constants.              *)
EXTENDS Provisioning, TLAPS, FiniteSetTheorems

Tables == {"users", "tenants", "members", "creds", "tokens"}
AreRows(rows) == rows = [f \in Tables |-> rows[f]] /\ RowsOK(rows)
Locs == [at : 0..Cardinality(Procs), tenant : Tenants \cup {NoTenant}]

Shape ==
    /\ AreRows(db)
    /\ tx = [p \in Procs |-> tx[p]] /\ \A p \in Procs : AreRows(tx[p])
    /\ mails \subseteq Procs
    /\ pc \in [Procs -> Steps \cup {"new", "done"}]
    /\ req \in [Procs -> Requests \cup {NoRequest}]
    /\ loc \in [Procs -> Locs]
    /\ resp \in [Procs -> Answers \cup {"none"}]

(* The clock has ticked once at most for every request that is past its start. *)
Unstarted(p) == \/ pc[p] \in {"new", "begin"}
                \/ ~InTx(p) /\ pc[p] \in {"getUser", "firstTenant", "insertTenant"}
Pending == {p \in Procs : Unstarted(p)}
ClockInv == /\ clock \in Nat \ {0}
            /\ clock + Cardinality(Pending) <= Cardinality(Procs) + 1

RegisterSteps == {"begin", "checkUser", "checkCred", "storeCred", "issueToken", "send", "commit"}
HasCred == {"issueToken", "send", "commit"}
MayHaveUser == {"addMembership", "verifyMembership", "storeCred"} \cup HasCred

(* Where a request is and what it was sent agree.                            *)
Control(p) ==
    /\ pc[p] # "new" => req[p] \in Requests
    /\ pc[p] = "new" => req[p] = NoRequest
    /\ pc[p] \in RegisterSteps => InTx(p)
    /\ pc[p] = "sessionMemberships" => ~InTx(p)
    /\ resp[p] = "none" <=> pc[p] # "done"
    /\ pc[p] \in {"insertUser", "addMembership"} => loc[p].tenant \in Tenants
    /\ InTx(p) /\ pc[p] \notin {"new", "begin", "done"} => loc[p].at # 0

(* The uncommitted rows of a request are its own.                            *)
Own(p) ==
    /\ ~InTx(p) \/ pc[p] = "done" => tx[p] = NoRows
    /\ \A u \in tx[p].users : u = req[p].id
    /\ tx[p].users # {} => pc[p] \in MayHaveUser
    /\ \A t \in tx[p].tenants : t.id = p
    /\ \A m \in tx[p].members : m[1] = req[p].id /\ req[p].id \in tx[p].users
    /\ \A m, n \in tx[p].members : m = n
    /\ \A c \in tx[p].creds : c.user = req[p].id /\ c.by = p
    /\ tx[p].creds # {} => pc[p] \in HasCred
    /\ \A t \in tx[p].tokens : t.user = req[p].id /\ t.by = p

(* What a request has found or written so far: rows it may rely on until it  *)
(* commits.                                                                  *)
SeesUser(p) == \E u \in db.users \cup tx[p].users : SameUser(req[p].id, u)
SeesMembership(p) == \E m \in db.members \cup tx[p].members : SameUser(m[1], req[p].id)
Progress(p) ==
    /\ InTx(p) /\ pc[p] \in MayHaveUser \cup {"listMemberships"} => SeesUser(p)
    /\ pc[p] \in HasCred \cup {"storeCred"} => SeesMembership(p)
    /\ RequireEmailVerification /\ pc[p] \in {"send", "commit"}
          => \E t \in tx[p].tokens : t.user = req[p].id
    /\ RequireEmailVerification /\ pc[p] = "commit" => p \in mails
    /\ pc[p] = "addMembership" =>
          IF InTx(p) THEN req[p].id \in tx[p].users /\ tx[p].members = {}
                     ELSE req[p].id \in db.users

ProcInv(p) == Control(p) /\ Own(p) /\ Progress(p)

(* The unique indexes, over committed and uncommitted rows.                  *)
Keys ==
    /\ \A u, v \in db.users : Conflicts(u, v) => u = v
    /\ \A p \in Procs : \A u \in tx[p].users, v \in db.users : ~Conflicts(u, v)
    /\ \A p, q \in Procs : p # q => \A u \in tx[p].users, v \in tx[q].users : ~Conflicts(u, v)

(* Who adds a membership has just created its user.                          *)
AddsFor(p, id) == pc[p] = "addMembership" /\ ~InTx(p) /\ req[p].id = id
MemberInv ==
    /\ \A m \in db.members : m[1] \in db.users
    /\ \A m, n \in db.members : m[1] = n[1] => m = n
    /\ \A p \in Procs : \A m \in db.members : ~AddsFor(p, m[1])
    /\ \A p, q \in Procs : AddsFor(p, req[p].id) /\ AddsFor(q, req[p].id) => p = q

(* Only a request that is being committed has rows in the tables.            *)
OwnerInv ==
    \A p \in Procs :
       pc[p] = "new" \/ (InTx(p) /\ resp[p] \notin {"201", "unknown"}) => Traces(p) = {}

(* The inductive invariant.                                                  *)
Inv == /\ Shape /\ ClockInv
       /\ \A p \in Procs : ProcInv(p)
       /\ Keys /\ MemberInv /\ OwnerInv
       /\ CredentialsAreUsable /\ RegisteredWasMailed
-----------------------------------------------------------------------------
(* Rows.                                                                     *)

LEMMA NoRowsFields ==
    /\ AreRows(NoRows)
    /\ \A f \in Tables : NoRows[f] = {}
    /\ \A rows : AreRows(rows) /\ (\A f \in Tables : rows[f] = {}) => rows = NoRows
<1>1. NoRows = [f \in Tables |-> {}]
  BY DEF NoRows, Tables
<1>2. AreRows(NoRows)
  BY <1>1 DEF AreRows, RowsOK, Tables
<1> QED BY <1>1, <1>2 DEF AreRows

LEMMA RequestFields ==
    ASSUME NEW r \in Requests
    PROVE  r.op \in {"register", "oidc"} /\ r.id \in Users /\ r # NoRequest
BY DEF Requests, Users, NoRequest

LEMMA NoRequestOp == NoRequest.op = "none"
BY DEF NoRequest

(* What a request sees: the committed rows and its own.                      *)
LEMMA ViewFields ==
    ASSUME Shape, NEW p \in Procs
    PROVE  /\ \A f \in Tables : View(p)[f] = db[f] \cup tx[p][f]
           /\ AreRows(View(p))
<1>1. db = [f \in Tables |-> db[f]] /\ RowsOK(db) /\ RowsOK(tx[p])
  BY DEF Shape, AreRows
<1>2. DOMAIN db = Tables
  BY <1>1
<1>3. View(p) = [f \in Tables |-> db[f] \cup tx[p][f]]
  BY <1>2 DEF View
<1>4. RowsOK(View(p))
  BY <1>1, <1>3 DEF RowsOK, Tables
<1> QED BY <1>3, <1>4 DEF AreRows

(* A row that a statement adds to a table.                                   *)
Add(rows, table, x) == [rows EXCEPT ![table] = @ \cup {x}]

LEMMA AddRow ==
    ASSUME NEW rows, AreRows(rows), NEW table \in Tables, NEW x
    PROVE  /\ Add(rows, table, x) = [f \in Tables |-> Add(rows, table, x)[f]]
           /\ Add(rows, table, x)[table] = rows[table] \cup {x}
           /\ \A f \in Tables \ {table} : Add(rows, table, x)[f] = rows[f]
BY DEF AreRows, Add

OfTable(table, x) ==
    /\ table = "users" => x \in Users
    /\ table = "tenants" => x \in Tenants
    /\ table = "members" => x \in Users \X Tenants
    /\ table \in {"creds", "tokens"} => x \in [user : Users, by : Procs]

LEMMA AddTyped ==
    ASSUME NEW rows, AreRows(rows), NEW table \in Tables, NEW x, OfTable(table, x)
    PROVE  AreRows(Add(rows, table, x))
<1> DEFINE new == Add(rows, table, x)
<1>1. /\ new = [f \in Tables |-> new[f]]
      /\ new[table] = rows[table] \cup {x}
      /\ \A f \in Tables \ {table} : new[f] = rows[f]
  BY AddRow
<1>2. RowsOK(rows)
  BY DEF AreRows
<1> HIDE DEF new
<1>3. RowsOK(new)
  <2>1. CASE table = "users"
    BY <1>1, <1>2, <2>1 DEF RowsOK, OfTable, Tables
  <2>2. CASE table = "tenants"
    BY <1>1, <1>2, <2>2 DEF RowsOK, OfTable, Tables
  <2>3. CASE table = "members"
    BY <1>1, <1>2, <2>3 DEF RowsOK, OfTable, Tables
  <2>4. CASE table = "creds"
    BY <1>1, <1>2, <2>4 DEF RowsOK, OfTable, Tables
  <2>5. CASE table = "tokens"
    BY <1>1, <1>2, <2>5 DEF RowsOK, OfTable, Tables
  <2> QED BY <2>1, <2>2, <2>3, <2>4, <2>5 DEF Tables
<1>4. AreRows(new)
  BY <1>1, <1>3 DEF AreRows
<1> QED BY <1>4 DEF new

(* A statement of a registration writes to its transaction, one of an OIDC   *)
(* login to the tables.                                                      *)
Added(old, new, table, x) ==
    /\ AreRows(new)
    /\ new[table] = old[table] \cup {x}
    /\ \A f \in Tables \ {table} : new[f] = old[f]

LEMMA Written ==
    ASSUME Shape, NEW p \in Procs, NEW table \in Tables, NEW x, OfTable(table, x),
           Write(p, table, x)
    PROVE  /\ InTx(p) => /\ db' = db
                         /\ Added(tx[p], tx'[p], table, x)
                         /\ \A q \in Procs \ {p} : tx'[q] = tx[q]
           /\ ~InTx(p) => tx' = tx /\ Added(db, db', table, x)
           /\ AreRows(db')
           /\ tx' = [q \in Procs |-> tx'[q]] /\ \A q \in Procs : AreRows(tx'[q])
<1>1. AreRows(db) /\ AreRows(tx[p]) /\ tx = [q \in Procs |-> tx[q]]
  BY DEF Shape
<1>2. CASE InTx(p)
  <2>1. tx' = [tx EXCEPT ![p] = Add(tx[p], table, x)] /\ db' = db
    BY <1>2 DEF Write, Add
  <2>2. /\ tx'[p] = Add(tx[p], table, x)
        /\ \A q \in Procs \ {p} : tx'[q] = tx[q]
        /\ tx' = [q \in Procs |-> tx'[q]]
    BY <1>1, <2>1
  <2>3. Added(tx[p], tx'[p], table, x)
    BY <1>1, <2>2, AddRow, AddTyped DEF Added
  <2> QED BY <1>2, <2>1, <2>2, <2>3 DEF Shape, Added
<1>3. CASE ~InTx(p)
  <2>1. db' = Add(db, table, x) /\ tx' = tx
    BY <1>3 DEF Write, Add
  <2>2. Added(db, db', table, x)
    BY <1>1, <2>1, AddRow, AddTyped DEF Added
  <2> QED BY <1>3, <2>1, <2>2 DEF Shape, Added
<1> QED BY <1>2, <1>3

LEMMA ConflictFacts ==
    ASSUME NEW i, NEW j
    PROVE  /\ Conflicts(i, i)
           /\ Conflicts(i, j) <=> Conflicts(j, i)
           /\ SameUser(i, j) => Conflicts(i, j)
           /\ SameUser(i, j) <=> SameUser(j, i)
           /\ SameUser(i, i)
BY DEF Conflicts, SameUser

-----------------------------------------------------------------------------
(* The clock.                                                                *)

LEMMA PendingFinite ==
    /\ IsFiniteSet(Pending) /\ Cardinality(Pending) \in Nat
    /\ IsFiniteSet(Procs) /\ Cardinality(Procs) \in Nat
<1>1. Pending \subseteq Procs
  BY DEF Pending
<1> QED BY <1>1, ProcsAssumption, FS_Subset, FS_CardinalityType

LEMMA ClockStands ==
    ASSUME ClockInv, clock' = clock, Pending' \subseteq Pending
    PROVE  ClockInv'
<1>1. Cardinality(Pending') <= Cardinality(Pending) /\ Cardinality(Pending') \in Nat
  BY PendingFinite, FS_Subset, FS_CardinalityType
<1> QED BY <1>1, PendingFinite DEF ClockInv

LEMMA ClockTicks ==
    ASSUME ClockInv, clock' = clock + 1, NEW p \in Pending, Pending' \subseteq Pending \ {p}
    PROVE  ClockInv' /\ clock \in 1..Cardinality(Procs)
<1>1. /\ IsFiniteSet(Pending \ {p}) /\ Cardinality(Pending \ {p}) = Cardinality(Pending) - 1
  BY PendingFinite, FS_RemoveElement
<1>2. /\ Cardinality(Pending') <= Cardinality(Pending \ {p})
      /\ Cardinality(Pending') \in Nat /\ Cardinality(Pending \ {p}) \in Nat
  BY <1>1, FS_Subset, FS_CardinalityType
<1> QED BY <1>1, <1>2, PendingFinite DEF ClockInv

LEMMA ClockRange ==
    ASSUME ClockInv, NEW p \in Pending
    PROVE  clock \in 1..Cardinality(Procs)
<1>1. Cardinality(Pending) # 0
  BY PendingFinite, FS_EmptySet
<1> QED BY <1>1, PendingFinite DEF ClockInv

(* A step of one request: the others stay where they are.                    *)
OnlyProc(p) ==
    \A q \in Procs \ {p} : /\ pc'[q] = pc[q] /\ req'[q] = req[q] /\ loc'[q] = loc[q]
                           /\ resp'[q] = resp[q] /\ tx'[q] = tx[q]

LEMMA PendingStep ==
    ASSUME NEW p \in Procs, OnlyProc(p)
    PROVE  /\ (Unstarted(p)' => Unstarted(p)) => Pending' \subseteq Pending
           /\ ~Unstarted(p)' => Pending' \subseteq Pending \ {p}
<1>1. ASSUME NEW q \in Procs, q # p PROVE Unstarted(q)' <=> Unstarted(q)
  BY <1>1 DEF OnlyProc, Unstarted, InTx
<1> QED BY <1>1 DEF Pending

(* The committed rows that others rely on stay, and nothing others rely on    *)
(* being absent appears.                                                     *)
Grows == /\ db.users \subseteq db'.users
         /\ db.members \subseteq db'.members
         /\ mails \subseteq mails'

LEMMA Others ==
    ASSUME Inv, NEW p \in Procs, OnlyProc(p), Grows, NEW q \in Procs, q # p
    PROVE  ProcInv(q)'
<1>1. /\ pc'[q] = pc[q] /\ req'[q] = req[q] /\ loc'[q] = loc[q]
      /\ resp'[q] = resp[q] /\ tx'[q] = tx[q]
  BY DEF OnlyProc
<1>2. ProcInv(q)
  BY DEF Inv
<1>3. Control(q)'
  BY <1>1, <1>2 DEF ProcInv, Control, InTx
<1>4. Own(q)'
  BY <1>1, <1>2 DEF ProcInv, Own, InTx
<1>5. Progress(q)'
  BY <1>1, <1>2 DEF ProcInv, Progress, SeesUser, SeesMembership, Grows, InTx
<1> QED BY <1>3, <1>4, <1>5 DEF ProcInv

-----------------------------------------------------------------------------
(* Steps that leave the tables alone.                                        *)

LEMMA SameTables ==
    ASSUME Inv, NEW p \in Procs, OnlyProc(p), db' = db, mails \subseteq mails',
           tx'[p].users \subseteq tx[p].users,
           pc[p] # "done", pc'[p] # "new", pc[p] = "new" \/ req'[p] = req[p],
           pc'[p] = "addMembership" => InTx(p)',
           Shape', ClockInv', ProcInv(p)'
    PROVE  Inv'
<1>1. \A q \in Procs : ProcInv(q)'
  BY Others DEF Grows
<1>2. \A q \in Procs \ {p} : tx'[q] = tx[q]
  BY DEF OnlyProc
<1>3. Keys'
  BY <1>2 DEF Inv, Keys
<1>4. MemberInv'
  <2>1. ASSUME NEW q \in Procs, NEW id, AddsFor(q, id)'
        PROVE  q # p /\ AddsFor(q, id)
    BY <2>1 DEF AddsFor, OnlyProc, InTx
  <2>2. \A q \in Procs \ {p} : req'[q] = req[q]
    BY DEF OnlyProc
  <2> QED BY <2>1, <2>2 DEF Inv, MemberInv
<1>5. OwnerInv'
  <2> SUFFICES ASSUME NEW q \in Procs,
                      (pc[q] = "new" \/ (InTx(q) /\ resp[q] \notin {"201", "unknown"}))'
               PROVE  Traces(q)' = {}
    BY DEF OwnerInv
  <2>2. Traces(q)' = Traces(q)
    BY DEF Traces
  <2>3. pc[q] = "new" \/ (InTx(q) /\ resp[q] \notin {"201", "unknown"})
    <3>1. CASE q # p
      BY <3>1 DEF OnlyProc, InTx
    <3>2. CASE q = p
      BY <3>2 DEF Inv, ProcInv, Control, InTx
    <3> QED BY <3>1, <3>2
  <2> QED BY <2>2, <2>3 DEF Inv, OwnerInv
<1>6. CredentialsAreUsable' /\ RegisteredWasMailed'
  BY DEF Inv, CredentialsAreUsable, RegisteredWasMailed
<1> QED BY <1>1, <1>3, <1>4, <1>5, <1>6 DEF Inv

(* A request that returns: what it has not committed is gone.                *)
LEMMA Returns ==
    ASSUME Inv, NEW p \in Procs, pc[p] \in Steps, NEW status \in Answers, Reply(p, status),
           UNCHANGED <<db, clock, mails, req>>
    PROVE  Inv'
<1>1. Shape /\ ClockInv /\ ProcInv(p)
  BY DEF Inv
<1>2. /\ pc' = [pc EXCEPT ![p] = "done"] /\ resp' = [resp EXCEPT ![p] = status]
      /\ tx' = [tx EXCEPT ![p] = NoRows] /\ loc' = [loc EXCEPT ![p] = NoLoc]
  BY DEF Reply
<1>3. /\ pc'[p] = "done" /\ resp'[p] = status /\ tx'[p] = NoRows /\ loc'[p] = NoLoc
      /\ OnlyProc(p)
  BY <1>1, <1>2 DEF Shape, OnlyProc
<1>4. NoLoc \in Locs
  BY PendingFinite DEF NoLoc, Locs
<1>5. Shape'
  BY <1>1, <1>2, <1>3, <1>4, NoRowsFields DEF Shape, Steps
<1>6. ClockInv'
  <2>1. ~Unstarted(p)'
    BY <1>3 DEF Unstarted
  <2> QED BY <1>1, <1>3, <2>1, PendingStep, ClockStands
<1>7. status # "none"
  BY DEF Answers
<1>8. ProcInv(p)'
  <2>1. Control(p)'
    BY <1>1, <1>3, <1>7 DEF ProcInv, Control, RegisterSteps, InTx, Steps
  <2>2. Own(p)'
    BY <1>3, NoRowsFields DEF Own, Tables
  <2>3. Progress(p)'
    BY <1>3 DEF Progress, MayHaveUser, HasCred
  <2> QED BY <2>1, <2>2, <2>3 DEF ProcInv
<1>9. tx'[p].users = {}
  BY <1>3, NoRowsFields DEF Tables
<1>10. pc[p] # "done"
  BY DEF Steps
<1> QED BY <1>3, <1>5, <1>6, <1>8, <1>9, <1>10, SameTables

(* A request that goes on to its next statement and has written nothing.     *)
LEMMA Moves ==
    ASSUME Inv, NEW p \in Procs, pc[p] # "done", NEW s \in Steps, Goto(p, s), s # "addMembership",
           UNCHANGED <<db, tx, req>>, mails \subseteq mails', mails' \subseteq Procs,
           loc' = [loc EXCEPT ![p] = loc'[p]], loc'[p] \in Locs,
           pc[p] # "new", s \in RegisterSteps => InTx(p),
           s = "sessionMemberships" => ~InTx(p),
           s = "insertUser" => loc'[p].tenant \in Tenants,
           loc'[p].at = loc[p].at \/ loc'[p].at # 0,
           pc[p] \in {"begin"} => loc'[p].at # 0,
           s # "begin", Progress(p)',
           tx[p].users # {} => s \in MayHaveUser, tx[p].creds # {} => s \in HasCred,
           ClockInv'
    PROVE  Inv'
<1>1. Shape /\ ClockInv /\ ProcInv(p)
  BY DEF Inv
<1>2. pc' = [pc EXCEPT ![p] = s] /\ resp' = resp
  BY DEF Goto
<1>3. pc'[p] = s /\ OnlyProc(p)
  BY <1>1, <1>2 DEF Shape, OnlyProc
<1>4. Shape'
  BY <1>1, <1>2 DEF Shape
<1>5. Control(p)'
  BY <1>1, <1>2, <1>3 DEF ProcInv, Control, InTx, Steps
<1>6. Own(p)'
  BY <1>1, <1>3 DEF ProcInv, Own, InTx, Steps
<1>7. ProcInv(p)'
  BY <1>5, <1>6 DEF ProcInv
<1>8. pc'[p] # "new" /\ pc'[p] # "addMembership"
  BY <1>3 DEF Steps
<1> QED BY <1>3, <1>4, <1>7, <1>8, SameTables

-----------------------------------------------------------------------------
(* Statements that write nothing.                                            *)

LEMMA LocFields ==
    ASSUME Shape, NEW p \in Procs
    PROVE  /\ loc[p] \in Locs /\ loc[p].at \in 0..Cardinality(Procs)
           /\ loc[p].tenant \in Tenants \cup {NoTenant}
           /\ loc = [loc EXCEPT ![p] = loc[p]]
BY DEF Shape, Locs

LEMMA StartStep ==
    ASSUME Inv, NEW p \in Procs, NEW r \in Requests, Start(p, r)
    PROVE  Inv'
<1>1. Shape /\ ClockInv /\ ProcInv(p) /\ pc[p] = "new"
  BY DEF Inv, Start
<1>2. /\ r.op \in {"register", "oidc"} /\ req[p] = NoRequest /\ ~InTx(p)
  BY <1>1, RequestFields, NoRequestOp DEF ProcInv, Control, InTx
<1>3. /\ req'[p] = r /\ pc'[p] = IF r.op = "register" THEN "begin" ELSE "getUser"
      /\ pc'[p] \in Steps
      /\ OnlyProc(p)
      /\ UNCHANGED <<db, tx, clock, mails, loc, resp>>
  BY <1>1 DEF Start, Shape, OnlyProc, Steps
<1>4. Shape'
  BY <1>1, <1>3 DEF Shape, Start
<1>5. ClockInv'
  <2>1. Unstarted(p)
    BY <1>1 DEF Unstarted
  <2> QED BY <1>1, <1>3, <2>1, PendingStep, ClockStands
<1>6. InTx(p)' <=> r.op = "register"
  BY <1>3 DEF InTx
<1>7. Control(p)'
  BY <1>1, <1>3, <1>6 DEF ProcInv, Control, RegisterSteps
<1>8. Own(p)'
  BY <1>1, <1>2, <1>3, NoRowsFields DEF ProcInv, Own, Tables
<1>9. Progress(p)'
  BY <1>3 DEF Progress, MayHaveUser, HasCred
<1>10. ProcInv(p)'
  BY <1>7, <1>8, <1>9 DEF ProcInv
<1>11. pc'[p] # "addMembership" /\ pc'[p] # "new"
  BY <1>3
<1> QED BY <1>1, <1>3, <1>4, <1>5, <1>10, <1>11, SameTables

LEMMA BeginStep ==
    ASSUME Inv, NEW p \in Procs, Begin(p)
    PROVE  Inv'
<1>1. Shape /\ ClockInv /\ ProcInv(p) /\ pc[p] = "begin" /\ InTx(p)
  BY DEF Inv, Begin, ProcInv, Control, RegisterSteps
<1>2. Goto(p, "checkUser") /\ UNCHANGED <<db, tx, mails, req>> /\ clock' = clock + 1
  BY DEF Begin
<1>3. loc' = [loc EXCEPT ![p].at = clock]
  BY DEF Begin
<1>4. pc'[p] = "checkUser" /\ OnlyProc(p)
  BY <1>1, <1>2, <1>3 DEF Shape, Goto, OnlyProc
<1>5. ClockInv' /\ clock \in 1..Cardinality(Procs)
  <2>1. p \in Pending
    BY <1>1 DEF Pending, Unstarted
  <2>2. ~Unstarted(p)'
    BY <1>1, <1>2, <1>4 DEF Unstarted, InTx
  <2> QED BY <1>1, <1>2, <1>4, <2>1, <2>2, PendingStep, ClockTicks
<1>6. /\ loc'[p] = [loc[p] EXCEPT !.at = clock]
      /\ loc' = [loc EXCEPT ![p] = loc'[p]]
  BY <1>1, <1>3 DEF Shape
<1>7. loc'[p] \in Locs /\ loc'[p].at # 0
  <2>1. loc'[p] = [at |-> clock, tenant |-> loc[p].tenant]
    BY <1>1, <1>6 DEF Shape, Locs
  <2> QED BY <1>1, <1>5, <2>1, LocFields, PendingFinite DEF Locs
<1>8. Progress(p)'
  BY <1>4 DEF Progress, MayHaveUser, HasCred
<1>9. tx[p].users = {} /\ tx[p].creds = {}
  BY <1>1 DEF ProcInv, Own, MayHaveUser, HasCred
<1>10. "checkUser" \in Steps /\ mails \subseteq Procs
  BY <1>1 DEF Steps, Shape
<1> QED BY <1>1, <1>2, <1>5, <1>6, <1>7, <1>8, <1>9, <1>10, Moves

(* A request that reads and goes on.                                         *)
LEMMA Reads ==
    ASSUME Inv, NEW p \in Procs, pc[p] \in Steps \ {"begin"}, NEW s \in Steps, Goto(p, s),
           s \notin {"addMembership", "begin"},
           UNCHANGED <<db, tx, clock, mails, req, loc>>,
           s \in RegisterSteps => InTx(p),
           s = "sessionMemberships" => ~InTx(p),
           s = "insertUser" => loc[p].tenant \in Tenants,
           Progress(p)', Unstarted(p)' => Unstarted(p),
           tx[p].users # {} => s \in MayHaveUser, tx[p].creds # {} => s \in HasCred
    PROVE  Inv'
<1>1. Shape /\ ClockInv /\ mails \subseteq Procs
  BY DEF Inv, Shape
<1>2. OnlyProc(p)
  BY <1>1 DEF Goto, Shape, OnlyProc
<1>3. ClockInv'
  BY <1>1, <1>2, PendingStep, ClockStands
<1>4. pc[p] \notin {"done", "new", "begin"}
  BY DEF Steps
<1> QED BY <1>1, <1>3, <1>4, LocFields, Moves

LEMMA CheckUserStep ==
    ASSUME Inv, NEW p \in Procs, CheckUser(p)
    PROVE  Inv'
<1> DEFINE s == IF Namesakes(p) # {} THEN "checkCred" ELSE "getUser"
<1>1. ProcInv(p) /\ pc[p] = "checkUser" /\ InTx(p)
  BY DEF Inv, CheckUser, ProcInv, Control, RegisterSteps
<1>2. Goto(p, s) /\ UNCHANGED <<db, tx, clock, mails, req, loc>>
  BY DEF CheckUser
<1>3. s \in {"checkCred", "getUser"} /\ s \in Steps
  BY DEF Steps
<1>4. pc'[p] = s
  BY <1>2 DEF Goto, Inv, Shape
<1> HIDE DEF s
<1>5. Progress(p)'
  BY <1>3, <1>4 DEF Progress, MayHaveUser, HasCred
<1>6. tx[p].users = {} /\ tx[p].creds = {}
  BY <1>1 DEF ProcInv, Own, MayHaveUser, HasCred
<1>7. Unstarted(p)' => Unstarted(p)
  BY <1>1, <1>2, <1>3, <1>4 DEF Unstarted, InTx
<1>8. pc[p] \in Steps \ {"begin"}
  BY <1>1 DEF Steps
<1> QED BY <1>1, <1>2, <1>3, <1>5, <1>6, <1>7, <1>8, Reads

LEMMA CheckCredStep ==
    ASSUME Inv, NEW p \in Procs, CheckCred(p)
    PROVE  Inv'
<1>1. ProcInv(p) /\ pc[p] = "checkCred" /\ InTx(p) /\ pc[p] \in Steps \ {"begin"}
  BY DEF Inv, CheckCred, ProcInv, Control, RegisterSteps, Steps
<1>2. CASE Reply(p, "409")
  BY <1>1, <1>2, Returns DEF CheckCred, Answers
<1>3. CASE Goto(p, "getUser") /\ UNCHANGED <<tx, loc>>
  <2>1. Goto(p, "getUser") /\ UNCHANGED <<db, tx, clock, mails, req, loc>>
    BY <1>3 DEF CheckCred
  <2>2. pc'[p] = "getUser"
    BY <2>1 DEF Goto, Inv, Shape
  <2>3. Progress(p)'
    BY <2>2 DEF Progress, MayHaveUser, HasCred
  <2>4. tx[p].users = {} /\ tx[p].creds = {}
    BY <1>1 DEF ProcInv, Own, MayHaveUser, HasCred
  <2>5. Unstarted(p)' => Unstarted(p)
    BY <1>1, <2>1, <2>2 DEF Unstarted, InTx
  <2>6. "getUser" \in Steps /\ "getUser" \notin RegisterSteps
    BY DEF Steps, RegisterSteps
  <2> QED BY <1>1, <2>1, <2>3, <2>4, <2>5, <2>6, Reads
<1> QED BY <1>2, <1>3 DEF CheckCred

LEMMA GetUserStep ==
    ASSUME Inv, NEW p \in Procs, GetUserByIdentifier(p)
    PROVE  Inv'
<1> DEFINE found == \E u \in View(p).users : SameUser(req[p].id, u)
           s == IF found THEN "listMemberships" ELSE "firstTenant"
<1>1. ProcInv(p) /\ pc[p] = "getUser" /\ pc[p] \in Steps \ {"begin"}
  BY DEF Inv, GetUserByIdentifier, ProcInv, Steps
<1>2. Goto(p, s) /\ UNCHANGED <<db, tx, clock, mails, req, loc>>
  BY DEF GetUserByIdentifier
<1>3. s \in {"listMemberships", "firstTenant"} /\ s \in Steps /\ s \notin RegisterSteps
  BY DEF Steps, RegisterSteps
<1>4. pc'[p] = s
  BY <1>2 DEF Goto, Inv, Shape
<1>5. found => SeesUser(p)
  BY ViewFields DEF SeesUser, Inv, Tables
<1>6. s = "listMemberships" => found
  OBVIOUS
<1> HIDE DEF s, found
<1>7. Progress(p)'
  BY <1>2, <1>3, <1>4, <1>5, <1>6 DEF Progress, MayHaveUser, HasCred, SeesUser
<1>8. tx[p].users = {} /\ tx[p].creds = {}
  BY <1>1 DEF ProcInv, Own, MayHaveUser, HasCred
<1>9. Unstarted(p)' => Unstarted(p)
  BY <1>1, <1>2, <1>3, <1>4 DEF Unstarted, InTx
<1> QED BY <1>1, <1>2, <1>3, <1>7, <1>8, <1>9, Reads

(* The memberships a request finds are those SeesMembership speaks of.        *)
LEMMA MembershipsSeen ==
    ASSUME Shape, NEW p \in Procs, Memberships(p) # {}
    PROVE  SeesMembership(p)
BY ViewFields DEF Memberships, SeesMembership, Tables

LEMMA ResolvedStep ==
    ASSUME Inv, NEW p \in Procs, pc[p] \in {"listMemberships", "verifyMembership"},
           Memberships(p) # {}, Goto(p, Resolved(p)),
           UNCHANGED <<db, tx, clock, mails, req, loc>>
    PROVE  Inv'
<1> DEFINE s == Resolved(p)
<1>1. Shape /\ ProcInv(p) /\ pc[p] \in Steps \ {"begin"}
  BY DEF Inv, Steps
<1>2. pc'[p] = s
  BY DEF Goto, Inv, Shape
<1>3. /\ s \in {"storeCred", "sessionMemberships"} /\ s \in Steps
      /\ s = "storeCred" <=> InTx(p)
  BY DEF Resolved, Steps
<1>4. SeesMembership(p)
  BY <1>1, MembershipsSeen
<1>5. InTx(p) => SeesUser(p)
  BY <1>1 DEF ProcInv, Progress, MayHaveUser
<1> HIDE DEF s
<1>6. Progress(p)'
  BY <1>2, <1>3, <1>4, <1>5 DEF Progress, MayHaveUser, HasCred, SeesUser, SeesMembership, InTx
<1>7. ~Unstarted(p)'
  BY <1>2, <1>3 DEF Unstarted, InTx
<1>8. tx[p].users # {} => s \in MayHaveUser
  BY <1>1, <1>3 DEF ProcInv, Own, MayHaveUser, NoRows
<1>9. tx[p].creds = {}
  BY <1>1 DEF ProcInv, Own, HasCred
<1>10. s \in RegisterSteps => InTx(p)
  BY <1>3 DEF RegisterSteps
<1>11. Goto(p, s)
  BY DEF s
<1> QED BY <1>1, <1>3, <1>6, <1>7, <1>8, <1>9, <1>10, <1>11, Reads

LEMMA ListMembershipsStep ==
    ASSUME Inv, NEW p \in Procs, ListMemberships(p)
    PROVE  Inv'
<1>1. pc[p] = "listMemberships" /\ pc[p] \in Steps
  BY DEF ListMemberships, Steps
<1>2. CASE Reply(p, "integrity")
  BY <1>1, <1>2, Returns DEF ListMemberships, Answers
<1>3. CASE Memberships(p) # {} /\ Goto(p, Resolved(p)) /\ UNCHANGED <<tx, loc>>
  BY <1>1, <1>3, ResolvedStep DEF ListMemberships
<1> QED BY <1>2, <1>3 DEF ListMemberships

LEMMA VerifyMembershipStep ==
    ASSUME Inv, NEW p \in Procs, VerifyMembership(p)
    PROVE  Inv'
<1>1. pc[p] = "verifyMembership" /\ pc[p] \in Steps
  BY DEF VerifyMembership, Steps
<1>2. CASE Memberships(p) = {}
  BY <1>1, <1>2, Returns DEF VerifyMembership, Answers
<1>3. CASE Memberships(p) # {}
  BY <1>1, <1>3, ResolvedStep DEF VerifyMembership
<1> QED BY <1>2, <1>3

LEMMA SessionMembershipsStep ==
    ASSUME Inv, NEW p \in Procs, SessionMemberships(p)
    PROVE  Inv'
<1>1. pc[p] \in Steps
  BY DEF SessionMemberships, Steps
<1>2. PICK status \in Answers : Reply(p, status) /\ UNCHANGED <<db, clock, mails, req>>
  BY DEF SessionMemberships, Answers
<1> QED BY <1>1, <1>2, Returns

LEMMA StatementFailsStep ==
    ASSUME Inv, NEW p \in Procs, StatementFails(p)
    PROVE  Inv'
BY Returns DEF StatementFails, Answers

LEMMA SendStep ==
    ASSUME Inv, NEW p \in Procs, Send(p)
    PROVE  Inv'
<1>1. /\ Shape /\ ClockInv /\ ProcInv(p) /\ pc[p] = "send" /\ InTx(p)
      /\ UNCHANGED <<db, tx, clock, req, loc>> /\ Goto(p, "commit")
      /\ mails' = mails \cup {p}
  BY DEF Inv, Send, ProcInv, Control, RegisterSteps
<1>2. pc'[p] = "commit" /\ OnlyProc(p)
  BY <1>1 DEF Goto, Shape, OnlyProc
<1>3. Progress(p)'
  BY <1>1, <1>2 DEF ProcInv, Progress, MayHaveUser, HasCred, SeesUser, SeesMembership, InTx
<1>4. ClockInv'
  <2>1. ~Unstarted(p)'
    BY <1>1, <1>2 DEF Unstarted, InTx
  <2> QED BY <1>1, <1>2, <2>1, PendingStep, ClockStands
<1>5. "commit" \in Steps /\ "commit" \in MayHaveUser /\ "commit" \in HasCred
  BY DEF Steps, MayHaveUser, HasCred
<1>6. mails' \subseteq Procs /\ mails \subseteq mails'
  BY <1>1 DEF Shape
<1> QED BY <1>1, <1>3, <1>4, <1>5, <1>6, LocFields, Moves

LEMMA GetFirstTenantStep ==
    ASSUME Inv, NEW p \in Procs, GetFirstTenant(p)
    PROVE  Inv'
<1>1. /\ Shape /\ ClockInv /\ ProcInv(p) /\ pc[p] = "firstTenant"
      /\ UNCHANGED <<db, tx, clock, mails, req>>
  BY DEF Inv, GetFirstTenant
<1>2. pc[p] \in Steps \ {"begin"} /\ tx[p].users = {} /\ tx[p].creds = {}
  BY <1>1 DEF Steps, ProcInv, Own, MayHaveUser, HasCred
<1>3. CASE Goto(p, "insertTenant") /\ UNCHANGED loc
  <2>1. pc'[p] = "insertTenant"
    BY <1>3 DEF Goto, Inv, Shape
  <2>2. Progress(p)'
    BY <2>1 DEF Progress, MayHaveUser, HasCred
  <2>3. Unstarted(p)' => Unstarted(p)
    BY <1>1, <1>3, <2>1 DEF Unstarted, InTx
  <2>4. "insertTenant" \in Steps /\ "insertTenant" \notin RegisterSteps
    BY DEF Steps, RegisterSteps
  <2> QED BY <1>1, <1>2, <1>3, <2>2, <2>3, <2>4, Reads
<1>4. CASE \E t \in Oldest(View(p).tenants) :
             loc' = [loc EXCEPT ![p].tenant = t] /\ Goto(p, "insertUser")
  <2>1. PICK t \in Oldest(View(p).tenants) :
             loc' = [loc EXCEPT ![p].tenant = t] /\ Goto(p, "insertUser")
    BY <1>4
  <2>2. t \in Tenants
    BY <1>1, ViewFields DEF Oldest, AreRows, RowsOK
  <2>3. pc'[p] = "insertUser" /\ OnlyProc(p)
    BY <1>1, <2>1 DEF Goto, Shape, OnlyProc
  <2>4. loc'[p] = [at |-> loc[p].at, tenant |-> t] /\ loc' = [loc EXCEPT ![p] = loc'[p]]
    BY <1>1, <2>1 DEF Shape, Locs
  <2>5. loc'[p] \in Locs /\ loc'[p].at = loc[p].at /\ loc'[p].tenant = t
    BY <1>1, <2>2, <2>4, LocFields DEF Locs
  <2>6. Progress(p)'
    BY <2>3 DEF Progress, MayHaveUser, HasCred
  <2>7. ClockInv'
    <3>1. ~Unstarted(p)'
      BY <1>1, <2>3 DEF Unstarted, InTx
    <3> QED BY <1>1, <2>3, <3>1, PendingStep, ClockStands
  <2>8. "insertUser" \in Steps /\ "insertUser" \notin RegisterSteps /\ mails \subseteq Procs
    BY <1>1 DEF Steps, RegisterSteps, Shape
  <2> QED BY <1>1, <1>2, <2>1, <2>2, <2>4, <2>5, <2>6, <2>7, <2>8, Moves
<1> QED BY <1>3, <1>4 DEF GetFirstTenant

-----------------------------------------------------------------------------
(* Statements that write.                                                    *)

(* An OIDC login writes straight to the tables.                              *)
LEMMA DirectWrite ==
    ASSUME Inv, NEW p \in Procs, ~InTx(p), pc[p] # "done", pc'[p] # "new", OnlyProc(p),
           UNCHANGED <<tx, mails, req>>,
           NEW table \in {"users", "tenants", "members"}, NEW x, Added(db, db', table, x),
           table = "tenants" => x.id = p,
           Shape', ClockInv', ProcInv(p)', Keys', MemberInv'
    PROVE  Inv'
<1>1. /\ db.users \subseteq db'.users /\ db.members \subseteq db'.members
      /\ db'.creds = db.creds /\ db'.tokens = db.tokens
      /\ \A t \in db'.tenants : t \in db.tenants \/ t.id = p
      /\ \A t \in db.tokens : t \in db'.tokens
  BY DEF Added, Tables
<1>2. \A q \in Procs : ProcInv(q)'
  BY <1>1, Others DEF Grows
<1>3. OwnerInv'
  <2> SUFFICES ASSUME NEW q \in Procs,
                      (pc[q] = "new" \/ (InTx(q) /\ resp[q] \notin {"201", "unknown"}))'
               PROVE  Traces(q)' = {}
    BY DEF OwnerInv
  <2>1. q # p
    BY DEF InTx
  <2>2. Traces(q) = {}
    BY <2>1 DEF OnlyProc, InTx, Inv, OwnerInv
  <2> QED BY <1>1, <2>1, <2>2 DEF Traces
<1>4. CredentialsAreUsable' /\ RegisteredWasMailed'
  BY <1>1 DEF Inv, CredentialsAreUsable, RegisteredWasMailed
<1> QED BY <1>2, <1>3, <1>4 DEF Inv

LEMMA InsertTenantStep ==
    ASSUME Inv, NEW p \in Procs, InsertTenant(p)
    PROVE  Inv'
<1> DEFINE t == [id |-> p, at |-> IF InTx(p) THEN loc[p].at ELSE clock]
<1>1. /\ Shape /\ ClockInv /\ ProcInv(p) /\ pc[p] = "insertTenant"
      /\ UNCHANGED <<mails, req>> /\ Goto(p, "insertUser")
      /\ Write(p, "tenants", t) /\ loc' = [loc EXCEPT ![p].tenant = t]
      /\ clock' = IF InTx(p) THEN clock ELSE clock + 1
  BY DEF Inv, InsertTenant
<1>2. pc'[p] = "insertUser" /\ tx[p].users = {} /\ tx[p].creds = {}
  BY <1>1 DEF Goto, Shape, ProcInv, Own, MayHaveUser, HasCred
<1>3. ~Unstarted(p)' /\ (~InTx(p) => p \in Pending)
  BY <1>1, <1>2 DEF Unstarted, InTx, Pending
<1>4. ~InTx(p) => clock \in 1..Cardinality(Procs)
  BY <1>1, <1>3, ClockRange
<1>5. t \in Tenants /\ t.id = p
  <2>1. InTx(p) => loc[p].at \in 1..Cardinality(Procs)
    BY <1>1, LocFields, PendingFinite DEF ProcInv, Control
  <2>2. t.at \in 1..(Cardinality(Procs) + 1)
    BY <1>4, <2>1, PendingFinite
  <2> QED BY <2>2 DEF Tenants
<1>6. /\ loc'[p] = [at |-> loc[p].at, tenant |-> t]
      /\ loc' = [loc EXCEPT ![p] = loc'[p]]
  BY <1>1 DEF Shape, Locs
<1> HIDE DEF t
<1>7. loc'[p] \in Locs /\ loc'[p].at = loc[p].at /\ loc'[p].tenant = t
  BY <1>1, <1>5, <1>6, LocFields DEF Locs
<1>8. OfTable("tenants", t) /\ "tenants" \in Tables
  BY <1>5 DEF OfTable, Tables
<1>9. /\ InTx(p) => /\ db' = db
                    /\ Added(tx[p], tx'[p], "tenants", t)
                    /\ \A q \in Procs \ {p} : tx'[q] = tx[q]
      /\ ~InTx(p) => tx' = tx /\ Added(db, db', "tenants", t)
      /\ AreRows(db')
      /\ tx' = [q \in Procs |-> tx'[q]] /\ \A q \in Procs : AreRows(tx'[q])
  BY <1>1, <1>8, Written
<1>10. OnlyProc(p)
  BY <1>1, <1>9 DEF Goto, Shape, OnlyProc
<1>11. ClockInv'
  <2>1. CASE InTx(p)
    BY <1>1, <1>3, <1>10, <2>1, PendingStep, ClockStands
  <2>2. CASE ~InTx(p)
    BY <1>1, <1>3, <1>10, <2>2, PendingStep, ClockTicks
  <2> QED BY <2>1, <2>2
<1>12. Shape'
  BY <1>1, <1>6, <1>7, <1>9 DEF Shape, Goto, Steps
<1>13. ProcInv(p)'
  <2>1. Control(p)'
    BY <1>1, <1>2, <1>5, <1>7 DEF ProcInv, Control, InTx, RegisterSteps, Goto
  <2>2. Own(p)'
    <3>1. CASE InTx(p)
      <4>1. /\ tx'[p].users = tx[p].users /\ tx'[p].members = tx[p].members
            /\ tx'[p].creds = tx[p].creds /\ tx'[p].tokens = tx[p].tokens
            /\ tx'[p].tenants = tx[p].tenants \cup {t}
        BY <1>9, <3>1 DEF Added, Tables
      <4> QED BY <1>1, <1>2, <1>5, <3>1, <4>1 DEF ProcInv, Own, InTx
    <3>2. CASE ~InTx(p)
      BY <1>1, <1>2, <1>9, <3>2 DEF ProcInv, Own, InTx
    <3> QED BY <3>1, <3>2
  <2>3. Progress(p)'
    BY <1>2 DEF Progress, MayHaveUser, HasCred
  <2> QED BY <2>1, <2>2, <2>3 DEF ProcInv
<1>14. CASE InTx(p)
  <2>1. tx'[p].users = tx[p].users
    BY <1>9, <1>14 DEF Added, Tables
  <2> QED BY <1>1, <1>2, <1>9, <1>10, <1>11, <1>12, <1>13, <1>14, <2>1, SameTables
<1>15. CASE ~InTx(p)
  <2>1. db'.users = db.users /\ db'.members = db.members /\ tx' = tx
    BY <1>9, <1>15 DEF Added, Tables
  <2>2. Keys'
    BY <2>1 DEF Inv, Keys
  <2>3. MemberInv'
    <3>1. \A q \in Procs : \A id : AddsFor(q, id)' => AddsFor(q, id)
      BY <1>1, <1>2, <1>10 DEF AddsFor, InTx, OnlyProc
    <3> QED BY <1>1, <2>1, <3>1 DEF Inv, MemberInv
  <2> QED BY <1>1, <1>2, <1>5, <1>9, <1>10, <1>11, <1>12, <1>13, <1>15, <2>2, <2>3, DirectWrite
<1> QED BY <1>14, <1>15

LEMMA InsertUserStep ==
    ASSUME Inv, NEW p \in Procs, InsertUser(p)
    PROVE  Inv'
<1> DEFINE id == req[p].id
<1>1. /\ Shape /\ ClockInv /\ ProcInv(p) /\ pc[p] = "insertUser" /\ pc[p] \in Steps
      /\ KeyHolders(p) = {} /\ UNCHANGED <<clock, mails, req>>
  BY DEF Inv, InsertUser, Steps
<1>2. CASE Reply(p, IF InTx(p) THEN "409" ELSE "500") /\ UNCHANGED db
  BY <1>1, <1>2, Returns DEF Answers
<1>3. CASE /\ ~ \E u \in View(p).users : Conflicts(req[p].id, u)
           /\ Write(p, "users", req[p].id)
           /\ Goto(p, "addMembership")
           /\ UNCHANGED loc
  <2>1. pc'[p] = "addMembership" /\ tx[p].users = {} /\ tx[p].members = {} /\ tx[p].creds = {}
    BY <1>1, <1>3 DEF Goto, Shape, ProcInv, Own, MayHaveUser, HasCred
  <2>2. req[p] \in Requests /\ id \in Users /\ "users" \in Tables /\ OfTable("users", id)
    BY <1>1, RequestFields DEF ProcInv, Control, OfTable, Tables
  <2>3. /\ InTx(p) => /\ db' = db
                      /\ Added(tx[p], tx'[p], "users", id)
                      /\ \A q \in Procs \ {p} : tx'[q] = tx[q]
        /\ ~InTx(p) => tx' = tx /\ Added(db, db', "users", id)
        /\ AreRows(db')
        /\ tx' = [q \in Procs |-> tx'[q]] /\ \A q \in Procs : AreRows(tx'[q])
    BY <1>1, <1>3, <2>2, Written
  <2>4. OnlyProc(p)
    BY <1>1, <1>3, <2>3 DEF Goto, Shape, OnlyProc
  <2>5. ClockInv'
    <3>1. ~Unstarted(p)'
      BY <2>1 DEF Unstarted
    <3> QED BY <1>1, <2>4, <3>1, PendingStep, ClockStands
  <2>6. Shape'
    BY <1>1, <1>3, <2>3 DEF Shape, Goto, Steps
  <2>7. /\ \A u \in db.users : ~Conflicts(id, u) /\ ~Conflicts(u, id)
        /\ \A q \in Procs \ {p} : \A u \in tx[q].users : ~Conflicts(id, u) /\ ~Conflicts(u, id)
    BY <1>1, <1>3, ViewFields, ConflictFacts DEF KeyHolders, Tables
  <2>8. Control(p)'
    BY <1>1, <1>3, <2>1 DEF ProcInv, Control, InTx, RegisterSteps, Goto
  <2>9. CASE InTx(p)
    <3>1. /\ tx'[p].users = {id} /\ tx'[p].members = {} /\ tx'[p].creds = {}
          /\ tx'[p].tokens = tx[p].tokens /\ tx'[p].tenants = tx[p].tenants
      BY <2>1, <2>3, <2>9 DEF Added, Tables
    <3>2. Own(p)'
      BY <1>1, <2>1, <2>9, <3>1 DEF ProcInv, Own, InTx, MayHaveUser
    <3>3. Progress(p)'
      <4>1. SeesUser(p)'
        BY <1>1, <3>1, ConflictFacts DEF SeesUser
      <4> QED BY <1>1, <2>1, <2>9, <3>1, <4>1 DEF Progress, InTx, HasCred
    <3>4. \A q \in Procs : ProcInv(q)'
      BY <2>3, <2>4, <2>8, <2>9, <3>2, <3>3, <1>1, Others DEF ProcInv, Grows
    <3>5. Keys'
      BY <2>3, <2>7, <2>9, <3>1 DEF Inv, Keys
    <3>6. MemberInv'
      <4>1. \A q \in Procs : \A i : AddsFor(q, i)' => AddsFor(q, i)
        BY <1>1, <2>4, <2>9 DEF AddsFor, InTx, OnlyProc
      <4> QED BY <1>1, <2>3, <2>9, <4>1 DEF Inv, MemberInv
    <3>7. OwnerInv'
      <4>1. ASSUME NEW q \in Procs,
                   (pc[q] = "new" \/ (InTx(q) /\ resp[q] \notin {"201", "unknown"}))'
            PROVE  pc[q] = "new" \/ (InTx(q) /\ resp[q] \notin {"201", "unknown"})
        BY <1>1, <1>3, <2>1, <2>4, <2>9, <4>1 DEF OnlyProc, InTx, Goto
      <4> QED BY <2>3, <2>9, <4>1 DEF Inv, OwnerInv, Traces
    <3>8. CredentialsAreUsable' /\ RegisteredWasMailed'
      BY <1>1, <2>3, <2>9 DEF Inv, CredentialsAreUsable, RegisteredWasMailed
    <3> QED BY <2>5, <2>6, <3>4, <3>5, <3>6, <3>7, <3>8 DEF Inv
  <2>10. CASE ~InTx(p)
    <3>1. /\ db'.users = db.users \cup {id} /\ db'.members = db.members /\ tx' = tx
      BY <2>3, <2>10 DEF Added, Tables
    <3>2. Own(p)'
      BY <1>1, <2>1, <2>10, <3>1 DEF ProcInv, Own, InTx
    <3>3. Progress(p)'
      BY <1>1, <2>1, <2>10, <3>1 DEF Progress, InTx, HasCred
    <3>4. ProcInv(p)'
      BY <2>8, <3>2, <3>3 DEF ProcInv
    <3>5. Keys'
      <4>1. \A q \in Procs : \A u \in tx[q].users : ~Conflicts(u, id)
        BY <2>1, <2>7
      <4> QED BY <2>7, <3>1, <4>1 DEF Inv, Keys
    <3>6. MemberInv'
      <4>1. id \notin db.users
        BY <2>7, ConflictFacts
      <4>2. ASSUME NEW q \in Procs, NEW i, AddsFor(q, i)'
            PROVE  (q = p /\ i = id) \/ (q # p /\ AddsFor(q, i) /\ i \in db.users)
        <5>1. CASE q = p
          BY <1>1, <4>2, <5>1 DEF AddsFor
        <5>2. CASE q # p
          BY <2>4, <4>2, <5>2 DEF AddsFor, InTx, OnlyProc, Inv, ProcInv, Progress
        <5> QED BY <5>1, <5>2
      <4> QED BY <1>1, <3>1, <4>1, <4>2 DEF Inv, MemberInv
    <3>7. "users" \in {"users", "tenants", "members"} /\ pc'[p] # "new" /\ pc[p] # "done"
      BY <1>1, <2>1
    <3> QED BY <1>1, <2>3, <2>4, <2>5, <2>6, <2>10, <3>4, <3>5, <3>6, <3>7, DirectWrite
  <2> QED BY <2>9, <2>10
<1> QED BY <1>2, <1>3 DEF InsertUser

LEMMA CreateMembershipStep ==
    ASSUME Inv, NEW p \in Procs, CreateMembership(p)
    PROVE  Inv'
<1> DEFINE m == <<req[p].id, loc[p].tenant>>
<1>1. /\ Shape /\ ClockInv /\ ProcInv(p) /\ pc[p] = "addMembership"
      /\ UNCHANGED <<clock, mails, req, loc>> /\ Goto(p, "verifyMembership")
      /\ Write(p, "members", m)
  BY DEF Inv, CreateMembership
<1>2. pc'[p] = "verifyMembership" /\ tx[p].creds = {}
  BY <1>1 DEF Goto, Shape, ProcInv, Own, HasCred
<1>3. /\ req[p] \in Requests /\ m \in Users \X Tenants /\ m[1] = req[p].id
      /\ "members" \in Tables /\ OfTable("members", m)
  BY <1>1, RequestFields DEF ProcInv, Control, OfTable, Tables
<1> HIDE DEF m
<1>4. /\ InTx(p) => /\ db' = db
                    /\ Added(tx[p], tx'[p], "members", m)
                    /\ \A q \in Procs \ {p} : tx'[q] = tx[q]
      /\ ~InTx(p) => tx' = tx /\ Added(db, db', "members", m)
      /\ AreRows(db')
      /\ tx' = [q \in Procs |-> tx'[q]] /\ \A q \in Procs : AreRows(tx'[q])
  BY <1>1, <1>3, Written
<1>5. OnlyProc(p)
  BY <1>1, <1>4 DEF Goto, Shape, OnlyProc
<1>6. ClockInv'
  <2>1. ~Unstarted(p)'
    BY <1>2 DEF Unstarted
  <2> QED BY <1>1, <1>5, <2>1, PendingStep, ClockStands
<1>7. Shape'
  BY <1>1, <1>4 DEF Shape, Goto, Steps
<1>8. Control(p)'
  BY <1>1, <1>2 DEF ProcInv, Control, InTx, RegisterSteps, Goto
<1>9. CASE InTx(p)
  <2>1. /\ tx'[p].users = tx[p].users /\ tx'[p].members = {m} /\ tx'[p].creds = {}
        /\ tx'[p].tokens = tx[p].tokens /\ tx'[p].tenants = tx[p].tenants
        /\ req[p].id \in tx[p].users
    BY <1>1, <1>2, <1>4, <1>9 DEF Added, Tables, ProcInv, Progress
  <2>2. Own(p)'
    BY <1>1, <1>2, <1>3, <1>9, <2>1 DEF ProcInv, Own, InTx, MayHaveUser
  <2>3. Progress(p)'
    BY <1>1, <1>2, <1>4, <1>9, <2>1 DEF ProcInv, Progress, InTx, HasCred, MayHaveUser, SeesUser
  <2>4. ProcInv(p)'
    BY <1>8, <2>2, <2>3 DEF ProcInv
  <2> QED BY <1>1, <1>2, <1>4, <1>5, <1>6, <1>7, <1>9, <2>1, <2>4, SameTables
<1>10. CASE ~InTx(p)
  <2>1. /\ db'.users = db.users /\ db'.members = db.members \cup {m} /\ tx' = tx
        /\ req[p].id \in db.users
    BY <1>1, <1>4, <1>10 DEF Added, Tables, ProcInv, Progress
  <2>2. Own(p)'
    BY <1>1, <1>2, <1>10, <2>1 DEF ProcInv, Own, InTx, MayHaveUser, HasCred
  <2>3. Progress(p)'
    BY <1>1, <1>2, <1>10 DEF Progress, InTx, HasCred
  <2>4. ProcInv(p)'
    BY <1>8, <2>2, <2>3 DEF ProcInv
  <2>5. Keys'
    BY <2>1 DEF Inv, Keys
  <2>6. MemberInv'
    <3>1. \A q \in Procs : \A i : AddsFor(q, i)' => q # p /\ AddsFor(q, i)
      BY <1>1, <1>2, <1>5 DEF AddsFor, InTx, OnlyProc
    <3>2. AddsFor(p, m[1])
      BY <1>1, <1>3, <1>10 DEF AddsFor
    <3>3. ASSUME NEW q \in Procs, NEW i, AddsFor(q, i)'
          PROVE  i # m[1]
      BY <1>3, <3>1, <3>2, <3>3 DEF Inv, MemberInv
    <3>4. \A n \in db.members : n[1] # m[1]
      BY <1>3, <3>2 DEF Inv, MemberInv
    <3> QED BY <1>1, <1>3, <2>1, <3>1, <3>3, <3>4 DEF Inv, MemberInv
  <2>7. "members" \in {"users", "tenants", "members"} /\ pc'[p] # "new" /\ pc[p] # "done"
    BY <1>1, <1>2
  <2> QED BY <1>1, <1>4, <1>5, <1>6, <1>7, <1>10, <2>1, <2>4, <2>5, <2>6, <2>7, DirectWrite
<1> QED BY <1>9, <1>10

(* The credential and the token of a registration.                           *)
LEMMA RegistrationWrites ==
    ASSUME Inv, NEW p \in Procs, pc[p] \in {"storeCred", "issueToken"},
           NEW s \in HasCred, Goto(p, s), NEW table \in {"creds", "tokens"},
           Write(p, table, [user |-> req[p].id, by |-> p]),
           UNCHANGED <<clock, mails, req, loc>>,
           RequireEmailVerification => s # "commit",
           s = "send" => table = "tokens"
    PROVE  Inv'
<1> DEFINE x == [user |-> req[p].id, by |-> p]
<1>1. Shape /\ ClockInv /\ ProcInv(p) /\ InTx(p)
  BY DEF Inv, ProcInv, Control, RegisterSteps
<1>2. pc'[p] = s /\ pc' = [pc EXCEPT ![p] = s] /\ resp' = resp
  BY <1>1 DEF Goto, Shape
<1>3. req[p] \in Requests /\ OfTable(table, x) /\ table \in Tables
  BY <1>1, RequestFields DEF ProcInv, Control, OfTable, Tables
<1>4. /\ db' = db
      /\ Added(tx[p], tx'[p], table, x)
      /\ \A q \in Procs \ {p} : tx'[q] = tx[q]
      /\ tx' = [q \in Procs |-> tx'[q]] /\ \A q \in Procs : AreRows(tx'[q])
  BY <1>1, <1>3, Written
<1>5. /\ tx'[p].users = tx[p].users /\ tx'[p].members = tx[p].members
      /\ tx'[p].tenants = tx[p].tenants
      /\ tx'[p].creds = tx[p].creds \/ tx'[p].creds = tx[p].creds \cup {x}
      /\ tx'[p].tokens = tx[p].tokens \/ tx'[p].tokens = tx[p].tokens \cup {x}
      /\ table = "tokens" => x \in tx'[p].tokens
  BY <1>4 DEF Added, Tables
<1>6. OnlyProc(p)
  BY <1>1, <1>2, <1>4 DEF Shape, OnlyProc
<1>7. ClockInv'
  <2>1. ~Unstarted(p)'
    BY <1>2 DEF Unstarted, HasCred
  <2> QED BY <1>1, <1>6, <2>1, PendingStep, ClockStands
<1>8. Shape'
  <2>1. AreRows(db)' /\ mails' \subseteq Procs
    BY <1>1, <1>4 DEF Shape
  <2>2. s \in Steps
    BY DEF HasCred, Steps
  <2>3. pc' \in [Procs -> Steps \cup {"new", "done"}]
    BY <1>1, <1>2, <2>2 DEF Shape
  <2> QED BY <1>1, <1>2, <1>4, <2>1, <2>3 DEF Shape
<1>9. Control(p)'
  BY <1>1, <1>2 DEF ProcInv, Control, InTx, HasCred, RegisterSteps
<1>10. Own(p)'
  <2>1. x.user = req[p].id /\ x.by = p
    OBVIOUS
  <2> HIDE DEF x
  <2> QED BY <1>1, <1>2, <1>5, <2>1 DEF ProcInv, Own, InTx, HasCred, MayHaveUser
<1>11. Progress(p)'
  <2>1. SeesUser(p)' /\ SeesMembership(p)'
    BY <1>1, <1>4, <1>5 DEF ProcInv, Progress, MayHaveUser, HasCred, SeesUser, SeesMembership
  <2>2. x.user = req[p].id
    OBVIOUS
  <2> HIDE DEF x
  <2> QED BY <1>1, <1>2, <1>5, <2>1, <2>2 DEF Progress, HasCred
<1>12. ProcInv(p)'
  BY <1>9, <1>10, <1>11 DEF ProcInv
<1>13. pc[p] # "done" /\ pc'[p] \notin {"new", "addMembership"}
  BY <1>2 DEF HasCred
<1> QED BY <1>4, <1>5, <1>6, <1>7, <1>8, <1>12, <1>13, SameTables

LEMMA UpsertStep ==
    ASSUME Inv, NEW p \in Procs, UpsertPasswordCredential(p)
    PROVE  Inv'
<1> DEFINE s == IF RequireEmailVerification THEN "issueToken" ELSE "commit"
<1>1. /\ s \in HasCred /\ s # "send"
      /\ RequireEmailVerification => s # "commit"
  BY DEF HasCred
<1>2. Goto(p, s) /\ pc[p] = "storeCred"
  BY DEF UpsertPasswordCredential
<1> HIDE DEF s
<1> QED BY <1>1, <1>2, RegistrationWrites DEF UpsertPasswordCredential

LEMMA IssueTokenStep ==
    ASSUME Inv, NEW p \in Procs, IssueToken(p)
    PROVE  Inv'
<1>1. "send" \in HasCred
  BY DEF HasCred
<1> QED BY <1>1, RegistrationWrites DEF IssueToken

LEMMA CommitStep ==
    ASSUME Inv, NEW p \in Procs, Commit(p)
    PROVE  Inv'
<1>1. /\ Shape /\ ClockInv /\ ProcInv(p) /\ pc[p] = "commit" /\ InTx(p)
      /\ db' = Merge(p) /\ UNCHANGED <<clock, mails, req>>
  BY DEF Inv, Commit, ProcInv, Control, RegisterSteps
<1>2. PICK status \in {"201", "unknown"} : Reply(p, status)
  BY DEF Commit
<1>3. /\ pc' = [pc EXCEPT ![p] = "done"] /\ resp' = [resp EXCEPT ![p] = status]
      /\ tx' = [tx EXCEPT ![p] = NoRows] /\ loc' = [loc EXCEPT ![p] = NoLoc]
  BY <1>2 DEF Reply
<1>4. /\ pc'[p] = "done" /\ resp'[p] = status /\ tx'[p] = NoRows
      /\ OnlyProc(p)
  BY <1>1, <1>3 DEF Shape, OnlyProc
<1>5. /\ \A q \in Procs \ {p} : tx'[q] = tx[q] /\ pc'[q] = pc[q]
      /\ tx'[p].users = {}
  BY <1>4, NoRowsFields DEF OnlyProc, Tables
<1>6. /\ AreRows(db')
      /\ db'.users = db.users \cup tx[p].users /\ db'.members = db.members \cup tx[p].members
      /\ db'.tenants = db.tenants \cup tx[p].tenants /\ db'.tokens = db.tokens \cup tx[p].tokens
      /\ db'.creds \subseteq db.creds \cup tx[p].creds
  <2>1. AreRows(View(p)) /\ \A f \in Tables : View(p)[f] = db[f] \cup tx[p][f]
    BY <1>1, ViewFields
  <2>2. PICK replaced : db' = [View(p) EXCEPT !["creds"] = @ \ replaced]
    BY <1>1 DEF Merge
  <2>3. /\ db' = [f \in Tables |-> db'[f]]
        /\ db'["creds"] = View(p)["creds"] \ replaced
        /\ \A f \in Tables \ {"creds"} : db'[f] = View(p)[f]
    BY <2>1, <2>2 DEF AreRows, Tables
  <2>4. RowsOK(db')
    BY <2>1, <2>3 DEF AreRows, RowsOK, Tables
  <2> QED BY <2>1, <2>3, <2>4 DEF AreRows, Tables
<1>7. Shape'
  <2>1. NoLoc \in Locs
    BY PendingFinite DEF NoLoc, Locs
  <2> QED BY <1>1, <1>3, <1>6, <2>1, NoRowsFields DEF Shape, Steps, Answers
<1>8. ClockInv'
  <2>1. ~Unstarted(p)'
    BY <1>4 DEF Unstarted
  <2> QED BY <1>1, <1>4, <2>1, PendingStep, ClockStands
<1>9. ProcInv(p)'
  <2>1. Control(p)'
    BY <1>1, <1>4 DEF ProcInv, Control, RegisterSteps, InTx
  <2>2. Own(p)'
    BY <1>4, NoRowsFields DEF Own, Tables
  <2>3. Progress(p)'
    BY <1>4 DEF Progress, MayHaveUser, HasCred
  <2> QED BY <2>1, <2>2, <2>3 DEF ProcInv
<1>10. \A q \in Procs : ProcInv(q)'
  BY <1>1, <1>4, <1>6, <1>9, Others DEF Grows
<1>11. /\ \A u, v \in db.users : Conflicts(u, v) => u = v
       /\ \A u \in tx[p].users, v \in db.users : ~Conflicts(u, v) /\ ~Conflicts(v, u)
       /\ \A q \in Procs \ {p} : \A u \in tx[q].users, v \in db.users \cup tx[p].users : ~Conflicts(u, v)
       /\ \A q, r \in Procs : q # r => \A u \in tx[q].users, v \in tx[r].users : ~Conflicts(u, v)
       /\ \A u, v \in tx[p].users : u = v
  BY <1>1, ConflictFacts DEF Inv, Keys, ProcInv, Own
<1>12. Keys'
  <2>1. \A u, v \in db'.users : Conflicts(u, v) => u = v
    BY <1>6, <1>11
  <2>2. \A q \in Procs : \A u \in tx'[q].users, v \in db'.users : ~Conflicts(u, v)
    BY <1>5, <1>6, <1>11
  <2>3. \A q, r \in Procs : q # r => \A u \in tx'[q].users, v \in tx'[r].users : ~Conflicts(u, v)
    BY <1>5, <1>11
  <2> QED BY <2>1, <2>2, <2>3 DEF Keys
<1>13. MemberInv'
  <2>1. \A m \in tx[p].members : m[1] = req[p].id /\ m[1] \in tx[p].users
    BY <1>1 DEF ProcInv, Own
  <2>2. \A i : i \in tx[p].users => i \notin db.users
    BY <1>11, ConflictFacts
  <2>3. \A m \in db.members : m[1] \in db.users
    BY DEF Inv, MemberInv
  <2>4. \A m, n \in tx[p].members : m = n
    BY <1>1 DEF ProcInv, Own
  <2>5. \A q \in Procs : \A i : AddsFor(q, i)' => AddsFor(q, i) /\ i \in db.users
    <3> SUFFICES ASSUME NEW q \in Procs, NEW i, AddsFor(q, i)'
                 PROVE  AddsFor(q, i) /\ i \in db.users
      OBVIOUS
    <3>1. q # p /\ AddsFor(q, i)
      BY <1>1, <1>4 DEF AddsFor, InTx, OnlyProc
    <3>2. ProcInv(q)
      BY DEF Inv
    <3> QED BY <3>1, <3>2 DEF AddsFor, ProcInv, Progress
  <2>6. \A m, n \in db'.members : m[1] = n[1] => m = n
    BY <1>6, <2>1, <2>2, <2>3, <2>4 DEF Inv, MemberInv
  <2>7. \A q \in Procs : \A m \in db'.members : ~AddsFor(q, m[1])'
    BY <1>6, <2>1, <2>2, <2>5 DEF Inv, MemberInv
  <2>8. \A q, r \in Procs : AddsFor(q, req[q].id)' /\ AddsFor(r, req[q].id)' => q = r
    BY <1>1, <2>5 DEF Inv, MemberInv
  <2>9. \A m \in db'.members : m[1] \in db'.users
    BY <1>6, <2>1, <2>3
  <2> QED BY <2>6, <2>7, <2>8, <2>9 DEF MemberInv
<1>14. OwnerInv'
  <2> SUFFICES ASSUME NEW q \in Procs,
                      (pc[q] = "new" \/ (InTx(q) /\ resp[q] \notin {"201", "unknown"}))'
               PROVE  Traces(q)' = {}
    BY DEF OwnerInv
  <2>1. q # p
    BY <1>4
  <2>2. Traces(q) = {}
    BY <2>1, <1>4 DEF OnlyProc, InTx, Inv, OwnerInv
  <2>3. /\ \A t \in tx[p].tenants : t.id # q
        /\ \A c \in tx[p].creds : c.by # q
        /\ \A t \in tx[p].tokens : t.by # q
    BY <1>1, <2>1 DEF ProcInv, Own
  <2> QED BY <1>6, <2>2, <2>3 DEF Traces
<1>15. CredentialsAreUsable'
  <2> SUFFICES ASSUME NEW c \in db'.creds
               PROVE  /\ \E m \in db'.members : SameUser(m[1], c.user)
                      /\ RequireEmailVerification => \E t \in db'.tokens : SameUser(t.user, c.user)
    BY DEF CredentialsAreUsable
  <2>1. CASE c \in db.creds
    BY <1>6, <2>1 DEF Inv, CredentialsAreUsable
  <2>2. CASE c \in tx[p].creds
    <3>1. c.user = req[p].id
      BY <1>1, <2>2 DEF ProcInv, Own
    <3>2. \E m \in db'.members : SameUser(m[1], req[p].id)
      BY <1>1, <1>6 DEF ProcInv, Progress, SeesMembership, HasCred
    <3>3. RequireEmailVerification => \E t \in db'.tokens : t.user = req[p].id
      BY <1>1, <1>6 DEF ProcInv, Progress
    <3> QED BY <3>1, <3>2, <3>3, ConflictFacts
  <2> QED BY <1>6, <2>1, <2>2
<1>16. RegisteredWasMailed'
  BY <1>1, <1>6 DEF Inv, RegisteredWasMailed, ProcInv, Own, Progress
<1> QED BY <1>7, <1>8, <1>10, <1>12, <1>13, <1>14, <1>15, <1>16 DEF Inv

-----------------------------------------------------------------------------
(* The invariant.                                                            *)

LEMMA InitInv == Init => Inv
<1> SUFFICES ASSUME Init PROVE Inv
  OBVIOUS
<1>1. /\ \A p \in Procs : /\ pc[p] = "new" /\ req[p] = NoRequest /\ resp[p] = "none"
                          /\ tx[p] = NoRows /\ loc[p] = NoLoc /\ ~InTx(p)
      /\ clock = 1 /\ mails = {}
  BY NoRequestOp DEF Init, InTx
<1>2. /\ AreRows(db) /\ db.users = {} /\ db.members = {} /\ db.creds = {} /\ db.tokens = {}
      /\ db.tenants = InitTenants
  <2>1. db = [NoRows EXCEPT !["tenants"] = InitTenants]
    BY DEF Init
  <2>2. /\ db = [f \in Tables |-> db[f]] /\ db["tenants"] = InitTenants
        /\ \A f \in Tables \ {"tenants"} : db[f] = {}
    BY <2>1, NoRowsFields DEF AreRows, Tables
  <2>3. RowsOK(db)
    BY <2>2 DEF RowsOK, Tables, Tenants
  <2> QED BY <2>2, <2>3 DEF AreRows, Tables
<1>3. Shape
  <2>1. NoLoc \in Locs
    BY PendingFinite DEF NoLoc, Locs
  <2> QED BY <1>1, <1>2, <2>1, NoRowsFields DEF Init, Shape
<1>4. ClockInv
  <2>1. Cardinality(Pending) <= Cardinality(Procs)
    BY PendingFinite, FS_Subset DEF Pending
  <2> QED BY <1>1, <2>1, PendingFinite DEF ClockInv
<1>5. ASSUME NEW p \in Procs PROVE ProcInv(p)
  <2>1. Control(p)
    BY <1>1 DEF Control, RegisterSteps
  <2>2. Own(p)
    BY <1>1, NoRowsFields DEF Own, Tables
  <2>3. Progress(p)
    BY <1>1 DEF Progress, MayHaveUser, HasCred
  <2> QED BY <2>1, <2>2, <2>3 DEF ProcInv
<1>6. Keys
  BY <1>1, <1>2, NoRowsFields DEF Keys, Tables
<1>7. MemberInv
  BY <1>1, <1>2 DEF MemberInv, AddsFor
<1>8. OwnerInv
  BY <1>2, TenantsAssumption DEF OwnerInv, Traces
<1>9. CredentialsAreUsable /\ RegisteredWasMailed
  BY <1>2 DEF CredentialsAreUsable, RegisteredWasMailed
<1> QED BY <1>3, <1>4, <1>5, <1>6, <1>7, <1>8, <1>9 DEF Inv

LEMMA Stutters ==
    ASSUME Inv, UNCHANGED vars
    PROVE  Inv'
<1>1. /\ db' = db /\ tx' = tx /\ clock' = clock /\ mails' = mails /\ pc' = pc
      /\ req' = req /\ loc' = loc /\ resp' = resp
  BY DEF vars
<1>2. Shape' /\ ClockInv'
  BY <1>1 DEF Inv, Shape, ClockInv, Pending, Unstarted, InTx
<1>3. ASSUME NEW p \in Procs PROVE ProcInv(p)'
  BY <1>1 DEF Inv, ProcInv, Control, Own, Progress, SeesUser, SeesMembership, InTx
<1>4. Keys' /\ MemberInv' /\ OwnerInv'
  BY <1>1 DEF Inv, Keys, MemberInv, AddsFor, OwnerInv, Traces, InTx
<1>5. CredentialsAreUsable' /\ RegisteredWasMailed'
  BY <1>1 DEF Inv, CredentialsAreUsable, RegisteredWasMailed
<1> QED BY <1>2, <1>3, <1>4, <1>5 DEF Inv

LEMMA NextInv == Inv /\ [Next]_vars => Inv'
<1> SUFFICES ASSUME Inv, [Next]_vars PROVE Inv'
  OBVIOUS
<1>1. ASSUME NEW p \in Procs, NEW r \in Requests, Start(p, r) PROVE Inv'
  BY <1>1, StartStep
<1>2. ASSUME NEW p \in Procs, Step(p) PROVE Inv'
  <2>1. CASE Begin(p) \/ CheckUser(p) \/ CheckCred(p)
    BY <2>1, BeginStep, CheckUserStep, CheckCredStep
  <2>2. CASE GetUserByIdentifier(p) \/ ListMemberships(p) \/ GetFirstTenant(p)
    BY <2>2, GetUserStep, ListMembershipsStep, GetFirstTenantStep
  <2>3. CASE InsertTenant(p) \/ InsertUser(p) \/ CreateMembership(p)
    BY <2>3, InsertTenantStep, InsertUserStep, CreateMembershipStep
  <2>4. CASE VerifyMembership(p) \/ SessionMemberships(p) \/ Send(p)
    BY <2>4, VerifyMembershipStep, SessionMembershipsStep, SendStep
  <2>5. CASE UpsertPasswordCredential(p) \/ IssueToken(p) \/ Commit(p) \/ StatementFails(p)
    BY <2>5, UpsertStep, IssueTokenStep, CommitStep, StatementFailsStep
  <2> QED BY <1>2, <2>1, <2>2, <2>3, <2>4, <2>5 DEF Step
<1>3. CASE Finished \/ UNCHANGED vars
  BY <1>3, Stutters DEF Finished
<1> QED BY <1>1, <1>2, <1>3 DEF Next

LEMMA Invariance == Spec => []Inv
BY InitInv, NextInv, PTL DEF Spec
-----------------------------------------------------------------------------
(* Rows, requests and answers keep their shape for any number of requests,   *)
(* and only a registration under way has uncommitted rows: the deferred      *)
(* Rollback of Register leaves none behind on any return.                    *)
THEOREM TypeCorrectness == Spec => []TypeOK
<1>1. Inv => TypeOK
  BY NoRowsFields DEF Inv, Shape, TypeOK, AreRows, Locs, ProcInv, Own
<1> QED BY <1>1, Invariance, PTL

(* No two users of an issuer share an address, however many registrations and *)
(* OIDC logins race: Register's check of the address is not atomic with the  *)
(* INSERT, the unique indexes over committed and uncommitted rows are what    *)
(* decides.                                                                  *)
THEOREM OneUserPerEmail == Spec => []UniqueEmail
<1>1. Inv => UniqueEmail
  BY ConflictFacts DEF Inv, Keys, UniqueEmail, Conflicts
<1> QED BY <1>1, Invariance, PTL

(* A registration that was not committed, wherever it failed, has left no    *)
(* tenant, credential or token.                                              *)
THEOREM RegistrationIsAtomic == Spec => []NoPartialRegistration
<1>1. Inv => NoPartialRegistration
  BY DEF Inv, OwnerInv, NoPartialRegistration
<1> QED BY <1>1, Invariance, PTL

(* Whoever has a credential has a membership, and a verification token where  *)
(* Register requires one: a user that an OIDC login left without a membership *)
(* never gets as far as UpsertPasswordCredential.                            *)
THEOREM UsableCredentials == Spec => []CredentialsAreUsable
<1>1. Inv => CredentialsAreUsable
  BY DEF Inv
<1> QED BY <1>1, Invariance, PTL

(* Register commits an account only after its verification mail was handed   *)
(* over.                                                                     *)
THEOREM MailBeforeCommit == Spec => []RegisteredWasMailed
<1>1. Inv => RegisteredWasMailed
  BY DEF Inv
<1> QED BY <1>1, Invariance, PTL

(* Nobody is a member of two tenants, although ResolveOrProvisionUser of     *)
(* requests that overlap may create a default tenant each: only the request   *)
(* whose INSERT created the user adds a membership for it.                   *)
THEOREM OneTenantPerUser == Spec => []SingleMembership
<1>1. Inv => SingleMembership
  <2> SUFFICES ASSUME Inv, NEW u \in db.users
               PROVE  Cardinality({m \in db.members : SameUser(m[1], u)}) <= 1
    BY DEF SingleMembership
  <2> DEFINE S == {m \in db.members : SameUser(m[1], u)}
  <2>1. \A m, n \in S : m = n
    BY ConflictFacts DEF Inv, Keys, MemberInv
  <2> HIDE DEF S
  <2>2. S = {} \/ \E m : S = {m}
    BY <2>1
  <2>3. ASSUME NEW m, S = {m} PROVE Cardinality(S) = 1
    BY <2>3, FS_Singleton
  <2>4. CASE S = {}
    <3>1. Cardinality(S) = 0
      BY <2>4, FS_EmptySet
    <3> QED BY <3>1 DEF S
  <2>5. CASE \E m : S = {m}
    <3>1. PICK m : S = {m}
      BY <2>5
    <3>2. Cardinality(S) = 1
      BY <2>3, <3>1
    <3> QED BY <3>2 DEF S
  <2> QED BY <2>2, <2>4, <2>5
<1> QED BY <1>1, Invariance, PTL

(* Nobody waits for a transaction that is over or is itself waiting: a        *)
(* registration writes its user before its credential, so that no two        *)
(* registrations under way hold a key each that the other waits for.          *)
THEOREM NoWaitingChain == Spec => []WaitersAreWoken
<1>1. Inv => WaitersAreWoken
  <2> SUFFICES ASSUME Inv, NEW p \in Procs, NEW q \in WaitsFor(p)
               PROVE  pc[q] # "done" /\ WaitsFor(q) = {}
    BY DEF WaitersAreWoken
  <2>1. /\ q \in Procs /\ q # p
        /\ \/ pc[p] = "insertUser" /\ tx[q].users # {}
           \/ pc[p] = "storeCred" /\ tx[q].creds # {}
    BY DEF WaitsFor, KeyHolders, CredHolders
  <2>2. ProcInv(q) /\ InTx(q)
    BY <2>1, NoRowsFields DEF Inv, ProcInv, Own, Tables
  <2>3. pc[q] \in MayHaveUser
    BY <2>1, <2>2 DEF ProcInv, Own, MayHaveUser
  <2>4. CredHolders(q) = {} \/ pc[q] # "storeCred"
    <3> SUFFICES ASSUME NEW r \in CredHolders(q), pc[q] = "storeCred"
                 PROVE  FALSE
      OBVIOUS
    <3>1. tx[q].users # {}
      BY <2>1, <2>2 DEF ProcInv, Own, HasCred
    <3>2. PICK u \in tx[q].users : u = req[q].id
      BY <2>2, <3>1 DEF ProcInv, Own
    <3>3. /\ r \in Procs /\ r # q /\ ProcInv(r) /\ pc[r] \in HasCred
          /\ SameUser(req[r].id, req[q].id)
      BY DEF CredHolders, Inv, ProcInv, Own
    <3>4. PICK v \in db.users \cup tx[r].users : SameUser(req[r].id, v)
      BY <3>3 DEF ProcInv, Control, RegisterSteps, HasCred, Progress, MayHaveUser, SeesUser
    <3>5. Conflicts(u, v)
      BY <3>2, <3>3, <3>4 DEF SameUser, Conflicts
    <3> QED BY <2>1, <3>3, <3>5 DEF Inv, Keys
  <2>5. pc[q] # "done" /\ pc[q] # "insertUser"
    BY <2>3 DEF MayHaveUser, HasCred
  <2> QED BY <2>4, <2>5 DEF WaitsFor
<1> QED BY <1>1, Invariance, PTL
=============================================================================
