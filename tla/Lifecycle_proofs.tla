--------------------------- MODULE Lifecycle_proofs ---------------------------
(***************************************************************************)
(* How Run starts, for any number of instances, options, sources and retries: *)
(* what a server that accepts requests can rely on, what Close finds, and that *)
(* Application keeps the promise that module Lifecycle states.                 *)
(***************************************************************************)
EXTENDS Application_proofs, WellFoundedInduction

Versions == UNION {Files[s] : s \in Sources}
Configurations == {NeedsOf(o) : o \in UNION {Options[a] : a \in Apps}}

\* A version that is in the table, or that an instance without it may have overtaken.
Passed(m) == \/ m \in applied
             \/ \E c \in Configurations : m \notin c /\ \E n \in applied \cap c : m < n

\* The shape of what Application_proofs leaves out.
StartShape ==
    /\ config = [a \in Apps |-> config[a]]
    /\ sources \in [Apps -> Seq(Sources)]
    /\ next = [a \in Apps |-> next[a]]
    /\ run = [a \in Apps |-> run[a]] /\ \A a \in Apps : run[a] \in 0..MaxRuns[a]
    /\ cancelled \in [Apps -> BOOLEAN] /\ routed \in [Apps -> BOOLEAN]
    /\ closed \in [Apps -> BOOLEAN]
    /\ services = [a \in Apps |-> services[a]]
    /\ otel = [a \in Apps |-> otel[a]]
    /\ \A a \in Apps : otel[a] \in [live : SUBSET (1..MaxRuns[a]), shutdown : 0..MaxRuns[a]]

\* The table: every version below a recorded one was passed.
SchemaInv ==
    /\ applied \subseteq Versions /\ version \in applied \cup {0}
    /\ \A n \in applied, m \in Versions : m < n => Passed(m)

Sourced == {"merge", "check", "next", "apply"}
Migrated == {"services", "password", "modules"}
Connected == {"ping", "sources"} \cup Sourced \cup Migrated \cup {"select", "shutdown", "await", "ok"}

\* What New has accepted.
ConfigInv(a) ==
    pc[a] \notin {"none", "rejected"} =>
        /\ config[a].sources \in Seq(Sources)
        /\ NeedsOf(config[a]) \in Configurations
        /\ config[a].auth = "on" \/ config[a].password => config[a].sessions

\* How far RunMigrations has come.
MigrationInv(a) ==
    /\ pc[a] \in {"none", "rejected"} => sources[a] = <<>>
    /\ pc[a] \notin {"none", "rejected"} => Merged(a) \subseteq NeedsOf(config[a])
    /\ pc[a] \in Sourced => Merged(a) = NeedsOf(config[a])
    /\ pc[a] = "apply" => /\ next[a] \in Merged(a)
                          /\ \A m \in Merged(a) : m < next[a] => Passed(m)
    /\ pc[a] \in Migrated => \A m \in NeedsOf(config[a]) : Passed(m)

\* What the stages of Run leave for the server, and what Close finds.
StageInvariant(a) ==
    /\ pc[a] \in Connected \/ server[a] # "none" => pool[a] # "nil"
    /\ pc[a] = "modules" \/ server[a] # "none" => services[a] = Configured(a)
    /\ pc[a] \in Stages => run[a] # 0
    /\ pc[a] \in {"none", "rejected"} \/ ~config[a].otel => otel[a].live = {}
    /\ pc[a] \in Connected \cup {"connect"} \/ server[a] # "none" =>
          (config[a].otel => otel[a].shutdown = run[a])
    /\ closed[a] => pc[a] \in {"built", "ok", "error"}
    /\ closed[a] /\ server[a] # "none" => run[a] \notin otel[a].live
    /\ pc[a] = "error" /\ ~shut[a] => server[a] \in {"none", "failed"}

StartInv == /\ StartShape /\ SchemaInv
            /\ \A a \in Apps : ConfigInv(a) /\ MigrationInv(a) /\ StageInvariant(a)

-----------------------------------------------------------------------------
\* Sets of versions have a least element, which is the one that goose takes.
LEMMA Minimal ==
    ASSUME NEW R, IsWellFoundedOn(R, Nat), NEW S, S \subseteq Nat, S # {}
    PROVE  \E x \in S : \A y \in S : ~(<<y, x>> \in R)
BY WFMin

LEMMA LeastVersion ==
    ASSUME NEW S, S \subseteq Nat, S # {}
    PROVE  Min(S) \in S /\ \A m \in S : Min(S) <= m
<1> DEFINE R == OpToRel(<, Nat)
<1>1. IsWellFoundedOn(R, Nat)
    BY NatLessThanWellFounded
<1>2. ASSUME NEW x \in Nat, NEW y \in Nat, x < y PROVE <<x, y>> \in R
    BY <1>2 DEF OpToRel
<1> HIDE DEF R
<1>3. PICK x \in S : \A y \in S : ~(<<y, x>> \in R)
    BY <1>1, Minimal
<1>4. ASSUME NEW y \in S PROVE x <= y
    <2>1. x \in Nat /\ y \in Nat /\ ~(y < x)
        BY <1>2, <1>3
    <2> QED BY <2>1
<1> QED BY <1>4 DEF Min

\* Versions are numbers, and those of a configuration are its sources'.
LEMMA VersionFacts ==
    /\ Versions \subseteq Nat \ {0}
    /\ \A a \in Apps : sources[a] \in Seq(Sources) => Merged(a) \subseteq Versions
BY FilesAssumption DEF Versions, Merged

\* ApplyDefaults turns sessions on for whatever needs them and keeps the rest.
LEMMA Defaults ==
    ASSUME NEW a \in Apps, NEW o \in Options[a], ~Rejected(o), NEW c, c = ApplyDefaults(o)
    PROVE  /\ c.sources \in Seq(Sources) /\ NeedsOf(c) \in Configurations
           /\ c.auth = "on" \/ c.password => c.sessions
<1>1. o \in OptionRecords
    BY OptionsAssumption
<1>2. o.auth \in {"off", "on"}
    BY <1>1 DEF OptionRecords, Rejected, ValidateFails
<1>3. /\ c.sources = o.sources /\ c.auth = o.auth /\ c.password = o.password
      /\ o.auth # "off" \/ o.password => c.sessions
    <2> DEFINE sessions == o.sessions \/ o.auth # "off" \/ o.password
    <2>1. c = [o EXCEPT !.sessions = sessions]
        BY DEF ApplyDefaults
    <2>2. o.auth # "off" \/ o.password => sessions
        OBVIOUS
    <2> HIDE DEF sessions
    <2>3. /\ c.sources = o.sources /\ c.auth = o.auth /\ c.password = o.password
          /\ c.sessions = sessions
        BY <1>1, <2>1 DEF OptionRecords
    <2> QED BY <2>2, <2>3
<1>4. NeedsOf(c) = NeedsOf(o)
    BY <1>3 DEF NeedsOf
<1>5. o.sources \in Seq(Sources)
    BY <1>1 DEF OptionRecords
<1> QED BY <1>3, <1>4, <1>5 DEF Configurations

\* AddMigrationSources: the versions of two lists of sources.
LEMMA Appended ==
    ASSUME NEW s \in Seq(Sources), NEW t \in Seq(Sources)
    PROVE  /\ s \o t \in Seq(Sources)
           /\ UNION {Files[(s \o t)[i]] : i \in DOMAIN (s \o t)}
                = (UNION {Files[s[i]] : i \in DOMAIN s}) \cup (UNION {Files[t[i]] : i \in DOMAIN t})
<1>1. /\ s \o t \in Seq(Sources) /\ DOMAIN s = 1..Len(s) /\ DOMAIN t = 1..Len(t)
      /\ DOMAIN (s \o t) = 1..(Len(s) + Len(t)) /\ Len(s) \in Nat /\ Len(t) \in Nat
      /\ \A i \in 1..Len(s) : (s \o t)[i] = s[i]
      /\ \A i \in 1..Len(t) : (s \o t)[Len(s) + i] = t[i]
    OBVIOUS
<1>2. \A i \in DOMAIN (s \o t) : \/ i \in DOMAIN s /\ (s \o t)[i] = s[i]
                                 \/ i - Len(s) \in DOMAIN t /\ (s \o t)[i] = t[i - Len(s)]
    <2> SUFFICES ASSUME NEW i \in 1..(Len(s) + Len(t)), i \notin 1..Len(s)
                 PROVE  i - Len(s) \in 1..Len(t) /\ (s \o t)[i] = t[i - Len(s)]
        BY <1>1
    <2>1. i - Len(s) \in 1..Len(t) /\ Len(s) + (i - Len(s)) = i
        BY <1>1
    <2> QED BY <1>1, <2>1
<1>3. \A i \in DOMAIN s : i \in DOMAIN (s \o t) /\ (s \o t)[i] = s[i]
    BY <1>1
<1>4. \A i \in DOMAIN t : Len(s) + i \in DOMAIN (s \o t) /\ (s \o t)[Len(s) + i] = t[i]
    BY <1>1
<1> DEFINE u == s \o t
<1> HIDE DEF u
<1>5. \A m : (\E i \in DOMAIN u : m \in Files[u[i]])
               <=> \/ \E i \in DOMAIN s : m \in Files[s[i]]
                   \/ \E i \in DOMAIN t : m \in Files[t[i]]
    BY <1>2, <1>3, <1>4 DEF u
<1>6. UNION {Files[u[i]] : i \in DOMAIN u}
        = (UNION {Files[s[i]] : i \in DOMAIN s}) \cup (UNION {Files[t[i]] : i \in DOMAIN t})
    BY <1>5
<1> QED BY <1>1, <1>6 DEF u
-----------------------------------------------------------------------------
\* A step of one instance.  What the others rely on is kept by a table that grows.
OnlyApp(a) ==
    \A b \in Apps \ {a} :
        /\ pc'[b] = pc[b] /\ pool'[b] = pool[b] /\ sources'[b] = sources[b] /\ next'[b] = next[b]
        /\ config'[b] = config[b] /\ run'[b] = run[b] /\ otel'[b] = otel[b]
        /\ services'[b] = services[b] /\ server'[b] = server[b] /\ shut'[b] = shut[b]
        /\ closed'[b] = closed[b]

AppInv(a) == ConfigInv(a) /\ MigrationInv(a) /\ StageInvariant(a)

LEMMA PassedStays ==
    ASSUME applied \subseteq applied', NEW m, Passed(m)
    PROVE  Passed(m)'
BY DEF Passed, Configurations, NeedsOf

LEMMA SameSources ==
    ASSUME NEW a \in Apps, sources'[a] = sources[a], config'[a] = config[a]
    PROVE  Merged(a)' = Merged(a) /\ NeedsOf(config[a])' = NeedsOf(config[a])
BY DEF Merged, NeedsOf

LEMMA OtherApps ==
    ASSUME StartInv, NEW a \in Apps, OnlyApp(a), applied \subseteq applied', NEW b \in Apps \ {a}
    PROVE  AppInv(b)'
<1>1. /\ pc'[b] = pc[b] /\ pool'[b] = pool[b] /\ sources'[b] = sources[b] /\ next'[b] = next[b]
      /\ config'[b] = config[b] /\ run'[b] = run[b] /\ otel'[b] = otel[b]
      /\ services'[b] = services[b] /\ server'[b] = server[b] /\ shut'[b] = shut[b]
      /\ closed'[b] = closed[b] /\ AppInv(b)
    BY DEF OnlyApp, StartInv, AppInv
<1>2. ConfigInv(b)'
    <2>1. NeedsOf(config[b])' = NeedsOf(config[b])
        BY <1>1, SameSources
    <2> QED BY <1>1, <2>1 DEF AppInv, ConfigInv
<1>3. MigrationInv(b)'
    <2>1. Merged(b)' = Merged(b) /\ NeedsOf(config[b])' = NeedsOf(config[b])
        BY <1>1, SameSources
    <2>2. \A m : Passed(m) => Passed(m)'
        BY PassedStays
    <2> QED BY <1>1, <2>1, <2>2 DEF AppInv, MigrationInv
<1>4. StageInvariant(b)'
    BY <1>1 DEF AppInv, StageInvariant, Configured
<1> QED BY <1>2, <1>3, <1>4 DEF AppInv

LEMMA SameSchema == SchemaInv /\ UNCHANGED database => SchemaInv'
BY DEF SchemaInv, database, Passed, Configurations, NeedsOf

\* The step of an instance that leaves the table alone.
LEMMA OwnStep ==
    ASSUME StartInv, NEW a \in Apps, OnlyApp(a), UNCHANGED database, StartShape', AppInv(a)'
    PROVE  StartInv'
BY OtherApps, SameSchema DEF StartInv, AppInv, database

-----------------------------------------------------------------------------
\* New.
LEMMA InitStart == Init => StartInv
<1> SUFFICES ASSUME Init PROVE StartInv
    OBVIOUS
<1>1. \A a \in Apps : MaxRuns[a] \in Nat
    BY MaxRunsAssumption
<1>2. StartShape
    BY <1>1 DEF Init, DatabaseInit, StartShape, NoTelemetry
<1>3. SchemaInv
    BY DEF Init, DatabaseInit, SchemaInv
<1>4. ASSUME NEW a \in Apps PROVE ConfigInv(a) /\ MigrationInv(a)
    BY DEF Init, DatabaseInit, ConfigInv, MigrationInv, Sourced, Migrated
<1>5. ASSUME NEW a \in Apps PROVE StageInvariant(a)
    BY DEF Init, DatabaseInit, NoTelemetry, StageInvariant, Connected, Sourced, Migrated, Stages
<1> QED BY <1>2, <1>3, <1>4, <1>5 DEF StartInv

LEMMA NewStart ==
    ASSUME Inv, StartInv, NEW a \in Apps, NEW o \in Options[a], New(a, o)
    PROVE  StartInv'
<1>1. /\ Shape /\ StartShape /\ AppInv(a) /\ ServerInv(a) /\ pc[a] = "none"
      /\ UNCHANGED <<database, manager, run, cancelled, otel, services, routed, serving, closed>>
    BY DEF New, At, Inv, StartInv, AppInv
<1>2. /\ pc'[a] \in {"rejected", "built"} /\ pc' = [pc EXCEPT ![a] = pc'[a]]
      /\ config' = [config EXCEPT ![a] = config'[a]]
      /\ pc'[a] = "built" => ~Rejected(o) /\ config'[a] = ApplyDefaults(o)
    BY <1>1 DEF New, Goto, Shape, StartShape
<1>3. OnlyApp(a)
    BY <1>1, <1>2 DEF OnlyApp, manager, serving, Shape, StartShape
<1>4. StartShape'
    BY <1>1, <1>2 DEF StartShape, manager
<1>5. ConfigInv(a)'
    <2>1. CASE pc'[a] = "rejected"
        BY <2>1 DEF ConfigInv
    <2>2. CASE pc'[a] = "built"
        <3> DEFINE c == config'[a]
        <3>1. c = ApplyDefaults(o) /\ ~Rejected(o)
            BY <1>2, <2>2
        <3> HIDE DEF c
        <3>2. /\ c.sources \in Seq(Sources) /\ NeedsOf(c) \in Configurations
              /\ c.auth = "on" \/ c.password => c.sessions
            BY <3>1, Defaults
        <3> QED BY <3>2 DEF ConfigInv, c, NeedsOf
    <2> QED BY <1>2, <2>1, <2>2
<1>6. MigrationInv(a)'
    BY <1>1, <1>2 DEF AppInv, MigrationInv, Merged, manager, Sourced, Migrated
<1>7. StageInvariant(a)'
    BY <1>1, <1>2 DEF AppInv, StageInvariant, manager, serving, Connected, Sourced, Migrated, Stages, ServerInv
<1> QED BY <1>1, <1>3, <1>4, <1>5, <1>6, <1>7, OwnStep DEF AppInv

-----------------------------------------------------------------------------
\* Run.
LEMMA RunStart ==
    ASSUME Inv, StartInv, NEW a \in Apps, Run(a)
    PROVE  StartInv'
<1>1. /\ Shape /\ StartShape /\ AppInv(a) /\ ServerInv(a) /\ pc[a] \in {"built", "error"}
      /\ UNCHANGED <<database, manager, config, otel, services, routed, serving, closed>>
      /\ run' = [run EXCEPT ![a] = @ + 1] /\ run[a] < MaxRuns[a]
      /\ cancelled' = [cancelled EXCEPT ![a] = FALSE] /\ ~closed[a]
      /\ pc' = [pc EXCEPT ![a] = "otel"] /\ server[a] = "none"
    BY DEF Run, At, Goto, Inv, StartInv, AppInv, ServerInv
<1>2. /\ OnlyApp(a) /\ pc'[a] = "otel" /\ run'[a] = run[a] + 1
    BY <1>1 DEF OnlyApp, manager, serving, Shape, StartShape
<1>3. MaxRuns[a] \in Nat /\ run[a] \in 0..MaxRuns[a]
    BY <1>1, MaxRunsAssumption DEF StartShape
<1>4. StartShape'
    <2>1. run'[a] \in 0..MaxRuns[a]
        BY <1>1, <1>2, <1>3
    <2>2. run' = [b \in Apps |-> run'[b]] /\ \A b \in Apps \ {a} : run'[b] = run[b]
        BY <1>1 DEF StartShape
    <2>3. \A b \in Apps : run'[b] \in 0..MaxRuns[b]
        BY <1>1, <2>1, <2>2 DEF StartShape
    <2> QED BY <1>1, <2>2, <2>3 DEF StartShape, manager
<1>5. ConfigInv(a)'
    BY <1>1, <1>2 DEF AppInv, ConfigInv, NeedsOf
<1>6. MigrationInv(a)'
    <2>1. Merged(a)' = Merged(a) /\ NeedsOf(config[a])' = NeedsOf(config[a])
        BY <1>1, SameSources DEF manager
    <2> QED BY <1>1, <1>2, <2>1 DEF AppInv, MigrationInv, Sourced, Migrated
<1>7. StageInvariant(a)'
    BY <1>1, <1>2, <1>3 DEF AppInv, StageInvariant, manager, serving, Connected, Sourced, Migrated
<1> QED BY <1>1, <1>2, <1>4, <1>5, <1>6, <1>7, OwnStep DEF AppInv

\* A stage that connects, reads the table or asks the provider.
LEMMA StageStart ==
    ASSUME Inv, StartInv, NEW a \in Apps, NEW label \in Stages \cup {"error", "panic"},
           pc[a] \in Stages, Goto(a, label),
           UNCHANGED <<database, sources, config, run, cancelled, otel, services, routed, serving, closed>>,
           pool' = [pool EXCEPT ![a] = pool'[a]], next' = [next EXCEPT ![a] = next'[a]],
           pool[a] # "nil" => pool'[a] # "nil",
           label \notin {"otel", "modules"},
           label \in Connected => pool'[a] # "nil",
           label \in Connected \cup {"connect"} => pc[a] \in Connected \cup {"connect"},
           label \in Sourced => Merged(a) = NeedsOf(config[a]),
           label = "apply" => /\ next'[a] \in Merged(a)
                              /\ \A m \in Merged(a) : m < next'[a] => Passed(m),
           label \in Migrated => \A m \in NeedsOf(config[a]) : Passed(m)
    PROVE  StartInv'
<1>1. /\ Shape /\ StartShape /\ AppInv(a) /\ ServerInv(a)
      /\ pc' = [pc EXCEPT ![a] = label]
    BY DEF Goto, Inv, StartInv, AppInv
<1>2. /\ OnlyApp(a) /\ pc'[a] = label
    BY <1>1 DEF OnlyApp, serving, Shape, StartShape
<1>3. StartShape'
    BY <1>1 DEF StartShape
<1>4. pc[a] \notin {"none", "rejected", "error", "built", "ok"} /\ server[a] = "none"
    BY <1>1 DEF Stages, ServerInv
<1>5. ConfigInv(a)'
    BY <1>1, <1>2, <1>4 DEF AppInv, ConfigInv, NeedsOf
<1>6. MigrationInv(a)'
    <2>1. Merged(a)' = Merged(a) /\ NeedsOf(config[a])' = NeedsOf(config[a])
        BY DEF Merged, NeedsOf
    <2>2. Merged(a) \subseteq NeedsOf(config[a])
        BY <1>1, <1>4 DEF AppInv, MigrationInv
    <2>3. \A m : Passed(m) => Passed(m)'
        BY PassedStays DEF database
    <2>4. pc'[a] \notin {"none", "rejected"}
        BY <1>2 DEF Stages
    <2> QED BY <1>2, <2>1, <2>2, <2>3, <2>4 DEF MigrationInv
<1>7. StageInvariant(a)'
    <2>1. Configured(a)' = Configured(a)
        BY DEF Configured
    <2>2. ~closed[a]
        BY <1>1, <1>4 DEF AppInv, StageInvariant
    <2> QED BY <1>1, <1>2, <1>4, <2>1, <2>2
            DEF AppInv, StageInvariant, serving, Connected, Sourced, Migrated, Stages
<1> QED BY <1>1, <1>2, <1>3, <1>5, <1>6, <1>7, OwnStep DEF AppInv

LEMMA SetupStart ==
    ASSUME Inv, StartInv, NEW a \in Apps, SetupOTEL(a)
    PROVE  StartInv'
<1>1. /\ Shape /\ StartShape /\ AppInv(a) /\ ServerInv(a) /\ pc[a] = "otel"
      /\ UNCHANGED <<database, manager, config, run, cancelled, services, routed, serving, closed>>
    BY DEF SetupOTEL, At, Inv, StartInv, AppInv
<1>2. /\ pc'[a] \in {"connect", "error"} /\ pc' = [pc EXCEPT ![a] = pc'[a]]
      /\ otel' = [otel EXCEPT ![a] = otel'[a]]
    BY <1>1 DEF SetupOTEL, Goto, Shape, StartShape
<1>3. /\ run[a] \in 1..MaxRuns[a] /\ MaxRuns[a] \in Nat
      /\ otel[a] \in [live : SUBSET (1..MaxRuns[a]), shutdown : 0..MaxRuns[a]]
    BY <1>1, MaxRunsAssumption DEF StartShape, AppInv, StageInvariant, Stages
<1>4. /\ otel'[a] \in [live : SUBSET (1..MaxRuns[a]), shutdown : 0..MaxRuns[a]]
      /\ ~config[a].otel => otel'[a] = otel[a]
      /\ config[a].otel /\ pc'[a] = "connect" => otel'[a].shutdown = run[a]
    <2>1. CASE UNCHANGED otel /\ (pc'[a] = "connect" => ~config[a].otel)
        BY <1>3, <2>1
    <2>2. CASE config[a].otel /\ pc'[a] = "error" /\ otel' = [otel EXCEPT ![a].live = @ \cup {run[a]}]
        <3>1. otel'[a] = [live |-> otel[a].live \cup {run[a]}, shutdown |-> otel[a].shutdown]
            BY <1>1, <1>3, <2>2 DEF StartShape
        <3> QED BY <1>3, <2>2, <3>1
    <2>3. CASE config[a].otel
               /\ otel' = [otel EXCEPT ![a] = [live |-> @.live \cup {run[a]}, shutdown |-> run[a]]]
        <3>1. otel'[a] = [live |-> otel[a].live \cup {run[a]}, shutdown |-> run[a]]
            BY <1>1, <2>3 DEF StartShape
        <3> QED BY <1>3, <2>3, <3>1
    <2> QED BY <1>1, <1>2, <2>1, <2>2, <2>3 DEF SetupOTEL, Goto, Shape
<1>5. OnlyApp(a)
    BY <1>1, <1>2 DEF OnlyApp, manager, serving, Shape, StartShape
<1>6. StartShape'
    BY <1>1, <1>2, <1>4 DEF StartShape, manager
<1>7. server[a] = "none" /\ ~closed[a]
    BY <1>1 DEF AppInv, StageInvariant, ServerInv
<1>8. ConfigInv(a)'
    BY <1>1, <1>2 DEF AppInv, ConfigInv, NeedsOf
<1>9. MigrationInv(a)'
    <2>1. Merged(a)' = Merged(a) /\ NeedsOf(config[a])' = NeedsOf(config[a])
        BY <1>1, SameSources DEF manager
    <2> QED BY <1>1, <1>2, <2>1 DEF AppInv, MigrationInv, Sourced, Migrated
<1>10. StageInvariant(a)'
    BY <1>1, <1>2, <1>3, <1>4, <1>7 DEF AppInv, StageInvariant, manager, serving, Connected, Sourced, Migrated
<1> QED BY <1>1, <1>5, <1>6, <1>8, <1>9, <1>10, OwnStep DEF AppInv

LEMMA ConnectStart ==
    ASSUME Inv, StartInv, NEW a \in Apps, Connect(a) \/ Ping(a),
           UNCHANGED <<setup, cancelled, serving, closed>>
    PROVE  StartInv'
<1>1. /\ pc[a] \in {"connect", "ping"} /\ pc[a] \in Stages
      /\ UNCHANGED <<database, sources, next>> /\ Shape /\ StartShape
      /\ pc[a] = "ping" => pool[a] # "nil"
    BY DEF Connect, Ping, At, manager, Stages, Inv, StartInv, StageInvariant, Connected
<1>2. PICK label \in {"ping", "sources", "error"} : Goto(a, label)
    BY DEF Connect, Ping
<1>3. /\ pool' = [pool EXCEPT ![a] = pool'[a]] /\ next' = [next EXCEPT ![a] = next'[a]]
      /\ pool[a] # "nil" => pool'[a] # "nil"
      /\ label # "error" => pool'[a] # "nil"
    <2>1. label = pc'[a]
        BY <1>1, <1>2 DEF Goto, Shape
    <2> QED BY <1>1, <2>1 DEF Connect, Ping, At, Goto, Shape, StartShape, manager
<1>4. /\ label \in Stages \cup {"error", "panic"} /\ label \notin Sourced \cup Migrated
      /\ label \notin {"otel", "modules", "apply"}
      /\ label \in Connected => pool'[a] # "nil"
      /\ pc[a] \in Connected \cup {"connect"}
    BY <1>1, <1>2, <1>3 DEF Stages, Sourced, Migrated, Connected
<1> QED BY <1>1, <1>2, <1>3, <1>4, StageStart DEF setup

LEMMA SourcesStart ==
    ASSUME Inv, StartInv, NEW a \in Apps, AddMigrationSources(a, config[a].sources),
           UNCHANGED <<setup, cancelled, serving, closed>>
    PROVE  StartInv'
<1>1. /\ Shape /\ StartShape /\ AppInv(a) /\ ServerInv(a) /\ pc[a] = "sources"
      /\ UNCHANGED <<database, pool, next, setup, cancelled, serving, closed>>
      /\ sources' = [sources EXCEPT ![a] = @ \o config[a].sources]
      /\ pc' = [pc EXCEPT ![a] = "merge"]
    BY DEF AddMigrationSources, At, Goto, Inv, StartInv, AppInv
<1>2. config[a].sources \in Seq(Sources) /\ sources[a] \in Seq(Sources)
    BY <1>1 DEF AppInv, ConfigInv, StartShape
<1>3. /\ sources'[a] = sources[a] \o config[a].sources /\ pc'[a] = "merge"
      /\ \A b \in Apps \ {a} : sources'[b] = sources[b]
      /\ OnlyApp(a)
    BY <1>1 DEF OnlyApp, setup, serving, Shape, StartShape
<1>4. StartShape'
    <2>1. sources' \in [Apps -> Seq(Sources)]
        BY <1>1, <1>2, Appended DEF StartShape
    <2> QED BY <1>1, <2>1 DEF StartShape, setup
<1>5. ConfigInv(a)'
    BY <1>1, <1>3 DEF AppInv, ConfigInv, NeedsOf, setup
<1>6. MigrationInv(a)'
    <2> DEFINE added == config[a].sources
    <2>0. sources'[a] = sources[a] \o added
        BY <1>3
    <2>1. Merged(a)' = UNION {Files[(sources[a] \o added)[i]] : i \in DOMAIN (sources[a] \o added)}
        BY <2>0 DEF Merged
    <2>a. NeedsOf(config[a])' = NeedsOf(config[a])
        BY <1>1 DEF NeedsOf, setup
    <2>b. /\ Merged(a) = UNION {Files[sources[a][i]] : i \in DOMAIN sources[a]}
          /\ NeedsOf(config[a]) = UNION {Files[added[i]] : i \in DOMAIN added}
        BY DEF Merged, NeedsOf
    <2>2. Merged(a)' = Merged(a) \cup NeedsOf(config[a])
        <3> DEFINE s == sources[a]
        <3>1. s \in Seq(Sources) /\ added \in Seq(Sources)
            BY <1>2
        <3> HIDE DEF s, added
        <3>2. UNION {Files[(s \o added)[i]] : i \in DOMAIN (s \o added)}
                = (UNION {Files[s[i]] : i \in DOMAIN s}) \cup (UNION {Files[added[i]] : i \in DOMAIN added})
            BY <3>1, Appended
        <3> QED BY <2>1, <2>b, <3>2 DEF s
    <2>3. Merged(a) \subseteq NeedsOf(config[a])
        BY <1>1 DEF AppInv, MigrationInv
    <2> QED BY <1>3, <2>a, <2>2, <2>3 DEF MigrationInv, Migrated
<1>7. StageInvariant(a)'
    <2>1. Configured(a)' = Configured(a)
        BY <1>1 DEF Configured, setup
    <2>2. server[a] = "none" /\ ~closed[a]
        BY <1>1 DEF AppInv, StageInvariant, ServerInv
    <2> QED BY <1>1, <1>3, <2>1, <2>2
            DEF AppInv, StageInvariant, setup, serving, Connected, Sourced, Migrated, Stages
<1> QED BY <1>1, <1>3, <1>4, <1>5, <1>6, <1>7, OwnStep DEF AppInv

\* goose: whatever is not later than the recorded version was passed.
LEMMA NotLater ==
    ASSUME StartInv, NEW a \in Apps, NEW m \in Merged(a), m \notin Later(a)
    PROVE  Passed(m)
<1>1. m \in Versions /\ m \in Nat \ {0} /\ version \in applied \cup {0} /\ applied \subseteq Nat \ {0}
    BY VersionFacts DEF StartInv, StartShape, SchemaInv
<1>2. m <= version
    BY <1>1 DEF Later
<1>3. version \in applied
    BY <1>1, <1>2
<1>4. CASE m = version
    BY <1>3, <1>4 DEF Passed
<1>5. CASE m < version
    BY <1>1, <1>3, <1>5 DEF StartInv, SchemaInv
<1> QED BY <1>1, <1>2, <1>4, <1>5
LEMMA ReadTableStart ==
    ASSUME Inv, StartInv, NEW a \in Apps,
           MergeMigrationSources(a) \/ CheckMissing(a) \/ NextMigration(a),
           UNCHANGED <<setup, cancelled, serving, closed>>
    PROVE  StartInv'
<1>1. /\ pc[a] \in Sourced /\ UNCHANGED <<database, pool, sources>>
      /\ Shape /\ StartShape /\ AppInv(a) /\ Merged(a) = NeedsOf(config[a])
    BY DEF MergeMigrationSources, CheckMissing, NextMigration, At, manager, Sourced,
           Inv, StartInv, AppInv, MigrationInv
<1>2. pool[a] # "nil" /\ pool' = [pool EXCEPT ![a] = pool'[a]] /\ pool'[a] = pool[a]
    BY <1>1 DEF AppInv, StageInvariant, Connected, Shape
<1>3. PICK label \in {"services", "check", "next", "apply", "error"} : Goto(a, label)
    BY DEF MergeMigrationSources, CheckMissing, NextMigration
<1>4. pc'[a] = label
    BY <1>1, <1>3 DEF Goto, Shape
<1>5. next' = [next EXCEPT ![a] = next'[a]]
    BY <1>1 DEF MergeMigrationSources, CheckMissing, NextMigration, manager, StartShape
<1>6. label = "services" => \A m \in NeedsOf(config[a]) : Passed(m)
    <2> SUFFICES ASSUME label = "services" PROVE \A m \in Merged(a) : Passed(m)
        BY <1>1
    <2>1. CASE MergeMigrationSources(a)
        <3>1. sources[a] = <<>>
            BY <1>1, <1>4, <2>1 DEF MergeMigrationSources, Goto, Shape
        <3> QED BY <3>1 DEF Merged
    <2>2. CASE CheckMissing(a)
        BY <1>1, <1>4, <2>2 DEF CheckMissing, Goto, Shape
    <2>3. CASE NextMigration(a)
        <3>1. Later(a) = {}
            BY <1>1, <1>4, <2>3 DEF NextMigration, Goto, Shape
        <3> QED BY <3>1, NotLater
    <2> QED BY <2>1, <2>2, <2>3
<1>7. label = "apply" => /\ next'[a] \in Merged(a)
                         /\ \A m \in Merged(a) : m < next'[a] => Passed(m)
    <2> SUFFICES ASSUME label = "apply"
                 PROVE  /\ next'[a] \in Merged(a)
                        /\ \A m \in Merged(a) : m < next'[a] => Passed(m)
        OBVIOUS
    <2>1. Later(a) # {} /\ next'[a] = Min(Later(a))
        BY <1>1, <1>4 DEF MergeMigrationSources, CheckMissing, NextMigration, Goto, Shape, StartShape
    <2>2. Later(a) \subseteq Merged(a) /\ Merged(a) \subseteq Nat
        BY <1>1, VersionFacts DEF Later, StartShape
    <2>3. next'[a] \in Later(a) /\ \A m \in Later(a) : next'[a] <= m
        BY <2>1, <2>2, LeastVersion
    <2>4. ASSUME NEW m \in Merged(a), m < next'[a] PROVE m \notin Later(a)
        BY <2>2, <2>3, <2>4
    <2> QED BY <2>2, <2>3, <2>4, NotLater
<1>8. /\ label \in Stages \cup {"error", "panic"} /\ pc[a] \in Stages
      /\ label \notin {"otel", "modules"} /\ pc[a] \in Connected \cup {"connect"}
      /\ label \in Migrated => label = "services"
    BY <1>1 DEF Stages, Sourced, Migrated, Connected
<1> QED BY <1>1, <1>2, <1>3, <1>5, <1>6, <1>7, <1>8, StageStart DEF setup

\* A migration that is recorded, also one that another instance has recorded already.
LEMMA ApplyStart ==
    ASSUME Inv, StartInv, NEW a \in Apps, ApplyMigration(a),
           UNCHANGED <<setup, cancelled, serving, closed>>
    PROVE  StartInv'
<1>1. /\ Shape /\ StartShape /\ SchemaInv /\ AppInv(a) /\ ServerInv(a) /\ pc[a] = "apply"
      /\ UNCHANGED <<pool, sources, setup, cancelled, serving, closed>>
      /\ next' = [next EXCEPT ![a] = 0]
    BY DEF ApplyMigration, At, Inv, StartInv, AppInv
<1>2. /\ pc'[a] \in {"next", "error"} /\ pc' = [pc EXCEPT ![a] = pc'[a]]
      /\ \/ applied' = applied \cup {next[a]} /\ version' = next[a]
         \/ UNCHANGED database
    BY <1>1 DEF ApplyMigration, Goto, Shape
<1>3. /\ next[a] \in Merged(a) /\ Merged(a) = NeedsOf(config[a])
      /\ \A m \in Merged(a) : m < next[a] => Passed(m)
      /\ NeedsOf(config[a]) \in Configurations /\ next[a] \in Versions
    BY <1>1, VersionFacts DEF AppInv, MigrationInv, ConfigInv, Sourced, StartShape
<1>4. SchemaInv' /\ applied \subseteq applied'
    <2>1. CASE UNCHANGED database
        BY <1>1, <2>1, SameSchema DEF database
    <2>2. CASE applied' = applied \cup {next[a]} /\ version' = next[a]
        <3>1. ASSUME NEW m \in Versions, m < next[a] PROVE Passed(m)'
            <4>1. CASE m \in NeedsOf(config[a])
                BY <1>3, <2>2, <3>1, <4>1, PassedStays
            <4>2. CASE m \notin NeedsOf(config[a])
                BY <1>3, <2>2, <3>1, <4>2 DEF Passed
            <4> QED BY <4>1, <4>2
        <3>2. ASSUME NEW n \in applied, NEW m \in Versions, m < n PROVE Passed(m)'
            BY <1>1, <2>2, <3>2, PassedStays DEF SchemaInv
        <3> QED BY <1>1, <1>3, <2>2, <3>1, <3>2 DEF SchemaInv
    <2> QED BY <1>2, <2>1, <2>2
<1>5. OnlyApp(a)
    BY <1>1, <1>2 DEF OnlyApp, setup, serving, Shape, StartShape
<1>6. StartShape'
    BY <1>1 DEF StartShape, setup
<1>7. server[a] = "none" /\ ~closed[a]
    BY <1>1 DEF AppInv, StageInvariant, ServerInv
<1>8. ConfigInv(a)'
    BY <1>1 DEF AppInv, ConfigInv, NeedsOf, setup
<1>9. MigrationInv(a)'
    <2>1. Merged(a)' = Merged(a) /\ NeedsOf(config[a])' = NeedsOf(config[a])
        BY <1>1 DEF Merged, NeedsOf, setup
    <2> QED BY <1>2, <1>3, <2>1 DEF MigrationInv, Migrated
<1>10. StageInvariant(a)'
    <2>1. Configured(a)' = Configured(a)
        BY <1>1 DEF Configured, setup
    <2> QED BY <1>1, <1>2, <1>7, <2>1
            DEF AppInv, StageInvariant, setup, serving, Connected, Sourced, Migrated, Stages
<1> QED BY <1>4, <1>5, <1>6, <1>8, <1>9, <1>10, OtherApps DEF StartInv, AppInv

\* The stages between the migrations and the server.
LEMMA DiscoverStart ==
    ASSUME Inv, StartInv, NEW a \in Apps, Discover(a)
    PROVE  StartInv'
<1>1. /\ pc[a] = "services" /\ UNCHANGED <<database, manager, setup, cancelled, serving, closed>>
      /\ Shape /\ StartShape /\ AppInv(a)
    BY DEF Discover, At, Inv, StartInv, AppInv
<1>2. PICK label \in {"password", "error"} : Goto(a, label)
    BY DEF Discover, NewOIDCAuthenticator
<1>3. /\ pool[a] # "nil" /\ \A m \in NeedsOf(config[a]) : Passed(m)
    BY <1>1 DEF AppInv, StageInvariant, MigrationInv, Connected, Migrated
<1>4. /\ label \in Stages \cup {"error", "panic"} /\ pc[a] \in Stages
      /\ label \notin {"otel", "modules", "apply"} /\ pc[a] \in Connected \cup {"connect"}
      /\ label \notin Sourced
    BY <1>1 DEF Stages, Sourced, Migrated, Connected
<1>5. /\ pool' = [pool EXCEPT ![a] = pool'[a]] /\ next' = [next EXCEPT ![a] = next'[a]]
      /\ pool'[a] = pool[a]
    BY <1>1 DEF manager, Shape, StartShape
<1> QED BY <1>1, <1>2, <1>3, <1>4, <1>5, StageStart DEF setup, manager

\* A step that keeps configuration, table and sources, and is in no stage after it.
LEMMA Leaves ==
    ASSUME StartInv, NEW a \in Apps, OnlyApp(a), pc[a] \notin {"none", "rejected"},
           UNCHANGED <<database, sources, next, config, run, cancelled>>,
           pc'[a] \notin {"none", "rejected"} \cup Sourced \cup (Migrated \ {pc[a]}),
           services' = [b \in Apps |-> services'[b]], otel' = [b \in Apps |-> otel'[b]],
           otel'[a] \in [live : SUBSET (1..MaxRuns[a]), shutdown : 0..MaxRuns[a]],
           routed' \in [Apps -> BOOLEAN], closed' \in [Apps -> BOOLEAN], StageInvariant(a)'
    PROVE  StartInv'
<1>1. StartShape /\ AppInv(a)
    BY DEF StartInv, AppInv
<1>2. StartShape'
    <2>1. \A b \in Apps \ {a} : otel'[b] = otel[b]
        BY DEF OnlyApp
    <2> QED BY <1>1, <2>1 DEF StartShape
<1>3. ConfigInv(a)'
    BY <1>1 DEF AppInv, ConfigInv, NeedsOf
<1>4. MigrationInv(a)'
    <2>1. Merged(a)' = Merged(a) /\ NeedsOf(config[a])' = NeedsOf(config[a])
        BY DEF Merged, NeedsOf
    <2>2. \A m : Passed(m) => Passed(m)'
        BY PassedStays DEF database
    <2>3. Merged(a) \subseteq NeedsOf(config[a])
        BY <1>1 DEF AppInv, MigrationInv
    <2>4. pc'[a] # "apply"
        BY DEF Sourced
    <2> QED BY <1>1, <2>1, <2>2, <2>3, <2>4 DEF AppInv, MigrationInv
<1> QED BY <1>2, <1>3, <1>4, OwnStep DEF AppInv

LEMMA RoutesStart ==
    ASSUME Inv, StartInv, NEW a \in Apps, PasswordAndRoutes(a)
    PROVE  StartInv'
<1>1. /\ Shape /\ StartShape /\ AppInv(a) /\ ServerInv(a) /\ pc[a] = "password"
      /\ UNCHANGED <<database, manager, config, run, otel, cancelled, serving, closed>>
    BY DEF PasswordAndRoutes, At, Inv, StartInv, AppInv
<1>2. /\ pc'[a] \in {"error", "panic", "modules"} /\ pc' = [pc EXCEPT ![a] = pc'[a]]
      /\ \/ UNCHANGED services /\ pc'[a] # "modules"
         \/ services' = [services EXCEPT ![a] = Configured(a)]
      /\ routed' \in [Apps -> BOOLEAN]
    <2>1. CASE config[a].password /\ config[a].store = "custom"
        BY <1>1, <2>1 DEF PasswordAndRoutes, Goto, Shape, StartShape
    <2>2. CASE ~(config[a].password /\ config[a].store = "custom")
        <3>1. services' = [services EXCEPT ![a] = Configured(a)]
            BY <2>2 DEF PasswordAndRoutes
        <3>2. CASE MiddlewarePanics(a)
            BY <1>1, <2>2, <3>1, <3>2 DEF PasswordAndRoutes, Goto, Shape, StartShape
        <3>3. CASE ~MiddlewarePanics(a)
            BY <1>1, <2>2, <3>1, <3>3 DEF PasswordAndRoutes, Goto, Shape, StartShape
        <3> QED BY <3>2, <3>3
    <2> QED BY <2>1, <2>2
<1>3. OnlyApp(a) /\ services' = [b \in Apps |-> services'[b]]
    BY <1>1, <1>2 DEF OnlyApp, manager, serving, Shape, StartShape
<1>4. pc'[a] = "modules" => services'[a] = Configured(a)
    BY <1>1, <1>2 DEF StartShape
<1>5. Configured(a)' = Configured(a) /\ server[a] = "none" /\ ~closed[a]
    BY <1>1 DEF Configured, AppInv, StageInvariant, ServerInv
<1>6. StageInvariant(a)'
    BY <1>1, <1>2, <1>4, <1>5
       DEF AppInv, StageInvariant, manager, serving, Connected, Sourced, Migrated, Stages
<1>7. /\ pc'[a] \notin {"none", "rejected"} \cup Sourced
      /\ pc'[a] \in Migrated => pc'[a] = "modules"
      /\ pc[a] \notin {"none", "rejected"}
    BY <1>1, <1>2 DEF Sourced, Migrated
<1>8. \A m \in NeedsOf(config[a]) : Passed(m)
    BY <1>1 DEF AppInv, MigrationInv, Migrated
<1>9. StartShape'
    BY <1>1, <1>2, <1>3 DEF StartShape, manager
<1>10. ConfigInv(a)'
    BY <1>1, <1>7 DEF AppInv, ConfigInv, NeedsOf
<1>11. MigrationInv(a)'
    <2>1. Merged(a)' = Merged(a) /\ NeedsOf(config[a])' = NeedsOf(config[a])
        BY <1>1 DEF Merged, NeedsOf, manager
    <2>2. \A m : Passed(m) => Passed(m)'
        BY <1>1, PassedStays DEF database
    <2>3. Merged(a) \subseteq NeedsOf(config[a]) /\ pc'[a] # "apply"
        BY <1>1, <1>2 DEF AppInv, MigrationInv
    <2> QED BY <1>7, <1>8, <2>1, <2>2, <2>3 DEF MigrationInv
<1> QED BY <1>1, <1>3, <1>6, <1>9, <1>10, <1>11, OwnStep DEF AppInv

LEMMA ModulesStart ==
    ASSUME Inv, StartInv, NEW a \in Apps, Modules(a)
    PROVE  StartInv'
<1>1. /\ Shape /\ StartShape /\ AppInv(a) /\ ServerInv(a) /\ pc[a] = "modules"
      /\ UNCHANGED <<database, manager, config, run, otel, services, cancelled,
                     shut, errCh, request, closed>>
    BY DEF Modules, At, Inv, StartInv, AppInv
<1>2. /\ pc'[a] \in {"error", "select"} /\ pc' = [pc EXCEPT ![a] = pc'[a]]
      /\ \/ UNCHANGED server /\ pc'[a] = "error"
         \/ server' = [server EXCEPT ![a] = "starting"] /\ pc'[a] = "select"
      /\ routed' \in [Apps -> BOOLEAN]
    BY <1>1 DEF Modules, Goto, Shape, StartShape
<1>3. OnlyApp(a)
    BY <1>1, <1>2 DEF OnlyApp, manager, Shape, StartShape
<1>4. Configured(a)' = Configured(a) /\ server[a] = "none" /\ ~closed[a]
    BY <1>1 DEF Configured, AppInv, StageInvariant, ServerInv
<1>5. StageInvariant(a)'
    BY <1>1, <1>2, <1>4 DEF AppInv, StageInvariant, manager, Shape, Connected, Sourced, Migrated, Stages
<1>6. pc'[a] \notin {"none", "rejected"} \cup Sourced \cup (Migrated \ {pc[a]})
    BY <1>2 DEF Sourced, Migrated
<1> QED BY <1>1, <1>2, <1>3, <1>5, <1>6, Leaves DEF manager, StartShape

-----------------------------------------------------------------------------
\* runHTTPServer, its goroutine, the caller and the clients.
LEMMA ReturnStart ==
    ASSUME Inv, StartInv, NEW a \in Apps, Select(a) \/ ShutdownReturns(a) \/ Await(a)
    PROVE  StartInv'
<1>1. /\ Shape /\ StartShape /\ AppInv(a) /\ ServerInv(a)
      /\ pc[a] \in {"select", "shutdown", "await"}
      /\ UNCHANGED <<database, manager, setup, cancelled, server, request, closed>>
    BY DEF Select, ShutdownReturns, Await, serving, At, Inv, StartInv, AppInv
<1>2. /\ pc'[a] \in {"shutdown", "await", "ok", "error"} /\ pc' = [pc EXCEPT ![a] = pc'[a]]
      /\ shut' = shut \/ shut' = [shut EXCEPT ![a] = TRUE]
      /\ pc'[a] = "error" /\ ~shut'[a] => server[a] = "failed"
    <2>1. CASE Select(a)
        <3>1. CASE Receive(a)
            BY <1>1, <2>1, <3>1 DEF Select, Receive, Goto, At, Shape, ServerInv
        <3>2. CASE shut' = [shut EXCEPT ![a] = TRUE] /\ Goto(a, "shutdown")
            BY <1>1, <3>2 DEF Goto, Shape
        <3> QED BY <2>1, <3>1, <3>2 DEF Select
    <2>2. CASE ShutdownReturns(a)
        BY <1>1, <2>2 DEF ShutdownReturns, serving, Goto, At, Shape, ServerInv
    <2>3. CASE Await(a)
        BY <1>1, <2>3 DEF Await, Receive, Goto, At, Shape, ServerInv
    <2> QED BY <2>1, <2>2, <2>3
<1>3. OnlyApp(a)
    <2>1. \A b \in Apps \ {a} : pc'[b] = pc[b] /\ shut'[b] = shut[b]
        BY <1>1, <1>2 DEF Shape
    <2> QED BY <1>1, <2>1 DEF OnlyApp, manager, setup
<1>4. Configured(a)' = Configured(a) /\ ~closed[a]
    BY <1>1 DEF Configured, setup, AppInv, StageInvariant
<1>5. StageInvariant(a)'
    BY <1>1, <1>2, <1>4
       DEF AppInv, StageInvariant, manager, setup, Connected, Sourced, Migrated, Stages
<1>6. pc'[a] \notin {"none", "rejected"} \cup Sourced \cup (Migrated \ {pc[a]})
    BY <1>2 DEF Sourced, Migrated
<1> QED BY <1>1, <1>3, <1>5, <1>6, Leaves DEF manager, setup, StartShape

LEMMA GoroutineStart ==
    ASSUME Inv, StartInv, NEW a \in Apps, Listen(a) \/ ServeReturns(a) \/ Send(a)
    PROVE  StartInv'
<1>1. /\ Shape /\ StartShape /\ AppInv(a) /\ ServerInv(a) /\ server[a] \notin {"none", "failed"}
      /\ UNCHANGED <<database, pc, manager, setup, cancelled, shut, closed>>
    BY DEF Listen, ServeReturns, Send, Inv, StartInv, AppInv
<1>2. server' = [server EXCEPT ![a] = server'[a]] /\ server'[a] # "none"
    BY <1>1 DEF Listen, ServeReturns, Send, Shape
<1>3. OnlyApp(a)
    BY <1>1, <1>2 DEF OnlyApp, manager, setup, Shape
<1>4. Configured(a)' = Configured(a) /\ pc[a] \in {"select", "shutdown", "await", "ok", "error"}
    BY <1>1 DEF Configured, setup, ServerInv
<1>5. StageInvariant(a)'
    BY <1>1, <1>2, <1>4
       DEF AppInv, StageInvariant, manager, setup, Connected, Sourced, Migrated, Stages
<1>6. pc'[a] \notin {"none", "rejected"} \cup Sourced \cup (Migrated \ {pc[a]})
    BY <1>1, <1>4 DEF Sourced, Migrated
<1> QED BY <1>1, <1>3, <1>4, <1>5, <1>6, Leaves DEF manager, setup, StartShape

LEMMA CloseStart ==
    ASSUME Inv, StartInv, NEW a \in Apps, BeginClose(a) \/ Close(a)
    PROVE  StartInv'
<1>1. /\ Shape /\ StartShape /\ AppInv(a) /\ pc[a] \in {"built", "ok", "error"}
      /\ UNCHANGED <<database, pc, sources, next, config, run, services, routed, cancelled, serving>>
    BY DEF BeginClose, Close, setup, Inv, StartInv, AppInv
<1>2. /\ pool' = [pool EXCEPT ![a] = pool'[a]]
      /\ pool[a] # "nil" => pool'[a] # "nil"
      /\ closed' = closed \/ closed' = [closed EXCEPT ![a] = TRUE]
      /\ closed' \in [Apps -> BOOLEAN]
    BY <1>1 DEF BeginClose, Close, Shape, StartShape
<1>3. /\ otel' = [otel EXCEPT ![a] = otel'[a]]
      /\ \/ otel'[a] = otel[a] /\ closed'[a] = closed[a]
         \/ otel'[a] = [otel[a] EXCEPT !.live = @ \ {otel[a].shutdown}]
    <2>1. CASE BeginClose(a)
        BY <1>1, <2>1 DEF BeginClose, setup, StartShape
    <2>2. CASE Close(a)
        <3>1. otel' = [otel EXCEPT ![a] = [otel[a] EXCEPT !.live = @ \ {otel[a].shutdown}]]
            BY <2>2 DEF Close
        <3> QED BY <1>1, <3>1 DEF StartShape
    <2> QED BY <2>1, <2>2
<1>4. /\ otel'[a] \in [live : SUBSET (1..MaxRuns[a]), shutdown : 0..MaxRuns[a]]
      /\ otel'[a].shutdown = otel[a].shutdown /\ otel'[a].live \subseteq otel[a].live
      /\ \/ closed'[a] = closed[a]
         \/ otel[a].shutdown \notin otel'[a].live
    <2> DEFINE t == otel[a]
    <2> DEFINE u == otel'[a]
    <2>1. t \in [live : SUBSET (1..MaxRuns[a]), shutdown : 0..MaxRuns[a]]
        BY <1>1 DEF StartShape
    <2>2. (u = t /\ closed'[a] = closed[a]) \/ u = [t EXCEPT !.live = @ \ {t.shutdown}]
        BY <1>3
    <2> HIDE DEF t, u
    <2>3. CASE u = t /\ closed'[a] = closed[a]
        BY <2>1, <2>3 DEF t, u
    <2>4. CASE u = [t EXCEPT !.live = @ \ {t.shutdown}]
        <3>1. u = [live |-> t.live \ {t.shutdown}, shutdown |-> t.shutdown]
            BY <2>1, <2>4
        <3>2. /\ u \in [live : SUBSET (1..MaxRuns[a]), shutdown : 0..MaxRuns[a]]
              /\ u.shutdown = t.shutdown /\ u.live \subseteq t.live /\ t.shutdown \notin u.live
            BY <2>1, <3>1
        <3> QED BY <3>2 DEF t, u
    <2> QED BY <2>2, <2>3, <2>4
<1>5. OnlyApp(a) /\ otel' = [b \in Apps |-> otel'[b]]
    <2>1. otel' = [b \in Apps |-> otel'[b]] /\ \A b \in Apps \ {a} : otel'[b] = otel[b]
        <3>1. otel = [b \in Apps |-> otel[b]]
            BY <1>1 DEF StartShape
        <3> QED BY <1>3, <3>1
    <2>2. \A b \in Apps \ {a} : pool'[b] = pool[b]
        BY <1>1, <1>2 DEF Shape
    <2>3. \A b \in Apps \ {a} : closed'[b] = closed[b]
        BY <1>1, <1>2 DEF StartShape
    <2> QED BY <1>1, <2>1, <2>2, <2>3 DEF OnlyApp, serving
<1>6. Configured(a)' = Configured(a)
    BY <1>1 DEF Configured
<1>7. StageInvariant(a)'
    <2>1. /\ pc'[a] = pc[a] /\ config'[a] = config[a] /\ run'[a] = run[a]
          /\ services'[a] = services[a] /\ UNCHANGED <<server, shut>>
        BY <1>1 DEF serving
    <2>2. closed'[a] /\ server[a] # "none" => run[a] \notin otel'[a].live
        <3>1. config[a].otel /\ server[a] # "none" => otel[a].shutdown = run[a]
            BY <1>1 DEF AppInv, StageInvariant
        <3>2. pc[a] \in {"none", "rejected"} \/ ~config[a].otel => otel[a].live = {}
            BY <1>1 DEF AppInv, StageInvariant
        <3>3. closed[a] /\ server[a] # "none" => run[a] \notin otel[a].live
            BY <1>1 DEF AppInv, StageInvariant
        <3>4. config[a].otel \/ otel[a].live = {}
            BY <3>2
        <3>5. CASE otel[a].live = {}
            BY <1>4, <3>5
        <3>6. CASE config[a].otel /\ closed'[a] = closed[a]
            BY <1>4, <3>3, <3>6
        <3>7. CASE config[a].otel /\ otel[a].shutdown \notin otel'[a].live
            BY <3>1, <3>7
        <3> QED BY <1>4, <3>4, <3>5, <3>6, <3>7
    <2>3. pc[a] \in {"none", "rejected"} \/ ~config[a].otel => otel'[a].live = {}
        BY <1>1, <1>4 DEF AppInv, StageInvariant
    <2> QED BY <1>1, <1>2, <1>4, <1>6, <2>1, <2>2, <2>3 DEF AppInv, StageInvariant
<1>8. pc[a] \notin {"none", "rejected"} /\ pc'[a] \notin {"none", "rejected"} \cup Sourced \cup Migrated
    BY <1>1 DEF Sourced, Migrated
<1> QED BY <1>1, <1>2, <1>4, <1>5, <1>7, <1>8, Leaves DEF StartShape

LEMMA ExitStart ==
    ASSUME Inv, StartInv, NEW a \in Apps, Exit(a)
    PROVE  StartInv'
<1>1. Shape /\ StartShape
    BY DEF Inv, StartInv
<1>2. /\ pc'[a] = "none" /\ sources'[a] = <<>> /\ otel'[a] = NoTelemetry /\ server'[a] = "none"
      /\ closed'[a] = FALSE /\ UNCHANGED database
    BY <1>1 DEF Exit, Goto, Shape, StartShape
<1>3. OnlyApp(a)
    <2>1. \A b \in Apps \ {a} : /\ pc'[b] = pc[b] /\ pool'[b] = pool[b] /\ server'[b] = server[b]
                                 /\ shut'[b] = shut[b]
        BY <1>1 DEF Exit, Goto, Shape
    <2>2. \A b \in Apps \ {a} : /\ sources'[b] = sources[b] /\ next'[b] = next[b] /\ run'[b] = run[b]
                                 /\ config'[b] = config[b]
        BY <1>1 DEF Exit, StartShape
    <2>3. \A b \in Apps \ {a} : /\ otel'[b] = otel[b] /\ services'[b] = services[b]
                                 /\ closed'[b] = closed[b]
        BY <1>1 DEF Exit, StartShape
    <2> QED BY <2>1, <2>2, <2>3 DEF OnlyApp
<1>4. StartShape'
    <2>1. MaxRuns[a] \in Nat
        BY MaxRunsAssumption
    <2>2. NoTelemetry \in [live : SUBSET (1..MaxRuns[a]), shutdown : 0..MaxRuns[a]]
        BY <2>1 DEF NoTelemetry
    <2>3. /\ otel' = [b \in Apps |-> otel'[b]]
          /\ \A b \in Apps : otel'[b] \in [live : SUBSET (1..MaxRuns[b]), shutdown : 0..MaxRuns[b]]
        BY <1>1, <1>2, <1>3, <2>2 DEF Exit, OnlyApp, StartShape
    <2>4. sources' \in [Apps -> Seq(Sources)]
        <3>1. <<>> \in Seq(Sources)
            OBVIOUS
        <3>2. sources' = [sources EXCEPT ![a] = <<>>] /\ sources \in [Apps -> Seq(Sources)]
            BY <1>1 DEF Exit, StartShape
        <3> HIDE DEF Exit
        <3> QED BY <3>1, <3>2
    <2>5. run' = [b \in Apps |-> run'[b]] /\ \A b \in Apps : run'[b] \in 0..MaxRuns[b]
        <3>1. /\ run' = [run EXCEPT ![a] = 0] /\ run = [b \in Apps |-> run[b]]
              /\ \A b \in Apps : run[b] \in 0..MaxRuns[b]
            BY <1>1 DEF Exit, StartShape
        <3>2. run' = [b \in Apps |-> run'[b]] /\ run'[a] = 0 /\ \A b \in Apps \ {a} : run'[b] = run[b]
            BY <3>1
        <3>3. 0 \in 0..MaxRuns[a]
            BY <2>1
        <3> QED BY <3>1, <3>2, <3>3
    <2>6. /\ config' = [b \in Apps |-> config'[b]] /\ next' = [b \in Apps |-> next'[b]]
          /\ services' = [b \in Apps |-> services'[b]]
        BY <1>1 DEF Exit, StartShape
    <2>7. cancelled' \in [Apps -> BOOLEAN] /\ routed' \in [Apps -> BOOLEAN] /\ closed' \in [Apps -> BOOLEAN]
        BY <1>1 DEF Exit, StartShape
    <2> QED BY <2>3, <2>4, <2>5, <2>6, <2>7 DEF StartShape
<1>5. ConfigInv(a)' /\ MigrationInv(a)'
    BY <1>2 DEF ConfigInv, MigrationInv, Sourced, Migrated
<1>6. StageInvariant(a)'
    BY <1>2 DEF StageInvariant, NoTelemetry, Connected, Sourced, Migrated, Stages
<1> QED BY <1>2, <1>3, <1>4, <1>5, <1>6, OwnStep DEF AppInv

\* Requests, a cancellation and a stuttering step.
LEMMA KeepStart ==
    ASSUME StartInv, UNCHANGED <<database, pc, manager, setup, server, shut, closed>>,
           cancelled' \in [Apps -> BOOLEAN]
    PROVE  StartInv'
<1>1. StartShape' /\ SchemaInv'
    BY SameSchema DEF StartInv, StartShape, manager, setup
<1>2. ASSUME NEW a \in Apps PROVE ConfigInv(a)'
    <2>1. ConfigInv(a) /\ UNCHANGED <<pc, config>>
        BY DEF StartInv, setup
    <2> QED BY <2>1 DEF ConfigInv, NeedsOf
<1>3. ASSUME NEW a \in Apps PROVE MigrationInv(a)'
    <2>1. Merged(a)' = Merged(a) /\ NeedsOf(config[a])' = NeedsOf(config[a])
        BY DEF Merged, NeedsOf, manager, setup
    <2>2. \A m : Passed(m) => Passed(m)'
        BY PassedStays DEF database
    <2> QED BY <2>1, <2>2 DEF StartInv, MigrationInv, manager
<1>4. ASSUME NEW a \in Apps PROVE StageInvariant(a)'
    BY DEF StartInv, StageInvariant, Configured, manager, setup
<1> QED BY <1>1, <1>2, <1>3, <1>4 DEF StartInv

LEMMA StepStart == Inv /\ StartInv /\ [Next]_vars => StartInv'
<1> SUFFICES ASSUME Inv, StartInv, [Next]_vars PROVE StartInv'
    OBVIOUS
<1>1. CASE UNCHANGED vars
    <2>1. cancelled' \in [Apps -> BOOLEAN]
        BY <1>1 DEF vars, StartInv, StartShape
    <2> QED BY <1>1, <2>1, KeepStart DEF vars, serving
<1>2. ASSUME NEW a \in Apps, NEW o \in Options[a], New(a, o) PROVE StartInv'
    BY <1>2, NewStart
<1>3. ASSUME NEW a \in Apps, Run(a) PROVE StartInv'
    BY <1>3, RunStart
<1>4. ASSUME NEW a \in Apps, RunStep(a) PROVE StartInv'
    <2>1. CASE SetupOTEL(a)
        BY <2>1, SetupStart
    <2>2. CASE Database(a)
        <3>1. UNCHANGED <<setup, cancelled, serving, closed>>
            BY <2>2 DEF Database
        <3>2. CASE Connect(a) \/ Ping(a)
            BY <3>1, <3>2, ConnectStart
        <3>3. CASE AddMigrationSources(a, config[a].sources)
            BY <3>1, <3>3, SourcesStart
        <3>4. CASE MergeMigrationSources(a) \/ CheckMissing(a) \/ NextMigration(a)
            BY <3>1, <3>4, ReadTableStart
        <3>5. CASE ApplyMigration(a)
            BY <3>1, <3>5, ApplyStart
        <3> QED BY <2>2, <3>2, <3>3, <3>4, <3>5 DEF Database, RunMigrations
    <2>3. CASE PasswordAndRoutes(a)
        BY <2>3, RoutesStart
    <2>4. CASE Modules(a)
        BY <2>4, ModulesStart
    <2>5. CASE Select(a) \/ ShutdownReturns(a) \/ Await(a)
        BY <2>5, ReturnStart
    <2> QED BY <1>4, <2>1, <2>2, <2>3, <2>4, <2>5 DEF RunStep
<1>5. ASSUME NEW a \in Apps, Discover(a) PROVE StartInv'
    BY <1>5, DiscoverStart
<1>6. ASSUME NEW a \in Apps, Listen(a) \/ ServeReturns(a) \/ Send(a) PROVE StartInv'
    BY <1>6, GoroutineStart
<1>7. ASSUME NEW a \in Apps, Cancel(a) \/ Request(a) PROVE StartInv'
    <2>1. cancelled' \in [Apps -> BOOLEAN]
        BY <1>7 DEF Cancel, Request, StartInv, StartShape
    <2>2. UNCHANGED <<database, pc, manager, setup, server, shut, closed>>
        BY <1>7 DEF Cancel, Request, serving
    <2> QED BY <2>1, <2>2, KeepStart
<1>8. ASSUME NEW a \in Apps, BeginClose(a) \/ Close(a) PROVE StartInv'
    BY <1>8, CloseStart
<1>9. ASSUME NEW a \in Apps, Exit(a) PROVE StartInv'
    BY <1>9, ExitStart
<1> QED BY <1>1, <1>2, <1>3, <1>4, <1>5, <1>6, <1>7, <1>8, <1>9 DEF Next

LEMMA Invariance == Spec => [](Inv /\ StartInv)
BY InitInv, StepInv, InitStart, StepStart, PTL DEF Spec

\* Run, New and the http.Server keep the variables in their shape; the goroutine of
\* runHTTPServer exists from there on, and never during a stage.
THEOREM TypeCorrectness == Spec => []TypeOK
<1>1. Inv /\ StartInv => TypeOK
    <2> SUFFICES ASSUME Inv, StartInv PROVE TypeOK
        OBVIOUS
    <2>1. Shape /\ StartShape /\ SchemaInv
        BY DEF Inv, StartInv
    <2>2. applied \in SUBSET (UNION {Files[s] : s \in Sources}) /\ version \in applied \cup {0}
        BY <2>1 DEF SchemaInv, Versions
    <2>3. ASSUME NEW a \in Apps
          PROVE  /\ pc[a] \in {"select", "shutdown", "await", "ok"} => server[a] # "none"
                 /\ pc[a] \in Stages => server[a] = "none"
        <3>1. ServerInv(a)
            BY DEF Inv
        <3> QED BY <3>1 DEF ServerInv, Stages
    <2> QED BY <2>1, <2>2, <2>3 DEF TypeOK, Shape, StartShape
<1> QED BY <1>1, Invariance, PTL

\* app.go, Run: whatever starts failed before, a server that accepts requests has the
\* services its options ask for, sessions among them when anything needs them, and a pool.
THEOREM StartsAreComplete == Spec => []ServingIsComplete
<1>1. Inv /\ StartInv => ServingIsComplete
    <2> SUFFICES ASSUME Inv, StartInv, NEW a \in Apps, server[a] # "none"
                 PROVE  /\ services[a] = Configured(a)
                        /\ services[a] # {} => "session" \in services[a]
                        /\ pool[a] # "nil"
        BY DEF ServingIsComplete
    <2>1. StageInvariant(a) /\ ConfigInv(a) /\ pc[a] \notin {"none", "rejected"}
        BY DEF Inv, StartInv, ServerInv
    <2>2. services[a] = Configured(a) /\ pool[a] # "nil"
        BY <2>1 DEF StageInvariant
    <2>3. config[a].auth = "on" \/ config[a].password => config[a].sessions
        BY <2>1 DEF ConfigInv
    <2> QED BY <2>2, <2>3 DEF Configured
<1> QED BY <1>1, Invariance, PTL

\* app.go, Close with SetupOTEL: however many starts failed before it, the telemetry of
\* the Run that served is shut down.
THEOREM TelemetryIsShutDown == Spec => []TelemetryIsFlushed
<1>1. StartInv => TelemetryIsFlushed
    BY DEF StartInv, StageInvariant, TelemetryIsFlushed
<1> QED BY <1>1, Invariance, PTL

-----------------------------------------------------------------------------
(* The refinement.  A step of Application is one of Lifecycle or leaves what   *)
(* Lifecycle sees.                                                         *)

Phases == [a \in Apps |-> Phase(a)]
Needed == [a \in Apps |-> Needs(a)]
Open == [a \in Apps |-> request[a] # "none"]
Implemented == [Promise!Next]_(Promise!vars)

\* Phase, of each label of Run.
LEMMA PhaseOf ==
    ASSUME NEW a \in Apps
    PROVE  /\ pc[a] \in {"none", "rejected", "built"} => Phase(a) = "down"
           /\ pc[a] \in Stages => Phase(a) = "starting"
           /\ pc[a] = "select" => Phase(a) = "serving"
           /\ pc[a] \in {"shutdown", "await"} => Phase(a) = "draining"
           /\ pc[a] = "ok" => Phase(a) = "stopped"
           /\ pc[a] \in {"error", "panic"} => Phase(a) = "failed"
BY DEF Phase, Stages

LEMMA Changed ==
    ASSUME NEW f, NEW g, NEW x \in Apps, NEW v, f = [y \in Apps |-> f[y]], g = [y \in Apps |-> g[y]],
           \A y \in Apps \ {x} : f[y] = g[y], f[x] = v
    PROVE  f = [g EXCEPT ![x] = v]
OBVIOUS

LEMMA InitMaps == Init => Promise!Init
<1> SUFFICES ASSUME Init PROVE Promise!Init
    OBVIOUS
<1>1. \A a \in Apps : pc[a] = "none" /\ request[a] = "none"
    BY DEF Init, DatabaseInit
<1>2. \A a \in Apps : Phase(a) = "down" /\ Needs(a) = {}
    BY <1>1, PhaseOf DEF Needs
<1> QED BY <1>1, <1>2 DEF Promise!Init, Init, DatabaseInit

\* What a step of one instance changes in what Lifecycle sees.
LEMMA MoveMaps ==
    ASSUME Inv, NEW a \in Apps, NEW label, pc' = [pc EXCEPT ![a] = label], UNCHANGED <<config, request>>
    PROVE  /\ Phases' = [Phases EXCEPT ![a] = Phase(a)'] /\ Open' = Open
           /\ Phase(a) # "down" /\ Phase(a)' # "down" => Needed' = Needed
<1>1. /\ pc'[a] = label /\ \A b \in Apps \ {a} : pc'[b] = pc[b]
    BY DEF Inv, Shape
<1>2. ASSUME NEW b \in Apps \ {a} PROVE Phase(b)' = Phase(b)
    BY <1>1 DEF Phase
<1>3. ASSUME NEW b \in Apps \ {a} PROVE Needs(b)' = Needs(b)
    BY <1>2 DEF Needs, NeedsOf
<1>4. Phases' = [Phases EXCEPT ![a] = Phase(a)']
    BY <1>2 DEF Phases
<1>5. Open' = Open
    BY DEF Open
<1>6. ASSUME Phase(a) # "down", Phase(a)' # "down" PROVE Needed' = Needed
    <2>1. Needs(a)' = Needs(a)
        BY <1>6 DEF Needs, NeedsOf
    <2> QED BY <1>3, <2>1 DEF Needed
<1> QED BY <1>4, <1>5, <1>6

LEMMA StutterMaps ==
    ASSUME Phases' = Phases, Needed' = Needed, applied' = applied, Open' = Open
    PROVE  Implemented
BY DEF Implemented, Promise!vars, Phases, Needed, Open

\* A step inside Run either goes on in the same phase or fails.
LEMMA FailMaps ==
    ASSUME Inv, NEW a \in Apps, NEW label, pc' = [pc EXCEPT ![a] = label],
           UNCHANGED <<applied, config, request>>,
           Phase(a) \in {"starting", "serving", "draining"},
           \/ Phase(a)' = Phase(a)
           \/ Phase(a)' = "failed"
           \/ Phase(a) = "serving" /\ Phase(a)' = "draining"
    PROVE  Implemented
<1>1. /\ Phases' = [Phases EXCEPT ![a] = Phase(a)'] /\ Open' = Open /\ Needed' = Needed
    BY MoveMaps
<1>2. CASE Phase(a)' = Phase(a)
    <2>1. Phases' = Phases
        BY <1>1, <1>2 DEF Phases
    <2> QED BY <1>1, <2>1, StutterMaps
<1>3. CASE Phase(a)' = "failed"
    <2>1. Promise!Fail(a)
        BY <1>1, <1>3 DEF Promise!Fail, Promise!Move, Phases, Needed, Open
    <2> QED BY <2>1 DEF Implemented, Promise!Next
<1>4. CASE Phase(a) = "serving" /\ Phase(a)' = "draining"
    <2>1. Promise!Drain(a)
        BY <1>1, <1>4 DEF Promise!Drain, Promise!Move, Phases, Needed, Open
    <2> QED BY <2>1 DEF Implemented, Promise!Next
<1> QED BY <1>2, <1>3, <1>4

\* The stages before the server.
LEMMA StageMaps ==
    ASSUME Inv, NEW a \in Apps, NEW label \in Stages \cup {"error", "panic"}, pc[a] \in Stages,
           Goto(a, label), UNCHANGED <<applied, config, request>>
    PROVE  Implemented
<1>1. pc' = [pc EXCEPT ![a] = label] /\ pc'[a] = label
    BY DEF Goto, Inv, Shape
<1>2. Phase(a) = "starting"
    BY PhaseOf
<1>3. Phase(a)' \in {"starting", "failed"}
    BY <1>1 DEF Phase, Stages
<1> QED BY <1>1, <1>2, <1>3, FailMaps

\* New configures an instance that is still down, and Run starts it.
LEMMA NewMaps ==
    ASSUME Inv, StartInv, NEW a \in Apps, NEW o \in Options[a], New(a, o)
    PROVE  Implemented
<1>1. /\ pc[a] = "none" /\ UNCHANGED <<applied, request>> /\ Shape /\ StartShape
      /\ pc' = [pc EXCEPT ![a] = pc'[a]] /\ pc'[a] \in {"rejected", "built"}
      /\ config' = [config EXCEPT ![a] = config'[a]]
    BY DEF New, At, Goto, serving, database, Inv, Shape, StartInv, StartShape
<1>2. \A b \in Apps \ {a} : pc'[b] = pc[b] /\ config'[b] = config[b]
    BY <1>1 DEF Shape, StartShape
<1>3. Phase(a) = "down" /\ Phase(a)' = "down"
    BY <1>1 DEF Phase, Stages
<1>4. \A b \in Apps : Phase(b)' = Phase(b)
    BY <1>2, <1>3 DEF Phase
<1>5. \A b \in Apps : Needs(b)' = Needs(b)
    BY <1>2, <1>3, <1>4 DEF Needs, NeedsOf
<1>6. Phases' = Phases /\ Needed' = Needed /\ Open' = Open
    BY <1>1, <1>4, <1>5 DEF Phases, Needed, Open
<1> QED BY <1>1, <1>6, StutterMaps

LEMMA RunMaps ==
    ASSUME Inv, StartInv, NEW a \in Apps, Run(a)
    PROVE  Implemented
<1>1. /\ UNCHANGED <<applied, config, request>> /\ Shape
      /\ pc[a] \in {"built", "error"} /\ pc' = [pc EXCEPT ![a] = "otel"]
    BY DEF Run, At, Goto, serving, database, Inv
<1>2. /\ Phases' = [Phases EXCEPT ![a] = Phase(a)'] /\ Open' = Open
      /\ Phase(a) # "down" /\ Phase(a)' # "down" => Needed' = Needed
    BY <1>1, MoveMaps
<1>3. Phase(a)' = "starting" /\ Phase(a) \in {"down", "failed"}
    BY <1>1 DEF Shape, Phase, Stages
<1>4. Needs(a)' = NeedsOf(config[a])
    BY <1>1, <1>3 DEF Needs, NeedsOf
<1>5. NeedsOf(config[a]) \in Configurations
    BY <1>1 DEF StartInv, ConfigInv
<1>6. \A b \in Apps \ {a} : Needs(b)' = Needs(b)
    <2>1. ASSUME NEW b \in Apps \ {a} PROVE Needs(b)' = Needs(b)
        <3>1. pc'[b] = pc[b]
            BY <1>1 DEF Shape
        <3>2. Phase(b)' = Phase(b)
            BY <3>1 DEF Phase
        <3> QED BY <1>1, <3>2 DEF Needs, NeedsOf
    <2> QED BY <2>1
<1>7. Needed' = [Needed EXCEPT ![a] = NeedsOf(config[a])]
    BY <1>4, <1>6 DEF Needed
<1>8. Promise!Start(a)
    <2>1. Promise!Move(a, {"down", "failed"}, "starting")
        BY <1>2, <1>3 DEF Promise!Move, Phases
    <2>2. Needed' \in {[Needed EXCEPT ![a] = c] : c \in Configurations}
        BY <1>5, <1>7
    <2>3. Phases[a] = "failed" => Needed' = Needed
        BY <1>2, <1>3 DEF Phases
    <2> QED BY <1>1, <1>2, <2>1, <2>2, <2>3 DEF Promise!Start, Needed, Open, Phases, Configurations
<1> QED BY <1>8 DEF Implemented, Promise!Next

\* A migration that is recorded is one the instance needs.
LEMMA ApplyMaps ==
    ASSUME Inv, StartInv, NEW a \in Apps, ApplyMigration(a),
           UNCHANGED <<setup, cancelled, serving, closed>>
    PROVE  Implemented
<1>1. /\ pc[a] = "apply" /\ UNCHANGED <<config, request>> /\ Shape
      /\ \E label \in {"next", "error"} : Goto(a, label)
      /\ applied' = applied \/ applied' = applied \cup {next[a]}
    BY DEF ApplyMigration, At, setup, serving, database, Inv
<1>2. PICK label \in {"next", "error"} : pc' = [pc EXCEPT ![a] = label]
    BY <1>1 DEF Goto
<1>3. /\ Phases' = [Phases EXCEPT ![a] = Phase(a)'] /\ Open' = Open
      /\ Phase(a) # "down" /\ Phase(a)' # "down" => Needed' = Needed
    BY <1>1, <1>2, MoveMaps
<1>4. Phase(a) = "starting" /\ Phase(a)' \in {"starting", "failed"}
    BY <1>1, <1>2 DEF Shape, Phase, Stages
<1>5. CASE applied' = applied
    BY <1>1, <1>2, <1>4, <1>5, FailMaps
<1>6. CASE applied' = applied \cup {next[a]}
    <2>1. next[a] \in NeedsOf(config[a])
        BY <1>1 DEF StartInv, MigrationInv, Sourced
    <2>2. Needs(a) = NeedsOf(config[a])
        BY <1>4 DEF Needs
    <2>3. next[a] \in Needed[a] /\ Phases[a] = "starting"
        BY <1>4, <2>1, <2>2 DEF Needed, Phases
    <2>4. Promise!Move(a, {"starting"}, "starting") \/ Promise!Move(a, {"starting"}, "failed")
        BY <1>3, <1>4, <2>3 DEF Promise!Move, Phases
    <2>5. Promise!Migrate(a)
        BY <1>3, <1>4, <1>6, <2>3, <2>4 DEF Promise!Migrate, Phases, Needed, Open
    <2> QED BY <2>5 DEF Implemented, Promise!Next
<1> QED BY <1>1, <1>5, <1>6

\* The server starts when nothing that the instance needs is missing, but for what an
\* instance without it may have overtaken.
LEMMA ServeMaps ==
    ASSUME Inv, StartInv, NEW a \in Apps, Modules(a)
    PROVE  Implemented
<1>1. /\ pc[a] = "modules" /\ UNCHANGED <<applied, config, request>> /\ Shape
      /\ Goto(a, "error") \/ Goto(a, "select")
    BY DEF Modules, At, database, Inv
<1>2. CASE Goto(a, "error")
    BY <1>1, <1>2, StageMaps DEF Stages
<1>3. CASE Goto(a, "select")
    <2>1. pc' = [pc EXCEPT ![a] = "select"] /\ pc'[a] = "select"
        BY <1>1, <1>3 DEF Goto, Shape
    <2>2. Phase(a) = "starting" /\ Phase(a)' = "serving"
        BY <1>1, <2>1 DEF Phase, Stages
    <2>3. Phases' = [Phases EXCEPT ![a] = Phase(a)'] /\ Open' = Open /\ Needed' = Needed
        BY <1>1, <2>1, <2>2, MoveMaps
    <2>4. \A m \in NeedsOf(config[a]) : Passed(m)
        BY <1>1 DEF StartInv, MigrationInv, Migrated
    <2>5. Needed[a] = NeedsOf(config[a])
        BY <2>2 DEF Needed, Needs
    <2>6. \A m \in Needed[a] : m \in applied \/ Promise!Overtaken(m)
        BY <2>4, <2>5 DEF Passed, Promise!Overtaken, Configurations
    <2>7. Promise!Serve(a)
        BY <1>1, <2>2, <2>3, <2>6 DEF Promise!Serve, Promise!Move, Phases, Needed, Open
    <2> QED BY <2>7 DEF Implemented, Promise!Next
<1> QED BY <1>1, <1>2, <1>3

\* Run tells its server to stop, and returns nil only when no request is left.
LEMMA SelectMaps ==
    ASSUME Inv, NEW a \in Apps, Select(a) \/ ShutdownReturns(a)
    PROVE  Implemented
<1>1. UNCHANGED <<applied, config, request>> /\ Shape
    BY DEF Select, ShutdownReturns, setup, serving, database, Inv
<1>2. \/ pc[a] = "select" /\ \E label \in {"shutdown", "error"} : Goto(a, label)
      \/ pc[a] = "shutdown" /\ \E label \in {"await", "error"} : Goto(a, label)
    BY DEF Select, Receive, ShutdownReturns, At, Inv, ServerInv
<1>3. PICK label \in {"shutdown", "await", "error"} :
          /\ pc' = [pc EXCEPT ![a] = label]
          /\ \/ pc[a] = "select" /\ label # "await"
             \/ pc[a] = "shutdown" /\ label # "shutdown"
    BY <1>2 DEF Goto
<1>4. pc'[a] = label
    BY <1>1, <1>3 DEF Shape
<1>5. /\ Phase(a) = IF pc[a] = "select" THEN "serving" ELSE "draining"
      /\ Phase(a)' = IF label = "error" THEN "failed" ELSE "draining"
    BY <1>3, <1>4 DEF Phase, Stages
<1> QED BY <1>1, <1>3, <1>5, FailMaps

LEMMA AwaitMaps ==
    ASSUME Inv, NEW a \in Apps, Await(a)
    PROVE  Implemented
<1>1. UNCHANGED <<applied, config, request>> /\ Shape /\ pc[a] = "await" /\ request[a] = "none"
    BY DEF Await, At, setup, database, Inv, Shape, RequestInv
<1>2. PICK label \in {"ok", "error"} : pc' = [pc EXCEPT ![a] = label]
    BY DEF Await, Receive, Goto
<1>3. pc'[a] = label
    BY <1>1, <1>2 DEF Shape
<1>4. Phase(a) = "draining" /\ Phase(a)' = IF label = "ok" THEN "stopped" ELSE "failed"
    BY <1>1, <1>3 DEF Phase, Stages
<1>5. CASE label = "ok"
    <2>1. Phases' = [Phases EXCEPT ![a] = Phase(a)'] /\ Open' = Open /\ Needed' = Needed
        BY <1>1, <1>2, <1>4, MoveMaps
    <2>2. Promise!Stop(a)
        BY <1>1, <1>4, <1>5, <2>1 DEF Promise!Stop, Promise!Move, Phases, Needed, Open
    <2> QED BY <2>2 DEF Implemented, Promise!Next
<1>6. CASE label = "error"
    BY <1>1, <1>2, <1>4, <1>6, FailMaps
<1> QED BY <1>5, <1>6

\* A request is accepted only by an instance that serves: one that reported an error
\* without Shutdown has no listener any more.
LEMMA RequestMaps ==
    ASSUME Inv, StartInv, NEW a \in Apps, Request(a)
    PROVE  Implemented
<1>1. /\ UNCHANGED <<applied, pc, config>> /\ Shape
      /\ request' = [request EXCEPT ![a] = request'[a]]
    BY DEF Request, setup, database, Inv, Shape
<1>2. Phases' = Phases /\ Needed' = Needed
    BY <1>1 DEF Phases, Phase, Needed, Needs, NeedsOf
<1>3. /\ Open = [b \in Apps |-> Open[b]] /\ Open' = [b \in Apps |-> Open'[b]]
      /\ \A b \in Apps \ {a} : request'[b] = request[b]
    BY <1>1 DEF Open, Shape
<1>4. \A b \in Apps \ {a} : Open'[b] = Open[b]
    BY <1>3 DEF Open
<1>5. CASE request[a] = "none"
    <2>1. server[a] = "listening" /\ ~shut[a] /\ request'[a] = "running"
        BY <1>5 DEF Request, Inv, Shape
    <2>2. pc[a] = "select"
        BY <2>1 DEF Inv, StartInv, ServerInv, StageInvariant
    <2>3. Open[a] = FALSE /\ Open'[a] = TRUE
        BY <1>5, <2>1 DEF Open
    <2>4. Open' = [Open EXCEPT ![a] = TRUE]
        BY <1>3, <1>4, <2>3, Changed
    <2>5. Phases[a] = "serving"
        BY <2>2 DEF Phases, Phase, Stages
    <2>6. Promise!Accept(a)
        BY <1>1, <1>2, <2>3, <2>4, <2>5 DEF Promise!Accept, Phases, Needed, Open
    <2> QED BY <2>6 DEF Implemented, Promise!Next
<1>6. CASE request[a] # "none" /\ request'[a] = "none"
    <2>1. Open[a] = TRUE /\ Open'[a] = FALSE
        BY <1>6 DEF Open
    <2>2. Open' = [Open EXCEPT ![a] = FALSE]
        BY <1>3, <1>4, <2>1, Changed
    <2>3. Promise!Answer(a)
        BY <1>1, <1>2, <2>1, <2>2 DEF Promise!Answer, Phases, Needed, Open
    <2> QED BY <2>3 DEF Implemented, Promise!Next
<1>7. CASE request[a] # "none" /\ request'[a] # "none"
    <2>1. Open'[a] = Open[a]
        BY <1>7 DEF Open
    <2>2. Open' = Open
        BY <1>3, <1>4, <2>1
    <2> QED BY <1>1, <1>2, <2>2, StutterMaps
<1> QED BY <1>5, <1>6, <1>7

LEMMA ExitMaps ==
    ASSUME Inv, StartInv, NEW a \in Apps, Exit(a)
    PROVE  Implemented
<1>1. /\ UNCHANGED applied /\ Shape /\ StartShape
      /\ pc' = [pc EXCEPT ![a] = "none"] /\ config' = [config EXCEPT ![a] = NoConfig]
      /\ request' = [request EXCEPT ![a] = "none"]
    BY DEF Exit, Goto, database, Inv, StartInv
<1>2. /\ pc'[a] = "none" /\ request'[a] = "none"
      /\ \A b \in Apps \ {a} : pc'[b] = pc[b] /\ config'[b] = config[b] /\ request'[b] = request[b]
    BY <1>1 DEF Shape, StartShape
<1>3. Phase(a)' = "down" /\ \A b \in Apps \ {a} : Phase(b)' = Phase(b)
    BY <1>2 DEF Phase, Stages
<1>4. Needs(a)' = {} /\ \A b \in Apps \ {a} : Needs(b)' = Needs(b)
    <2>1. \A b \in Apps \ {a} : NeedsOf(config[b])' = NeedsOf(config[b])
        <3>1. ASSUME NEW b \in Apps \ {a} PROVE NeedsOf(config[b])' = NeedsOf(config[b])
            <4>1. config'[b] = config[b]
                BY <1>2
            <4> QED BY <4>1 DEF NeedsOf
        <3> QED BY <3>1
    <2> QED BY <1>3, <2>1 DEF Needs
<1>5. Phases' = [Phases EXCEPT ![a] = "down"] /\ Needed' = [Needed EXCEPT ![a] = {}]
    BY <1>3, <1>4 DEF Phases, Needed
<1>6. Open' = [Open EXCEPT ![a] = FALSE]
    <2>1. Open = [b \in Apps |-> Open[b]] /\ Open' = [b \in Apps |-> Open'[b]]
        BY DEF Open
    <2>2. Open'[a] = FALSE /\ \A b \in Apps \ {a} : Open'[b] = Open[b]
        BY <1>2 DEF Open
    <2> QED BY <2>1, <2>2, Changed
<1>7. Promise!Exit(a)
    BY <1>1, <1>5, <1>6 DEF Promise!Exit, Phases, Needed, Open
<1> QED BY <1>7 DEF Implemented, Promise!Next

\* Whatever happens without Run moving, its options, its requests or the table.
LEMMA HiddenMaps == UNCHANGED <<applied, pc, config, request>> => Implemented
<1> SUFFICES ASSUME UNCHANGED <<applied, pc, config, request>> PROVE Implemented
    OBVIOUS
<1>1. Phases' = Phases /\ Needed' = Needed /\ Open' = Open
    BY DEF Phases, Phase, Needed, Needs, NeedsOf, Open
<1> QED BY <1>1, StutterMaps

LEMMA StepMaps == Inv /\ StartInv /\ [Next]_vars => Implemented
<1> SUFFICES ASSUME Inv, StartInv, [Next]_vars PROVE Implemented
    OBVIOUS
<1>1. CASE UNCHANGED vars
    BY <1>1, HiddenMaps DEF vars, setup, serving, database
<1>2. ASSUME NEW a \in Apps, NEW o \in Options[a], New(a, o) PROVE Implemented
    BY <1>2, NewMaps
<1>3. ASSUME NEW a \in Apps, Run(a) PROVE Implemented
    BY <1>3, RunMaps
<1>4. ASSUME NEW a \in Apps, RunStep(a) PROVE Implemented
    <2>1. CASE SetupOTEL(a)
        <3>1. /\ pc[a] \in Stages /\ UNCHANGED <<applied, config, request>>
              /\ \E label \in Stages \cup {"error", "panic"} : Goto(a, label)
            BY <2>1 DEF SetupOTEL, At, serving, database, Stages
        <3> QED BY <3>1, StageMaps
    <2>2. CASE Database(a)
        <3>1. UNCHANGED <<setup, cancelled, serving, closed>>
            BY <2>2 DEF Database
        <3>2. CASE ApplyMigration(a)
            BY <3>1, <3>2, ApplyMaps
        <3>3. CASE \/ Connect(a) \/ Ping(a) \/ AddMigrationSources(a, config[a].sources)
                   \/ MergeMigrationSources(a) \/ CheckMissing(a) \/ NextMigration(a)
            <4>1. pc[a] \in Stages /\ UNCHANGED database
                BY <3>3 DEF Connect, Ping, AddMigrationSources, MergeMigrationSources, CheckMissing,
                            NextMigration, At, Stages
            <4>2. \E label \in Stages \cup {"error", "panic"} : Goto(a, label)
                BY <3>3 DEF Connect, Ping, AddMigrationSources, MergeMigrationSources, CheckMissing,
                            NextMigration, Stages
            <4> QED BY <3>1, <4>1, <4>2, StageMaps DEF setup, serving, database
        <3> QED BY <2>2, <3>2, <3>3 DEF Database, RunMigrations
    <2>3. CASE PasswordAndRoutes(a)
        <3>1. /\ pc[a] \in Stages /\ UNCHANGED <<applied, config, request>>
              /\ \E label \in Stages \cup {"error", "panic"} : Goto(a, label)
            BY <2>3 DEF PasswordAndRoutes, At, serving, database, Stages
        <3> QED BY <3>1, StageMaps
    <2>4. CASE Modules(a)
        BY <2>4, ServeMaps
    <2>5. CASE Select(a) \/ ShutdownReturns(a)
        BY <2>5, SelectMaps
    <2>6. CASE Await(a)
        BY <2>6, AwaitMaps
    <2> QED BY <1>4, <2>1, <2>2, <2>3, <2>4, <2>5, <2>6 DEF RunStep
<1>5. ASSUME NEW a \in Apps, Discover(a) PROVE Implemented
    <2>1. /\ pc[a] \in Stages /\ UNCHANGED <<applied, config, request>>
          /\ \E label \in Stages \cup {"error", "panic"} : Goto(a, label)
        BY <1>5 DEF Discover, NewOIDCAuthenticator, At, setup, serving, database, Stages
    <2> QED BY <2>1, StageMaps
<1>6. ASSUME NEW a \in Apps, Listen(a) \/ ServeReturns(a) \/ Send(a) PROVE Implemented
    BY <1>6, HiddenMaps DEF Listen, ServeReturns, Send, setup, database
<1>7. ASSUME NEW a \in Apps, Request(a) PROVE Implemented
    BY <1>7, RequestMaps
<1>8. ASSUME NEW a \in Apps, Cancel(a) \/ BeginClose(a) \/ Close(a) PROVE Implemented
    BY <1>8, HiddenMaps DEF Cancel, BeginClose, Close, setup, serving, database
<1>9. ASSUME NEW a \in Apps, Exit(a) PROVE Implemented
    BY <1>9, ExitMaps
<1> QED BY <1>1, <1>2, <1>3, <1>4, <1>5, <1>6, <1>7, <1>8, <1>9 DEF Next

\* app.go, Run: it accepts requests only with every migration of its options in the
\* table or overtaken, none after it was told to stop, and returns nil only when none is
\* left: every step of Application is a step of Lifecycle or changes nothing there.
THEOREM RunKeepsItsSafety == Spec => Promise!Safety
<1>1. Inv /\ StartInv /\ [Next]_vars => [Promise!Next]_(Promise!vars)
    BY StepMaps DEF Implemented
<1> QED BY <1>1, InitMaps, Invariance, PTL DEF Spec, Promise!Safety
=============================================================================
