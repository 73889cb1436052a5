------------------------------ MODULE Lifecycle ------------------------------
(***************************************************************************)
(* What Application.Run promises to its callers (app/app.go): it starts the   *)
(* server once everything that was configured is in place, accepts no request *)
(* before that or after it was told to stop, and returns nil only after the   *)
(* requests in flight have ended.                                             *)
(***************************************************************************)
EXTENDS Integers

CONSTANTS
    Apps,           \* instances of the application
    Configurations  \* the sets of migrations that instances may be configured with

VARIABLES
    phase,      \* of each instance
    needs,      \* the migrations it was configured with
    schema,     \* the migrations in the database
    open        \* whether a request of the instance is in flight

vars == <<phase, needs, schema, open>>

Init ==
    /\ phase = [a \in Apps |-> "down"]
    /\ needs = [a \in Apps |-> {}]
    /\ schema = {}
    /\ open = [a \in Apps |-> FALSE]

Move(a, from, to) ==
    /\ phase[a] \in from
    /\ phase' = [phase EXCEPT ![a] = to]

\* An instance is configured and starts; a start that failed may be repeated.
Start(a) ==
    /\ Move(a, {"down", "failed"}, "starting")
    /\ needs' \in {[needs EXCEPT ![a] = c] : c \in Configurations}
    /\ phase[a] = "failed" => UNCHANGED needs
    /\ UNCHANGED <<schema, open>>

Migrate(a) ==
    /\ phase[a] = "starting"
    /\ \E m \in needs[a] : schema' = schema \cup {m}
    /\ Move(a, {"starting"}, "starting") \/ Move(a, {"starting"}, "failed")
    /\ UNCHANGED <<needs, open>>

\* A migration may be passed over only if instances that do not have it can bring
\* the schema beyond it.
Overtaken(m) == \E c \in Configurations : m \notin c /\ \E n \in schema \cap c : m < n

Serve(a) ==
    /\ Move(a, {"starting"}, "serving")
    /\ \A m \in needs[a] : m \in schema \/ Overtaken(m)
    /\ UNCHANGED <<needs, schema, open>>

Drain(a) ==
    /\ Move(a, {"serving"}, "draining")
    /\ UNCHANGED <<needs, schema, open>>

Stop(a) ==
    /\ Move(a, {"draining"}, "stopped")
    /\ ~open[a]
    /\ UNCHANGED <<needs, schema, open>>

Fail(a) ==
    /\ Move(a, {"starting", "serving", "draining"}, "failed")
    /\ UNCHANGED <<needs, schema, open>>

Accept(a) ==
    /\ phase[a] = "serving" /\ ~open[a]
    /\ open' = [open EXCEPT ![a] = TRUE]
    /\ UNCHANGED <<phase, needs, schema>>

Answer(a) ==
    /\ open[a]
    /\ open' = [open EXCEPT ![a] = FALSE]
    /\ UNCHANGED <<phase, needs, schema>>

\* The process ends, of itself or killed.
Exit(a) ==
    /\ phase' = [phase EXCEPT ![a] = "down"]
    /\ needs' = [needs EXCEPT ![a] = {}]
    /\ open' = [open EXCEPT ![a] = FALSE]
    /\ UNCHANGED schema

Next == \E a \in Apps : \/ Start(a) \/ Migrate(a) \/ Serve(a) \/ Drain(a) \/ Stop(a)
                        \/ Fail(a) \/ Accept(a) \/ Answer(a) \/ Exit(a)

\* An instance that was told to stop does, whatever its requests do.
Leave(a) == Stop(a) \/ (phase[a] = "draining" /\ Fail(a))
Safety == Init /\ [][Next]_vars
Spec == Safety /\ \A a \in Apps : WF_vars(Leave(a))
=============================================================================
