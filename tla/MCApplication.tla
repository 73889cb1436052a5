---------------------------- MODULE MCApplication ----------------------------
(* Instances of Application for TLC.                                         *)
EXTENDS Application

\* As in migrations/: the version of the password source lies between two of auth.
CONSTANTS auth, password
MCFiles == [s \in Sources |-> IF s = auth THEN {1, 3} ELSE {2}]

Minimal == [database |-> "url", timeout |-> "default", cors |-> "off", auth |-> "off",
            password |-> FALSE, sessions |-> FALSE, store |-> "postgres", otel |-> FALSE,
            sources |-> <<>>]
\* OIDC, telemetry and migrations; and passwords on a schema that is kept elsewhere.
Full == [Minimal EXCEPT !.auth = "on", !.otel = TRUE, !.sources = <<auth, password>>]
PasswordOnly == [Minimal EXCEPT !.password = TRUE]

\* Brings the same migrations into the database and then fails for its identity store.
\* No instance with migrations lacks one of them, so that none may be overtaken.
Misconfigured == [Minimal EXCEPT !.password = TRUE, !.store = "custom",
                                 !.sources = <<auth, password>>]
Invalid == {[Minimal EXCEPT !.database = "noURL"], [Minimal EXCEPT !.auth = "incomplete"],
            [Minimal EXCEPT !.timeout = "zero"],
            [Minimal EXCEPT !.cors = "wildcardWithCredentials"]}

CONSTANTS a1, a2
MCOptions == [a \in Apps |-> IF a = a1 THEN {Full, PasswordOnly} \cup Invalid ELSE {Misconfigured}]

\* The same application, before and after password authentication was enabled.
Before == [Minimal EXCEPT !.sources = <<auth>>]
After == [Minimal EXCEPT !.sources = <<auth, password>>]
MCUpgrade == [a \in Apps |-> {Before, After}]
MCMaxRuns == [a \in Apps |-> IF a = a1 THEN 2 ELSE 1]
=============================================================================
