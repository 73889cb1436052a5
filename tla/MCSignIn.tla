------------------------------ MODULE MCSignIn ------------------------------
(* Instances of SignIn for TLC.                                              *)
EXTENDS SignIn, TLC

CONSTANTS t1, t2, b1, b2, double, outside, red, blue

\* A user with two tenants, one with none, the others with one.
MCMembers == [u \in Users |-> CASE u = double -> {red, blue} [] u = outside -> {} [] OTHER -> {red}]

\* Two tabs of one browser; one tab each of two browsers.
MCLayouts == {[t \in Tabs |-> b1], [t \in Tabs |-> IF t = t1 THEN b1 ELSE b2]}

MCHome == <<"home">>
Picker == <<"tenants", "pick">>
\* The defaults in both modes; a picker of one's own, in the list and not; and a list
\* of one's own without the picker.
MCConfigs == {[mode |-> "", picker |-> <<>>, allow |-> {}],
              [mode |-> "ui", picker |-> <<>>, allow |-> {}],
              [mode |-> "ui", picker |-> Picker, allow |-> {[path |-> <<"tenants">>, wild |-> TRUE]}],
              [mode |-> "ui", picker |-> Picker, allow |-> {}],
              [mode |-> "ui", picker |-> <<>>, allow |-> {[path |-> Picker, wild |-> FALSE]}]}
Symmetry == Permutations(Nonces)
=============================================================================
