--------------------------- MODULE MCProvisioning ---------------------------
(* Instances of Provisioning for TLC.                                        *)
EXTENDS Provisioning, TLC

CONSTANTS e1, s1, idp

\* A user of the local issuer that logs in through OIDC, with its address as the
\* subject or with another subject, and one of another issuer without address.
LocalBySubject == Local(e1)
LocalOther == [issuer |-> LocalIssuer, subject |-> s1, email |-> e1]
Remote == [issuer |-> idp, subject |-> s1, email |-> NoEmail]

MCShared == {LocalBySubject}
MCAll == {LocalBySubject, LocalOther, Remote}
NoTenants == {}

AllFaults == {"register", "oidc"} \X Steps
NoFaults == {}

\* Requests are interchangeable.
Symmetry == Permutations(Procs)
=============================================================================
