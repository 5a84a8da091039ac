--------------------------- MODULE MCSessionRotation ---------------------------
(* SessionRotation on small instances. *)
EXTENDS SessionRotation, TLC

CONSTANT Issuers

\* Records that name different issuers, and agree in all else.
ByIssuer ==
  {[issuer |-> i, clientId |-> "cli", resource |-> "", scopes |-> {"s"}] : i \in Issuers}

\* Records that differ from one another in one member: the issuer, the client,
\* the resource, or the scopes, of which one asks for none.
ManyBindings ==
  {[issuer |-> "iss", clientId |-> "cli", resource |-> "", scopes |-> {"s"}],
   [issuer |-> "iss2", clientId |-> "cli", resource |-> "", scopes |-> {"s"}],
   [issuer |-> "iss", clientId |-> "cli2", resource |-> "", scopes |-> {"s"}],
   [issuer |-> "iss", clientId |-> "cli", resource |-> "res", scopes |-> {"s"}],
   [issuer |-> "iss", clientId |-> "cli", resource |-> "", scopes |-> {}]}

Symmetry == Permutations(Procs) \cup Permutations(Logins) \cup Permutations(Issuers)
================================================================================
