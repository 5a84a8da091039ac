----------------------------- MODULE Discovery -----------------------------
(***************************************************************************)
(* What the shell makes of an identity provider before it trusts it: the    *)
(* transport rule (issuertrust, trustedhttp), the one OpenID discovery      *)
(* (oidcdiscovery), and the key set an identity token is verified against   *)
(* (oauthflow/jwks).  A URL is only what it is served over.                 *)
(***************************************************************************)
EXTENDS Issuer

\* HTTPS, or plain HTTP to this machine's own loopback interface.
Secure(transport) == transport \in {"https", "loopback"}

\* The members of an OpenID configuration the shell may follow.
DiscoveredEndpoints ==
  {"authorization", "token", "device", "jwks", "revocation",
   "introspection", "endSession"}

\* An endpoint that is absent is no refusal; one present and not secure is.
PlaintextEndpoints(document) ==
  \E member \in DiscoveredEndpoints :
     document[member] # None /\ ~Secure(document[member])

\* Why discovery at an issuer is refused, or None when it is not.  `reached`
\* says how the fetch went; declared is the identifier the context declares,
\* and when it declares none the issuer's own URL must be named and checked.
DiscoveryRefused(document, url, transport, declared, reached) ==
  CASE reached = "untrusted" -> "certificate_untrusted"
    [] reached = "unreachable" -> "unreadable"
    [] reached = "read" /\ document.issuer #
         (IF declared # None THEN declared ELSE url) -> "mismatch"
    [] reached = "read" /\ document.issuer =
         (IF declared # None THEN declared ELSE url) ->
         IF \/ PlaintextEndpoints(document)
            \/ declared = None /\ ~Secure(transport)
         THEN "plaintext" ELSE None

----------------------------------------------------------------------------
(* Keys.                                                                    *)

KeyParameters == [kty \in {"RSA", "EC", "OKP"} |->
  CASE kty = "RSA" -> {"n", "e"}
    [] kty = "EC"  -> {"crv", "x", "y"}
    [] kty = "OKP" -> {"crv", "x"}]

SelfDescribing(key) ==
  key.kty \in DOMAIN KeyParameters /\ KeyParameters[key.kty] \subseteq key.parameters

\* Certificates are dropped from the keys that do not need them.
WithoutCertificates(keys) ==
  {IF SelfDescribing(key) THEN [key EXCEPT !.certificate = None] ELSE key :
     key \in keys}

\* The library parses every certificate left, and one it cannot parse costs
\* the whole set.
Readable(keys) == \A key \in keys : key.certificate # "unparseable"

\* Why an identity token is not accepted, or None: who it names as its issuer,
\* whom it is for, and whether the provider's keys signed it, in that order.
IdentityRefused(token, identifier, client, keys) ==
  CASE token.issuer # identifier -> "other_issuer"
    [] token.issuer = identifier /\ token.audience # client -> "other_application"
    [] token.issuer = identifier /\ token.audience = client ->
         IF ~Readable(WithoutCertificates(keys)) THEN "keys_unreadable"
         ELSE IF \A key \in keys : key.signer # token.signer THEN "not_signed"
         ELSE None

\* The one label for the person: the name, else its parts, else the address.
DisplayName(claims) ==
  IF "name" \in claims THEN "name"
  ELSE IF claims \cap {"given_name", "family_name"} # {} THEN "joined"
  ELSE IF "email" \in claims THEN "email" ELSE None

=============================================================================
