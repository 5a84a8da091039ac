------------------------------ MODULE MCLogin ------------------------------
EXTENDS Login

CONSTANTS b1, b2, d1

MCLogins == {b1, b2, d1}
MCTogether == {{b1, b2}, {b1, d1}}
MCMaxSignIns == [l \in MCLogins |-> IF l = b1 THEN 2 ELSE 1]
MCFlow == [l \in MCLogins |-> IF l = d1 THEN "device" ELSE "browser"]
MCClientOf == [l \in MCLogins |-> "cli"]
MCScopesOf == [l \in MCLogins |-> IF l = b1 THEN {"apim:read"} ELSE {"iam:read"}]
MCResourceOf == [l \in MCLogins |-> IF l = b1 THEN "apim" ELSE None]
MCPortOrder == <<10425, 10426>>
MCRegistered == {10425, 10426}

MCOccupied == {{}, {10425, 10426}}

\* The default deployment, and those departing from it in ways that matter:
\* two departures share a deployment where neither hides the other.
MCDeployments ==
  {DefaultOptions,
   [DefaultOptions EXCEPT !.requireResource = TRUE, !.registeredResource = "apim",
                          !.omitDeviceRefresh = TRUE],
   [DefaultOptions EXCEPT !.omitNonce = TRUE, !.omitDeviceIDToken = TRUE,
                          !.pending = 1, !.slowDown = 1, !.interval = -1],
   [DefaultOptions EXCEPT !.negativeSerial = TRUE, !.deviceAudience = "other",
                          !.omitRefreshToken = TRUE, !.interval = 4000],
   [DefaultOptions EXCEPT !.idTokenIssuer = "other", !.deviceOutcome = "deny"],
   [DefaultOptions EXCEPT !.plaintextEndpoint = TRUE],
   [DefaultOptions EXCEPT !.identifier = "other"],
   [DefaultOptions EXCEPT !.omitS256 = TRUE, !.deviceOutcome = "expire"],
   [DefaultOptions EXCEPT !.omitS256 = TRUE, !.omitDevice = TRUE]}
=============================================================================
