--------------------------- MODULE MC_RadiusServer ---------------------------
EXTENDS RadiusServer

CONSTANTS c1, c2

\* c1 has a secret in the RADIUS clients table, c2 has none.
MCKnownClients == {c1}

DG(c, dec, code, auth) == [client |-> c, decodes |-> dec, code |-> code, authOk |-> auth]

\* An Access-Request, Accounting-Requests with a good and a bad
\* authenticator, a packet that does not decode and one from c2.
MCDatagrams ==
    { DG(c1, TRUE, "AccessRequest", FALSE),
      DG(c1, TRUE, "AccountingRequest", TRUE),
      DG(c1, TRUE, "AccountingRequest", FALSE),
      DG(c1, FALSE, "AccessRequest", FALSE),
      DG(c2, TRUE, "AccessRequest", FALSE) }
============================================================================
