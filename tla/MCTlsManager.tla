---------------------------- MODULE MCTlsManager ----------------------------
(***************************************************************************)
(* TlsManager with two domains, six key pairs and the hours of tls.py.     *)
(***************************************************************************)
EXTENDS TlsManager

CONSTANTS a, b, one, two

OneHandler  == {one}
TwoHandlers == {one, two}

TwoNames == {a, b}

Put(domain, port, staging, only) ==
  [domain |-> domain, port |-> port, staging |-> staging, only |-> only]

Several == {Put(a, Same, Same, Same), Put(b, Same, Same, TRUE),
            Put(NoName, Same, Same, TRUE), Put(Same, 8443, TRUE, Same),
            Put(Same, Same, Same, TRUE)}

Renames == {Put(d, Same, Same, o) : d \in {a, Same}, o \in {TRUE, Same}} \cup {Put(b, Same, Same, TRUE)}

Overtaken == {Put(b, Same, Same, Same), Put(Same, Same, Same, TRUE)}

Switches == {Put(a, Same, Same, Same), Put(Same, Same, Same, TRUE),
             Put(Same, Same, Same, FALSE), Put(a, Same, Same, TRUE)}

OnlyA == {a}

Events   == [web |-> 2, cli |-> 1, authority |-> 1, port |-> 1, crash |-> 1]
Requests == [web |-> 2, cli |-> 1, authority |-> 0, port |-> 0, crash |-> 1]
Web      == [web |-> 3, cli |-> 0, authority |-> 0, port |-> 0, crash |-> 0]
Outage   == [web |-> 0, cli |-> 0, authority |-> 36, port |-> 0, crash |-> 0]
=============================================================================
