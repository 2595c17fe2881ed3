---------------------------- MODULE MCSeConnection ----------------------------
(***************************************************************************)
(* SeConnection with a server on this machine and one to migrate to, at    *)
(* another port, and two threads.                                          *)
(***************************************************************************)
EXTENDS SeConnection

CONSTANTS here, there, p1, p2, s1, s2

TwoHosts     == {here, there}
TwoPorts     == {p1, p2}
TwoPasswords == {s1, s2}
TwoServers   == {<<here, p1>>, <<there, p2>>}
Seed         == <<here, p1>>

Events == [call |-> 2, change |-> 3, fault |-> 1, repeat |-> 1, crash |-> 1]

\* No call fails: one password change is answered on its repeat.
AllAnswered == [call |-> 1, change |-> 3, fault |-> 0, repeat |-> 1, crash |-> 0]
=============================================================================
