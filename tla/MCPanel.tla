-------------------------------- MODULE MCPanel --------------------------------
(***************************************************************************)
(* Three parts of the panel that share no state: the exchange with the     *)
(* certificate authority, the updater, and the accounts with their keys.   *)
(* A behaviour is one of theirs; the initial state says whose.  It says,   *)
(* too, whether a behaviour of the updater is about what can go wrong with *)
(* an update or about the releases it looks for, and which of the two keys *)
(* one of the accounts is about: neither two share anything.               *)
(***************************************************************************)
EXTENDS Acme, Updates, Accounts

VARIABLE scene

vars == <<scene, acmeVars, updateVars, accountVars>>

Tag(major, minor, patch, pre) ==
  [nums |-> <<major, minor, patch>>, pre |-> pre, parsed |-> TRUE]

\* An old release, a later one that sorts before it as a string, and its
\* prerelease, which is offered nothing.
Installable == {Tag(1, 2, 0, 0), Tag(1, 10, 0, 0), Tag(1, 10, 0, 1)}
OldRelease  == Tag(1, 2, 0, 0)

UpdateEvents == [start |-> 2, crash |-> 1, reboot |-> 1, reset |-> 1,
                 torn |-> 1, check |-> 1, slow |-> 2, unread |-> 1,
                 unwritten |-> 2, blind |-> 1, uncleared |-> 1]

\* One start, on a disk that takes no more.
DiskIsFull   == [k \in UpdateKinds |-> IF k \in {"start", "unwritten"} THEN 1 ELSE 0]

Init == /\ AcmeInit /\ UpdateInit /\ AccountInit
        /\ scene \in {"acme", "updates", "releases"} \cup Purposes

OfAcme(A)     == scene = "acme" /\ A /\ UNCHANGED <<scene, updateVars, accountVars>>
OfUpdates(A)  == /\ \/ scene = "updates" /\ A /\ asked'.check = 0
                    \/ scene = "releases" /\ A /\ Mishaps' = 0
                 /\ UNCHANGED <<scene, acmeVars, accountVars>>
OfAccounts(A) == /\ scene \in Purposes /\ A
                 /\ \A w \in Workers, k \in Purposes \ {scene} : hand'[w][k] = hand[w][k]
                 /\ UNCHANGED <<scene, acmeVars, updateVars>>

Next == OfAcme(AcmeNext) \/ OfUpdates(UpdateNext) \/ OfAccounts(AccountNext)

Spec == /\ Init /\ [][Next]_vars
        /\ WF_vars(OfAcme(ClientStep))
        /\ WF_vars(OfUpdates(PollState)) /\ WF_vars(OfUpdates(HalfAnHour))
        /\ WF_vars(OfUpdates(StartClear \/ StartWrite \/ Launch \/ StartGiveUp))

\* Every part keeps to its types.
TypeOK == AcmeTypeOK /\ UpdateTypeOK /\ AccountTypeOK
================================================================================
