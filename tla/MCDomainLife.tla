------------------------------ MODULE MCDomainLife ------------------------------
(***************************************************************************)
(* Two kinds of life of the panel's domain, the initial state says which:  *)
(* one thread serves every request while attempts, ports and listeners may *)
(* fail; or two threads serve requests about one name at once, and nothing *)
(* fails but the panel.                                                    *)
(***************************************************************************)
EXTENDS MCTlsManager

VARIABLE scene

lifeVars == <<scene, vars>>

Requested == Several \cup Switches

\* What the requests in progress may ask for.
Ask(bodies) == \A r \in Handlers : web'[r].body \in bodies \cup {Same}

Alone   == /\ scene = "faults" /\ Ask(Several) /\ web'[two] = Idle
Overlap == /\ scene = "requests" /\ Ask(Switches) /\ settings'.domain # b
           /\ spent'.authority = 0 /\ spent'.port = 0

LifeInit == /\ Init /\ scene \in {"faults", "requests"}
            /\ scene = "requests" => settings.domain # b

LifeNext == Next /\ (Alone \/ Overlap) /\ UNCHANGED scene

LifeSpec == LifeInit /\ [][LifeNext]_lifeVars /\ Fairness
=================================================================================
