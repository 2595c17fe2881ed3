------------------------------ MODULE MCServer ------------------------------
(***************************************************************************)
(* Four parts around the VPN server that share no state: the history of    *)
(* its sessions, the routes that administer it, edits of its records, and  *)
(* the credentials remembered of its accounts. A behaviour is one of       *)
(* theirs; the initial state says whose.                                   *)
(***************************************************************************)
EXTENDS Sessions, Administration, Edits, Credentials

VARIABLE scene

vars == <<scene, sessionVars, adminVars, editVars, credVars>>

\* Every kind of record but a cascade's.
PlainKinds == {"hub", "user", "group", "crl", "nat", "radius", "log", "keep",
               "ipsec"}
Cascades   == {"link"}

Init == /\ SessionsInit /\ AdminInit /\ CredInit /\ EditInit
        /\ \/ scene = "edits"
           \/ scene \in {"history", "routes", "accounts"} /\ kind = "hub"

OfHistory(A)  == scene = "history" /\ A
                 /\ UNCHANGED <<scene, adminVars, editVars, credVars>>
OfRoutes(A)   == scene = "routes" /\ A
                 /\ UNCHANGED <<scene, sessionVars, editVars, credVars>>
OfEdits(A)    == scene = "edits" /\ A
                 /\ UNCHANGED <<scene, sessionVars, adminVars, credVars>>
OfAccounts(A) == scene = "accounts" /\ A
                 /\ UNCHANGED <<scene, sessionVars, adminVars, editVars>>

Next == \/ OfHistory(SessionsNext) \/ OfRoutes(AdminNext)
        \/ OfEdits(EditNext) \/ OfAccounts(CredNext)

Spec == /\ Init /\ [][Next]_vars
        /\ WF_vars(OfHistory(ScanRest))
        /\ SF_vars(OfHistory(Day)) /\ SF_vars(OfHistory(Prune))

\* Edits alone.
EditSpec == EditInit /\ SessionsInit /\ AdminInit /\ CredInit
            /\ scene = "edits" /\ [][OfEdits(EditNext)]_vars

\* Requests that the server answers, in a panel that keeps running.
Answered ==
    \/ \E r \in Routes : RequestBegin(r)
    \/ Returned \/ Refused \/ Record \/ Answer \/ FollowUpFails \/ RecordFails
AnsweredSpec == Init /\ scene = "routes" /\ [][OfRoutes(Answered)]_vars

\* Every part keeps to its types.
TypeOK == SessionsTypeOK /\ AdminTypeOK /\ EditTypeOK /\ CredTypeOK
=============================================================================
