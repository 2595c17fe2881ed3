-------------------------------- MODULE Issuance --------------------------------
(***************************************************************************)
(* What the manager relies on when it asks for a certificate: an issuance  *)
(* ends granted or failed, it is granted only to a name that was proved to *)
(* be the panel's, and its token is on show at most while it runs.  This   *)
(* is what TlsManager's IssueGranted and IssueFail stand for; Acme is the  *)
(* exchange that provides it.                                              *)
(***************************************************************************)
VARIABLES stage, exposed, proven

Init == stage = "idle" /\ exposed = FALSE /\ proven \in BOOLEAN

Start  == stage = "idle" /\ stage' = "running" /\ UNCHANGED <<exposed, proven>>

Expose == /\ stage = "running" /\ ~exposed /\ exposed' = TRUE
          /\ UNCHANGED <<stage, proven>>

Cover  == /\ stage = "running" /\ exposed /\ exposed' = FALSE
          /\ UNCHANGED <<stage, proven>>

\* The authority looks at the token by itself; a name can only be proved
\* while the token is there.
Prove  == stage = "running" /\ exposed /\ proven' = TRUE /\ UNCHANGED <<stage, exposed>>

Grant  == /\ stage = "running" /\ proven /\ ~exposed
          /\ stage' = "granted" /\ UNCHANGED <<exposed, proven>>

Fail   == /\ stage = "running" /\ stage' = "failed" /\ exposed' = FALSE
          /\ UNCHANGED proven

Next == Start \/ Expose \/ Cover \/ Prove \/ Grant \/ Fail

Ends == stage = "running" ~> stage \in {"granted", "failed"}

Spec == Init /\ [][Next]_<<stage, exposed, proven>> /\ Ends
=================================================================================
