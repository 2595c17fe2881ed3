--------------------------- MODULE Administration ---------------------------
(***************************************************************************)
(* What every route of the panel that reaches the VPN server does, in the  *)
(* order it does it: the RPC, what it writes to the panel's own storage    *)
(* after it, the row of the audit trail (app/audit.py), the reading back.  *)
(* The call may be refused, its answer may be lost after the server carried*)
(* it out, a later statement may raise, and the panel may die between any  *)
(* two steps.                                                              *)
(***************************************************************************)
EXTENDS Routes, FiniteSets

CONSTANTS MaxRequests    \* bound: how many requests one behaviour serves

\* Every route names fields that the RPC has, under the names the RPC has them;
\* what the RPC demands comes from the route or from the client's body.
ASSUME RoutesFit ==
    \A r \in Routes : /\ r.puts \subseteq Sends(r.call) \cup Unoffered
                      /\ r.body \/ r.call.demands \subseteq r.puts

\* A call that only reads is one the client would repeat (_is_safe); every
\* route that makes another has a name for it in the audit trail.
IsChange(r) == ~IsSafe(r.call.rpc)
ASSUME AdminAssumption ==
    /\ MaxRequests \in Nat
    /\ \A r \in Routes : IsChange(r) => r.action # ""

VARIABLES
    request,   \* the route being served and how far it is
    served,    \* requests so far
    changes,   \* changes the server carried out
    trail,     \* AuditLog: how many of them have a row, and rows of others
    faults     \* so far: answers lost, statements between call and row, or
               \* of the row, that failed, and deaths of the panel

adminVars == <<request, served, changes, trail, faults>>

Nobody == [stage |-> "idle"]
Tally(b) == IF b THEN 1 ELSE 0

AdminInit ==
    /\ request = Nobody /\ served = 0 /\ changes = 0
    /\ trail = [real |-> 0, other |-> 0] /\ faults = 0

RequestBegin(r) ==
    /\ request.stage = "idle" /\ served < MaxRequests
    /\ request' = [stage |-> "call", route |-> r] /\ served' = served + 1
    /\ UNCHANGED <<changes, trail, faults>>

\* rpc: the call comes back; it raises, refused by the server or never sent -
\* as does a read that goes before it; or it raises though it was carried out.
Returned ==
    /\ request.stage = "call"
    /\ request' = [request EXCEPT !.stage = "record"]
    /\ changes' = changes + Tally(IsChange(request.route))
    /\ UNCHANGED <<served, trail, faults>>

Refused ==
    /\ request.stage = "call" /\ request' = Nobody
    /\ UNCHANGED <<served, changes, trail, faults>>

AnswerLost ==
    /\ request.stage = "call" /\ request' = Nobody
    /\ changes' = changes + Tally(IsChange(request.route))
    /\ faults' = faults + 1
    /\ UNCHANGED <<served, trail>>

\* Mutant of Record: a route that reads the new state back answers with that
\* and leaves out the row.
RecordUnlessReadBack ==
    /\ request.stage = "record"
    /\ request' = [request EXCEPT !.stage = "show"]
    /\ trail' = IF request.route.action = "" \/ request.route.reads # {}
                THEN trail
                ELSE IF IsChange(request.route)
                     THEN [trail EXCEPT !.real = @ + 1]
                     ELSE [trail EXCEPT !.other = @ + 1]
    /\ UNCHANGED <<served, changes, faults>>

\* audit.record, in the routes that call it.
Record ==
    /\ request.stage = "record"
    /\ request' = [request EXCEPT !.stage = "show"]
    /\ trail' = IF request.route.action = "" THEN trail
                ELSE IF IsChange(request.route)
                     THEN [trail EXCEPT !.real = @ + 1]
                     ELSE [trail EXCEPT !.other = @ + 1]
    /\ UNCHANGED <<served, changes, faults>>

\* The storage the route writes after the call raises (credentials.py,
\* forget_hub, forget_user, set_connection), or the INSERT of the row does: the
\* change is made, the server has answered, and there is no row.
FollowUpFails ==
    /\ request.stage = "record" /\ request.route.follows
    /\ request' = Nobody /\ faults' = faults + 1
    /\ UNCHANGED <<served, changes, trail>>

RecordFails ==
    /\ request.stage = "record" /\ request.route.action # ""
    /\ request' = Nobody /\ faults' = faults + 1
    /\ UNCHANGED <<served, changes, trail>>

\* The answer, after the reads that some routes add; one of them may raise.
Answer ==
    /\ request.stage = "show" /\ request' = Nobody
    /\ UNCHANGED <<served, changes, trail, faults>>

PanelDies ==
    /\ request.stage # "idle" /\ request' = Nobody
    /\ faults' = faults + 1
    /\ UNCHANGED <<served, changes, trail>>

AdminNext ==
    \/ \E r \in Routes : RequestBegin(r)
    \/ Returned \/ Refused \/ AnswerLost \/ Record \/ Answer
    \/ FollowUpFails \/ RecordFails \/ PanelDies

AdminTypeOK ==
    /\ request.stage \in {"idle", "call", "record", "show"}
    /\ request.stage # "idle" => request.route \in Routes
    /\ served \in 0..MaxRequests /\ changes \in 0..served
    /\ trail \in [real : 0..served, other : 0..served] /\ faults \in 0..served

\* The trail tells of no change that was not made, and with no request under
\* way it misses at most one change for every answer lost, statement that
\* failed after the call, and death of the panel: each of the routes that can
\* change the server writes its row (audit.py:1), and none writes it twice.
TrailKeepsUp ==
    /\ trail.real <= changes
    /\ request.stage = "idle" => changes <= trail.real + faults

\* "Every state-changing panel action, one row" (audit.py:1). The row is a
\* statement of its own after the change: what raises in between, or the row's
\* own INSERT, leaves a change the server has answered without one.
OneRowEach == request.stage = "idle" => changes = trail.real
=============================================================================
