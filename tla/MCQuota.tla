------------------------------- MODULE MCQuota -------------------------------
(***************************************************************************)
(* Instances of Quota for TLC: one hub and one account in it, a sampler    *)
(* thread and one request thread.                                          *)
(***************************************************************************)
EXTENDS Quota

CONSTANTS h1, u1

OneHub  == {h1}
OneUser == {u1}
HubOfU1 == [u \in OneUser |-> h1]

\* Subjects the requests are about.
UserOnly == {u1}
Both     == {u1, h1}

\* What an operator may leave a subject in: open or shut; open, the account
\* under no policy; the account under a policy that lets it in (no default).
OpenOrShut == {[online |-> TRUE], [usePolicy |-> FALSE, access |-> TRUE],
               [usePolicy |-> TRUE, access |-> FALSE]}
Open == {[online |-> TRUE], [usePolicy |-> FALSE, access |-> TRUE]}
UnderPolicy == {[online |-> TRUE], [usePolicy |-> TRUE, access |-> TRUE]}

\* A ceiling one unit of traffic reaches, in one direction or in both; one no
\* traffic reaches; none at all.
Low          == {<<1, "total">>}
LowOrNone    == {<<1, "total">>, <<0, "total">>}
UploadOrHigh == {<<1, "upload">>, <<9, "total">>}

\* Calls that may raise: those that only read and are read again by the next
\* pass; those and a block's own; all of them; none.
HarmlessReads == {"refresh", "reset_ask", "ask", "block_get"}
BlockingCall  == HarmlessReads \cup {"block_set", "block_enum", "block_cut"}
AnyCall       == BlockingCall \cup {"release_get", "release_set"}
Never         == {}

\* Budgets of outside events; a kind that is not named may not happen.
Only(b) == [k \in Kinds |-> IF k \in DOMAIN b THEN b[k] ELSE 0]

Calm       == Only([request |-> 2, fault |-> 1, recreate |-> 1])
Rough      == Only([request |-> 2, fault |-> 1, delete |-> 1, edit |-> 1])
Retried    == Only([request |-> 2, fault |-> 2, crash |-> 1, toggle |-> 2])
OneRequest == Only([request |-> 1])

\* Bounds on what happens together: an object is made again by another tool
\* beside one request and no failure; an account is edited beside one request
\* and no deletion.
SerialBound ==
  spent["recreate"] > 0 => spent["fault"] = 0 /\ spent["request"] <= 1
OverlapBound ==
  spent["edit"] > 0 => spent["request"] <= 1 /\ spent["delete"] = 0
=============================================================================
