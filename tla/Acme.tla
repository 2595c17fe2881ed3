---------------------------------- MODULE Acme ----------------------------------
(***************************************************************************)
(* One issuance with the certificate authority (services/acme.py, driven   *)
(* by TlsManager._issue in services/tls.py): the signed POSTs with their   *)
(* single-use nonces, the token the port-80 responder shows, the polling,  *)
(* and the authority, which validates, signs and forgets nonces in its own *)
(* time.                                                                   *)
(*                                                                         *)
(* The client waits for each answer, so a POST, the authority's handling   *)
(* of it and its answer are one step; what the authority does by itself    *)
(* falls between.                                                          *)
(***************************************************************************)
EXTENDS Integers, Sequences

CONSTANTS
  Attempts,     \* POSTs _post makes for one call
  MaxPolls,     \* polls before a deadline passes
  MaxForgets,   \* bound: how often the authority forgets its nonces
  MaxBare       \* bound: answers that carry no nonce

ASSUME AcmeAssumption ==
  /\ Attempts \in Nat \ {0} /\ MaxPolls \in Nat \ {0}
  /\ MaxForgets \in Nat /\ MaxBare \in Nat

VARIABLES
  at,        \* where the issuance is
  attempt,   \* refusals of the call under way
  pool,      \* _nonces: a stack
  carried,   \* the nonce the last refusal brought, 0 when it brought none
  token,     \* the responder shows the token
  polls,     \* polls of the loop under way
  authz,     \* the authority's view of the authorization
  order,     \* ... and of the order
  issued,    \* nonces given out so far
  usable,    \* ... those the authority would accept
  forgot, bare

clientVars == <<at, attempt, pool, carried, token, polls>>
caVars     == <<authz, order, issued, usable, forgot, bare>>
acmeVars   == <<clientVars, caVars>>

-----------------------------------------------------------------------------
Calls == {"register", "new_order", "http01", "answer", "wait_valid",
          "finalize", "signing", "download"}

AcmeTypeOK ==
  /\ at \in Calls \cup {"begin", "directory", "publish", "withdraw",
                        "granted", "failed"}
  /\ attempt \in 0 .. Attempts - 1
  /\ pool \in Seq(1 .. issued) /\ carried \in 0 .. issued
  /\ token \in BOOLEAN /\ polls \in 0 .. MaxPolls
  /\ authz \in {"pending", "processing", "valid", "invalid"}
  /\ order \in {"none", "pending", "processing", "valid", "invalid"}
  /\ issued \in Nat /\ usable \subseteq 1 .. issued
  /\ forgot \in 0 .. MaxForgets /\ bare \in 0 .. MaxBare

\* An authorization of a recent order for the same name may still be valid.
AcmeInit ==
  /\ at = "begin" /\ attempt = 0 /\ pool = <<>> /\ carried = 0
  /\ token = FALSE /\ polls = 0
  /\ authz \in {"pending", "valid"} /\ order = "none"
  /\ issued = 0 /\ usable = {} /\ forgot = 0 /\ bare = 0

\* An answer with a fresh nonce in its replay-nonce header, or without one.
Answer(rest) ==
  \/ /\ issued' = issued + 1 /\ usable' = (usable \ {Head(pool)}) \cup {issued'}
     /\ pool' = <<issued'>> \o rest /\ carried' = issued'
     /\ UNCHANGED bare
  \/ /\ bare < MaxBare /\ bare' = bare + 1
     /\ usable' = usable \ {Head(pool)} /\ pool' = rest /\ carried' = 0
     /\ UNCHANGED issued

\* Mutant of GiveUp: the token is cleared on success alone.
GiveUpExposed == at' = "failed" /\ attempt' = 0 /\ UNCHANGED token

\* Any step of _issue that raises: the token goes, whatever else stays.
GiveUp == at' = "failed" /\ token' = FALSE /\ attempt' = 0

Fail == /\ at \notin {"begin", "granted", "failed"}
        /\ GiveUp
        /\ UNCHANGED <<pool, carried, polls, caVars>>

Begin == /\ at = "begin" /\ at' = "directory"
         /\ UNCHANGED <<attempt, pool, carried, token, polls, caVars>>

\* directory: its answer may carry the first nonce.
Directory ==
  /\ at = "directory" /\ at' = "register"
  /\ \/ /\ issued' = issued + 1 /\ usable' = usable \cup {issued'}
        /\ pool' = <<issued'>>
     \/ UNCHANGED <<issued, usable, pool>>
  /\ UNCHANGED <<attempt, carried, token, polls, authz, order, forgot, bare>>

\* _nonce with nothing remembered asks for one.
FetchNonce ==
  /\ at \in Calls /\ pool = <<>>
  /\ issued' = issued + 1 /\ usable' = usable \cup {issued'}
  /\ pool' = <<issued'>>
  /\ UNCHANGED <<at, attempt, carried, token, polls, authz, order, forgot, bare>>

\* Mutants of Refused: the refusal's nonce is not kept; one attempt too many.
RefusedBare ==
  /\ at \in Calls /\ pool # <<>> /\ Head(pool) \notin usable
  /\ issued' = issued + 1 /\ usable' = (usable \ {Head(pool)}) \cup {issued'}
  /\ pool' = Tail(pool) /\ carried' = issued'
  /\ IF attempt < Attempts - 1
     THEN attempt' = attempt + 1 /\ UNCHANGED <<at, token>>
     ELSE GiveUp
  /\ UNCHANGED <<polls, authz, order, forgot, bare>>

RefusedOnceMore ==
  /\ at \in Calls /\ pool # <<>> /\ Head(pool) \notin usable
  /\ Answer(Tail(pool))
  /\ IF attempt < Attempts
     THEN attempt' = attempt + 1 /\ UNCHANGED <<at, token>>
     ELSE GiveUp
  /\ UNCHANGED <<polls, authz, order, forgot>>

\* badNonce: tried again while attempts are left, given up after the last.
Refused ==
  /\ at \in Calls /\ pool # <<>> /\ Head(pool) \notin usable
  /\ Answer(Tail(pool))
  /\ IF attempt < Attempts - 1
     THEN attempt' = attempt + 1 /\ UNCHANGED <<at, token>>
     ELSE GiveUp
  /\ UNCHANGED <<polls, authz, order, forgot>>

\* A POST the authority accepts: what it does, and where the client goes.
Accepted(call, next) ==
  /\ at = call /\ pool # <<>> /\ Head(pool) \in usable
  /\ Answer(Tail(pool))
  /\ attempt' = 0 /\ at' = next
  /\ UNCHANGED forgot

Register == /\ Accepted("register", "new_order")
            /\ UNCHANGED <<token, polls, authz, order>>

NewOrder == /\ Accepted("new_order", "http01") /\ order' = "pending"
            /\ UNCHANGED <<token, polls, authz>>

\* http01: nothing to prove when the authorization is valid already.
Challenge == /\ Accepted("http01", IF authz = "valid" THEN "finalize" ELSE "publish")
             /\ UNCHANGED <<token, polls, authz, order>>

Publish == /\ at = "publish" /\ token' = TRUE /\ at' = "answer"
           /\ UNCHANGED <<attempt, pool, carried, polls, caVars>>

TellReady == /\ Accepted("answer", "wait_valid")
             /\ authz' = IF authz = "pending" THEN "processing" ELSE authz
             /\ polls' = 0
             /\ UNCHANGED <<token, order>>

\* wait_valid: valid ends it, invalid or the deadline fails it.
PollValid ==
  /\ Accepted("wait_valid",
       IF authz = "valid" THEN "withdraw"
       ELSE IF authz = "invalid" \/ polls = MaxPolls THEN "failed"
       ELSE "wait_valid")
  /\ token' = (token /\ at' # "failed")
  /\ polls' = IF at' = "wait_valid" THEN polls + 1 ELSE polls
  /\ UNCHANGED <<authz, order>>

\* Mutant of Withdraw: the token is cleared on failure alone.
WithdrawNothing == /\ at = "withdraw" /\ at' = "finalize"
                   /\ UNCHANGED <<attempt, pool, carried, token, polls, caVars>>

Withdraw == /\ at = "withdraw" /\ token' = FALSE /\ at' = "finalize"
            /\ UNCHANGED <<attempt, pool, carried, polls, caVars>>

\* finalize: signed at once, later, or refused for an unproved name.
Finalize ==
  \E signed \in BOOLEAN :
    /\ Accepted("finalize",
         IF authz # "valid" THEN "failed" ELSE IF signed THEN "download"
         ELSE "signing")
    /\ order' = IF authz # "valid" THEN order
                ELSE IF signed THEN "valid" ELSE "processing"
    /\ polls' = 0
    /\ UNCHANGED <<token, authz>>

PollSigned ==
  /\ Accepted("signing",
       IF order = "valid" THEN "download"
       ELSE IF order = "invalid" \/ polls = MaxPolls THEN "failed"
       ELSE "signing")
  /\ polls' = IF at' = "signing" THEN polls + 1 ELSE polls
  /\ UNCHANGED <<token, authz, order>>

Download == /\ Accepted("download", "granted")
            /\ UNCHANGED <<token, polls, authz, order>>

ClientStep ==
  \/ Begin \/ Directory \/ FetchNonce \/ Refused \/ Register \/ NewOrder
  \/ Challenge \/ Publish \/ TellReady \/ PollValid \/ Withdraw \/ Finalize
  \/ PollSigned \/ Download \/ Fail

-----------------------------------------------------------------------------
(* The authority by itself *)

Validate ==
  /\ authz = "processing"
  /\ authz' \in IF token THEN {"valid", "invalid"} ELSE {"invalid"}
  /\ UNCHANGED <<clientVars, order, issued, usable, forgot, bare>>

Sign ==
  /\ order = "processing" /\ order' \in {"valid", "invalid"}
  /\ UNCHANGED <<clientVars, authz, issued, usable, forgot, bare>>

ForgetNonces ==
  /\ usable # {} /\ forgot < MaxForgets
  /\ forgot' = forgot + 1 /\ usable' = {}
  /\ UNCHANGED <<clientVars, authz, order, issued, bare>>

AcmeNext == ClientStep \/ Validate \/ Sign \/ ForgetNonces

AcmeSpec == AcmeInit /\ [][AcmeNext]_acmeVars /\ WF_acmeVars(ClientStep)

-----------------------------------------------------------------------------
(* Properties *)

\* While the authority may come for the token, the token is there, unless the
\* panel has given the issuance up; and it never outlives the issuance.
TokenStands ==
  /\ authz = "processing" /\ at # "failed" => token
  /\ at \in {"finalize", "signing", "download", "granted", "failed"} => ~token

\* A call tried again sends the nonce its refusal carried, not an older one
\* that the authority may have forgotten as well.
RetryUsesCarried ==
  attempt > 0 /\ carried # 0 /\ at \in Calls =>
    pool # <<>> /\ Head(pool) = carried

\* The exchange does what the manager relies on.
Exchange == INSTANCE Issuance WITH
  stage   <- IF at = "begin" THEN "idle"
             ELSE IF at \in {"granted", "failed"} THEN at ELSE "running",
  exposed <- token,
  proven  <- authz = "valid"

GrantsAreProven == Exchange!Spec
=================================================================================
