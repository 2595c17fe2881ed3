------------------------------- MODULE SeClient -------------------------------
(***************************************************************************)
(* One SoftEtherClient (Library/softether.py): calls are serialised by a   *)
(* lock over one keep-alive connection; an exchange that fails closes the  *)
(* connection, and is repeated when that is thought to be harmless.        *)
(*                                                                         *)
(* The server sits at the other end: a request that was delivered is       *)
(* carried out even when the client has stopped waiting for it.            *)
(***************************************************************************)
EXTENDS Integers

CONSTANTS
  Calls,        \* the calls of a run, each made at most once
  SafeCalls,    \* those _is_safe recognises
  Retries,      \* the client's retries
  RetryUnsafe,  \* the client's retry_unsafe
  None          \* no call

ASSUME ClientAssumption ==
  /\ SafeCalls \subseteq Calls /\ None \notin Calls
  /\ Retries \in Nat
  /\ RetryUnsafe \in BOOLEAN

VARIABLES
  call,      \* the call that holds the lock, None when it is free
  stage,     \* how far its attempt has come
  attempt,   \* repetitions so far
  reused,    \* this attempt goes over a connection that had been used before
  conn,      \* self._conn: none, fresh (nothing read yet) or used
  unread,    \* the call whose answer is still to be read from the connection
  orphans,   \* requests of each call the server holds and nobody waits for
  outcome,   \* what each caller was told
  done,      \* how often the server carried each call out
  tries,     \* history: how often each call was sent
  firstOver  \* history: the connection its first request went over

client  == <<call, stage, attempt, reused, conn, unread>>
history == <<tries, firstOver>>
vars    == <<client, orphans, outcome, done, history>>

Promise == INSTANCE RpcPromise

-----------------------------------------------------------------------------
(* State *)

\* idle: the lock is free.  try: at the top of the retry loop.  open: about to
\* send.  sent, carried, refused: what the server made of the request so far.
Stages   == {"idle", "try", "open", "sent", "carried", "refused"}
Waiting  == {"sent", "carried", "refused"}
Outcomes == {"new", "running", "answered", "refused", "raised"}
Conns    == {"none", "fresh", "used"}

TypeOK ==
  /\ call \in Calls \cup {None}
  /\ stage \in Stages
  /\ attempt \in 0..Retries
  /\ reused \in BOOLEAN
  /\ conn \in Conns
  /\ unread \in Calls \cup {None}
  /\ orphans \in [Calls -> Nat]
  /\ outcome \in [Calls -> Outcomes]
  /\ done \in [Calls -> Nat]
  /\ tries \in [Calls -> Nat]
  /\ firstOver \in [Calls -> Conns]

Init ==
  /\ call = None /\ stage = "idle" /\ attempt = 0 /\ reused = FALSE
  /\ conn = "none" /\ unread = None
  /\ orphans = [c \in Calls |-> 0]
  /\ outcome = [c \in Calls |-> "new"]
  /\ done = [c \in Calls |-> 0]
  /\ tries = [c \in Calls |-> 0]
  /\ firstOver = [c \in Calls |-> "none"]

-----------------------------------------------------------------------------
(* The client *)

\* close: the connection goes, and with it whatever was still to be read.
CloseConn == conn' = "none" /\ unread' = None

\* The caller is told how its call ended and leaves the lock.
End(how) ==
  /\ outcome' = [outcome EXCEPT ![call] = how]
  /\ call' = None /\ stage' = "idle" /\ attempt' = 0 /\ reused' = FALSE

\* _transport takes the lock for the call and all its repetitions.
Begin(c) ==
  /\ stage = "idle" /\ outcome[c] = "new"
  /\ call' = c /\ stage' = "try" /\ attempt' = 0 /\ reused' = FALSE
  /\ outcome' = [outcome EXCEPT ![c] = "running"]
  /\ UNCHANGED <<conn, unread, orphans, done, history>>

\* drop_client closes the client from another thread, between two calls.
Close ==
  /\ stage = "idle" /\ conn # "none"
  /\ CloseConn
  /\ UNCHANGED <<call, stage, attempt, reused, orphans, outcome, done, history>>

\* Mutant of MayRepeat: every failure is repeated.
MayRepeatAnything(wasReused) == attempt < Retries

\* A failed exchange over a used connection counts as one that never reached
\* the server.
MayRepeat(wasReused) ==
  /\ attempt < Retries
  /\ RetryUnsafe \/ call \in SafeCalls \/ wasReused

\* Mutant of Failed: the broken connection is kept.
FailedKeepsConn(wasReused) ==
  /\ UNCHANGED <<conn, unread>>
  /\ IF MayRepeat(wasReused)
     THEN /\ stage' = "try" /\ attempt' = attempt + 1 /\ reused' = wasReused
          /\ UNCHANGED <<call, outcome>>
     ELSE End("raised")

\* The except clause: close, then repeat or raise.
Failed(wasReused) ==
  /\ CloseConn
  /\ IF MayRepeat(wasReused)
     THEN /\ stage' = "try" /\ attempt' = attempt + 1 /\ reused' = wasReused
          /\ UNCHANGED <<call, outcome>>
     ELSE End("raised")

\* A kept connection is used as it is.
Reuse ==
  /\ stage = "try" /\ conn # "none"
  /\ reused' = (conn = "used") /\ stage' = "open"
  /\ UNCHANGED <<call, attempt, conn, unread, orphans, outcome, done, history>>

\* Mutant of Connect: what the first attempt found is believed ever after.
ConnectStaysReused ==
  /\ stage = "try" /\ conn = "none"
  /\ conn' = "fresh" /\ stage' = "open"
  /\ UNCHANGED <<call, attempt, reused, unread, orphans, outcome, done, history>>

Connect ==
  /\ stage = "try" /\ conn = "none"
  /\ conn' = "fresh" /\ reused' = FALSE /\ stage' = "open"
  /\ UNCHANGED <<call, attempt, unread, orphans, outcome, done, history>>

\* Refused, timed out, or no TLS.
ConnectFails ==
  /\ stage = "try" /\ conn = "none" /\ Failed(FALSE)
  /\ UNCHANGED <<orphans, done, history>>

CountSend ==
  /\ tries' = [tries EXCEPT ![call] = @ + 1]
  /\ firstOver' = IF tries[call] = 0 THEN [firstOver EXCEPT ![call] = conn] ELSE firstOver

Send ==
  /\ stage = "open" /\ CountSend
  /\ stage' = "sent" /\ unread' = call
  /\ UNCHANGED <<call, attempt, reused, conn, orphans, outcome, done>>

\* The connection turns out to be dead, the request does not arrive.
SendFails ==
  /\ stage = "open" /\ CountSend /\ Failed(reused)
  /\ UNCHANGED <<orphans, done>>

\* The answer is read; the server may ask for the connection to be closed.
Receive ==
  /\ stage \in {"carried", "refused"}
  /\ unread' = None /\ conn' \in {"used", "none"}
  /\ End(IF stage = "carried" THEN "answered" ELSE "refused")
  /\ UNCHANGED <<orphans, done, history>>

\* Mutant of Break: no timeout while the server says nothing.
BreakOnlyAnswered ==
  /\ stage \in {"carried", "refused"} /\ Failed(reused)
  /\ UNCHANGED <<orphans, done, history>>

\* The timeout runs out or the connection breaks; the server may still hold
\* the request.
Break ==
  /\ stage \in Waiting /\ Failed(reused)
  /\ orphans' = IF stage = "sent" THEN [orphans EXCEPT ![call] = @ + 1] ELSE orphans
  /\ UNCHANGED <<done, history>>

-----------------------------------------------------------------------------
(* The server *)

\* It carries the request out and answers, with a result or an RPC error.
CarryOut ==
  /\ stage = "sent" /\ stage' = "carried"
  /\ done' = [done EXCEPT ![call] = @ + 1]
  /\ UNCHANGED <<call, attempt, reused, conn, unread, orphans, outcome, history>>

\* It answers without doing anything: 401, 403, 404, 500.
Refuse ==
  /\ stage = "sent" /\ stage' = "refused"
  /\ UNCHANGED <<call, attempt, reused, conn, unread, orphans, outcome, done, history>>

\* A request nobody waits for is carried out, or lost with its connection.
CarryOutLate(c) ==
  /\ orphans[c] > 0
  /\ orphans' = [orphans EXCEPT ![c] = @ - 1]
  /\ done' \in {done, [done EXCEPT ![c] = @ + 1]}
  /\ UNCHANGED <<client, outcome, history>>

-----------------------------------------------------------------------------
(* Specification *)

Exchange == \/ Reuse \/ Connect \/ ConnectFails \/ Send \/ SendFails
            \/ Receive \/ Break

Next == \/ \E c \in Calls : Begin(c) \/ CarryOutLate(c)
        \/ Exchange \/ Close \/ CarryOut \/ Refuse

Spec == Init /\ [][Next]_vars

\* Every socket operation ends: it succeeds, or its timeout runs out.
FairSpec == Spec /\ WF_vars(Exchange)
-----------------------------------------------------------------------------
(* Properties *)

\* No exchange starts on a connection that still has an earlier answer in it:
\* nobody is handed the answer to another call.
NoStrayAnswer == unread # None => stage \in Waiting /\ unread = call

\* A call that changes the server is sent again only after it went over a
\* connection that had been used before, and then just once; a safe one is
\* sent at most Retries more times ("state-changing calls are not retried
\* unless you pass retry_unsafe=True").
RepeatsAreBounded ==
  \A c \in Calls :
    /\ tries[c] <= Retries + 1
    /\ ~(c \in SafeCalls \/ RetryUnsafe) /\ tries[c] > 1
         => tries[c] = 2 /\ firstOver[c] = "used"

\* A repeated call that changes the server was not carried out before, as "a
\* connection that was already used and died before any response byte arrived
\* provably never delivered the request" (softether.py:2748-2750).
CarriedOutOnce == RetryUnsafe \/ \A c \in Calls \ SafeCalls : done[c] <= 1

\* The client keeps the promise the panel relies on.
KeepsPromise == Promise!Spec

\* Whatever the network does, every call ends and frees the lock.
EveryCallEnds == \A c \in Calls : outcome[c] = "running" ~> outcome[c] # "running"
=============================================================================
