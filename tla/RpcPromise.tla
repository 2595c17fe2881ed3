------------------------------ MODULE RpcPromise ------------------------------
(***************************************************************************)
(* What the SoftEther client library promises of a call, and all that the  *)
(* rest of the panel may rely on: calls do not overlap, an answer means    *)
(* the server has carried the call out, and no call is carried out more    *)
(* often than Often allows.  It does not promise that a call that raised   *)
(* was not carried out, nor that it will not be carried out later.         *)
(***************************************************************************)
EXTENDS Integers

CONSTANTS
  Calls,       \* the calls of a run, each made at most once
  SafeCalls,   \* those whose method has a safe prefix (Get, Enum, Test, ...)
  Retries,     \* how many times a call may be repeated
  RetryUnsafe  \* whether other methods may be repeated like safe ones

VARIABLES
  outcome,  \* what the caller knows of each call
  done      \* how often the server carried each call out

\* A call that changes the server is repeated at most once: over a connection
\* that had been used before.
Often(c) ==
  CASE c \in SafeCalls \/ RetryUnsafe                  -> Retries + 1
    [] ~(c \in SafeCalls \/ RetryUnsafe) /\ Retries > 0 -> 2
    [] OTHER                                           -> 1

Init ==
  /\ outcome = [c \in Calls |-> "new"]
  /\ done = [c \in Calls |-> 0]

Begin(c) ==
  /\ outcome[c] = "new"
  /\ \A o \in Calls : outcome[o] # "running"
  /\ outcome' = [outcome EXCEPT ![c] = "running"]
  /\ UNCHANGED done

\* Possibly long after the caller has given up.
CarryOut(c) ==
  /\ outcome[c] # "new" /\ done[c] < Often(c)
  /\ done' = [done EXCEPT ![c] = @ + 1]
  /\ UNCHANGED outcome

End(c, how) ==
  /\ outcome[c] = "running"
  /\ how = "answered" => done[c] > 0
  /\ outcome' = [outcome EXCEPT ![c] = how]
  /\ UNCHANGED done

Next ==
  \E c \in Calls : \/ Begin(c)
                   \/ CarryOut(c)
                   \/ \E how \in {"answered", "refused", "raised"} : End(c, how)

Spec == Init /\ [][Next]_<<outcome, done>>
=============================================================================
