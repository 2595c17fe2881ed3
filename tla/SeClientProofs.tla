---------------------------- MODULE SeClientProofs ----------------------------
(***************************************************************************)
(* SeClient keeps its types, bounds its repetitions and implements         *)
(* RpcPromise, for every set of calls, any number of retries and either    *)
(* value of retry_unsafe.                                                  *)
(***************************************************************************)
EXTENDS SeClient, TLAPS

Repeatable(c) == c \in SafeCalls \/ RetryUnsafe

-----------------------------------------------------------------------------
(* The inductive invariant *)

\* Exactly one call runs while the lock is held, and it is the holder's.
LockInv ==
  /\ stage = "idle" <=> call = None
  /\ \A c \in Calls : outcome[c] = "running" <=> c = call

\* The connection is there when it is needed, what reused says of it is true,
\* and a repetition never goes over a connection that had been used before.
ConnInv ==
  /\ unread = IF stage \in Waiting THEN call ELSE None
  /\ stage \in {"idle", "try"} => conn \in {"none", "used"}
  /\ stage \in {"open"} \cup Waiting => conn # "none" /\ (reused <=> conn = "used")
  /\ attempt > 0 => conn # "used"

\* What the running call has sent so far, attempt by attempt.
TriesInv ==
  call # None =>
    /\ stage \in {"try", "open"} => tries[call] <= attempt
    /\ stage \in Waiting => tries[call] <= attempt + 1
    /\ stage \in Waiting /\ attempt = 0 => tries[call] = 1 /\ firstOver[call] = conn
    /\ ~Repeatable(call) /\ attempt > 0
         => attempt = 1 /\ tries[call] > 0 /\ firstOver[call] = "used"

\* Every request the server saw or holds was sent.
CountInv ==
  \A c \in Calls :
    /\ done[c] + orphans[c] + (IF c = call /\ stage = "sent" THEN 1 ELSE 0) <= tries[c]
    /\ outcome[c] = "new" => tries[c] = 0

CarriedInv == stage = "carried" => done[call] > 0

IInv == /\ TypeOK /\ LockInv /\ ConnInv /\ TriesInv /\ CountInv /\ CarriedInv
        /\ RepeatsAreBounded

-----------------------------------------------------------------------------
(* Initialisation *)

LEMMA InitEstablishes == Init => IInv
<1> SUFFICES ASSUME Init PROVE IInv
  OBVIOUS
<1> USE ClientAssumption DEF Init
<1>1. TypeOK
  <2>1. outcome \in [Calls -> Outcomes] /\ firstOver \in [Calls -> Conns]
    BY DEF Outcomes, Conns
  <2>2. /\ orphans \in [Calls -> Nat] /\ done \in [Calls -> Nat] /\ tries \in [Calls -> Nat]
        /\ attempt \in 0..Retries
    OBVIOUS
  <2> QED
    BY <2>1, <2>2 DEF TypeOK, Stages, Conns
<1>2. LockInv /\ ConnInv /\ TriesInv /\ CarriedInv
  BY DEF LockInv, ConnInv, TriesInv, CarriedInv, Waiting
<1>3. CountInv /\ RepeatsAreBounded
  BY DEF CountInv, RepeatsAreBounded
<1> QED
  BY <1>1, <1>2, <1>3 DEF IInv

-----------------------------------------------------------------------------
(* The client's steps *)

\* The call that takes the lock has sent nothing yet.
LEMMA BeginKeeps ==
  ASSUME IInv, NEW c \in Calls, Begin(c)
  PROVE  IInv'
<1> USE ClientAssumption DEF IInv, Begin, history
<1>1. TypeOK'
  <2>1. outcome' \in [Calls -> Outcomes]
    BY DEF TypeOK, Outcomes
  <2>2. call' \in Calls /\ stage' \in Stages
    BY DEF Stages
  <2>3. attempt' \in 0..Retries
    OBVIOUS
  <2>4. reused' \in BOOLEAN
    BY Zenon
  <2> QED
    BY <2>1, <2>2, <2>3, <2>4 DEF TypeOK
<1>2. LockInv'
  BY DEF TypeOK, LockInv
<1>3. ConnInv'
  BY DEF ConnInv, Waiting
<1>4. TriesInv' /\ CountInv' /\ CarriedInv'
  BY DEF TypeOK, LockInv, TriesInv, CountInv, CarriedInv, Waiting
<1>5. RepeatsAreBounded'
  BY DEF RepeatsAreBounded
<1> QED
  BY <1>1, <1>2, <1>3, <1>4, <1>5

LEMMA CloseKeeps == IInv /\ Close => IInv'
<1> SUFFICES ASSUME IInv, Close PROVE IInv'
  OBVIOUS
<1> USE DEF IInv, Close, CloseConn, history
<1>1. TypeOK' /\ LockInv' /\ ConnInv' /\ CarriedInv'
  BY DEF TypeOK, LockInv, ConnInv, CarriedInv, Conns, Waiting
<1>2. TriesInv' /\ CountInv' /\ RepeatsAreBounded'
  BY DEF LockInv, TriesInv, CountInv, RepeatsAreBounded
<1> QED
  BY <1>1, <1>2

LEMMA ReuseKeeps == IInv /\ Reuse => IInv'
<1> SUFFICES ASSUME IInv, Reuse PROVE IInv'
  OBVIOUS
<1> USE DEF IInv, Reuse, history
<1>1. TypeOK' /\ LockInv' /\ ConnInv' /\ CarriedInv'
  BY DEF TypeOK, LockInv, ConnInv, CarriedInv, Conns, Waiting, Stages
<1>2. TriesInv' /\ CountInv' /\ RepeatsAreBounded'
  BY DEF TypeOK, LockInv, TriesInv, CountInv, RepeatsAreBounded, Waiting
<1> QED
  BY <1>1, <1>2

LEMMA ConnectKeeps == IInv /\ Connect => IInv'
<1> SUFFICES ASSUME IInv, Connect PROVE IInv'
  OBVIOUS
<1> USE DEF IInv, Connect, history
<1>1. TypeOK' /\ LockInv' /\ ConnInv' /\ CarriedInv'
  BY DEF TypeOK, LockInv, ConnInv, CarriedInv, Conns, Waiting, Stages
<1>2. TriesInv' /\ CountInv' /\ RepeatsAreBounded'
  BY DEF TypeOK, LockInv, TriesInv, CountInv, RepeatsAreBounded, Waiting
<1> QED
  BY <1>1, <1>2

LEMMA SendKeeps == IInv /\ Send => IInv'
<1> SUFFICES ASSUME IInv, Send PROVE IInv'
  OBVIOUS
<1> USE ClientAssumption DEF IInv, Send, CountSend
<1>0. call \in Calls /\ tries[call] \in Nat
  BY DEF TypeOK, LockInv
<1>1. TypeOK' /\ LockInv' /\ ConnInv' /\ CarriedInv'
  BY <1>0 DEF TypeOK, LockInv, ConnInv, CarriedInv, Conns, Waiting, Stages
<1>2. TriesInv'
  BY <1>0 DEF TypeOK, ConnInv, TriesInv, Waiting, Repeatable
<1>3. CountInv'
  BY <1>0 DEF TypeOK, LockInv, CountInv
<1>4. RepeatsAreBounded'
  BY <1>0 DEF TypeOK, TriesInv, RepeatsAreBounded, Repeatable
<1> QED
  BY <1>1, <1>2, <1>3, <1>4

-----------------------------------------------------------------------------
(* Failed attempts *)

\* The state a failed attempt leaves behind, whoever held the request: what
\* has to be shown of the counters is left to the steps that fail.
LEMMA FailedKeeps ==
  ASSUME IInv, stage # "idle", NEW wasReused \in BOOLEAN, Failed(wasReused),
         tries' \in [Calls -> Nat], firstOver' \in [Calls -> Conns],
         done' = done, orphans' \in [Calls -> Nat],
         tries'[call] <= attempt + 1,
         wasReused => attempt = 0 /\ tries'[call] > 0 /\ firstOver'[call] = "used",
         \A c \in Calls : c # call => tries'[c] = tries[c] /\ firstOver'[c] = firstOver[c],
         \A c \in Calls : done[c] + orphans'[c] <= tries'[c],
         RepeatsAreBounded'
  PROVE  IInv'
<1> USE ClientAssumption DEF IInv, Failed, CloseConn, End
<1>0. call \in Calls /\ outcome[call] = "running"
  BY DEF TypeOK, LockInv
<1>1. TypeOK'
  <2>1. outcome' \in [Calls -> Outcomes]
    BY <1>0 DEF TypeOK, Outcomes
  <2>2. attempt' \in 0..Retries
    BY DEF TypeOK, MayRepeat
  <2>5. reused' \in BOOLEAN
    BY Zenon
  <2>3. call' \in Calls \cup {None}
    BY <1>0
  <2>4. stage' \in Stages /\ conn' \in Conns /\ unread' \in Calls \cup {None}
    BY DEF Stages, Conns
  <2> QED
    BY <2>1, <2>2, <2>3, <2>4, <2>5 DEF TypeOK
<1>2. LockInv' /\ ConnInv' /\ CarriedInv'
  BY <1>0 DEF TypeOK, LockInv, ConnInv, CarriedInv, Waiting
<1>3. TriesInv'
  BY <1>0 DEF TypeOK, TriesInv, MayRepeat, Repeatable, Waiting
<1>4. CountInv'
  BY <1>0 DEF TypeOK, LockInv, CountInv, MayRepeat
<1> QED
  BY <1>1, <1>2, <1>3, <1>4

LEMMA ConnectFailsKeeps == IInv /\ ConnectFails => IInv'
<1> SUFFICES ASSUME IInv, ConnectFails PROVE IInv'
  OBVIOUS
<1> USE ClientAssumption DEF ConnectFails, history
<1>1. call \in Calls /\ tries[call] <= attempt + 1
  BY DEF IInv, TypeOK, LockInv, TriesInv
<1>2. \A c \in Calls : done[c] + orphans'[c] <= tries'[c]
  BY DEF IInv, TypeOK, CountInv
<1>3. RepeatsAreBounded'
  BY DEF IInv, RepeatsAreBounded
<1> QED
  BY <1>1, <1>2, <1>3, FailedKeeps DEF IInv, TypeOK

LEMMA SendFailsKeeps == IInv /\ SendFails => IInv'
<1> SUFFICES ASSUME IInv, SendFails PROVE IInv'
  OBVIOUS
<1> USE ClientAssumption DEF SendFails, CountSend
<1>0. call \in Calls /\ tries[call] \in Nat /\ attempt \in Nat
  BY DEF IInv, TypeOK, LockInv
<1>1. /\ tries' \in [Calls -> Nat] /\ firstOver' \in [Calls -> Conns]
      /\ \A c \in Calls : c # call => tries'[c] = tries[c] /\ firstOver'[c] = firstOver[c]
  BY <1>0 DEF IInv, TypeOK
<1>2. tries'[call] <= attempt + 1
  BY <1>0 DEF IInv, TypeOK, TriesInv
<1>3. reused => attempt = 0 /\ tries'[call] > 0 /\ firstOver'[call] = "used"
  BY <1>0 DEF IInv, TypeOK, TriesInv, ConnInv
<1>4. \A c \in Calls : done[c] + orphans'[c] <= tries'[c]
  BY <1>0 DEF IInv, TypeOK, CountInv
<1>5. RepeatsAreBounded'
  BY <1>0 DEF IInv, TypeOK, TriesInv, RepeatsAreBounded, Repeatable
<1> QED
  BY <1>0, <1>1, <1>2, <1>3, <1>4, <1>5, FailedKeeps DEF IInv, TypeOK

LEMMA BreakKeeps == IInv /\ Break => IInv'
<1> SUFFICES ASSUME IInv, Break PROVE IInv'
  OBVIOUS
<1> USE ClientAssumption DEF Break, history
<1>0. call \in Calls /\ tries[call] \in Nat /\ attempt \in Nat
  BY DEF IInv, TypeOK, LockInv, Waiting
<1>2. tries[call] <= attempt + 1
  BY <1>0 DEF IInv, TriesInv
<1>3. reused => attempt = 0 /\ tries[call] > 0 /\ firstOver[call] = "used"
  BY <1>0 DEF IInv, TypeOK, TriesInv, ConnInv
<1>4. orphans' \in [Calls -> Nat] /\ \A c \in Calls : done[c] + orphans'[c] <= tries'[c]
  BY <1>0 DEF IInv, TypeOK, CountInv
<1>5. RepeatsAreBounded'
  BY DEF IInv, RepeatsAreBounded
<1> QED
  BY <1>0, <1>2, <1>3, <1>4, <1>5, FailedKeeps DEF IInv, TypeOK, Waiting

-----------------------------------------------------------------------------
(* Answers, and the server *)

LEMMA ReceiveKeeps == IInv /\ Receive => IInv'
<1> SUFFICES ASSUME IInv, Receive PROVE IInv'
  OBVIOUS
<1> USE ClientAssumption DEF IInv, Receive, End, history
<1>0. call \in Calls /\ outcome[call] = "running"
  BY DEF TypeOK, LockInv
<1>1. TypeOK'
  <2>1. outcome' \in [Calls -> Outcomes]
    BY <1>0 DEF TypeOK, Outcomes
  <2>2. call' \in Calls \cup {None} /\ stage' \in Stages
    BY DEF Stages
  <2>3. attempt' \in 0..Retries /\ conn' \in Conns
    BY DEF Conns
  <2>4. unread' \in Calls \cup {None}
    OBVIOUS
  <2>5. reused' \in BOOLEAN
    BY Zenon
  <2> QED
    BY <2>1, <2>2, <2>3, <2>4, <2>5 DEF TypeOK
<1>3. LockInv' /\ ConnInv' /\ CarriedInv'
  BY <1>0 DEF TypeOK, LockInv, ConnInv, CarriedInv, Waiting
<1>2. TriesInv' /\ CountInv' /\ RepeatsAreBounded'
  BY <1>0 DEF TypeOK, LockInv, TriesInv, CountInv, RepeatsAreBounded
<1> QED
  BY <1>1, <1>2, <1>3

LEMMA CarryOutKeeps == IInv /\ CarryOut => IInv'
<1> SUFFICES ASSUME IInv, CarryOut PROVE IInv'
  OBVIOUS
<1> USE ClientAssumption DEF IInv, CarryOut, history
<1>0. call \in Calls /\ done[call] \in Nat
  BY DEF TypeOK, LockInv
<1>1. TypeOK' /\ LockInv' /\ ConnInv' /\ CarriedInv'
  BY <1>0 DEF TypeOK, LockInv, ConnInv, CarriedInv, Waiting, Stages
<1>2. TriesInv' /\ CountInv' /\ RepeatsAreBounded'
  BY <1>0 DEF TypeOK, LockInv, TriesInv, CountInv, RepeatsAreBounded, Waiting
<1> QED
  BY <1>1, <1>2

LEMMA RefuseKeeps == IInv /\ Refuse => IInv'
<1> SUFFICES ASSUME IInv, Refuse PROVE IInv'
  OBVIOUS
<1> USE ClientAssumption DEF IInv, Refuse, history
<1>1. TypeOK' /\ LockInv' /\ ConnInv' /\ CarriedInv'
  BY DEF TypeOK, LockInv, ConnInv, CarriedInv, Waiting, Stages
<1>2. TriesInv' /\ CountInv' /\ RepeatsAreBounded'
  BY DEF TypeOK, LockInv, TriesInv, CountInv, RepeatsAreBounded, Waiting
<1> QED
  BY <1>1, <1>2

LEMMA CarryOutLateKeeps ==
  ASSUME IInv, NEW c \in Calls, CarryOutLate(c)
  PROVE  IInv'
<1> USE DEF IInv, CarryOutLate, client, history
<1>1. TypeOK' /\ LockInv' /\ ConnInv'
  BY DEF TypeOK, LockInv, ConnInv
<1>2. CarriedInv'
  BY ClientAssumption DEF TypeOK, LockInv, CarriedInv
<1>3. TriesInv' /\ RepeatsAreBounded'
  BY DEF TriesInv, RepeatsAreBounded
<1>4. CountInv'
  BY DEF TypeOK, CountInv
<1> QED
  BY <1>1, <1>2, <1>3, <1>4

LEMMA StepKeeps == IInv /\ [Next]_vars => IInv'
<1> SUFFICES ASSUME IInv, [Next]_vars PROVE IInv'
  OBVIOUS
<1>1. CASE UNCHANGED vars
  BY <1>1 DEF IInv, TypeOK, LockInv, ConnInv, TriesInv, CountInv, CarriedInv,
              RepeatsAreBounded, vars, client, history
<1>2. CASE \E c \in Calls : Begin(c) \/ CarryOutLate(c)
  BY <1>2, BeginKeeps, CarryOutLateKeeps
<1>3. CASE Exchange
  BY <1>3, ReuseKeeps, ConnectKeeps, ConnectFailsKeeps, SendKeeps, SendFailsKeeps,
     ReceiveKeeps, BreakKeeps DEF Exchange
<1>4. CASE Close \/ CarryOut \/ Refuse
  BY <1>4, CloseKeeps, CarryOutKeeps, RefuseKeeps
<1> QED
  BY <1>1, <1>2, <1>3, <1>4 DEF Next

-----------------------------------------------------------------------------
(* Invariance *)

\* The invariant holds in every behaviour of the client: whoever holds the
\* lock, what it has sent, and what the connection still owes are as IInv says.
THEOREM Invariance == Spec => []IInv
  BY InitEstablishes, StepKeeps, PTL DEF Spec

\* The client's state and the counts of what was sent stay well typed.
THEOREM TypeCorrect == Spec => []TypeOK
<1>1. IInv => TypeOK
  BY DEF IInv
<1> QED
  BY Invariance, <1>1, PTL

\* No call starts over a connection that an earlier answer is still to come
\* from, because a failed exchange closes it.
THEOREM ConnectionIsClean == Spec => []NoStrayAnswer
<1>1. IInv => NoStrayAnswer
  BY DEF IInv, ConnInv, NoStrayAnswer
<1> QED
  BY Invariance, <1>1, PTL

\* A call that changes the server is sent at most twice, and twice only when
\* it first went over a used connection.
THEOREM Bounded == Spec => []RepeatsAreBounded
<1>1. IInv => RepeatsAreBounded
  BY DEF IInv
<1> QED
  BY Invariance, <1>1, PTL

-----------------------------------------------------------------------------
(* The client implements RpcPromise *)

\* The promise bounds how often a call is carried out by what the client sends.
LEMMA SentWithinPromise ==
  ASSUME IInv, NEW c \in Calls
  PROVE  tries[c] <= Promise!Often(c)
  BY ClientAssumption DEF IInv, TypeOK, RepeatsAreBounded, Promise!Often

LEMMA PromiseInit == Init => Promise!Init
  BY DEF Init, Promise!Init

\* A step that tells the caller how its call ended, or tells it nothing yet.
LEMMA FailedKeepsPromise ==
  ASSUME IInv, stage # "idle", NEW wasReused, Failed(wasReused), UNCHANGED done
  PROVE  [Promise!Next]_<<outcome, done>>
<1>1. call \in Calls /\ outcome[call] = "running"
  BY DEF IInv, TypeOK, LockInv
<1>2. CASE UNCHANGED outcome
  BY <1>2
<1>3. CASE outcome' = [outcome EXCEPT ![call] = "raised"]
  <2>1. Promise!End(call, "raised")
    BY <1>1, <1>3 DEF Promise!End
  <2> QED
    BY <1>1, <2>1 DEF Promise!Next
<1> QED
  BY <1>2, <1>3 DEF Failed, End

LEMMA PromiseStep == IInv /\ [Next]_vars => [Promise!Next]_<<outcome, done>>
<1> SUFFICES ASSUME IInv, [Next]_vars PROVE [Promise!Next]_<<outcome, done>>
  OBVIOUS
<1>1. CASE UNCHANGED vars
  BY <1>1 DEF vars
<1>2. ASSUME NEW c \in Calls, Begin(c)
      PROVE  Promise!Begin(c)
  BY <1>2, ClientAssumption DEF IInv, LockInv, Begin, Promise!Begin
<1>3. ASSUME NEW c \in Calls, CarryOutLate(c)
      PROVE  UNCHANGED <<outcome, done>> \/ Promise!CarryOut(c)
  <2>1. done[c] < tries[c] /\ tries[c] # 0
    BY <1>3 DEF IInv, TypeOK, CountInv, CarryOutLate
  <2>2. outcome[c] # "new" /\ done[c] < Promise!Often(c)
    BY <2>1, SentWithinPromise, ClientAssumption
       DEF IInv, TypeOK, CountInv, RepeatsAreBounded, Promise!Often
  <2> QED
    BY <1>3, <2>2 DEF CarryOutLate, Promise!CarryOut
<1>4. CASE Reuse \/ Connect \/ Send \/ Close \/ Refuse
  BY <1>4 DEF Reuse, Connect, Send, Close, Refuse
<1>5. CASE ConnectFails \/ SendFails \/ Break
  BY <1>5, FailedKeepsPromise
     DEF ConnectFails, SendFails, Break, Waiting, IInv, TypeOK
<1>6. ASSUME Receive
      PROVE  \E how \in {"answered", "refused", "raised"} : Promise!End(call, how)
  <2>1. call \in Calls /\ outcome[call] = "running"
    BY <1>6 DEF IInv, TypeOK, LockInv, Receive
  <2>2. CASE stage = "carried"
    <3>1. Promise!End(call, "answered")
      BY <1>6, <2>1, <2>2 DEF IInv, CarriedInv, Receive, End, Promise!End
    <3> QED
      BY <3>1
  <2>3. CASE stage = "refused"
    <3>1. Promise!End(call, "refused")
      BY <1>6, <2>1, <2>3 DEF Receive, End, Promise!End
    <3> QED
      BY <3>1
  <2> QED
    BY <1>6, <2>2, <2>3 DEF Receive
<1>7. ASSUME CarryOut
      PROVE  Promise!CarryOut(call)
  <2>1. call \in Calls /\ outcome[call] = "running" /\ done[call] < tries[call]
    BY <1>7 DEF IInv, TypeOK, LockInv, CountInv, CarryOut
  <2>2. done[call] < Promise!Often(call)
    BY <2>1, ClientAssumption
       DEF IInv, TypeOK, RepeatsAreBounded, Promise!Often
  <2> QED
    BY <1>7, <2>1, <2>2 DEF CarryOut, Promise!CarryOut
<1>8. Receive \/ CarryOut => call \in Calls
  BY DEF IInv, TypeOK, LockInv, Receive, CarryOut
<1> QED
  BY <1>1, <1>2, <1>3, <1>4, <1>5, <1>6, <1>7, <1>8 DEF Next, Exchange, Promise!Next

\* The client keeps its promise: calls do not overlap, an answered call was
\* carried out, and none is carried out more often than the promise allows,
\* whatever connections and answers are lost.
THEOREM ImplementsPromise == Spec => KeepsPromise
<1>1. Init => Promise!Init
  BY PromiseInit
<1>2. IInv /\ [Next]_vars => [Promise!Next]_<<outcome, done>>
  BY PromiseStep
<1> QED
  BY <1>1, <1>2, Invariance, PTL DEF Spec, KeepsPromise, Promise!Spec

-----------------------------------------------------------------------------
(* A call is bounded *)

\* The steps of the client a call may still take: to connect, to send and to
\* hear from the server, for every attempt it has left.
StepsLeft ==
  IF stage = "idle" THEN 0
  ELSE 3 * (Retries - attempt)
       + (CASE stage = "try" -> 3 [] stage = "open" -> 2 [] OTHER -> 1)

LEMMA FailureCosts ==
  ASSUME TypeOK, stage # "idle", NEW wasReused, Failed(wasReused)
  PROVE  StepsLeft' < StepsLeft
<1>1. attempt \in 0 .. Retries /\ Retries \in Nat
  BY ClientAssumption DEF TypeOK
<1>2. CASE MayRepeat(wasReused)
  <2>1. stage' = "try" /\ attempt' = attempt + 1 /\ attempt < Retries
    BY <1>2 DEF Failed, MayRepeat
  <2> QED
    BY <1>1, <2>1 DEF StepsLeft
<1>3. CASE ~MayRepeat(wasReused)
  <2>1. stage' = "idle"
    BY <1>3 DEF Failed, End
  <2> QED
    BY <1>1, <2>1 DEF StepsLeft
<1> QED
  BY <1>2, <1>3

\* A call under way takes at most three steps of the client for each of its
\* attempts, and then it has ended and freed the lock, whatever the server, the
\* network and the other callers do.
CallCloses ==
  [][/\ StepsLeft' \in 0 .. 3 * (Retries + 1)
     /\ stage # "idle" => StepsLeft' <= StepsLeft
     /\ Exchange => StepsLeft' < StepsLeft
     /\ StepsLeft' = 0 <=> call' = None]_vars

THEOREM CallsEnd == Spec => CallCloses
<1> DEFINE Closes == /\ StepsLeft' \in 0 .. 3 * (Retries + 1)
                     /\ stage # "idle" => StepsLeft' <= StepsLeft
                     /\ Exchange => StepsLeft' < StepsLeft
                     /\ StepsLeft' = 0 <=> call' = None
<1>1. ASSUME IInv, IInv', [Next]_vars PROVE Closes
  <2>1. /\ attempt \in 0 .. Retries /\ attempt' \in 0 .. Retries /\ Retries \in Nat
        /\ stage \in Stages /\ stage' \in Stages /\ (stage' = "idle" <=> call' = None)
    BY <1>1, ClientAssumption DEF IInv, TypeOK, LockInv
  <2>2. /\ StepsLeft \in Nat /\ StepsLeft' \in 0 .. 3 * (Retries + 1)
        /\ StepsLeft' = 0 <=> call' = None
    BY <2>1 DEF StepsLeft, Stages
  <2>3. CASE ConnectFails \/ SendFails \/ Break
    <3>1. stage # "idle" /\ \E wasReused \in {FALSE, reused} : Failed(wasReused)
      BY <2>3 DEF ConnectFails, SendFails, Break, Waiting
    <3>2. StepsLeft' < StepsLeft
      BY <1>1, <3>1, FailureCosts DEF IInv
    <3> QED
      BY <2>2, <3>2
  <2>4. CASE Reuse \/ Connect \/ Send \/ Receive
    <3>1. /\ attempt' = attempt \/ stage' = "idle"
          /\ <<stage, stage'>> \in {<<"try", "open">>, <<"open", "sent">>,
                                    <<"carried", "idle">>, <<"refused", "idle">>}
      BY <2>4 DEF Reuse, Connect, Send, Receive, End
    <3>2. StepsLeft' < StepsLeft
      BY <2>1, <3>1 DEF StepsLeft
    <3> QED
      BY <2>2, <3>2
  <2>5. CASE ~Exchange
    <3>1. stage # "idle" => StepsLeft' = StepsLeft
      <4>1. ASSUME NEW c \in Calls, Begin(c) \/ CarryOutLate(c), stage # "idle"
            PROVE  UNCHANGED <<stage, attempt>>
        BY <4>1 DEF Begin, CarryOutLate, client
      <4>2. ASSUME CarryOut \/ Refuse PROVE StepsLeft' = StepsLeft
        BY <4>2 DEF CarryOut, Refuse, StepsLeft
      <4>3. ASSUME UNCHANGED <<stage, attempt>> PROVE StepsLeft' = StepsLeft
        BY <4>3 DEF StepsLeft
      <4> QED
        BY <1>1, <2>5, <4>1, <4>2, <4>3 DEF Next, Close, vars, client
    <3> QED
      BY <2>2, <2>5, <3>1
  <2> QED
    BY <2>3, <2>4, <2>5 DEF Exchange
<1>2. IInv /\ IInv' /\ [Next]_vars => [Closes]_vars
  BY <1>1
<1> HIDE DEF Closes
<1>3. Spec => [][Closes]_vars
  BY <1>2, Invariance, PTL DEF Spec
<1> QED
  BY <1>3 DEF CallCloses, Closes
=============================================================================
