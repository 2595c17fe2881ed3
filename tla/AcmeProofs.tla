------------------------------ MODULE AcmeProofs ------------------------------
(***************************************************************************)
(* The exchange with the authority, for any number of attempts, polls and  *)
(* forgotten nonces: it keeps its types, retries with the nonce a refusal  *)
(* carried, shows its token exactly while it is needed, and takes only     *)
(* steps of Issuance.                                                      *)
(***************************************************************************)
EXTENDS Acme, SequenceTheorems, TLAPS

Places == Calls \cup {"begin", "directory", "publish", "withdraw",
                      "granted", "failed"}

-----------------------------------------------------------------------------
(* Types *)

NonceInv ==
  /\ attempt \in 0 .. Attempts - 1
  /\ pool \in Seq(1 .. issued) /\ carried \in 0 .. issued
  /\ issued \in Nat /\ usable \subseteq 1 .. issued
  /\ forgot \in 0 .. MaxForgets /\ bare \in 0 .. MaxBare

StateInv ==
  /\ at \in Places
  /\ token \in BOOLEAN /\ polls \in 0 .. MaxPolls
  /\ authz \in {"pending", "processing", "valid", "invalid"}
  /\ order \in {"none", "pending", "processing", "valid", "invalid"}

TInv == NonceInv /\ StateInv

LEMMA TypesHold == TInv => AcmeTypeOK
BY DEF TInv, NonceInv, StateInv, Places, AcmeTypeOK

LEMMA TypeInit == AcmeInit => TInv
<1> SUFFICES ASSUME AcmeInit PROVE TInv
  OBVIOUS
<1>1. StateInv
  <2>1. at \in Places /\ token \in BOOLEAN
    BY DEF AcmeInit, Places
  <2>2. polls \in 0 .. MaxPolls
    BY AcmeAssumption DEF AcmeInit
  <2>3. /\ authz \in {"pending", "processing", "valid", "invalid"}
        /\ order \in {"none", "pending", "processing", "valid", "invalid"}
    BY DEF AcmeInit
  <2> QED
    BY <2>1, <2>2, <2>3 DEF StateInv
<1>2. pool \in Seq(1 .. issued) /\ issued \in Nat /\ usable \subseteq 1 .. issued
  BY DEF AcmeInit
<1>3. /\ attempt \in 0 .. Attempts - 1 /\ carried \in 0 .. issued
      /\ forgot \in 0 .. MaxForgets /\ bare \in 0 .. MaxBare
  BY AcmeAssumption DEF AcmeInit
<1> QED
  BY <1>1, <1>2, <1>3 DEF TInv, NonceInv

\* Nonces given out so far stay nonces given out.
LEMMA MoreNonces ==
  ASSUME NonceInv, issued' \in Nat, issued <= issued'
  PROVE  pool \in Seq(1 .. issued') /\ usable \subseteq 1 .. issued'
<1>1. 1 .. issued \subseteq 1 .. issued'
  BY DEF NonceInv
<1> QED
  BY <1>1, SeqMonotonic DEF NonceInv

LEMMA AnswerTyped ==
  ASSUME NonceInv, pool # <<>>, Answer(Tail(pool))
  PROVE  /\ issued' \in Nat /\ issued <= issued' /\ usable' \subseteq 1 .. issued'
         /\ pool' \in Seq(1 .. issued') /\ carried' \in 0 .. issued'
         /\ bare' \in 0 .. MaxBare
         /\ carried' # 0 => pool' # <<>> /\ Head(pool') = carried'
<1>1. pool \in Seq(1 .. issued) /\ issued \in Nat /\ usable \subseteq 1 .. issued
      /\ Tail(pool) \in Seq(1 .. issued)
  BY DEF NonceInv
<1>2. CASE issued' = issued + 1 /\ usable' = (usable \ {Head(pool)}) \cup {issued'}
           /\ pool' = <<issued'>> \o Tail(pool) /\ carried' = issued' /\ UNCHANGED bare
  <2>1. issued' \in 1 .. issued' /\ issued <= issued' /\ issued' \in Nat
    BY <1>1, <1>2
  <2>2. Tail(pool) \in Seq(1 .. issued') /\ usable \subseteq 1 .. issued'
    <3>1. 1 .. issued \subseteq 1 .. issued'
      BY <1>1, <2>1
    <3> QED
      BY <1>1, <3>1, SeqMonotonic
  <2>3. <<issued'>> \in Seq(1 .. issued')
    BY <2>1
  <2>4. pool' \in Seq(1 .. issued')
    BY <1>2, <2>2, <2>3
  <2>5. pool' # <<>> /\ Head(pool') = issued'
    BY <1>2, <2>2, <2>3
  <2>6. usable' \subseteq 1 .. issued' /\ carried' \in 0 .. issued' /\ bare' \in 0 .. MaxBare
    <3>1. usable' \subseteq 1 .. issued'
      BY <1>2, <2>1, <2>2, Zenon
    <3>2. carried' \in 0 .. issued'
      BY <1>2, <2>1
    <3>3. bare' \in 0 .. MaxBare
      BY <1>2 DEF NonceInv
    <3> QED
      BY <3>1, <3>2, <3>3
  <2>7. carried' = issued'
    BY <1>2
  <2> QED
    BY <2>1, <2>4, <2>5, <2>6, <2>7, Zenon
<1>3. CASE bare < MaxBare /\ bare' = bare + 1 /\ usable' = usable \ {Head(pool)}
           /\ pool' = Tail(pool) /\ carried' = 0 /\ UNCHANGED issued
  <2>1. bare' \in 0 .. MaxBare
    BY <1>3, AcmeAssumption DEF NonceInv
  <2>2. issued' \in Nat /\ issued <= issued' /\ usable' \subseteq 1 .. issued'
        /\ carried' \in 0 .. issued'
    <3>1. usable' \subseteq 1 .. issued'
      BY <1>1, <1>3, Zenon
    <3>2. issued' \in Nat /\ issued <= issued' /\ carried' \in 0 .. issued'
      BY <1>1, <1>3
    <3> QED
      BY <3>1, <3>2
  <2>3. pool' \in Seq(1 .. issued') /\ carried' = 0
    BY <1>1, <1>3
  <2> QED
    BY <2>1, <2>2, <2>3
<1> QED
  BY <1>2, <1>3 DEF Answer

\* A call that the authority accepts.
LEMMA AcceptedTyped ==
  ASSUME NonceInv, NEW call, NEW next, Accepted(call, next)
  PROVE  NonceInv'
<1>1. attempt' \in 0 .. Attempts - 1 /\ UNCHANGED forgot
  BY AcmeAssumption DEF Accepted
<1> QED
  BY <1>1, AnswerTyped DEF Accepted, NonceInv

Exchanges == Register \/ NewOrder \/ Challenge \/ TellReady \/ PollValid \/ Finalize
             \/ PollSigned \/ Download

LEMMA ExchangesAreAccepted == Exchanges => \E call, next : Accepted(call, next)
BY DEF Exchanges, Register, NewOrder, Challenge, TellReady, PollValid, Finalize, PollSigned,
   Download

\* A nonce asked for without a call, when none is left.
LEMMA FreshTyped ==
  ASSUME NonceInv, issued' = issued + 1, usable' = usable \cup {issued'}, pool' = <<issued'>>,
         UNCHANGED <<attempt, carried, forgot, bare>>
  PROVE  NonceInv'
<1>1. issued' \in Nat /\ issued <= issued' /\ issued' \in 1 .. issued'
  BY DEF NonceInv
<1>2. usable \subseteq 1 .. issued' /\ carried' \in 0 .. issued'
  BY <1>1, MoreNonces DEF NonceInv
<1>3. pool' \in Seq(1 .. issued')
  BY <1>1
<1> QED
  BY <1>1, <1>2, <1>3 DEF NonceInv

LEMMA NonceStep == NonceInv /\ [AcmeNext]_acmeVars => NonceInv'
<1> SUFFICES ASSUME NonceInv, [AcmeNext]_acmeVars PROVE NonceInv'
  OBVIOUS
<1>1. CASE Exchanges
  BY <1>1, ExchangesAreAccepted, AcceptedTyped
<1>2. CASE Refused
  <2>1. attempt' \in 0 .. Attempts - 1
    BY <1>2, AcmeAssumption DEF Refused, GiveUp, NonceInv
  <2> QED
    BY <1>2, <2>1, AnswerTyped DEF Refused, NonceInv
<1>3. CASE FetchNonce
  BY <1>3, FreshTyped DEF FetchNonce
<1>4. CASE Directory
  BY <1>4, FreshTyped DEF Directory, NonceInv
<1>5. CASE Fail
  BY <1>5, AcmeAssumption DEF Fail, GiveUp, caVars, NonceInv
<1>6. CASE Begin \/ Publish \/ Withdraw
  BY <1>6 DEF Begin, Publish, Withdraw, caVars, NonceInv
<1>7. CASE ForgetNonces
  BY <1>7, AcmeAssumption DEF ForgetNonces, clientVars, NonceInv
<1>8. CASE Validate \/ Sign \/ UNCHANGED acmeVars
  BY <1>8 DEF Validate, Sign, acmeVars, clientVars, caVars, NonceInv
<1> QED
  BY <1>1, <1>2, <1>3, <1>4, <1>5, <1>6, <1>7, <1>8 DEF AcmeNext, ClientStep, Exchanges

-----------------------------------------------------------------------------
(* The token, and where the authority stands *)

\* The token is on show from Publish to Withdraw; the authority looks for it
\* while the client polls; what is signed was proved.
Shown  == {"answer", "wait_valid", "withdraw"}
Signed == {"signing", "download", "granted"}

ShowInv ==
  /\ token <=> at \in Shown
  /\ authz = "processing" => at \in {"wait_valid", "failed"}
  /\ at \in Signed \cup {"withdraw"} => authz = "valid"

LEMMA StateInit == AcmeInit => ShowInv
BY DEF AcmeInit, ShowInv, Shown, Signed

LEMMA StateStep ==
  StateInv /\ ShowInv /\ [AcmeNext]_acmeVars => StateInv' /\ ShowInv'
<1> SUFFICES ASSUME StateInv, ShowInv, [AcmeNext]_acmeVars PROVE StateInv' /\ ShowInv'
  OBVIOUS
<1> USE AcmeAssumption DEF StateInv, ShowInv, Shown, Signed, Places, Calls
<1>1. CASE Register \/ NewOrder \/ Challenge \/ TellReady \/ Download
  BY <1>1 DEF Register, NewOrder, Challenge, TellReady, Download, Accepted
<1>2. CASE PollValid
  <2>1. at = "wait_valid" /\ UNCHANGED <<authz, order>>
    BY <1>2 DEF PollValid, Accepted
  <2>2. \/ authz = "valid" /\ at' = "withdraw"
        \/ authz # "valid" /\ at' = "failed"
        \/ authz # "valid" /\ at' = "wait_valid" /\ polls # MaxPolls
    <3>1. CASE authz = "valid"
      BY <1>2, <3>1 DEF PollValid, Accepted
    <3>2. CASE authz = "invalid" \/ polls = MaxPolls
      BY <1>2, <3>1, <3>2 DEF PollValid, Accepted
    <3>3. CASE authz \notin {"valid", "invalid"} /\ polls # MaxPolls
      BY <1>2, <3>3 DEF PollValid, Accepted
    <3> QED
      BY <3>1, <3>2, <3>3
  <2>3. polls' = IF at' = "wait_valid" THEN polls + 1 ELSE polls
    BY <1>2 DEF PollValid
  <2>4. token' <=> (token /\ at' # "failed")
    BY <1>2 DEF PollValid
  <2>5. token' \in BOOLEAN
    BY <1>2 DEF PollValid
  <2>6. polls' \in 0 .. MaxPolls
    BY <2>2, <2>3
  <2>7. token' <=> at' \in Shown
    BY <2>1, <2>2, <2>4
  <2> QED
    BY <2>1, <2>2, <2>5, <2>6, <2>7
<1>3. CASE Finalize
  BY <1>3 DEF Finalize, Accepted
<1>4. CASE PollSigned
  BY <1>4 DEF PollSigned, Accepted
<1>5. CASE Refused \/ Fail
  BY <1>5 DEF Refused, Fail, GiveUp, caVars
<1>6. CASE Begin \/ Publish \/ Withdraw
  <2>1. UNCHANGED <<polls, authz, order>> /\ at' \in Places /\ token' \in BOOLEAN
    BY <1>6 DEF Begin, Publish, Withdraw, caVars
  <2>2. /\ token' <=> at' \in Shown
        /\ at \notin {"wait_valid", "failed"}
        /\ at' \in Signed \cup {"withdraw"} => FALSE
    BY <1>6 DEF Begin, Publish, Withdraw
  <2> QED
    BY <2>1, <2>2
<1>8. CASE Directory
  BY <1>8 DEF Directory
<1>9. CASE FetchNonce
  BY <1>9 DEF FetchNonce
<1>7. CASE Validate \/ Sign \/ ForgetNonces \/ UNCHANGED acmeVars
  BY <1>7 DEF Validate, Sign, ForgetNonces, acmeVars, clientVars, caVars
<1> QED
  BY <1>1, <1>2, <1>3, <1>4, <1>5, <1>6, <1>7, <1>8, <1>9 DEF AcmeNext, ClientStep

IInv == TInv /\ ShowInv

LEMMA Invariance == AcmeSpec => []IInv
<1>1. AcmeInit => IInv
  BY TypeInit, StateInit DEF IInv
<1>2. IInv /\ [AcmeNext]_acmeVars => IInv'
  BY NonceStep, StateStep DEF IInv, TInv
<1> QED
  BY <1>1, <1>2, PTL DEF AcmeSpec

\* Nonces in hand were given out, attempts and polls stay within theirs.
THEOREM TypeCorrect == AcmeSpec => []AcmeTypeOK
<1>1. IInv => AcmeTypeOK
  BY TypesHold DEF IInv
<1> QED
  BY <1>1, Invariance, PTL

\* While the authority may come for the token it is there, unless the panel
\* has given up; and it never outlives the issuance.
THEOREM TokenOnShow == AcmeSpec => []TokenStands
<1>1. IInv => TokenStands
  BY DEF IInv, ShowInv, Shown, Signed, TokenStands
<1> QED
  BY <1>1, Invariance, PTL

-----------------------------------------------------------------------------
(* Retries *)

\* Refusals are counted within one call.
RetryInv == RetryUsesCarried /\ (attempt # 0 => at \in Calls)

LEMMA RetryStep == TInv /\ RetryInv /\ [AcmeNext]_acmeVars => RetryInv'
<1> SUFFICES ASSUME TInv, RetryInv, [AcmeNext]_acmeVars PROVE RetryInv'
  OBVIOUS
<1>1. CASE attempt' = 0
  BY <1>1 DEF RetryInv, RetryUsesCarried
<1>2. ASSUME Refused, attempt' # 0 PROVE RetryInv'
  <2>1. at \in Calls /\ at' = at
    BY <1>2 DEF Refused, GiveUp
  <2>2. carried' # 0 => pool' # <<>> /\ Head(pool') = carried'
    BY <1>2, AnswerTyped DEF Refused, TInv
  <2> QED
    BY <2>1, <2>2 DEF RetryInv, RetryUsesCarried
<1>3. CASE FetchNonce
  BY <1>3 DEF FetchNonce, RetryInv, RetryUsesCarried, TInv, NonceInv
<1>4. CASE Begin \/ Directory \/ Publish \/ Withdraw
  <2>1. at \notin Calls /\ UNCHANGED attempt
    BY <1>4 DEF Begin, Directory, Publish, Withdraw, Calls
  <2> QED
    BY <1>1, <2>1 DEF RetryInv
<1>5. CASE Exchanges
  BY <1>1, <1>5, ExchangesAreAccepted DEF Accepted
<1>6. CASE Fail
  BY <1>1, <1>6 DEF Fail, GiveUp
<1>7. CASE Validate \/ Sign \/ ForgetNonces \/ UNCHANGED acmeVars
  BY <1>7 DEF Validate, Sign, ForgetNonces, acmeVars, clientVars, RetryInv, RetryUsesCarried
<1> QED
  BY <1>1, <1>2, <1>3, <1>4, <1>5, <1>6, <1>7 DEF AcmeNext, ClientStep, Exchanges

\* A call tried again sends the nonce its refusal carried.
THEOREM RetriesUseCarried == AcmeSpec => []RetryUsesCarried
<1>1. AcmeInit => RetryInv
  BY DEF AcmeInit, RetryInv, RetryUsesCarried
<1>2. AcmeSpec => []TInv
  BY Invariance, PTL DEF IInv
<1>3. AcmeSpec => []RetryInv
  BY <1>1, <1>2, RetryStep, PTL DEF AcmeSpec
<1>4. RetryInv => RetryUsesCarried
  BY DEF RetryInv
<1> QED
  BY <1>3, <1>4, PTL

-----------------------------------------------------------------------------
(* Issuance *)

\* Every step of the exchange and of the authority is one of Issuance's, or
\* changes nothing it speaks of.
LEMMA IssuanceStep ==
  ASSUME IInv, IInv', [AcmeNext]_acmeVars
  PROVE  [Exchange!Next]_<<IF at = "begin" THEN "idle"
                           ELSE IF at \in {"granted", "failed"} THEN at ELSE "running",
                           token, authz = "valid">>
<1> USE DEF IInv, ShowInv, Shown, Signed
<1>s. SUFFICES Exchange!Next \/ UNCHANGED <<IF at = "begin" THEN "idle"
                           ELSE IF at \in {"granted", "failed"} THEN at ELSE "running",
                           token, authz = "valid">>
  OBVIOUS
<1>f. ASSUME at \notin {"begin", "granted", "failed"}, at' = "failed", UNCHANGED authz
      PROVE  Exchange!Fail
  BY <1>f DEF Exchange!Fail
<1>r. ASSUME at \notin {"begin", "granted", "failed"}, at' \notin {"begin", "granted", "failed"},
             UNCHANGED token, (authz = "valid") = (authz' = "valid")
      PROVE  UNCHANGED <<IF at = "begin" THEN "idle"
                           ELSE IF at \in {"granted", "failed"} THEN at ELSE "running",
                           token, authz = "valid">>
  BY <1>r
<1>1. CASE Begin
  BY <1>1 DEF Begin, caVars, Exchange!Start, Exchange!Next
<1>2. CASE Publish
  BY <1>2 DEF Publish, caVars, Exchange!Expose, Exchange!Next
<1>3. CASE Withdraw
  BY <1>3 DEF Withdraw, caVars, Exchange!Cover, Exchange!Next
<1>4. CASE Download
  BY <1>4 DEF Download, Accepted, Exchange!Grant, Exchange!Next
<1>5. CASE Fail \/ Refused
  BY <1>5, <1>f, <1>r DEF Fail, Refused, GiveUp, caVars, Calls, Exchange!Next
<1>6. CASE Directory \/ FetchNonce \/ Register \/ NewOrder \/ Challenge
  BY <1>6, <1>r DEF Directory, FetchNonce, Register, NewOrder, Challenge, Accepted, Calls
<1>7. CASE TellReady
  BY <1>7, <1>r DEF TellReady, Accepted
<1>8. CASE PollValid
  BY <1>8, <1>f, <1>r DEF PollValid, Accepted, Exchange!Next
<1>9. CASE Finalize \/ PollSigned
  BY <1>9, <1>f, <1>r DEF Finalize, PollSigned, Accepted, Exchange!Next
<1>10. CASE Validate
  BY <1>10 DEF Validate, clientVars, Exchange!Prove, Exchange!Next
<1>11. CASE Sign \/ ForgetNonces \/ UNCHANGED acmeVars
  BY <1>11 DEF Sign, ForgetNonces, clientVars, caVars, acmeVars
<1> QED
  BY <1>1, <1>2, <1>3, <1>4, <1>5, <1>6, <1>7, <1>8, <1>9, <1>10, <1>11 DEF AcmeNext, ClientStep

\* The exchange is an issuance: granted only to a proved name, its token on
\* show only while it runs.  That it ends is model-checked.
THEOREM ImplementsIssuance ==
  AcmeSpec => Exchange!Init /\ [][Exchange!Next]_<<IF at = "begin" THEN "idle"
                           ELSE IF at \in {"granted", "failed"} THEN at ELSE "running",
                           token, authz = "valid">>
<1>1. AcmeInit => Exchange!Init
  BY DEF AcmeInit, Exchange!Init
<1> QED
  BY <1>1, Invariance, IssuanceStep, PTL DEF AcmeSpec

-----------------------------------------------------------------------------
(* An issuance is bounded *)

\* What comes after a place, at most.
Ahead(place) ==
  CASE place = "begin"      -> 12
    [] place = "directory"  -> 11
    [] place = "register"   -> 10
    [] place = "new_order"  -> 9
    [] place = "http01"     -> 8
    [] place = "publish"    -> 7
    [] place = "answer"     -> 6
    [] place = "wait_valid" -> 5
    [] place = "withdraw"   -> 4
    [] place = "finalize"   -> 3
    [] place = "signing"    -> 2
    [] place = "download"   -> 1
    [] OTHER                -> 0

\* The polls a loop has left, the requests a call may still take: a POST for
\* every attempt, and a nonce to fetch before it.
PollsLeft == IF at \in {"wait_valid", "signing"} THEN MaxPolls - polls ELSE 0
TriesLeft == 2 * (Attempts - 1 - attempt) + (IF pool = <<>> THEN 1 ELSE 0)

Loops == Ahead(at) * (MaxPolls + 1) + PollsLeft
Rank  == Loops * (2 * Attempts) + TriesLeft

\* A higher digit decides whatever the lower one is.
LEMMA Digit ==
  ASSUME NEW k \in Nat, NEW high \in Nat, NEW low \in Nat, NEW next \in Nat, NEW rest \in Nat,
         next < high, rest < k
  PROVE  next * k + rest < high * k + low
<1>1. high - next - 1 \in Nat /\ high = next + 1 + (high - next - 1)
  OBVIOUS
<1>2. (high - next - 1) * k \in Nat /\ next * k \in Nat
  BY <1>1
<1>3. high * k = next * k + k + (high - next - 1) * k
  BY <1>1
<1> QED
  BY <1>2, <1>3

RankTypes ==
  /\ Ahead(at) \in 0 .. 12
  /\ PollsLeft \in 0 .. MaxPolls /\ TriesLeft \in 0 .. 2 * Attempts - 1
  /\ Loops \in Nat /\ Rank \in Nat

LEMMA RankTyped == TInv => RankTypes
<1> SUFFICES ASSUME TInv PROVE RankTypes
  OBVIOUS
<1>1. Ahead(at) \in 0 .. 12
  BY DEF Ahead
<1>2. PollsLeft \in 0 .. MaxPolls
  BY AcmeAssumption DEF TInv, StateInv, PollsLeft
<1>3. TriesLeft \in 0 .. 2 * Attempts - 1
  BY AcmeAssumption DEF TInv, NonceInv, TriesLeft
<1>4. Ahead(at) * (MaxPolls + 1) \in Nat
  BY <1>1, AcmeAssumption
<1>5. Loops \in Nat
  BY <1>2, <1>4, AcmeAssumption DEF Loops
<1>6. Loops * (2 * Attempts) \in Nat
  BY <1>5, AcmeAssumption
<1> QED
  BY <1>1, <1>2, <1>3, <1>5, <1>6, AcmeAssumption DEF Rank, RankTypes

\* A place further on, or a poll less.
LEMMA LoopsShrink ==
  ASSUME TInv, TInv', Ahead(at)' < Ahead(at) \/ (at' = at /\ PollsLeft' < PollsLeft)
  PROVE  Rank' < Rank
<1>1. /\ Ahead(at) \in Nat /\ PollsLeft \in Nat /\ Loops \in Nat
      /\ TriesLeft \in Nat
      /\ Ahead(at)' \in Nat /\ PollsLeft' \in Nat /\ PollsLeft' < MaxPolls + 1
      /\ Loops' \in Nat /\ TriesLeft' \in Nat /\ TriesLeft' < 2 * Attempts
      /\ MaxPolls + 1 \in Nat /\ 2 * Attempts \in Nat
  <2>1. RankTypes /\ RankTypes'
    BY RankTyped, PTL
  <2> QED
    BY <2>1, AcmeAssumption DEF RankTypes
<1>2. Loops' < Loops
  <2>1. CASE Ahead(at)' < Ahead(at)
    BY <1>1, <2>1, Digit DEF Loops
  <2>2. CASE at' = at /\ PollsLeft' < PollsLeft
    <3>1. Ahead(at)' * (MaxPolls + 1) = Ahead(at) * (MaxPolls + 1)
          /\ Ahead(at) * (MaxPolls + 1) \in Nat
      BY <1>1, <2>2
    <3> QED
      BY <1>1, <2>2, <3>1 DEF Loops
  <2> QED
    BY <2>1, <2>2
<1> QED
  BY <1>1, <1>2, Digit DEF Rank

\* Where nothing else moves, an attempt more or a nonce fetched.
LEMMA TriesShrink ==
  ASSUME TInv, TInv', UNCHANGED <<at, polls>>, TriesLeft' < TriesLeft
  PROVE  Rank' < Rank
<1>1. Loops' = Loops /\ Loops \in Nat /\ Loops * (2 * Attempts) \in Nat
  BY RankTyped, AcmeAssumption DEF RankTypes, Loops, PollsLeft, Ahead
<1>2. TriesLeft \in Int /\ TriesLeft' \in Int
  BY AcmeAssumption DEF TInv, NonceInv, TriesLeft
<1> QED
  BY <1>1, <1>2 DEF Rank

LEMMA RankFalls ==
  ASSUME TInv, TInv', ClientStep
  PROVE  Rank' < Rank
<1>0. attempt \in 0 .. Attempts - 1 /\ polls \in 0 .. MaxPolls /\ MaxPolls \in Nat
  BY AcmeAssumption DEF TInv, NonceInv, StateInv
<1>1. CASE FetchNonce
  <2>1. pool = <<>> /\ pool' # <<>> /\ UNCHANGED <<at, polls, attempt>>
    BY <1>1 DEF FetchNonce
  <2>2. TriesLeft' < TriesLeft
    BY <1>0, <2>1, AcmeAssumption DEF TriesLeft
  <2> QED
    BY <2>1, <2>2, TriesShrink
<1>2. CASE Refused
  <2>1. CASE at' = "failed"
    BY <1>2, <2>1, LoopsShrink DEF Refused, Calls, Ahead
  <2>2. CASE at' # "failed"
    <3>1. attempt' = attempt + 1 /\ UNCHANGED <<at, polls>> /\ pool # <<>>
      BY <1>2, <2>2 DEF Refused, GiveUp
    <3>2. TriesLeft' < TriesLeft
      BY <1>0, <3>1, AcmeAssumption DEF TriesLeft
    <3> QED
      BY <3>1, <3>2, TriesShrink
  <2> QED
    BY <2>1, <2>2
<1>3. CASE PollValid \/ PollSigned
  <2>1. /\ at \in {"wait_valid", "signing"}
        /\ at' = at \/ at' \in {"withdraw", "download", "failed"}
        /\ at = "wait_valid" => at' # "download"
        /\ at = "signing" => at' # "withdraw"
        /\ at' = at => polls # MaxPolls /\ polls' = polls + 1
    BY <1>3 DEF PollValid, PollSigned, Accepted
  <2>2. CASE at' # at
    <3>1. Ahead(at)' < Ahead(at)
      BY <2>1, <2>2 DEF Ahead
    <3> QED
      BY <3>1, LoopsShrink
  <2>3. CASE at' = at
    <3>1. PollsLeft' < PollsLeft
      BY <1>0, <2>1, <2>3 DEF PollsLeft
    <3> QED
      BY <2>3, <3>1, LoopsShrink
  <2> QED
    BY <2>2, <2>3
<1>4. ASSUME Ahead(at)' < Ahead(at) PROVE Rank' < Rank
  BY <1>4, LoopsShrink
<1>5. CASE Begin \/ Directory \/ Publish \/ Withdraw
  BY <1>4, <1>5 DEF Begin, Directory, Publish, Withdraw, Ahead
<1>6. CASE Register \/ NewOrder \/ Challenge \/ TellReady \/ Finalize \/ Download
  BY <1>4, <1>6 DEF Register, NewOrder, Challenge, TellReady, Finalize, Download, Accepted, Ahead
<1>7. CASE Fail
  <2>1. at \in Places \ {"begin", "granted", "failed"} /\ at' = "failed"
    BY <1>7 DEF Fail, GiveUp, TInv, StateInv
  <2> QED
    BY <1>4, <2>1 DEF Ahead, Places, Calls
<1> QED
  BY <1>1, <1>2, <1>3, <1>5, <1>6, <1>7 DEF ClientStep

\* Every step of an issuance brings its end closer and nothing the authority
\* does puts it off, however many attempts and polls it may take and however
\* often the authority forgets its nonces: it ends within Rank steps.
IssuanceCloses == [][Rank' \in Nat /\ Rank' <= Rank /\ (ClientStep => Rank' < Rank)]_acmeVars

THEOREM IssuancesEnd == AcmeSpec => IssuanceCloses
<1>1. AcmeSpec => []TInv
  BY Invariance, PTL DEF IInv
<1>2. ASSUME TInv, TInv', [AcmeNext]_acmeVars
      PROVE  Rank' \in Nat /\ Rank' <= Rank /\ (ClientStep => Rank' < Rank)
  <2>1. Rank \in Nat /\ Rank' \in Nat
    <3>1. RankTypes /\ RankTypes'
      BY <1>2, RankTyped, PTL
    <3> QED
      BY <3>1 DEF RankTypes
  <2>2. CASE ClientStep
    BY <1>2, <2>1, <2>2, RankFalls
  <2>3. CASE ~ClientStep
    <3>1. UNCHANGED clientVars
      BY <1>2, <2>3 DEF AcmeNext, Validate, Sign, ForgetNonces, acmeVars
    <3>2. Rank' = Rank
      BY <3>1 DEF Rank, Loops, PollsLeft, TriesLeft, Ahead, clientVars
    <3> QED
      BY <2>1, <2>3, <3>2
  <2> QED
    BY <2>2, <2>3
<1>3. TInv /\ TInv' /\ [AcmeNext]_acmeVars =>
        [Rank' \in Nat /\ Rank' <= Rank /\ (ClientStep => Rank' < Rank)]_acmeVars
  BY <1>2
<1> QED
  BY <1>1, <1>3, PTL DEF AcmeSpec, IssuanceCloses
=============================================================================
