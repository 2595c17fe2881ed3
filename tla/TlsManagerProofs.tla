--------------------------- MODULE TlsManagerProofs ---------------------------
(***************************************************************************)
(* The TLS manager beside requests, commands and crashes, for every set of *)
(* names, ports and bodies and any budget of events: it keeps its types,   *)
(* keys stay with their chains and notes with their authorities; and while *)
(* the back-off can be computed, attempts wait for it and the listeners    *)
(* follow the settings each tick read.                                     *)
(***************************************************************************)
EXTENDS TlsManager, TLAPS

-----------------------------------------------------------------------------
(* Types: a request that writes has a body, a tick that works has a domain *)

Writing == {"domain", "reset", "port", "staging", "only"}

Requests == [step : WebSteps, body : Bodies \cup {Same},
             old : Names \cup {NoName}, next : Names \cup {NoName},
             wants : BOOLEAN, changed : BOOLEAN]

DomainInv ==
  /\ settings \in Settings
  /\ policy \in Names \cup {NoName}
  /\ web \in [Handlers -> Requests]
  /\ \A r \in Handlers : web[r].step \in Writing => web[r].body \in Bodies
  /\ cli \in {"idle", "reset"}
  /\ earned \subseteq Names
  /\ spent \in [Kinds -> Nat]
  /\ \A k \in Kinds : spent[k] <= Budget[k]

Ticks == {"wait", "configure", "decide", "start", "order",
          "key", "chain", "meta", "serve", "drop", "resume"}
Files == [key : {"none", "own", "other"}, chain : BOOLEAN, signed : BOOLEAN,
          meta : BOOLEAN \cup {Same}, age : Ages]
Listeners == [alive : BOOLEAN, domain : Names \cup {NoName},
              port : Ports \cup {HttpPort}, current : BOOLEAN, lost : BOOLEAN]
Targets == (Names \cup {NoName}) \X (Ports \cup {HttpPort})

TickInv ==
  /\ tick \in Ticks
  /\ config \in Settings
  /\ tick \notin {"wait", "configure"} => config.domain \in Names
  /\ requested \in BOOLEAN /\ busy \in BOOLEAN /\ unasked \in BOOLEAN
ListenInv ==
  /\ http \in BOOLEAN /\ https \in Listeners /\ redirect \in Targets
FileInv == cert \in [Names -> Files] /\ torn \subseteq Names
RetryInv ==
  /\ retry \in [failures : Nat, wait : 0 .. RetryCap]
  /\ cooled \in 0 .. RetryCap

TInv == DomainInv /\ TickInv /\ ListenInv /\ FileInv /\ RetryInv

LEMMA TypesHold == TInv => TypeOK
<1> SUFFICES ASSUME TInv PROVE TypeOK
  OBVIOUS
<1>1. DomainTypeOK
  BY DomainAssumption DEF TInv, DomainInv, DomainTypeOK, Requests, Writing, Kinds
<1> QED
  BY <1>1 DEF TInv, TypeOK, TickInv, Ticks, ListenInv, Listeners, Targets, FileInv,
     Files, RetryInv

LEMMA TypeInit == Init => TInv
<1> SUFFICES ASSUME Init PROVE TInv
  OBVIOUS
<1> USE DomainAssumption, TlsAssumption DEF Init, DomainInit, TlsInit
<1>1. settings \in Settings
  BY DEF Settings
<1>2. DomainInv
  <2>1. web \in [Handlers -> Requests]
        /\ \A r \in Handlers : web[r].step \notin Writing
    BY DEF Requests, Idle, WebSteps, Writing
  <2>2. spent \in [Kinds -> Nat] /\ \A k \in Kinds : spent[k] <= Budget[k]
    OBVIOUS
  <2> QED
    BY <1>1, <2>1, <2>2 DEF DomainInv
<1>3. TickInv
  BY <1>1 DEF TickInv, Ticks
<1>4. ListenInv
  BY DEF ListenInv, Listeners, Down, Targets, Nowhere
<1>5. FileInv /\ RetryInv
  BY DEF FileInv, Files, NoFiles, Ages, RetryInv
<1> QED
  BY <1>2, <1>3, <1>4, <1>5 DEF TInv

LEMMA SpendTyped ==
  ASSUME NEW k \in Kinds, DomainInv, Spend(k)
  PROVE  spent' \in [Kinds -> Nat] /\ \A j \in Kinds : spent'[j] <= Budget[j]
<1>1. spent[k] < Budget[k] /\ spent' = [spent EXCEPT ![k] = @ + 1]
  BY DEF Spend
<1>2. spent \in [Kinds -> Nat] /\ \A j \in Kinds : spent[j] <= Budget[j]
  BY DEF DomainInv
<1>3. Budget \in [Kinds -> Nat]
  BY DomainAssumption
<1> QED
  BY <1>1, <1>2, <1>3

\* The guard's policy names a domain or nothing.
LEMMA PolicyTyped ==
  ASSUME NEW s \in Settings
  PROVE  Policy(s.domain, s.only) \in Names \cup {NoName}
BY DEF Policy, Settings

\* As far as Delay looks, doubling stays within the numbers.
LEMMA PowersOfTwo == \A n \in 0 .. 15 : 2 ^ n \in Nat
<1>1. /\ 2 ^ 0 \in Nat /\ 2 ^ 1 \in Nat /\ 2 ^ 2 \in Nat /\ 2 ^ 3 \in Nat
      /\ 2 ^ 4 \in Nat /\ 2 ^ 5 \in Nat /\ 2 ^ 6 \in Nat /\ 2 ^ 7 \in Nat
      /\ 2 ^ 8 \in Nat /\ 2 ^ 9 \in Nat /\ 2 ^ 10 \in Nat /\ 2 ^ 11 \in Nat
      /\ 2 ^ 12 \in Nat /\ 2 ^ 13 \in Nat /\ 2 ^ 14 \in Nat /\ 2 ^ 15 \in Nat
  OBVIOUS
<1>2. TAKE n \in 0 .. 15
<1>3. \/ n = 0 \/ n = 1 \/ n = 2 \/ n = 3 \/ n = 4 \/ n = 5 \/ n = 6 \/ n = 7
      \/ n = 8 \/ n = 9 \/ n = 10 \/ n = 11 \/ n = 12 \/ n = 13 \/ n = 14
      \/ n = 15
  OBVIOUS
<1> QED
  BY <1>1, <1>3

\* A delay, however many failures, is one of the hours up to the cap.
LEMMA DelayTyped ==
  ASSUME NEW n \in Nat
  PROVE  Delay(n) \in 0 .. RetryCap
<1>1. CASE n > 15
  BY <1>1, TlsAssumption DEF Delay
<1>2. CASE n <= 15
  <2>1. n \in 0 .. 15
    BY <1>2
  <2>2. 2 ^ n \in Nat
    BY <2>1, PowersOfTwo, Zenon
  <2> QED
    BY <1>2, <2>2, TlsAssumption DEF Delay
<1> QED
  BY <1>1, <1>2

-----------------------------------------------------------------------------
(* The stored settings, the guard and what writes them *)

\* What a handler is left with, when all else about the requests stays.
LEMMA TurnTyped ==
  ASSUME DomainInv, NEW r \in Handlers, NEW q \in Requests, Turn(r, q),
         q.step \in Writing => q.body \in Bodies
  PROVE  /\ web' \in [Handlers -> Requests]
         /\ \A o \in Handlers : web'[o].step \in Writing => web'[o].body \in Bodies
BY DEF DomainInv, Turn

LEMMA IdleTyped == \A step \in WebSteps \ Writing :
                     /\ [Idle EXCEPT !.step = step] \in Requests
                     /\ [Idle EXCEPT !.step = step].step = step
BY DEF Idle, Requests

LEMMA WebKeepsDomain == DomainInv /\ WebStep => DomainInv'
<1> SUFFICES ASSUME DomainInv, NEW r \in Handlers, Handle(r) PROVE DomainInv'
  BY DEF WebStep
<1> DEFINE q == web[r]
<1>q. q \in Requests /\ (q.step \in Writing => q.body \in Bodies /\ q.body \in Body)
  BY DomainAssumption DEF DomainInv
<1>s. settings \in Settings /\ policy \in Names \cup {NoName}
  BY DEF DomainInv
<1>i. Idle \in Requests /\ Idle.step = "idle"
  BY DEF Idle, Requests, WebSteps
\* Whatever a step stores and leaves, the rest follows.
<1>g. ASSUME NEW w \in Requests, Turn(r, w), w.step \in Writing => w.body \in Bodies,
             settings' \in Settings, policy' \in Names \cup {NoName},
             UNCHANGED <<cli, earned, spent>>
      PROVE  DomainInv'
  BY <1>g, TurnTyped DEF DomainInv
<1>1. CASE PutName(r)
  <2> DEFINE w == [q EXCEPT !.step = IF NewName(q) THEN "reset" ELSE "port",
                            !.changed = NewName(q)]
  <2>1. w \in Requests /\ w.step \in {"reset", "port"} /\ w.body = q.body
    BY <1>q DEF Requests, WebSteps, NewName
  <2>2. settings' \in Settings
    BY <1>1, <1>q, <1>s DEF PutName, Settings, Requests
  <2> HIDE DEF w
  <2>3. Turn(r, w) /\ UNCHANGED <<policy, cli, earned, spent>> /\ q.step = "domain"
    BY <1>1 DEF PutName, w
  <2> QED
    BY <1>q, <1>s, <1>g, <2>1, <2>2, <2>3 DEF Writing
<1>2. CASE PutReset(r)
  <2> DEFINE w == [q EXCEPT !.step = "port"]
  <2>1. w \in Requests /\ w.step = "port" /\ w.body = q.body
    BY <1>q DEF Requests, WebSteps
  <2>2. settings' \in Settings
    BY <1>2, <1>s DEF PutReset, Settings
  <2> HIDE DEF w
  <2>3. Turn(r, w) /\ UNCHANGED <<policy, cli, earned, spent>> /\ q.step = "reset"
    BY <1>2 DEF PutReset, w
  <2> QED
    BY <1>q, <1>s, <1>g, <2>1, <2>2, <2>3 DEF Writing
<1>3. CASE PutPort(r)
  <2> DEFINE w == [q EXCEPT !.step = "staging", !.changed = @ \/ settings' # settings]
  <2>1. w \in Requests /\ w.step = "staging" /\ w.body = q.body
    BY <1>q DEF Requests, WebSteps
  <2>2. settings' \in Settings
    BY <1>3, <1>q, <1>s DEF PutPort, Settings, Writing, Body
  <2> HIDE DEF w
  <2>3. Turn(r, w) /\ UNCHANGED <<policy, cli, earned, spent>> /\ q.step = "port"
    BY <1>3 DEF PutPort, w
  <2> QED
    BY <1>q, <1>s, <1>g, <2>1, <2>2, <2>3 DEF Writing
<1>4. CASE PutStaging(r)
  <2> DEFINE w == [q EXCEPT !.step = "only", !.changed = @ \/ Restaged(q)]
  <2>1. w \in Requests /\ w.step = "only" /\ w.body = q.body
    BY <1>q DEF Requests, WebSteps, Restaged
  <2>2. settings' \in Settings
    BY <1>4, <1>q, <1>s DEF PutStaging, Restaged, Settings, Writing, Body
  <2> HIDE DEF w
  <2>3. Turn(r, w) /\ UNCHANGED <<policy, cli, earned, spent>> /\ q.step = "staging"
    BY <1>4 DEF PutStaging, w
  <2> QED
    BY <1>q, <1>s, <1>g, <2>1, <2>2, <2>3 DEF Writing
<1>5. CASE PutOnly(r)
  <2>1. q.step = "only" /\ q.body \in Body /\ UNCHANGED <<policy, cli, earned, spent>>
    BY <1>5, <1>q DEF PutOnly, Writing
  <2>2. settings' \in Settings
    BY <1>5, <1>s, <2>1 DEF PutOnly, Settings, Body
  <2> DEFINE w == [q EXCEPT !.step = "install", !.changed = TRUE]
  <2>3. w \in Requests /\ w.step = "install"
    BY <1>q DEF Requests, WebSteps
  <2> HIDE DEF w
  <2>4. Turn(r, w) \/ Turn(r, Idle)
    BY <1>5 DEF PutOnly, w
  <2> QED
    BY <1>i, <1>s, <1>g, <2>1, <2>2, <2>3, <2>4 DEF Writing
<1>6. CASE PutInstall(r)
  <2> DEFINE w == [Idle EXCEPT !.step = "configure",
                               !.next = Policy(settings.domain, settings.only)]
  <2>1. w \in Requests /\ w.step = "configure"
    BY <1>s, PolicyTyped DEF Requests, WebSteps, Idle
  <2> HIDE DEF w
  <2>2. Turn(r, w) /\ UNCHANGED <<settings, policy, cli, earned, spent>>
    BY <1>6 DEF PutInstall, w
  <2> QED
    BY <1>s, <1>g, <2>1, <2>2 DEF Writing
<1>7. CASE PutConfigure(r)
  <2>1. policy' \in Names \cup {NoName}
    BY <1>7, <1>q DEF PutConfigure, Requests
  <2> QED
    BY <1>7, <1>i, <1>s, <1>g, <2>1 DEF PutConfigure, Writing
<1>8. CASE DeleteLift(r)
  <2> DEFINE w == [Idle EXCEPT !.step = "forgotten"]
  <2>1. w \in Requests /\ w.step = "forgotten"
    BY IdleTyped DEF WebSteps, Writing
  <2> HIDE DEF w
  <2>2. Turn(r, w) /\ UNCHANGED <<policy, cli, earned, spent>> /\ settings' \in Settings
    BY <1>8, <1>s DEF DeleteLift, w, Settings
  <2> QED
    BY <1>s, <1>g, <2>1, <2>2 DEF Writing
<1>9. CASE DeleteForget(r)
  BY <1>9, <1>i, <1>s, <1>g DEF DeleteForget, Writing
<1> QED
  BY <1>1, <1>2, <1>3, <1>4, <1>5, <1>6, <1>7, <1>8, <1>9 DEF Handle

LEMMA BeginKeepsDomain == DomainInv /\ WebBegin => DomainInv'
<1> SUFFICES ASSUME DomainInv, NEW r \in Handlers, NEW host \in Names \cup {Elsewhere},
                    NEW loopback \in BOOLEAN,
                    \/ \E body \in Bodies : PutBegin(r, body, host, loopback)
                    \/ DeleteBegin(r, host, loopback)
                    \/ RequestIssue(r, host, loopback)
             PROVE  DomainInv'
  BY DEF WebBegin, Accept
<1>1. spent' \in [Kinds -> Nat] /\ \A k \in Kinds : spent'[k] <= Budget[k]
  BY SpendTyped DEF PutBegin, DeleteBegin, RequestIssue, Kinds
<1>s. settings \in Settings
  BY DEF DomainInv
<1>2. ASSUME NEW body \in Bodies, PutBegin(r, body, host, loopback) PROVE DomainInv'
  <2> DEFINE next == IF body.domain = Same THEN settings.domain ELSE body.domain
             w == [step |-> "domain", body |-> body, old |-> settings.domain, next |-> next,
                   wants |-> IF body.only = Same THEN settings.only ELSE body.only,
                   changed |-> FALSE]
  <2>1. body \in Body
    BY DomainAssumption
  <2>2. w \in Requests /\ w.step = "domain" /\ w.body = body
    BY <1>s, <2>1 DEF Requests, WebSteps, Settings, Body
  <2> HIDE DEF w
  <2>3. Turn(r, w) /\ UNCHANGED <<settings, policy, cli>> /\ earned' \subseteq Names
    BY <1>2 DEF PutBegin, w, DomainInv
  <2> QED
    BY <1>1, <2>2, <2>3, TurnTyped DEF DomainInv
<1>3. CASE DeleteBegin(r, host, loopback)
  <2> DEFINE w == [Idle EXCEPT !.step = "lift"]
  <2>1. w \in Requests /\ w.step = "lift"
    BY IdleTyped DEF WebSteps, Writing
  <2> HIDE DEF w
  <2>2. Turn(r, w) /\ UNCHANGED <<policy, cli, earned>> /\ settings' \in Settings
    BY <1>3, <1>s DEF DeleteBegin, w, Settings
  <2> QED
    BY <1>1, <2>1, <2>2, TurnTyped DEF DomainInv, Writing
<1>4. CASE RequestIssue(r, host, loopback)
  BY <1>1, <1>4 DEF RequestIssue, DomainInv
<1> QED
  BY <1>2, <1>3, <1>4

LEMMA CliKeepsDomain == DomainInv /\ CliStep => DomainInv'
<1> SUFFICES ASSUME DomainInv, CliStep PROVE DomainInv'
  OBVIOUS
<1>1. ASSUME NEW name \in Names \cup {NoName}, CliName(name) PROVE DomainInv'
  <2>1. spent' \in [Kinds -> Nat] /\ \A k \in Kinds : spent'[k] <= Budget[k]
    BY <1>1, SpendTyped DEF CliName, Kinds
  <2> QED
    BY <1>1, <2>1 DEF CliName, DomainInv, Settings
<1>2. CASE CliReset
  BY <1>2 DEF CliReset, DomainInv, Settings
<1>3. ASSUME NEW flag \in BOOLEAN, CliOnly(flag) PROVE DomainInv'
  <2>1. spent' \in [Kinds -> Nat] /\ \A k \in Kinds : spent'[k] <= Budget[k]
    BY <1>3, SpendTyped DEF CliOnly, Kinds
  <2> QED
    BY <1>3, <2>1 DEF CliOnly, DomainInv, Settings
<1> QED
  BY <1>1, <1>2, <1>3 DEF CliStep

\* The tick writes the policy of the settings it read, and spends.
LEMMA TickKeepsDomain == DomainInv /\ TickInv /\ TickStep => DomainInv'
<1> SUFFICES ASSUME DomainInv, TickInv, TickStep PROVE DomainInv'
  OBVIOUS
<1>1. ASSUME UNCHANGED <<settings, web, cli, earned>>, policy' \in Names \cup {NoName},
             UNCHANGED spent \/ Spend("port") \/ Spend("authority")
      PROVE  DomainInv'
  <2>1. spent' \in [Kinds -> Nat] /\ \A k \in Kinds : spent'[k] <= Budget[k]
    BY <1>1, SpendTyped DEF Kinds, DomainInv
  <2> QED
    BY <1>1, <2>1 DEF DomainInv
<1>2. CASE TickConfigure
  BY <1>1, <1>2, PolicyTyped DEF TickConfigure, EnsureHttp, TickInv
<1>3. CASE TickServe
  BY <1>1, <1>3 DEF TickServe, StopHttps, StartHttps, DomainInv
<1>4. CASE IssueFail
  BY <1>1, <1>4 DEF IssueFail, DomainInv
<1>5. CASE TickRead \/ TickDecide \/ IssueBegin \/ IssueGranted \/ WriteKey \/ WriteChain
           \/ WriteMeta
  BY <1>1, <1>5 DEF TickRead, TickDecide, IssueBegin, IssueGranted, WriteKey, WriteChain,
     WriteMeta, domainVars, DomainInv
<1> QED
  BY <1>2, <1>3, <1>4, <1>5 DEF TickStep

LEMMA DomainStep == DomainInv /\ TickInv /\ [Next]_vars => DomainInv'
<1> SUFFICES ASSUME DomainInv, TickInv, [Next]_vars PROVE DomainInv'
  OBVIOUS
<1>1. ASSUME UNCHANGED <<settings, cli, earned>>, policy' \in Names \cup {NoName},
             web' \in {web, [r \in Handlers |-> Idle]}, Spend("port") \/ Spend("crash")
      PROVE  DomainInv'
  <2>1. spent' \in [Kinds -> Nat] /\ \A k \in Kinds : spent'[k] <= Budget[k]
    BY <1>1, SpendTyped DEF Kinds
  <2>2. Idle \in Requests /\ Idle.step \notin Writing
    BY DEF Idle, Requests, WebSteps, Writing
  <2> QED
    BY <1>1, <2>1, <2>2 DEF DomainInv
<1>2. CASE ListenerDies
  BY <1>1, <1>2 DEF ListenerDies, DomainInv
<1>3. CASE Crash
  BY <1>1, <1>3, PolicyTyped DEF Crash, DomainInv
<1>4. CASE Hour \/ (\E d \in Names : Weeks(d)) \/ UNCHANGED vars
  BY <1>4 DEF Hour, Weeks, vars, domainVars, DomainInv
<1> QED
  BY <1>2, <1>3, <1>4, TickKeepsDomain, WebKeepsDomain, BeginKeepsDomain, CliKeepsDomain
     DEF Next

-----------------------------------------------------------------------------
(* The tick, its listeners, its files and its back-off *)

\* What a tick knows: settings of one moment, with a domain once it works.
LEMMA TickStepTyped == DomainInv /\ TickInv /\ [Next]_vars => TickInv'
<1> SUFFICES ASSUME DomainInv, TickInv, [Next]_vars PROVE TickInv'
  OBVIOUS
<1> USE DEF TickInv, Ticks
<1>1. CASE TickRead
  BY <1>1 DEF TickRead, DomainInv
<1>2. CASE TickConfigure
  BY <1>2 DEF TickConfigure, Settings
<1>3. CASE TickDecide
  BY <1>3 DEF TickDecide
<1>4. CASE IssueBegin \/ IssueFail \/ IssueGranted \/ WriteKey \/ WriteChain \/ WriteMeta
  BY <1>4 DEF IssueBegin, IssueFail, IssueGranted, WriteKey, WriteChain, WriteMeta
<1>5. CASE TickServe
  BY <1>5 DEF TickServe
<1>6. CASE WebStep \/ WebBegin \/ CliStep
  BY <1>6 DEF WebStep, Handle, WebBegin, Accept, CliStep, RequestIssue, tlsVars, managerVars
<1>7. CASE Hour \/ (\E d \in Names : Weeks(d)) \/ ListenerDies \/ Crash \/ UNCHANGED vars
  BY <1>7 DEF Hour, Weeks, ListenerDies, Crash, vars, tlsVars, managerVars
<1> QED
  BY <1>1, <1>2, <1>3, <1>4, <1>5, <1>6, <1>7 DEF Next, TickStep

LEMMA ListenStepTyped == TickInv /\ FileInv /\ ListenInv /\ [Next]_vars => ListenInv'
<1> SUFFICES ASSUME TickInv, FileInv, ListenInv, [Next]_vars PROVE ListenInv'
  OBVIOUS
<1>0. Down \in Listeners /\ Nowhere \in Targets
  BY DEF Down, Listeners, Nowhere, Targets
<1>1. CASE TickConfigure
  BY <1>0, <1>1 DEF TickConfigure, EnsureHttp, ListenInv
<1>2. CASE IssueFail \/ IssueGranted
  BY <1>2 DEF IssueFail, IssueGranted, ListenInv
<1>3. CASE WriteChain
  BY <1>3 DEF WriteChain, ListenInv, Listeners
<1>4. CASE TickServe
  <2>1. config.domain \in Names /\ config.port \in Ports
    BY <1>4 DEF TickServe, TickInv, Settings
  <2>2. ASSUME NEW c \in Files, StartHttps(c) PROVE https' \in Listeners /\ redirect' \in Targets
    <3>1. (c.key = "own") \in BOOLEAN
      OBVIOUS
    <3>2. [alive |-> c.key = "own", domain |-> config.domain, port |-> config.port,
           current |-> TRUE, lost |-> FALSE] \in Listeners
      BY <2>1, <3>1 DEF Listeners
    <3>3. <<config.domain, config.port>> \in Targets
      BY <2>1 DEF Targets
    <3> QED
      BY <1>0, <2>2, <3>2, <3>3 DEF StartHttps
  <2>3. cert[config.domain] \in Files
    BY <2>1 DEF FileInv
  <2>4. ASSUME StopHttps PROVE https' \in Listeners /\ redirect' \in Targets
    BY <1>0, <2>4 DEF StopHttps, ListenInv
  <2> QED
    BY <1>4, <2>2, <2>3, <2>4 DEF TickServe, ListenInv
<1>5. CASE ListenerDies
  BY <1>5 DEF ListenerDies, ListenInv, Listeners
<1>6. CASE Crash
  BY <1>0, <1>6 DEF Crash, ListenInv
<1>7. CASE TickRead \/ TickDecide \/ IssueBegin \/ WriteKey \/ WriteMeta \/ Hour
           \/ (\E d \in Names : Weeks(d))
  BY <1>7 DEF TickRead, TickDecide, IssueBegin, WriteKey, WriteMeta, Hour, Weeks, listenVars,
     ListenInv
<1>8. CASE WebStep \/ WebBegin \/ CliStep \/ UNCHANGED vars
  BY <1>8 DEF WebStep, Handle, WebBegin, Accept, CliStep, RequestIssue, vars, tlsVars, listenVars, ListenInv
<1> QED
  BY <1>1, <1>2, <1>3, <1>4, <1>5, <1>6, <1>7, <1>8 DEF Next, TickStep

LEMMA FileStepTyped == TickInv /\ FileInv /\ [Next]_vars => FileInv'
<1> SUFFICES ASSUME TickInv, FileInv, [Next]_vars PROVE FileInv'
  OBVIOUS
<1>0. ASSUME NEW d \in Names PROVE cert[d] \in Files
  BY DEF FileInv
<1>1. CASE WriteKey
  BY <1>0, <1>1 DEF WriteKey, TickInv, FileInv, Files
<1>2. CASE WriteChain
  <2>1. config.domain \in Names /\ config.staging \in BOOLEAN
    BY <1>2 DEF WriteChain, TickInv, Settings
  <2>2. [cert[config.domain] EXCEPT !.chain = TRUE, !.key = "own", !.age = "fresh",
                                    !.signed = config.staging] \in Files
    <3>1. ASSUME NEW c \in Files, NEW s \in BOOLEAN
          PROVE  [c EXCEPT !.chain = TRUE, !.key = "own", !.age = "fresh", !.signed = s]
                   \in Files
      BY <3>1 DEF Files, Ages
    <3> QED
      BY <1>0, <2>1, <3>1
  <2>3. cert' = [cert EXCEPT ![config.domain] =
                   [@ EXCEPT !.chain = TRUE, !.key = "own", !.age = "fresh",
                             !.signed = config.staging]]
    BY <1>2, <2>1 DEF WriteChain, FileInv
  <2> QED
    BY <1>2, <2>1, <2>2, <2>3 DEF WriteChain, FileInv
<1>3. CASE WriteMeta
  BY <1>0, <1>3 DEF WriteMeta, TickInv, Settings, FileInv, Files
<1>4. ASSUME NEW d \in Names, Weeks(d) PROVE FileInv'
  BY <1>0, <1>4 DEF Weeks, FileInv, Files, Ages
<1>5. CASE IssueFail \/ Crash
  BY <1>5 DEF IssueFail, Crash, HalfWritten, TickInv, FileInv
<1>6. CASE TickRead \/ TickConfigure \/ TickDecide \/ IssueBegin \/ IssueGranted \/ TickServe
           \/ Hour \/ ListenerDies
  BY <1>6 DEF TickRead, TickConfigure, TickDecide, IssueBegin, IssueGranted, TickServe, Hour,
     ListenerDies, FileInv
<1>7. CASE WebStep \/ WebBegin \/ CliStep \/ UNCHANGED vars
  BY <1>7 DEF WebStep, Handle, WebBegin, Accept, CliStep, RequestIssue, vars, tlsVars, FileInv
<1> QED
  BY <1>1, <1>2, <1>3, <1>4, <1>5, <1>6, <1>7 DEF Next, TickStep

LEMMA RetryStepTyped == RetryInv /\ [Next]_vars => RetryInv'
<1> SUFFICES ASSUME RetryInv, [Next]_vars PROVE RetryInv'
  OBVIOUS
<1>1. CASE IssueFail
  BY <1>1, DelayTyped, TlsAssumption DEF IssueFail, RetryInv
<1>2. ASSUME Forget PROVE RetryInv'
  BY <1>2, TlsAssumption DEF Forget, RetryInv
<1>3. CASE WriteMeta \/ WebStep
  BY <1>2, <1>3 DEF WriteMeta, WebStep, Handle, RetryInv
<1>4. CASE Hour
  BY <1>4, TlsAssumption DEF Hour, RetryInv
<1>5. CASE \/ TickRead \/ TickConfigure \/ TickDecide \/ IssueBegin \/ IssueGranted \/ WriteKey
           \/ WriteChain \/ TickServe
  BY <1>5 DEF TickRead, TickConfigure, TickDecide, IssueBegin, IssueGranted, WriteKey,
     WriteChain, TickServe, RetryInv
<1>6. CASE WebBegin \/ CliStep \/ UNCHANGED vars
  BY <1>6 DEF WebBegin, Accept, CliStep, RequestIssue, vars, tlsVars, RetryInv
<1>7. CASE (\E d \in Names : Weeks(d)) \/ ListenerDies \/ Crash
  BY <1>7 DEF Weeks, ListenerDies, Crash, RetryInv
<1> QED
  BY <1>1, <1>3, <1>4, <1>5, <1>6, <1>7 DEF Next, TickStep

LEMMA TypeStep == TInv /\ [Next]_vars => TInv'
BY DomainStep, TickStepTyped, ListenStepTyped, FileStepTyped, RetryStepTyped DEF TInv

\* Settings, requests, listeners, files and back-off stay well typed whatever
\* falls between two steps; a tick that works has a domain.
THEOREM TypeCorrect == Spec => []TypeOK
<1>1. Spec => []TInv
  BY TypeInit, TypeStep, PTL DEF Spec
<1> QED
  BY <1>1, TypesHold, PTL

-----------------------------------------------------------------------------
(* The files of a certificate *)

\* Before the note is written, key and chain are of this tick's issuance.
Halfway ==
  tick = "meta" => /\ cert[config.domain].signed = config.staging
                   /\ cert[config.domain].key = "own"

FilesInv == FilesAgree /\ Halfway

LEMMA FilesInit == Init => FilesInv
BY DEF Init, TlsInit, NoFiles, FilesInv, FilesAgree, Halfway

\* A step that leaves the files alone, and no issuance half done.
LEMMA FilesLeftAlone ==
  ASSUME FilesInv, UNCHANGED <<cert, torn>>, UNCHANGED <<tick, config>>
         \/ (tick \notin {"chain", "meta"} /\ tick' \notin {"chain", "meta"})
  PROVE  FilesInv'
BY DEF FilesInv, FilesAgree, Halfway

LEMMA FilesStep == TInv /\ FilesInv /\ [Next]_vars => FilesInv'
<1> SUFFICES ASSUME TInv, FilesInv, [Next]_vars PROVE FilesInv'
  OBVIOUS
<1>0. cert \in [Names -> Files] /\ torn \subseteq Names
  BY DEF TInv, FileInv
<1>d. tick \notin {"wait", "configure"} => config.domain \in Names
  BY DEF TInv, TickInv
<1>1. CASE WriteKey
  <2>1. /\ tick = "key" /\ tick' = "chain" /\ UNCHANGED <<config, torn>>
        /\ cert' = [cert EXCEPT ![config.domain].key = "other"]
    BY <1>1 DEF WriteKey
  <2> QED
    BY <2>1, <1>0, <1>d DEF FilesInv, FilesAgree, Halfway, Files
<1>2. CASE WriteChain
  <2>1. tick = "chain" /\ tick' = "meta" /\ UNCHANGED <<config, torn>>
    BY <1>2 DEF WriteChain
  <2>2. /\ cert'[config.domain].key = "own"
        /\ cert'[config.domain].signed = config.staging
        /\ \A d \in Names \ {config.domain} : cert'[d] = cert[d]
    BY <1>2, <2>1, <1>0, <1>d DEF WriteChain, Files
  <2> QED
    BY <2>1, <2>2 DEF FilesInv, FilesAgree, Halfway
<1>3. CASE WriteMeta
  <2>1. tick = "meta" /\ tick' = "resume" /\ UNCHANGED config
        /\ torn' = torn \ {config.domain}
    BY <1>3 DEF WriteMeta
  <2>2. /\ cert'[config.domain].key = "own"
        /\ cert'[config.domain].meta = cert'[config.domain].signed
        /\ \A d \in Names \ {config.domain} : cert'[d] = cert[d]
    BY <1>3, <2>1, <1>0, <1>d DEF WriteMeta, FilesInv, Halfway, Files
  <2> QED
    BY <2>1, <2>2 DEF FilesInv, FilesAgree, Halfway
<1>4. ASSUME NEW d \in Names, Weeks(d) PROVE FilesInv'
  <2>1. UNCHANGED <<tick, config, torn>>
    BY <1>4 DEF Weeks, managerVars
  <2>2. \A e \in Names : /\ cert'[e].key = cert[e].key
                         /\ cert'[e].meta = cert[e].meta
                         /\ cert'[e].signed = cert[e].signed
    BY <1>4, <1>0 DEF Weeks, Files
  <2> QED
    BY <2>1, <2>2, <1>d DEF FilesInv, FilesAgree, Halfway
<1>5. CASE IssueFail \/ Crash
  <2>1. /\ UNCHANGED <<config, cert>> /\ tick' \in {"wait", "resume"}
        /\ torn' = HalfWritten
    BY <1>5 DEF IssueFail, Crash
  <2> QED
    BY <2>1, <1>d DEF HalfWritten, FilesInv, FilesAgree, Halfway
<1>6. CASE TickRead \/ TickConfigure \/ TickDecide \/ IssueBegin \/ IssueGranted \/ TickServe
  BY <1>6, FilesLeftAlone DEF TickRead, TickConfigure, TickDecide, IssueBegin, IssueGranted,
     TickServe
<1>7. CASE WebStep \/ WebBegin \/ CliStep \/ Hour \/ ListenerDies \/ UNCHANGED vars
  BY <1>7, FilesLeftAlone DEF WebStep, Handle, WebBegin, Accept, CliStep, RequestIssue, Hour, ListenerDies,
     vars, tlsVars, managerVars
<1> QED
  BY <1>1, <1>2, <1>3, <1>4, <1>5, <1>6, <1>7 DEF Next, TickStep

\* Keys stay with their chains and notes with their authorities but where a
\* crash or a failed write fell between two of the three writes.
THEOREM FilesStayTogether == Spec => []FilesAgree
<1>1. Spec => []TInv
  BY TypeInit, TypeStep, PTL DEF Spec
<1>2. Spec => []FilesInv
  BY <1>1, FilesInit, FilesStep, PTL DEF Spec
<1>3. FilesInv => FilesAgree
  BY DEF FilesInv
<1> QED
  BY <1>2, <1>3, PTL

-----------------------------------------------------------------------------
(* The back-off, while it can be computed *)

\* What has cooled and what is still to wait make up the last delay.
WaitInv ==
  /\ retry.failures <= spent["authority"]
  /\ retry.failures > 0 => cooled + retry.wait >= Delay(retry.failures - 1)

LEMMA WaitInit == Init => WaitInv
BY DEF Init, DomainInit, TlsInit, WaitInv, Kinds

\* No step takes a failed attempt back.
LEMMA SpentGrows ==
  ASSUME DomainInv, DomainInv', NEW k \in Kinds, Spend(k) \/ UNCHANGED spent
  PROVE  spent["authority"] <= spent'["authority"]
<1>1. spent \in [Kinds -> Nat] /\ "authority" \in Kinds
  BY DEF DomainInv, Kinds
<1> QED
  BY <1>1 DEF Spend

LEMMA StepsOnlySpend == [Next]_vars => UNCHANGED spent \/ \E k \in Kinds : Spend(k)
<1> SUFFICES ASSUME [Next]_vars PROVE UNCHANGED spent \/ \E k \in Kinds : Spend(k)
  OBVIOUS
<1> USE DEF Kinds
<1>1. CASE TickStep
  BY <1>1 DEF TickStep, TickRead, TickConfigure, EnsureHttp, TickDecide, IssueBegin, IssueFail,
     IssueGranted, WriteKey, WriteChain, WriteMeta, TickServe, StopHttps, StartHttps, domainVars
<1>2. CASE WebStep
  BY <1>2 DEF WebStep, Handle, PutName, PutReset, PutPort, PutStaging, PutOnly, PutInstall,
     PutConfigure, DeleteLift, DeleteForget
<1>3. CASE WebBegin \/ CliStep
  BY <1>3 DEF WebBegin, Accept, PutBegin, DeleteBegin, RequestIssue, CliStep, CliName, CliReset, CliOnly
<1>4. CASE Hour \/ (\E d \in Names : Weeks(d)) \/ ListenerDies \/ Crash \/ UNCHANGED vars
  BY <1>4 DEF Hour, Weeks, ListenerDies, Crash, domainVars, vars
<1> QED
  BY <1>1, <1>2, <1>3, <1>4 DEF Next

\* An attempt fails while its delay can still be computed.
LEMMA FailureIsRecorded ==
  ASSUME Budget["authority"] <= DoublingLimit, DomainInv, RetryInv, WaitInv, IssueFail
  PROVE  /\ tick' = "resume"
         /\ retry' = [failures |-> retry.failures + 1, wait |-> Delay(retry.failures)]
         /\ spent'["authority"] = spent["authority"] + 1
<1>1. spent["authority"] < Budget["authority"]
      /\ spent' = [spent EXCEPT !["authority"] = @ + 1]
  BY DEF IssueFail, Spend
<1>2. /\ spent \in [Kinds -> Nat] /\ Budget \in [Kinds -> Nat] /\ "authority" \in Kinds
      /\ DoublingLimit \in Nat /\ retry.failures \in Nat
  BY DomainAssumption, TlsAssumption DEF DomainInv, RetryInv, Kinds
<1>3. retry.failures < DoublingLimit
  BY <1>1, <1>2 DEF WaitInv
<1> QED
  BY <1>1, <1>2, <1>3 DEF IssueFail

LEMMA WaitStep ==
  ASSUME Budget["authority"] <= DoublingLimit, TInv, TInv', WaitInv, [Next]_vars
  PROVE  WaitInv'
<1>1. spent["authority"] \in Nat /\ spent'["authority"] \in Nat
      /\ spent["authority"] <= spent'["authority"]
  BY StepsOnlySpend, SpentGrows DEF TInv, DomainInv, Kinds
<1>2. /\ retry \in [failures : Nat, wait : 0 .. RetryCap] /\ cooled \in 0 .. RetryCap
      /\ RetryCap \in Nat
  BY TlsAssumption DEF TInv, RetryInv
<1>3. CASE UNCHANGED <<retry, cooled>>
  BY <1>1, <1>2, <1>3 DEF WaitInv
<1>4. ASSUME Forget PROVE WaitInv'
  BY <1>1, <1>4 DEF Forget, WaitInv
<1>5. CASE Hour
  <2>1. retry'.failures = retry.failures /\ UNCHANGED spent
    BY <1>2, <1>5 DEF Hour, domainVars
  <2>2. CASE retry.failures > 0
    <3>1. Delay(retry.failures - 1) \in 0 .. RetryCap
      BY <1>2, <2>2, DelayTyped
    <3>2. cooled' + retry'.wait >= cooled + retry.wait \/ cooled' = RetryCap
      BY <1>2, <1>5 DEF Hour
    <3>3. retry'.wait \in 0 .. RetryCap /\ cooled' \in 0 .. RetryCap
      BY DEF TInv, RetryInv
    <3>4. cooled + retry.wait >= Delay(retry.failures - 1)
      BY <2>2 DEF WaitInv
    <3>5. cooled' + retry'.wait >= Delay(retry.failures - 1)
      BY <1>2, <3>1, <3>2, <3>3, <3>4
    <3> QED
      BY <2>1, <3>5 DEF WaitInv
  <2> QED
    BY <1>1, <1>2, <2>1, <2>2 DEF WaitInv
<1>6. CASE IssueFail
  <2>1. /\ retry' = [failures |-> retry.failures + 1, wait |-> Delay(retry.failures)]
        /\ spent'["authority"] = spent["authority"] + 1 /\ cooled' = 0
    BY <1>6, FailureIsRecorded DEF TInv, IssueFail
  <2>2. Delay(retry.failures) \in 0 .. RetryCap
    BY <1>2, DelayTyped
  <2> QED
    BY <1>1, <1>2, <2>1, <2>2 DEF WaitInv
<1>7. CASE TickRead \/ TickConfigure \/ TickDecide \/ IssueBegin \/ IssueGranted \/ WriteKey
           \/ WriteChain \/ TickServe
  BY <1>3, <1>7 DEF TickRead, TickConfigure, TickDecide, IssueBegin, IssueGranted, WriteKey,
     WriteChain, TickServe
<1>8. CASE WriteMeta \/ WebStep
  BY <1>3, <1>4, <1>8 DEF WriteMeta, WebStep, Handle
<1>9. CASE WebBegin \/ CliStep \/ (\E d \in Names : Weeks(d)) \/ ListenerDies \/ Crash
           \/ UNCHANGED vars
  BY <1>3, <1>9 DEF WebBegin, Accept, CliStep, RequestIssue, Weeks, ListenerDies, Crash, vars, tlsVars
<1> QED
  BY <1>5, <1>6, <1>7, <1>8, <1>9 DEF Next, TickStep

LEMMA AttemptStep ==
  ASSUME TInv, WaitInv, [Next]_vars, tick = "decide", tick' = "start", unasked'
  PROVE  retry.failures = 0 \/ cooled >= Delay(retry.failures - 1)
<1>1. CASE TickDecide
  <2>1. retry.wait = 0
    BY <1>1 DEF TickDecide, TInv, TickInv
  <2>2. retry.failures \in Nat /\ cooled \in Nat
    BY TlsAssumption DEF TInv, RetryInv
  <2> QED
    BY <2>1, <2>2 DEF WaitInv
<1>2. CASE TickStep /\ ~TickDecide
  BY <1>2 DEF TickStep, TickRead, TickConfigure, IssueBegin, IssueFail, IssueGranted, WriteKey,
     WriteChain, WriteMeta, TickServe
<1>3. CASE WebStep \/ WebBegin \/ CliStep \/ Hour \/ (\E d \in Names : Weeks(d))
           \/ ListenerDies \/ Crash \/ UNCHANGED vars
  BY <1>3 DEF WebStep, Handle, WebBegin, Accept, CliStep, RequestIssue, Hour, Weeks, ListenerDies, Crash, vars,
     tlsVars, managerVars
<1> QED
  BY <1>1, <1>2, <1>3 DEF Next

\* As long as no more attempts fail than the delay can be doubled, an attempt
\* nobody asked for waits out the delay of the failures before it.
THEOREM AttemptsWait ==
  ASSUME Budget["authority"] <= DoublingLimit
  PROVE  Spec => UnaskedWaits
<1>1. Spec => []TInv
  BY TypeInit, TypeStep, PTL DEF Spec
<1>2. TInv /\ TInv' /\ WaitInv /\ [Next]_vars => WaitInv'
  BY WaitStep
<1>3. Spec => []WaitInv
  BY <1>1, <1>2, WaitInit, PTL DEF Spec
<1>4. TInv /\ WaitInv /\ [Next]_vars
      => [tick = "decide" /\ tick' = "start" /\ unasked' =>
            retry.failures = 0 \/ cooled >= Delay(retry.failures - 1)]_vars
  BY AttemptStep
<1> QED
  BY <1>1, <1>3, <1>4, PTL DEF Spec, UnaskedWaits

-----------------------------------------------------------------------------
(* The listeners, while the back-off can be computed *)

\* Port 80 redirects to the HTTPS listener, at every moment.
RedirectTrue ==
  redirect # Nowhere => /\ redirect = <<https.domain, https.port>>
                        /\ https.domain \in Names

ListenersInv == ListenersFollowTick /\ RedirectTrue

LEMMA ListenersInit == Init => ListenersInv
BY DEF Init, TlsInit, ListenersInv, ListenersFollowTick, RedirectTrue, Down

\* A tick that serves without an issuance found a certificate.
ServesPresent == tick = "serve" => Present(cert[config.domain])

LEMMA ServesPresentStep == TInv /\ ServesPresent /\ [Next]_vars => ServesPresent'
<1> SUFFICES ASSUME TInv, ServesPresent, [Next]_vars PROVE ServesPresent'
  OBVIOUS
<1> USE DEF ServesPresent
<1>1. CASE TickDecide
  BY <1>1 DEF TickDecide, Stale
<1>2. CASE TickStep /\ ~TickDecide
  BY <1>2 DEF TickStep, TickRead, TickConfigure, IssueBegin, IssueFail, IssueGranted, WriteKey,
     WriteChain, WriteMeta, TickServe
<1>3. CASE Crash
  BY <1>3 DEF Crash
<1>4. ASSUME NEW d \in Names, Weeks(d) PROVE ServesPresent'
  <2>1. UNCHANGED <<tick, config>> /\ cert \in [Names -> Files]
    BY <1>4 DEF Weeks, managerVars, TInv, FileInv
  <2>2. \A e \in Names : cert'[e].key = cert[e].key /\ cert'[e].chain = cert[e].chain
    BY <1>4, <2>1 DEF Weeks, Files
  <2>3. tick = "serve" => config.domain \in Names
    BY DEF TInv, TickInv
  <2> QED
    BY <2>1, <2>2, <2>3 DEF Present
<1>5. CASE WebStep \/ WebBegin \/ CliStep \/ Hour \/ ListenerDies \/ UNCHANGED vars
  BY <1>5 DEF WebStep, Handle, WebBegin, Accept, CliStep, RequestIssue, Hour, ListenerDies,
     vars, tlsVars, managerVars
<1> QED
  BY <1>1, <1>2, <1>3, <1>4, <1>5 DEF Next

\* A step within a tick that leaves name and port of the listener alone.
LEMMA ListenersLeftAlone ==
  ASSUME ListenersInv, UNCHANGED redirect, https'.domain = https.domain,
         https'.port = https.port, tick' # "wait"
  PROVE  ListenersInv'
BY DEF ListenersInv, ListenersFollowTick, RedirectTrue

LEMMA ServeFollows == TInv /\ FilesInv /\ ServesPresent /\ ListenersInv /\ TickServe
                      => ListenersInv'
<1> SUFFICES ASSUME TInv, FilesInv, ServesPresent, ListenersInv, TickServe
             PROVE  ListenersInv'
  OBVIOUS
<1>0. /\ config.domain \in Names /\ UNCHANGED <<config, http, torn>>
      /\ config.domain # NoName
  BY DomainAssumption DEF TickServe, TInv, TickInv
<1>1. CASE redirect' = Nowhere
  BY <1>0, <1>1 DEF ListenersInv, ListenersFollowTick, RedirectTrue
<1>2. ASSUME redirect' = <<config.domain, config.port>>, https'.domain = config.domain,
             https'.port = config.port, https'.current,
             https'.alive \/ config.domain \in torn
      PROVE  ListenersInv'
  BY <1>0, <1>2 DEF ListenersInv, ListenersFollowTick, RedirectTrue
<1>3. CASE StopHttps
  <2>1. https = Down => redirect = Nowhere
    BY DomainAssumption DEF ListenersInv, RedirectTrue, Down
  <2> QED
    BY <1>1, <1>3, <2>1 DEF StopHttps
<1>4. CASE StartHttps(cert[config.domain]) /\ Present(cert[config.domain])
  <2>1. CASE redirect' = Nowhere
    BY <1>1, <2>1
  <2>2. CASE /\ https' = [alive |-> cert[config.domain].key = "own", domain |-> config.domain,
                         port |-> config.port, current |-> TRUE, lost |-> FALSE]
             /\ redirect' = <<config.domain, config.port>>
    <3>1. cert[config.domain].key \in {"own", "other"} /\ tick # "chain"
      BY <1>0, <1>4 DEF TInv, FileInv, Files, Present, TickServe
    <3>2. https'.alive \/ config.domain \in torn
      BY <1>0, <2>2, <3>1 DEF FilesInv, FilesAgree
    <3> QED
      BY <1>2, <2>2, <3>2
  <2> QED
    BY <1>4, <2>1, <2>2 DEF StartHttps
<1>5. CASE Serving /\ UNCHANGED <<https, redirect>>
  BY <1>1, <1>2, <1>5 DEF Serving, ListenersInv, RedirectTrue
<1> QED
  BY <1>3, <1>4, <1>5 DEF TickServe, ServesPresent

LEMMA ListenersStep ==
  ASSUME Budget["authority"] <= DoublingLimit, TInv, FilesInv, WaitInv, ServesPresent,
         ListenersInv, [Next]_vars
  PROVE  ListenersInv'
<1>0. https \in Listeners
  BY DEF TInv, ListenInv
<1>1. CASE TickServe
  BY <1>1, ServeFollows
<1>2. CASE TickConfigure
  <2>1. CASE config.domain = NoName
    BY <1>2, <2>1 DEF TickConfigure, ListenersInv, ListenersFollowTick, RedirectTrue, Down
  <2>2. CASE config.domain # NoName
    BY <1>2, <2>2, ListenersLeftAlone DEF TickConfigure
  <2> QED
    BY <2>1, <2>2
<1>3. CASE IssueFail
  <2>1. tick' = "resume"
    BY <1>3, FailureIsRecorded DEF TInv
  <2> QED
    BY <1>3, <2>1, ListenersLeftAlone DEF IssueFail
<1>4. CASE WriteChain
  BY <1>0, <1>4, ListenersLeftAlone DEF WriteChain, Listeners
<1>5. CASE TickRead \/ TickDecide \/ IssueBegin \/ IssueGranted \/ WriteKey \/ WriteMeta
  BY <1>5, ListenersLeftAlone DEF TickRead, TickDecide, IssueBegin, IssueGranted, WriteKey,
     WriteMeta, listenVars
<1>6. CASE ListenerDies
  <2>1. /\ UNCHANGED <<tick, config, redirect, torn>> /\ https'.domain = https.domain
        /\ https'.port = https.port /\ https'.current = https.current
        /\ (https'.alive = https.alive /\ https'.lost = https.lost) \/ https'.lost
    BY <1>0, <1>6 DEF ListenerDies, managerVars, Listeners
  <2>2. https = Down /\ ~http => FALSE
    BY <1>6 DEF ListenerDies, Down
  <2> QED
    BY <2>1, <2>2 DEF ListenersInv, ListenersFollowTick, RedirectTrue
<1>7. CASE Crash
  BY <1>7 DEF Crash, ListenersInv, ListenersFollowTick, RedirectTrue, Down
<1>8. CASE WebStep \/ WebBegin \/ CliStep \/ Hour \/ (\E d \in Names : Weeks(d))
           \/ UNCHANGED vars
  <2>1. UNCHANGED <<tick, config, listenVars, torn>>
    BY <1>8 DEF WebStep, Handle, WebBegin, Accept, CliStep, RequestIssue, Hour, Weeks, vars, tlsVars, managerVars
  <2> QED
    BY <2>1 DEF listenVars, ListenersInv, ListenersFollowTick, RedirectTrue
<1> QED
  BY <1>1, <1>2, <1>3, <1>4, <1>5, <1>6, <1>7, <1>8 DEF Next, TickStep

\* As long as no more attempts fail than the delay can be doubled, the
\* listeners between two ticks are those of the settings the last one read,
\* and the one redirected to runs unless it ended since or its files disagree.
THEOREM ListenersFollow ==
  ASSUME Budget["authority"] <= DoublingLimit
  PROVE  Spec => []ListenersFollowTick
<1>1. Spec => []TInv
  BY TypeInit, TypeStep, PTL DEF Spec
<1>2. TInv /\ TInv' /\ WaitInv /\ [Next]_vars => WaitInv'
  BY WaitStep
<1>3. Spec => []WaitInv
  BY <1>1, <1>2, WaitInit, PTL DEF Spec
<1>4. Spec => []FilesInv
  BY <1>1, FilesInit, FilesStep, PTL DEF Spec
<1>5. Init => ServesPresent
  BY DEF Init, TlsInit, ServesPresent
<1>6. Spec => []ServesPresent
  BY <1>1, <1>5, ServesPresentStep, PTL DEF Spec
<1>7. TInv /\ FilesInv /\ WaitInv /\ ServesPresent /\ ListenersInv /\ [Next]_vars
        => ListenersInv'
  BY ListenersStep
<1>8. Spec => []ListenersInv
  BY <1>1, <1>3, <1>4, <1>6, <1>7, ListenersInit, PTL DEF Spec
<1>9. ListenersInv => ListenersFollowTick
  BY DEF ListenersInv
<1> QED
  BY <1>8, <1>9, PTL

-----------------------------------------------------------------------------
(* The restriction, when nothing falls between a name and its switch *)

\* From the write of a changed name to that of the switch.
Renaming == {"reset", "port", "staging", "only"}

AllIdle == \A r \in Handlers : web[r].step = "idle"

\* One request at a time, and no command beside it; and the panel does not stop
\* between a request's write of the name and that of the switch.
Apart ==
  /\ \A r \in Handlers : web[r].step = "idle" /\ web'[r].step # "idle" =>
       AllIdle /\ cli = "idle"
  /\ CliStep => AllIdle
  /\ Crash => \A r \in Handlers : web[r].step \notin Renaming

\* No request names a domain and asks for the restriction at once.
OneAtATime == \A body \in Bodies : body.only = TRUE => body.domain \notin Names

\* What settings s and the names e that were earned make of the restriction.
Sound(s, e) == s.only => s.domain \in e \cup {NoName}

\* What a request q knows of them.
Held(q, s, e) ==
  /\ q.step \in Renaming \ {"reset"} => Sound(s, e) \/ q.body.only = FALSE
  /\ q.step \in {"domain", "reset"} /\ q.body.only = Same => q.wants = s.only
  /\ q.step = "domain" /\ q.body.domain # Same => q.next = q.body.domain
  /\ q.step = "reset" /\ q.body.only = TRUE => Sound(s, e)
  /\ q.step \in Writing /\ q.body.only = TRUE /\ ~s.only =>
       s.domain \in e /\ q.body.domain = Same

EarnedInv ==
  /\ \A r, o \in Handlers : r = o \/ web[r].step = "idle" \/ web[o].step = "idle"
  /\ cli = "reset" => AllIdle
  /\ cli = "idle" /\ (\A r \in Handlers : web[r].step \notin Renaming)
       => Sound(settings, earned)
  /\ \A r \in Handlers : Held(web[r], settings, earned)

LEMMA IdleHolds == \A q, s, e : q.step = "idle" => Held(q, s, e)
BY DEF Held, Renaming, Writing

LEMMA EarnedBegins == Init => EarnedInv
<1> SUFFICES ASSUME Init PROVE EarnedInv
  OBVIOUS
<1>1. ~settings.only
  BY DEF Init, DomainInit
<1>2. AllIdle /\ cli = "idle"
  BY DEF Init, DomainInit, Idle, AllIdle
<1> QED
  BY <1>1, <1>2, IdleHolds DEF EarnedInv, AllIdle, Sound

\* The one request in progress, or the first, takes its turn.
LEMMA EarnedTurn ==
  ASSUME TInv, EarnedInv, NEW r \in Handlers, NEW w, Turn(r, w),
         web[r].step # "idle" \/ AllIdle, cli = "idle", UNCHANGED cli,
         Held(w, settings', earned'),
         w.step \notin Renaming => Sound(settings', earned')
  PROVE  EarnedInv'
<1>1. web'[r] = w /\ \A o \in Handlers : o # r => web'[o] = web[o] /\ web[o].step = "idle"
  BY DEF Turn, TInv, DomainInv, EarnedInv, AllIdle
<1>2. \A o \in Handlers : Held(web'[o], settings', earned')
  BY <1>1, IdleHolds
<1>3. \A o, u \in Handlers : o = u \/ web'[o].step = "idle" \/ web'[u].step = "idle"
  BY <1>1
<1>4. (\A o \in Handlers : web'[o].step \notin Renaming) => Sound(settings', earned')
  BY <1>1
<1> QED
  BY <1>2, <1>3, <1>4 DEF EarnedInv

\* A request is checked before it writes.
LEMMA PutChecked ==
  ASSUME OneAtATime, TInv, EarnedInv, Apart, NEW r \in Handlers, NEW body \in Bodies,
         NEW host \in Names \cup {Elsewhere}, NEW loopback,
         PutBegin(r, body, host, loopback)
  PROVE  EarnedInv'
<1> DEFINE next == IF body.domain = Same THEN settings.domain ELSE body.domain
           w == [step |-> "domain", body |-> body, old |-> settings.domain, next |-> next,
                 wants |-> IF body.only = Same THEN settings.only ELSE body.only,
                 changed |-> FALSE]
<1>1. Turn(r, w) /\ web[r].step = "idle" /\ UNCHANGED <<settings, cli>>
  BY DEF PutBegin
<1>2. web'[r].step # "idle"
  BY <1>1 DEF Turn, TInv, DomainInv
<1>3. AllIdle /\ cli = "idle"
  BY <1>1, <1>2 DEF Apart
<1>4. Sound(settings, earned) /\ earned \subseteq earned'
  BY <1>3 DEF EarnedInv, AllIdle, Renaming, PutBegin
<1>5. ASSUME body.only = TRUE, ~settings.only
      PROVE  settings.domain \in earned' /\ body.domain = Same
  <2>1. next # NoName /\ host = next
    BY <1>5 DEF PutBegin, LockOut
  <2>2. body.domain \in {NoName, Same}
    BY <1>5, DomainAssumption DEF OneAtATime, Body
  <2>3. body.domain = Same /\ host = settings.domain /\ settings.domain \in Names
    BY <2>1, <2>2 DEF TInv, DomainInv, Settings
  <2>4. earned' = earned \cup ({host} \cap Names)
    BY <1>5 DEF PutBegin
  <2> QED
    BY <2>3, <2>4
<1>6. Sound(settings', earned')
  BY <1>1, <1>4 DEF Sound
<1>7. Held(w, settings', earned')
  BY <1>1, <1>5, <1>6 DEF Held, Renaming, Writing
<1> HIDE DEF w
<1> QED
  BY <1>1, <1>3, <1>6, <1>7, EarnedTurn

LEMMA EarnedWrites ==
  ASSUME OneAtATime, TInv, EarnedInv, NEW r \in Handlers, Handle(r)
  PROVE  EarnedInv'
<1> DEFINE q == web[r]
<1>q. q \in Requests /\ (q.step \in Writing => q.body \in Bodies /\ q.body \in Body)
  BY DomainAssumption DEF TInv, DomainInv
<1>s. settings \in Settings /\ settings.only \in BOOLEAN /\ cli \in {"idle", "reset"}
  BY DEF TInv, DomainInv, Settings
<1>a. q.step # "idle" /\ UNCHANGED <<cli, earned>>
  BY DEF Handle, PutName, PutReset, PutPort, PutStaging, PutOnly, PutInstall, PutConfigure,
     DeleteLift, DeleteForget
<1>c. cli = "idle" /\ \A o \in Handlers : o # r => web[o].step = "idle"
  BY <1>s, <1>a DEF EarnedInv, AllIdle
<1>h. Held(q, settings, earned)
  BY DEF EarnedInv
<1>e. q.step \notin Renaming => Sound(settings, earned)
  BY <1>c DEF EarnedInv, Renaming
<1>g. ASSUME NEW w, Turn(r, w), Held(w, settings', earned'),
             w.step \notin Renaming => Sound(settings', earned')
      PROVE  EarnedInv'
  BY <1>a, <1>c, <1>g, EarnedTurn
<1>i. Idle.step = "idle"
  BY DEF Idle
<1>2. Same \notin BOOLEAN /\ Same \notin Names \cup {NoName} /\ NoName \notin Names
  BY DomainAssumption
<1> USE DEF Renaming, Writing
<1>3. CASE PutName(r)
  <2> DEFINE w == [q EXCEPT !.step = IF NewName(q) THEN "reset" ELSE "port",
                            !.changed = NewName(q)]
  <2>1. /\ q.step = "domain" /\ w.body = q.body /\ w.wants = q.wants
        /\ w.step = IF NewName(q) THEN "reset" ELSE "port"
        /\ settings'.only = settings.only
        /\ settings'.domain = IF NewName(q) THEN q.next ELSE settings.domain
    BY <1>q, <1>s, <1>3 DEF PutName, Requests, Settings
  <2>2. Turn(r, w)
    BY <1>3 DEF PutName
  <2> HIDE DEF w
  <2>3. CASE ~NewName(q)
    <3>1. Sound(settings', earned')
      BY <1>a, <1>e, <2>1, <2>3 DEF Sound
    <3>2. Held(w, settings', earned')
      BY <1>a, <1>h, <2>1, <2>3, <3>1 DEF Held
    <3> QED
      BY <1>g, <2>2, <3>1, <3>2
  <2>4. CASE NewName(q)
    <3>1. q.next \in Names \cup {NoName} /\ q.next = q.body.domain /\ q.body.domain # Same
      BY <1>q, <1>h, <2>1, <2>4 DEF Held, NewName, Requests
    <3>2. q.body.only = TRUE => settings.only
      BY <1>h, <2>1, <3>1 DEF Held
    <3>3. q.body.only = TRUE => q.body.domain \notin Names
      BY <1>q, <2>1 DEF OneAtATime
    <3>4. q.body.only = TRUE => Sound(settings', earned')
      BY <2>1, <2>4, <3>1, <3>3 DEF Sound
    <3>5. Held(w, settings', earned')
      BY <1>h, <2>1, <2>4, <3>2, <3>4 DEF Held
    <3> QED
      BY <1>g, <2>1, <2>2, <2>4, <3>5
  <2> QED
    BY <2>3, <2>4
<1>4. CASE PutReset(r)
  <2> DEFINE w == [q EXCEPT !.step = "port"]
  <2>1. /\ q.step = "reset" /\ w.step = "port" /\ w.body = q.body
        /\ settings'.domain = settings.domain
        /\ settings'.only = IF q.wants /\ q.body.only = Same THEN FALSE ELSE settings.only
    BY <1>q, <1>s, <1>4 DEF PutReset, Requests, Settings
  <2>2. Turn(r, w)
    BY <1>4 DEF PutReset
  <2> HIDE DEF w
  <2>3. q.body.only \in {TRUE, FALSE, Same} /\ q.wants \in BOOLEAN
    BY <1>q, <2>1 DEF Body, Requests
  <2>4. Held(w, settings', earned')
    BY <1>2, <1>a, <1>h, <2>1, <2>3 DEF Held, Sound
  <2> QED
    BY <1>g, <2>1, <2>2, <2>4
<1>5. ASSUME NEW label \in {"staging", "only"}, NEW w, Turn(r, w), w.step = label,
             w.body = q.body, q.step \in {"port", "staging"},
             settings'.domain = settings.domain, settings'.only = settings.only
      PROVE  EarnedInv'
  <2>1. Held(w, settings', earned')
    BY <1>a, <1>h, <1>5 DEF Held, Sound
  <2> QED
    BY <1>5, <1>g, <2>1
<1>6. CASE PutPort(r)
  <2> DEFINE w == [q EXCEPT !.step = "staging", !.changed = @ \/ settings' # settings]
  <2>1. /\ q.step = "port" /\ w.step = "staging" /\ w.body = q.body
        /\ settings'.domain = settings.domain /\ settings'.only = settings.only
    BY <1>q, <1>s, <1>6 DEF PutPort, Requests, Settings
  <2>2. Turn(r, w)
    BY <1>6 DEF PutPort
  <2> HIDE DEF w
  <2> QED
    BY <1>5, <2>1, <2>2
<1>7. CASE PutStaging(r)
  <2> DEFINE w == [q EXCEPT !.step = "only", !.changed = @ \/ Restaged(q)]
  <2>1. /\ q.step = "staging" /\ w.step = "only" /\ w.body = q.body
        /\ settings'.domain = settings.domain /\ settings'.only = settings.only
    BY <1>q, <1>s, <1>7 DEF PutStaging, Requests, Settings
  <2>2. Turn(r, w)
    BY <1>7 DEF PutStaging
  <2> HIDE DEF w
  <2> QED
    BY <1>5, <2>1, <2>2
<1>8. CASE PutOnly(r)
  <2>1. q.step = "only" /\ q.body.only \in {TRUE, FALSE, Same}
    BY <1>q, <1>8 DEF PutOnly, Body
  <2>2. /\ settings'.domain = settings.domain
        /\ \/ settings'.only = settings.only
           \/ q.body.only # Same /\ settings'.only = q.body.only
        /\ q.body.only = FALSE => settings'.only = FALSE
    BY <1>2, <1>s, <1>8, <2>1 DEF PutOnly, Settings
  <2>3. Sound(settings', earned')
    <3>1. CASE q.body.only = FALSE
      BY <2>2, <3>1 DEF Sound
    <3>2. CASE q.body.only # FALSE
      <4>1. Sound(settings, earned)
        BY <1>h, <2>1, <3>2 DEF Held
      <4>2. q.body.only = TRUE /\ ~settings.only => settings.domain \in earned
        BY <1>h, <2>1 DEF Held
      <4> QED
        BY <1>a, <2>1, <2>2, <3>2, <4>1, <4>2 DEF Sound
    <3> QED
      BY <3>1, <3>2
  <2> DEFINE w == [q EXCEPT !.step = "install", !.changed = TRUE]
  <2>4. w.step = "install"
    BY <1>q DEF Requests
  <2> HIDE DEF w
  <2>5. Turn(r, w) \/ Turn(r, Idle)
    BY <1>8 DEF PutOnly, w
  <2>6. Held(w, settings', earned') /\ Held(Idle, settings', earned')
    BY <1>i, <2>4, IdleHolds DEF Held
  <2> QED
    BY <1>g, <2>3, <2>5, <2>6
<1>9. CASE PutInstall(r)
  <2> DEFINE w == [Idle EXCEPT !.step = "configure",
                               !.next = Policy(settings.domain, settings.only)]
  <2>1. w.step = "configure" /\ q.step = "install" /\ UNCHANGED settings
    BY <1>9 DEF PutInstall, Idle
  <2>2. Turn(r, w)
    BY <1>9 DEF PutInstall
  <2> HIDE DEF w
  <2>3. Held(w, settings', earned') /\ Sound(settings', earned')
    BY <1>a, <1>e, <2>1 DEF Held
  <2> QED
    BY <1>g, <2>2, <2>3
<1>10. CASE PutConfigure(r)
  <2>1. Sound(settings', earned') /\ Turn(r, Idle)
    BY <1>a, <1>e, <1>10 DEF PutConfigure
  <2> QED
    BY <1>g, <1>i, <2>1, IdleHolds
<1>11. CASE DeleteLift(r)
  <2> DEFINE w == [Idle EXCEPT !.step = "forgotten"]
  <2>1. w.step = "forgotten" /\ ~settings'.only
    BY <1>s, <1>11 DEF DeleteLift, Idle, Settings
  <2>2. Turn(r, w)
    BY <1>11 DEF DeleteLift
  <2> HIDE DEF w
  <2>3. Held(w, settings', earned') /\ Sound(settings', earned')
    BY <2>1 DEF Held, Sound
  <2> QED
    BY <1>g, <2>2, <2>3
<1>12. CASE DeleteForget(r)
  <2>1. Sound(settings', earned') /\ Turn(r, Idle)
    BY <1>a, <1>e, <1>12 DEF DeleteForget
  <2> QED
    BY <1>g, <1>i, <2>1, IdleHolds
<1> QED
  BY <1>3, <1>4, <1>6, <1>7, <1>8, <1>9, <1>10, <1>11, <1>12 DEF Handle

LEMMA EarnedStep ==
  ASSUME OneAtATime, TInv, EarnedInv, [Next]_vars, [Apart]_vars
  PROVE  EarnedInv'
<1>0. settings \in Settings /\ cli \in {"idle", "reset"} /\ web \in [Handlers -> Requests]
  BY DEF TInv, DomainInv
<1>1. CASE UNCHANGED <<settings, web, cli, earned>>
  BY <1>1 DEF EarnedInv, AllIdle
<1>2. CASE WebStep
  BY <1>2, EarnedWrites DEF WebStep
<1>3. ASSUME Apart, NEW r \in Handlers, Accept(r) PROVE EarnedInv'
  <2>1. ASSUME NEW host, NEW loopback, DeleteBegin(r, host, loopback) PROVE EarnedInv'
    <3> DEFINE w == [Idle EXCEPT !.step = "lift"]
    <3>1. /\ w.step = "lift" /\ web[r].step = "idle" /\ UNCHANGED <<cli, earned>>
          /\ settings'.domain = NoName
      BY <1>0, <2>1 DEF DeleteBegin, Idle, Settings
    <3>2. Turn(r, w)
      BY <2>1 DEF DeleteBegin
    <3> HIDE DEF w
    <3>3. AllIdle /\ cli = "idle"
      BY <1>0, <1>3, <3>1, <3>2 DEF Apart, Turn
    <3>4. Held(w, settings', earned') /\ Sound(settings', earned')
      BY <3>1 DEF Held, Sound, Renaming, Writing
    <3> QED
      BY <3>1, <3>2, <3>3, <3>4, EarnedTurn
  <2>2. ASSUME NEW host, NEW loopback, RequestIssue(r, host, loopback) PROVE EarnedInv'
    BY <1>1, <2>2 DEF RequestIssue
  <2> QED
    BY <1>3, <2>1, <2>2, PutChecked DEF Accept
<1>4. CASE Apart /\ CliStep
  <2>1. AllIdle /\ UNCHANGED web
    BY <1>4 DEF Apart, CliStep, CliName, CliReset, CliOnly
  <2>2. cli' = "idle" => Sound(settings', earned')
    <3>1. ASSUME NEW name \in Names \cup {NoName}, CliName(name) PROVE cli' # "idle"
      BY <3>1 DEF CliName
    <3>2. ASSUME CliReset PROVE Sound(settings', earned')
      BY <1>0, <3>2 DEF CliReset, Sound, Settings
    <3>3. ASSUME NEW flag \in BOOLEAN, CliOnly(flag) PROVE Sound(settings', earned')
      BY <1>0, <3>3 DEF CliOnly, Sound, Settings
    <3> QED
      BY <1>4, <3>1, <3>2, <3>3 DEF CliStep
  <2>3. AllIdle' /\ \A r \in Handlers : Held(web'[r], settings', earned')
    BY <2>1, IdleHolds DEF AllIdle
  <2> QED
    BY <2>2, <2>3 DEF EarnedInv, AllIdle
<1>5. CASE Apart /\ Crash
  <2>1. /\ UNCHANGED <<settings, cli, earned>>
        /\ \A r \in Handlers : web[r].step \notin Renaming /\ web'[r].step = "idle"
    BY <1>5 DEF Crash, Apart, Idle
  <2>2. \A r \in Handlers : Held(web'[r], settings', earned')
    BY <2>1, IdleHolds
  <2> QED
    BY <2>1, <2>2 DEF EarnedInv, AllIdle
<1>6. CASE TickStep \/ Hour \/ (\E d \in Names : Weeks(d)) \/ ListenerDies \/ UNCHANGED vars
  BY <1>1, <1>6 DEF TickStep, TickRead, TickConfigure, TickDecide, IssueBegin, IssueFail,
     IssueGranted, WriteKey, WriteChain, WriteMeta, TickServe, Hour, Weeks, ListenerDies,
     domainVars, vars
<1> QED
  BY <1>2, <1>3, <1>4, <1>5, <1>6 DEF Next, WebBegin

\* The restriction names a domain somebody reached the panel by, or the command
\* line chose, under the four conditions it takes: no request names a domain and
\* asks for the restriction at once, requests do not overlap, no command runs
\* beside one, and the panel does not stop between the name and the switch.
THEOREM RestrictionIsEarned ==
  ASSUME OneAtATime
  PROVE  Spec /\ [][Apart]_vars => []RestrictionEarned
<1>1. Spec => []TInv
  BY TypeInit, TypeStep, PTL DEF Spec
<1>2. TInv /\ EarnedInv /\ [Next]_vars /\ [Apart]_vars => EarnedInv'
  BY EarnedStep
<1>3. Spec /\ [][Apart]_vars => []EarnedInv
  BY <1>1, <1>2, EarnedBegins, PTL DEF Spec
<1>4. EarnedInv => RestrictionEarned
  BY DEF EarnedInv, Sound, Renaming, RestrictionEarned
<1> QED
  BY <1>3, <1>4, PTL
=============================================================================
