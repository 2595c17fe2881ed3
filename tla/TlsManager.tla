------------------------------- MODULE TlsManager -------------------------------
(***************************************************************************)
(* The TLS manager (services/tls.py): one thread that obtains and renews   *)
(* the certificate of the panel's domain and keeps the listeners on port   *)
(* 80 and on the HTTPS port going, composed with everything that changes   *)
(* the settings it reads (PanelDomain).                                    *)
(*                                                                         *)
(* A tick reads the settings once and works from that copy, for minutes    *)
(* when it waits for the authority; requests, commands and crashes fall    *)
(* between any two of its steps.  The certificate authority answers or     *)
(* refuses (Acme has the exchange itself); a certificate is a key, a chain *)
(* and a note of its authority, three files written one after the other.   *)
(***************************************************************************)
EXTENDS PanelDomain

CONSTANTS
  RetryBase, RetryCap,  \* hours
  DoublingLimit         \* doublings of RetryBase a timedelta cannot hold

ASSUME TlsAssumption ==
  /\ RetryBase \in Nat \ {0} /\ RetryCap \in Nat \ {0}
  /\ RetryBase <= RetryCap /\ DoublingLimit \in Nat \ {0}

VARIABLES
  tick,       \* where the thread is
  config,     \* Config: the settings this tick works from
  requested,  \* _issue_requested
  busy,       \* _busy
  unasked,    \* this tick's attempt is the manager's own idea
  http,       \* the port-80 listener is alive
  https,      \* the HTTPS listener, or Down; lost: its thread ended after it began
  redirect,   \* where port 80 sends its visitors, or Nowhere
  cert,       \* per domain, the files under data_dir/tls/certs
  retry,      \* state.json: consecutive failures, hours until the next attempt
  torn,       \* history: domains with files a crash left half written
  cooled      \* history: hours since the last failure not forgotten (capped)

managerVars == <<tick, config, requested, busy, unasked>>
listenVars  == <<http, https, redirect>>
tlsVars     == <<managerVars, listenVars, cert, retry, torn, cooled>>
vars        == <<domainVars, tlsVars>>

-----------------------------------------------------------------------------
(* State *)

\* Serial numbers are only compared: a listener was given its domain's
\* current chain or one replaced since; a key is the chain's own or another.
Down    == [alive |-> FALSE, domain |-> NoName, port |-> HttpPort,
            current |-> FALSE, lost |-> FALSE]
Nowhere == <<NoName, HttpPort>>
NoFiles == [key |-> "none", chain |-> FALSE, signed |-> FALSE, meta |-> Same,
            age |-> "expired"]

Ages == {"fresh", "due", "expired"}

TypeOK ==
  /\ DomainTypeOK
  /\ tick \in {"wait", "configure", "decide", "start", "order",
               "key", "chain", "meta", "serve", "drop", "resume"}
  /\ config \in Settings
  /\ requested \in BOOLEAN /\ busy \in BOOLEAN /\ unasked \in BOOLEAN
  /\ http \in BOOLEAN
  /\ https \in [alive : BOOLEAN, domain : Names \cup {NoName},
                port : Ports \cup {HttpPort}, current : BOOLEAN, lost : BOOLEAN]
  /\ redirect \in (Names \cup {NoName}) \X (Ports \cup {HttpPort})
  /\ cert \in [Names -> [key : {"none", "own", "other"}, chain : BOOLEAN,
                         signed : BOOLEAN, meta : BOOLEAN \cup {Same},
                         age : Ages]]
  /\ retry \in [failures : Nat, wait : 0 .. RetryCap]
  /\ torn \subseteq Names
  /\ cooled \in 0 .. RetryCap

TlsInit ==
  /\ tick = "wait" /\ config = settings
  /\ requested = FALSE /\ busy = FALSE /\ unasked = FALSE
  /\ http = FALSE /\ https = Down /\ redirect = Nowhere
  /\ cert = [d \in Names |-> NoFiles]
  /\ retry = [failures |-> 0, wait |-> 0]
  /\ torn = {} /\ cooled = RetryCap

Init == DomainInit /\ TlsInit

\* Certificate.load: present, and for which authority it says it is.
Present(c) == c.chain /\ c.key # "none"
Staging(c) == IF c.meta = Same THEN c.signed ELSE c.meta

Stale(c, staging) == \/ ~Present(c) \/ Staging(c) # staging
                     \/ c.age = "expired"

\* forget: the stored failure goes, whatever is being attempted.
Forget ==
  /\ retry' = [failures |-> 0, wait |-> 0]
  /\ cooled' = RetryCap

-----------------------------------------------------------------------------
(* The tick *)

TickRead ==
  /\ tick = "wait"
  /\ config' = settings /\ tick' = "configure"
  /\ UNCHANGED <<domainVars, requested, busy, unasked, listenVars, cert,
                 retry, torn, cooled>>

\* _ensure_http: a new listener when there is none, unless the port is taken.
EnsureHttp ==
  \/ http' = TRUE /\ UNCHANGED spent
  \/ ~http /\ Spend("port") /\ http' = FALSE

\* Mutant of TickConfigure: the listeners only, the guard is left alone.
TickConfigureListeners ==
  /\ tick = "configure"
  /\ IF config.domain = NoName
     THEN /\ http' = FALSE /\ https' = Down /\ redirect' = Nowhere
          /\ requested' = FALSE /\ tick' = "wait"
          /\ UNCHANGED spent
     ELSE /\ EnsureHttp
          /\ tick' = "decide"
          /\ UNCHANGED <<https, redirect, requested>>
  /\ UNCHANGED <<settings, policy, web, cli, earned, config, busy, unasked,
                 cert, retry, torn, cooled>>

\* The policy this tick read; without a domain nothing is left running.
TickConfigure ==
  /\ tick = "configure"
  /\ policy' = Policy(config.domain, config.only)
  /\ IF config.domain = NoName
     THEN /\ http' = FALSE /\ https' = Down /\ redirect' = Nowhere
          /\ requested' = FALSE /\ tick' = "wait"
          /\ UNCHANGED spent
     ELSE /\ EnsureHttp
          /\ tick' = "decide"
          /\ UNCHANGED <<https, redirect, requested>>
  /\ UNCHANGED <<settings, web, cli, earned, config, busy, unasked, cert,
                 retry, torn, cooled>>

\* Mutant of TickDecide: the back-off is not looked at.
TickDecideAtOnce ==
  LET c == cert[config.domain]
      due == Stale(c, config.staging) \/ c.age = "due"
  IN /\ tick = "decide"
     /\ requested' = FALSE
     /\ IF requested \/ due
        THEN tick' = "start" /\ unasked' = ~requested
        ELSE tick' = "serve" /\ UNCHANGED unasked
     /\ UNCHANGED <<domainVars, config, busy, listenVars, cert, retry, torn,
                    cooled>>

\* Mutant of TickDecide: a certificate is renewed, and the first one is nobody's
\* idea.
TickDecideRenewal ==
  LET c == cert[config.domain]
      due == Present(c) /\ (Stale(c, config.staging) \/ c.age = "due")
  IN /\ tick = "decide"
     /\ requested' = FALSE
     /\ IF requested \/ (due /\ retry.wait = 0)
        THEN tick' = "start" /\ unasked' = ~requested
        ELSE /\ tick' = IF Stale(c, config.staging) THEN "drop" ELSE "serve"
             /\ UNCHANGED unasked
     /\ UNCHANGED <<domainVars, config, busy, listenVars, cert, retry, torn,
                    cooled>>

\* Whether to issue: asked to, or due by the clock and not held back.
TickDecide ==
  LET c == cert[config.domain]
      due == Stale(c, config.staging) \/ c.age = "due"
  IN /\ tick = "decide"
     /\ requested' = FALSE
     /\ IF requested \/ (due /\ retry.wait = 0)
        THEN tick' = "start" /\ unasked' = ~requested
        ELSE /\ tick' = IF Stale(c, config.staging) THEN "drop" ELSE "serve"
             /\ UNCHANGED unasked
     /\ UNCHANGED <<domainVars, config, busy, listenVars, cert, retry, torn,
                    cooled>>

\* _issue begins; requests to issue are refused from here on.
IssueBegin ==
  /\ tick = "start"
  /\ busy' = TRUE /\ tick' = "order"
  /\ UNCHANGED <<domainVars, config, requested, unasked, listenVars, cert,
                 retry, torn, cooled>>

\* The domains with files left half written, should the attempt end here.
HalfWritten == IF tick \in {"chain", "meta"} THEN torn \cup {config.domain}
               ELSE torn

\* Mutant of Delay: hours are taken for minutes.
DelayInMinutes(n) == 60 * RetryBase * 2 ^ n

\* min(RETRY_CAP, RETRY_BASE * 2^n), from a product a timedelta can hold.
Delay(n) == IF n > 15 \/ RetryBase * 2 ^ n > RetryCap THEN RetryCap
            ELSE RetryBase * 2 ^ n

\* The DNS record, port 80 or the authority refuses, or a file cannot be
\* written: _record_failure.  Past the longest interval the product raises,
\* and the tick ends with nothing recorded and no listener looked at.
IssueFail ==
  /\ tick \in {"order", "key", "chain", "meta"} /\ Spend("authority")
  /\ IF retry.failures >= DoublingLimit
     THEN tick' = "wait" /\ UNCHANGED retry
     ELSE /\ tick' = "resume"
          /\ retry' = [failures |-> retry.failures + 1,
                       wait |-> Delay(retry.failures)]
  /\ http' \in IF tick = "order" THEN {http, TRUE} ELSE {http}
  /\ busy' = FALSE /\ cooled' = 0
  /\ torn' = HalfWritten
  /\ UNCHANGED <<settings, policy, web, cli, earned, config, requested,
                 unasked, https, redirect, cert>>

\* The authority is satisfied and the certificate downloaded.
IssueGranted ==
  /\ tick = "order"
  /\ http' = TRUE /\ tick' = "key"
  /\ UNCHANGED <<domainVars, config, requested, busy, unasked, https,
                 redirect, cert, retry, torn, cooled>>

WriteKey ==
  /\ tick = "key"
  /\ cert' = [cert EXCEPT ![config.domain].key = "other"]
  /\ tick' = "chain"
  /\ UNCHANGED <<domainVars, config, requested, busy, unasked, listenVars,
                 retry, torn, cooled>>

WriteChain ==
  /\ tick = "chain"
  /\ cert' = [cert EXCEPT ![config.domain].chain = TRUE,
                          ![config.domain].key = "own",
                          ![config.domain].age = "fresh",
                          ![config.domain].signed = config.staging]
  /\ https' = [https EXCEPT !.current = @ /\ https.domain # config.domain]
  /\ tick' = "meta"
  /\ UNCHANGED <<domainVars, config, requested, busy, unasked, http, redirect,
                 retry, torn, cooled>>

\* Mutant of WriteMeta: the note tells the authority that is set by now.
WriteMetaOfNow ==
  /\ tick = "meta"
  /\ cert' = [cert EXCEPT ![config.domain].meta = settings.staging]
  /\ torn' = torn \ {config.domain}
  /\ busy' = FALSE /\ tick' = "resume"
  /\ Forget
  /\ UNCHANGED <<domainVars, config, requested, unasked, listenVars>>

\* meta.json, the success, and the failures it wipes out.
WriteMeta ==
  /\ tick = "meta"
  /\ cert' = [cert EXCEPT ![config.domain].meta = config.staging]
  /\ torn' = torn \ {config.domain}
  /\ busy' = FALSE /\ tick' = "resume"
  /\ Forget
  /\ UNCHANGED <<domainVars, config, requested, unasked, listenVars>>

\* Mutant of StopHttps: port 80 goes on redirecting.
StopHttpsOnly ==
  /\ https' = Down
  /\ UNCHANGED <<redirect, spent>>

\* _ensure_https with no usable certificate, and with one.  A listener given
\* a key that is not the chain's dies as it starts.
StopHttps ==
  /\ https' = Down
  /\ redirect' = IF https = Down THEN redirect ELSE Nowhere
  /\ UNCHANGED spent

Serving == /\ https.alive /\ https.port = config.port
           /\ https.domain = config.domain /\ https.current

StartHttps(c) ==
  \/ /\ https' = [alive |-> c.key = "own", domain |-> config.domain,
                  port |-> config.port, current |-> TRUE, lost |-> FALSE]
     /\ redirect' = <<config.domain, config.port>>
     /\ UNCHANGED spent
  \/ /\ Spend("port")
     /\ https' = Down /\ redirect' = Nowhere

\* The end of a tick.  One that attempted an issuance looks only at whether
\* there is a certificate, not at its age or authority.
TickServe ==
  LET c == cert[config.domain]
      usable == tick = "serve" \/ (tick = "resume" /\ Present(c))
  IN /\ tick \in {"serve", "drop", "resume"}
     /\ IF ~usable THEN StopHttps
        ELSE IF Serving THEN UNCHANGED <<https, redirect, spent>>
        ELSE StartHttps(c)
     /\ tick' = "wait"
     /\ UNCHANGED <<settings, policy, web, cli, earned, config, requested,
                    busy, unasked, http, cert, retry, torn, cooled>>

TickStep ==
  \/ TickRead \/ TickConfigure \/ TickDecide \/ IssueBegin \/ IssueFail
  \/ IssueGranted \/ WriteKey \/ WriteChain \/ WriteMeta \/ TickServe

-----------------------------------------------------------------------------
(* Requests, the clock, the outside world *)

\* issue_domain_certificate: refused with no domain, and while one runs.
RequestIssue(r, host, loopback) ==
  /\ web[r].step = "idle" /\ Spend("web") /\ Allowed(host, loopback)
  /\ settings.domain # NoName /\ ~busy
  /\ requested' = TRUE
  /\ UNCHANGED <<settings, policy, web, cli, earned, tick, config, busy,
                 unasked, listenVars, cert, retry, torn, cooled>>

\* A handler goes on with its request, and takes a new one.
Handle(r) ==
  /\ \/ PutName(r) \/ PutReset(r) \/ PutPort(r) \/ PutStaging(r) \/ PutOnly(r)
     \/ PutInstall(r) \/ PutConfigure(r) \/ DeleteLift(r) \/ DeleteForget(r)
  /\ IF Forgets(r) THEN Forget ELSE UNCHANGED <<retry, cooled>>
  /\ UNCHANGED <<managerVars, listenVars, cert, torn>>

Accept(r) ==
  \E host \in Names \cup {Elsewhere}, loopback \in BOOLEAN :
    \/ /\ \/ \E body \in Bodies : PutBegin(r, body, host, loopback)
          \/ DeleteBegin(r, host, loopback)
       /\ UNCHANGED tlsVars
    \/ RequestIssue(r, host, loopback)

WebStep  == \E r \in Handlers : Handle(r)
WebBegin == \E r \in Handlers : Accept(r)

CliStep ==
  /\ \/ \E name \in Names \cup {NoName} : CliName(name)
     \/ CliReset
     \/ \E flag \in BOOLEAN : CliOnly(flag)
  /\ UNCHANGED tlsVars

\* An hour passes for the next attempt; weeks pass for a certificate.
Hour ==
  /\ retry.wait > 0 \/ cooled < RetryCap
  /\ retry' = [retry EXCEPT !.wait = IF @ > 0 THEN @ - 1 ELSE 0]
  /\ cooled' = IF cooled < RetryCap THEN cooled + 1 ELSE cooled
  /\ UNCHANGED <<domainVars, managerVars, listenVars, cert, torn>>

Weeks(d) ==
  /\ cert[d].chain /\ cert[d].age # "expired"
  /\ cert' = [cert EXCEPT ![d].age = IF @ = "fresh" THEN "due" ELSE "expired"]
  /\ UNCHANGED <<domainVars, managerVars, listenVars, retry, torn, cooled>>

\* A listener's thread ends with an error nobody is told of.
ListenerDies ==
  /\ Spend("port")
  /\ \/ http /\ http' = FALSE /\ UNCHANGED https
     \/ https.alive /\ https' = [https EXCEPT !.alive = FALSE, !.lost = TRUE] /\ UNCHANGED http
  /\ UNCHANGED <<settings, policy, web, cli, earned, managerVars, redirect,
                 cert, retry, torn, cooled>>

\* The panel stops wherever it is and starts again: load_from_settings.  The
\* command line and the files live on.
Crash ==
  /\ Spend("crash")
  /\ policy' = Policy(settings.domain, settings.only)
  /\ web' = [r \in Handlers |-> Idle]
  /\ tick' = "wait" /\ requested' = FALSE /\ busy' = FALSE /\ unasked' = FALSE
  /\ http' = FALSE /\ https' = Down /\ redirect' = Nowhere
  /\ torn' = HalfWritten
  /\ UNCHANGED <<settings, cli, earned, config, cert, retry, cooled>>

Next == TickStep \/ WebStep \/ WebBegin \/ CliStep \/ Hour
        \/ (\E d \in Names : Weeks(d)) \/ ListenerDies \/ Crash

\* The thread ticks every twenty seconds, a request ends, a command ends, and
\* time passes.
Fairness ==
  /\ WF_vars(TickStep) /\ \A r \in Handlers : WF_vars(Handle(r))
  /\ WF_vars(CliReset /\ UNCHANGED tlsVars)
  /\ WF_vars(Hour) /\ \A d \in Names : WF_vars(Weeks(d))

-----------------------------------------------------------------------------
(* Properties *)

\* A private key belongs to its chain, and the note beside them names the
\* authority that signed: files of different issuances stay side by side only
\* where a crash or a failed write fell between two of the three writes.
FilesAgree ==
  \A d \in Names :
    /\ cert[d].key = "other" =>
         d \in torn \/ (tick = "chain" /\ d = config.domain)
    /\ cert[d].meta \notin {Same, cert[d].signed} =>
         d \in torn \/ (tick = "meta" /\ d = config.domain)

\* Between two ticks the listeners are those of the settings the last tick
\* read: none without a domain, and port 80 redirects only to the name and
\* port of an HTTPS listener that was given that domain's present chain and
\* runs, unless its thread has ended since, or the files of that domain are
\* of two issuances and it never came up.
ListenersFollowTick ==
  tick = "wait" =>
    /\ config.domain = NoName =>
         https = Down /\ ~http /\ redirect = Nowhere
    /\ redirect # Nowhere =>
         /\ redirect = <<config.domain, config.port>>
         /\ <<https.domain, https.port>> = redirect
         /\ https.current
         /\ https.alive \/ https.lost \/ config.domain \in torn

\* What redirect_to says of itself: it is set while HTTPS is up.
RedirectsWhileUp == redirect # Nowhere => https.alive

\* An attempt nobody asked for comes no sooner after a failure than the
\* delay of that many failures in a row, whatever crashed in between.
UnaskedWaits ==
  [][tick = "decide" /\ tick' = "start" /\ unasked' =>
       retry.failures = 0 \/ cooled >= Delay(retry.failures - 1)]_vars

\* The guard comes to enforce what is stored, whichever process stored it and
\* whichever tick was under way.
PolicyConverges ==
  <>[](policy = Policy(settings.domain, settings.only))

\* Once the settings, the authority and the ports settle, the panel is served
\* by HTTPS at its domain and port 80 sends visitors there, even when files
\* were left half written.
Served ==
  settings.domain # NoName =>
    /\ http /\ https.alive
    /\ redirect = <<settings.domain, settings.port>>
    /\ <<https.domain, https.port>> = redirect

HttpsReached == <>[]Served

\* The restriction names a domain somebody reached the panel by, or the
\* command line chose, when it was asked for: a changed name does not keep it.
RestrictionEarned ==
  (\A r \in Handlers : web[r].step = "idle") /\ cli = "idle" /\ settings.only =>
    settings.domain \in earned \cup {NoName}

Spec     == Init /\ [][Next]_vars
FairSpec == Spec /\ Fairness
===============================================================================
