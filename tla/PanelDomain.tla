------------------------------ MODULE PanelDomain ------------------------------
(***************************************************************************)
(* The panel's own name: the stored domain settings and the policy the     *)
(* host guard enforces (routers/system.py, hostguard.py, manage.py).       *)
(*                                                                         *)
(* Three kinds of actors write here: the requests of the Settings page,    *)
(* each on a thread of the web server's pool, the command line (another    *)
(* process), and the TLS manager, which installs the policy it last read.  *)
(* Every set_setting is a statement of its own and nothing locks the       *)
(* settings, so each handler is a chain of steps the others interleave     *)
(* with, other requests among them.                                        *)
(***************************************************************************)
EXTENDS Integers, FiniteSets

CONSTANTS
  Handlers,    \* the threads that serve requests
  Names,       \* the domains an operator may name
  Ports,       \* the ports an operator may ask for
  HttpPort,    \* port 80: validation and redirect
  BindPort,    \* the port the panel always listens on
  HttpsPort,   \* the seeded HTTPS port
  Bodies,      \* the PUT bodies the requests carry
  Elsewhere,   \* the Host of a request that came in by address
  NoName,      \* the empty domain
  Same,        \* a field a PUT does not name
  Budget,      \* bound: how often each kind of event may happen
  Total        \* bound: events of all kinds

Kinds == {"web", "cli", "authority", "port", "crash"}

Body == [domain : Names \cup {NoName, Same}, port : Ports \cup {Same},
         staging : BOOLEAN \cup {Same}, only : BOOLEAN \cup {Same}]

ASSUME DomainAssumption ==
  /\ NoName \notin Names /\ Elsewhere \notin Names \cup {NoName}
  /\ Same \notin Names \cup {NoName} /\ Same \notin Ports
  /\ Same \notin BOOLEAN
  /\ HttpsPort \in Ports \ {HttpPort, BindPort}
  /\ Bodies \subseteq Body
  /\ Budget \in [Kinds -> Nat] /\ Total \in Nat

VARIABLES
  settings,   \* domain, https_port, acme_staging, domain_only
  policy,     \* the guard: the one name it admits, or NoName when it is off
  web,        \* per handler, the request in progress
  cli,        \* "idle", or "reset": a command between its two writes
  earned,     \* history: names under which requests asked for the restriction
  spent       \* events so far

domainVars == <<settings, policy, web, cli, earned, spent>>

-----------------------------------------------------------------------------
(* State *)

Settings == [domain : Names \cup {NoName}, port : Ports,
             staging : BOOLEAN, only : BOOLEAN]

WebSteps == {"idle", "domain", "reset", "port", "staging", "only", "install",
             "configure", "lift", "forgotten"}

Idle == [step |-> "idle", body |-> Same, old |-> NoName, next |-> NoName,
         wants |-> FALSE, changed |-> FALSE]

DomainTypeOK ==
  /\ settings \in Settings
  /\ policy \in Names \cup {NoName}
  /\ DOMAIN web = Handlers
  /\ \A r \in Handlers :
       /\ web[r].step \in WebSteps /\ web[r].body \in Bodies \cup {Same}
       /\ {web[r].old, web[r].next} \subseteq Names \cup {NoName}
       /\ {web[r].wants, web[r].changed} \subseteq BOOLEAN
  /\ cli \in {"idle", "reset"}
  /\ earned \subseteq Names
  /\ \A k \in Kinds : spent[k] \in 0 .. Budget[k]

\* The panel starts with a domain stored in an earlier life, or none.
DomainInit ==
  /\ settings \in [domain : Names \cup {NoName}, port : {HttpsPort},
                  staging : {FALSE}, only : {FALSE}]
  /\ policy = NoName /\ web = [r \in Handlers |-> Idle] /\ cli = "idle"
  /\ earned = {}
  /\ spent = [k \in Kinds |-> 0]

Spend(k) ==
  /\ spent[k] < Budget[k]
  /\ spent.web + spent.cli + spent.authority + spent.port + spent.crash < Total
  /\ spent' = [spent EXCEPT ![k] = @ + 1]

\* What a step leaves a request with.
Turn(r, request) == web' = [web EXCEPT ![r] = request]

\* configure: a restriction without a domain is no restriction.
Policy(domain, only) == IF only THEN domain ELSE NoName

\* allowed: what comes from the machine itself always passes.
Allowed(host, loopback) == loopback \/ policy \in {NoName, host}

-----------------------------------------------------------------------------
(* put_domain *)

\* What the guard refuses: the restriction switched on from elsewhere.
LockOut(body, host, next) ==
  body.only = TRUE /\ ~settings.only /\ (next = NoName \/ host # next)

\* The body is read and checked, and nothing is written yet.
PutBegin(r, body, host, loopback) ==
  LET next == IF body.domain = Same THEN settings.domain ELSE body.domain
  IN /\ web[r].step = "idle" /\ Spend("web")
     /\ Allowed(host, loopback)
     /\ body.port \notin {HttpPort, BindPort}
     /\ ~LockOut(body, host, next)
     /\ Turn(r, [step |-> "domain", body |-> body,
                 old |-> settings.domain, next |-> next,
                 wants |-> IF body.only = Same THEN settings.only ELSE body.only,
                 changed |-> FALSE])
     /\ earned' = IF body.only = TRUE THEN earned \cup ({host} \cap Names)
                  ELSE earned
     /\ UNCHANGED <<settings, policy, cli>>

NewName(q) == q.body.domain # Same /\ q.next # q.old

PutName(r) ==
  /\ web[r].step = "domain"
  /\ settings' = IF NewName(web[r]) THEN [settings EXCEPT !.domain = web[r].next]
                 ELSE settings
  /\ Turn(r, [web[r] EXCEPT !.step = IF NewName(web[r]) THEN "reset" ELSE "port",
                            !.changed = NewName(web[r])])
  /\ UNCHANGED <<policy, cli, earned, spent>>

\* The restriction does not survive a change of name; the manager forgets.
PutReset(r) ==
  /\ web[r].step = "reset"
  /\ settings' = IF web[r].wants /\ web[r].body.only = Same
                 THEN [settings EXCEPT !.only = FALSE] ELSE settings
  /\ Turn(r, [web[r] EXCEPT !.step = "port"])
  /\ UNCHANGED <<policy, cli, earned, spent>>

PutPort(r) ==
  /\ web[r].step = "port"
  /\ settings' = [settings EXCEPT !.port = IF web[r].body.port = Same THEN @
                                          ELSE web[r].body.port]
  /\ Turn(r, [web[r] EXCEPT !.step = "staging", !.changed = @ \/ settings' # settings])
  /\ UNCHANGED <<policy, cli, earned, spent>>

\* A new authority makes the manager forget too.
Restaged(q) == q.body.staging \notin {Same, settings.staging}

PutStaging(r) ==
  /\ web[r].step = "staging"
  /\ settings' = IF Restaged(web[r])
                 THEN [settings EXCEPT !.staging = web[r].body.staging] ELSE settings
  /\ Turn(r, [web[r] EXCEPT !.step = "only", !.changed = @ \/ Restaged(web[r])])
  /\ UNCHANGED <<policy, cli, earned, spent>>

\* A restriction of no domain is refused here, after the writes above.
PutOnly(r) ==
  LET q == web[r]
      asks == q.body.only \notin {Same, settings.only}
      refused == asks /\ q.body.only /\ q.next = NoName
  IN /\ q.step = "only"
     /\ settings' = IF asks /\ ~refused THEN [settings EXCEPT !.only = q.body.only]
                    ELSE settings
     /\ Turn(r, IF ~refused /\ (asks \/ q.changed)
                THEN [q EXCEPT !.step = "install", !.changed = TRUE] ELSE Idle)
     /\ UNCHANGED <<policy, cli, earned, spent>>

\* The policy of the settings as they are by now, read and then installed at
\* once; the listeners follow at the next tick.
PutInstall(r) ==
  /\ web[r].step = "install"
  /\ Turn(r, [Idle EXCEPT !.step = "configure",
                         !.next = Policy(settings.domain, settings.only)])
  /\ UNCHANGED <<settings, policy, cli, earned, spent>>

PutConfigure(r) ==
  /\ web[r].step = "configure"
  /\ policy' = web[r].next
  /\ Turn(r, Idle)
  /\ UNCHANGED <<settings, cli, earned, spent>>

-----------------------------------------------------------------------------
(* delete_domain, and the command line *)

DeleteBegin(r, host, loopback) ==
  /\ web[r].step = "idle" /\ Spend("web") /\ Allowed(host, loopback)
  /\ settings' = [settings EXCEPT !.domain = NoName]
  /\ Turn(r, [Idle EXCEPT !.step = "lift"])
  /\ UNCHANGED <<policy, cli, earned>>

DeleteLift(r) ==
  /\ web[r].step = "lift"
  /\ settings' = [settings EXCEPT !.only = FALSE]
  /\ Turn(r, [Idle EXCEPT !.step = "forgotten"])
  /\ UNCHANGED <<policy, cli, earned, spent>>

\* configure("", False), and forget.
DeleteForget(r) ==
  /\ web[r].step = "forgotten"
  /\ policy' = NoName /\ Turn(r, Idle)
  /\ UNCHANGED <<settings, cli, earned, spent>>

\* "domain set <name>" and "domain clear" (name = NoName).
CliName(name) ==
  /\ cli = "idle" /\ Spend("cli")
  /\ settings' = [settings EXCEPT !.domain = name]
  /\ cli' = "reset"
  /\ UNCHANGED <<policy, web, earned>>

CliReset ==
  /\ cli = "reset"
  /\ settings' = [settings EXCEPT !.only = FALSE] /\ cli' = "idle"
  /\ UNCHANGED <<policy, web, earned, spent>>

\* "domain only on|off": whoever is at the machine needs no guard.
CliOnly(flag) ==
  /\ cli = "idle" /\ Spend("cli")
  /\ flag => settings.domain # NoName
  /\ settings' = [settings EXCEPT !.only = flag]
  /\ earned' = IF flag THEN earned \cup {settings.domain} ELSE earned
  /\ UNCHANGED <<policy, web, cli>>

Forgets(r) == \/ web[r].step \in {"reset", "forgotten"}
              \/ web[r].step = "staging" /\ Restaged(web[r])
===============================================================================
