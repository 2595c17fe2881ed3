----------------------------- MODULE SeConnection -----------------------------
(***************************************************************************)
(* How the panel reaches its VPN server (app/se.py, routers/connection.py, *)
(* the administrator password in routers/se_server.py): the stored facts,  *)
(* the client built from them that every call shares, and the requests     *)
(* that change the facts while others use the client.                      *)
(*                                                                         *)
(* Each setting is read and written by an SQL statement of its own; the    *)
(* lock around the shared client covers one look at it or one change of    *)
(* it, not the building of a client in between.                            *)
(***************************************************************************)
EXTENDS Integers

CONSTANTS
  Threads,     \* request threads and background threads
  MayOverlap,  \* FALSE: a thread starts only when no other is running
  Hosts, Ports, Passwords,
  Servers,     \* the addresses, in Hosts \X Ports, where a server listens
  Default,     \* the seeded address
  Budget,      \* bound: how often each kind of event may happen
  None         \* no client, no password, nothing read yet

Kinds == {"call", "change", "fault", "repeat", "crash"}

\* How far a server has answered to facts: not at all; it has; and it holds no
\* change to another password besides.
Trust == {"no", "answered", "settled"}

ASSUME ConnectionAssumption ==
  /\ Servers \subseteq Hosts \X Ports /\ Default \in Hosts \X Ports
  /\ None \notin Hosts \cup Ports \cup Passwords
  /\ MayOverlap \in BOOLEAN
  /\ Budget \in [Kinds -> Nat]

VARIABLES
  stored,     \* the settings se_host, se_port, se_password
  cached,     \* _client: the facts the shared client was built from, or None
  adminPw,    \* each server's administrator password
  late,       \* password changes a server holds that nobody waits for: the call
              \* failed, or its repeat over a new connection was answered first
  pc, local,  \* where each thread is and what it holds
  spent,      \* events so far
  vouched     \* history: how far the server had answered to the facts last saved

threads == <<pc, local>>
vars    == <<stored, cached, adminPw, late, threads, spent, vouched>>

-----------------------------------------------------------------------------
(* State *)

Facts == [host : Hosts, port : Ports, password : Passwords \cup {None}]
Blank == [host |-> None, port |-> None, password |-> None]
Draft == [host : Hosts \cup {None}, port : Ports \cup {None},
          password : Passwords \cup {None}]

Labels == {"idle", "get", "read_host", "read_port", "read_configured",
           "read_password", "install",
           "use", "keep_host", "keep_port", "own_password", "test",
           "write_host", "write_port", "write_password", "drop"}

Local == [job : {"none", "call", "admin", "put", "cli"},
          mine : Draft,       \* the facts of the client it calls through
          used : BOOLEAN,     \* that client was found: its connection may be a used one
          new : Draft,        \* the facts to be stored
          keep : BOOLEAN,     \* password=None: the stored one stays
          tested : BOOLEAN,   \* skip_test was not asked for
          sure : Trust]       \* history: how far the server has answered to new

Rest == [job |-> "none", mine |-> Blank, used |-> FALSE, new |-> Blank,
         keep |-> FALSE, tested |-> FALSE, sure |-> "no"]

TypeOK ==
  /\ stored \in Facts
  /\ cached \in Facts \cup {None}
  /\ adminPw \in [Servers -> Passwords]
  /\ late \subseteq Servers \X Passwords
  /\ pc \in [Threads -> Labels]
  /\ local \in [Threads -> Local]
  /\ spent \in [Kinds -> Nat]
  /\ vouched \in Trust

Init ==
  /\ stored = [host |-> Default[1], port |-> Default[2], password |-> None]
  /\ cached = None
  /\ adminPw \in [Servers -> Passwords]
  /\ late = {}
  /\ pc = [t \in Threads |-> "idle"]
  /\ local = [t \in Threads |-> Rest]
  /\ spent = [k \in Kinds |-> 0]
  /\ vouched = "no"

-----------------------------------------------------------------------------
(* Building blocks *)

At(t, label) == pc[t] = label

Goto(t, label, l) ==
  /\ pc' = [pc EXCEPT ![t] = label]
  /\ local' = [local EXCEPT ![t] = l]

Finish(t) == Goto(t, "idle", Rest)

Spend(k) == spent[k] < Budget[k] /\ spent' = [spent EXCEPT ![k] = @ + 1]

Start(t, k, label, l) ==
  /\ At(t, "idle") /\ (MayOverlap \/ \A o \in Threads : At(o, "idle"))
  /\ Spend(k)
  /\ Goto(t, label, l)
  /\ UNCHANGED <<stored, cached, adminPw, late, vouched>>

Address(f) == <<f.host, f.port>>

\* The server there accepts these facts.
Works(f) == Address(f) \in Servers /\ adminPw[Address(f)] = f.password

\* The server there holds no change to another password.
Calm(address, password) == \A c \in late : c[1] = address => c[2] = password

Answer(address, password) == IF Calm(address, password) THEN "settled" ELSE "answered"

-----------------------------------------------------------------------------
(* Calls: get_client, then the RPC *)

Call(t) == Start(t, "call", "get", [Rest EXCEPT !.job = "call"])

SetAdminPassword(t, password) ==
  Start(t, "change", "get", [Rest EXCEPT !.job = "admin", !.new.password = password])

Get(t) ==
  /\ At(t, "get")
  /\ IF cached = None THEN Goto(t, "read_host", local[t])
                      ELSE Goto(t, "use", [local[t] EXCEPT !.mine = cached, !.used = TRUE])
  /\ UNCHANGED <<stored, cached, adminPw, late, spent, vouched>>

ReadHost(t) ==
  /\ At(t, "read_host")
  /\ Goto(t, "read_port", [local[t] EXCEPT !.mine.host = stored.host])
  /\ UNCHANGED <<stored, cached, adminPw, late, spent, vouched>>

ReadPort(t) ==
  /\ At(t, "read_port")
  /\ Goto(t, "read_configured", [local[t] EXCEPT !.mine.port = stored.port])
  /\ UNCHANGED <<stored, cached, adminPw, late, spent, vouched>>

\* Without a password the panel is not connected yet, and there is no call.
ReadConfigured(t) ==
  /\ At(t, "read_configured")
  /\ IF stored.password = None THEN Finish(t) ELSE Goto(t, "read_password", local[t])
  /\ UNCHANGED <<stored, cached, adminPw, late, spent, vouched>>

ReadPassword(t) ==
  /\ At(t, "read_password")
  /\ Goto(t, "install", [local[t] EXCEPT !.mine.password = stored.password])
  /\ UNCHANGED <<stored, cached, adminPw, late, spent, vouched>>

\* A client somebody else has put there meanwhile wins.
Install(t) ==
  /\ At(t, "install")
  /\ cached' = IF cached = None THEN local[t].mine ELSE cached
  /\ Goto(t, "use", [local[t] EXCEPT !.mine = cached', !.used = (cached # None)])
  /\ UNCHANGED <<stored, adminPw, late, spent, vouched>>

\* The password change that a call asks of its server.
Change(t) == <<Address(local[t].mine), local[t].new.password>>

\* What an answered call does next; only a password change is not yet over.  What
\* was answered may be the repeat of a request that timed out over a used
\* connection, and the server may hold the first one still.
Answered(t) ==
  IF local[t].job = "admin"
  THEN /\ adminPw' = [adminPw EXCEPT ![Change(t)[1]] = Change(t)[2]]
       /\ Goto(t, "keep_host",
               [local[t] EXCEPT !.sure = Answer(Change(t)[1], Change(t)[2])])
       /\ \/ UNCHANGED <<late, spent>>
          \/ local[t].used /\ Spend("repeat") /\ late' = late \cup {Change(t)}
       /\ UNCHANGED vouched
  ELSE UNCHANGED <<adminPw, late, spent, vouched>> /\ Finish(t)

\* The call raises although the server accepts these facts.  A change may have
\* been carried out all the same, or may still be; when it was repeated, both.
Lost(t) ==
  /\ Spend("fault") /\ Finish(t)
  /\ IF local[t].job = "admin"
     THEN /\ vouched' = "no"
          /\ adminPw' \in {adminPw, [adminPw EXCEPT ![Change(t)[1]] = Change(t)[2]]}
          /\ late' \in {late, late \cup {Change(t)}}
          /\ local[t].used \/ adminPw' = adminPw \/ late' = late
     ELSE UNCHANGED <<vouched, adminPw, late>>

Use(t) ==
  /\ At(t, "use")
  /\ \/ Works(local[t].mine) /\ (Answered(t) \/ Lost(t))
     \/ /\ ~Works(local[t].mine) /\ Finish(t)
        /\ UNCHANGED <<adminPw, late, spent, vouched>>
  /\ UNCHANGED <<stored, cached>>

\* A server carries a change out that its caller no longer waits for.
CarryOutLate(change) ==
  /\ change \in late
  /\ late' = late \ {change}
  /\ adminPw' = [adminPw EXCEPT ![change[1]] = change[2]]
  /\ UNCHANGED <<stored, cached, threads, spent, vouched>>

\* The address stays what it is when only the password changes.
KeepHost(t) ==
  /\ At(t, "keep_host")
  /\ Goto(t, "keep_port", [local[t] EXCEPT !.new.host = stored.host])
  /\ UNCHANGED <<stored, cached, adminPw, late, spent, vouched>>

KeepPort(t) ==
  /\ At(t, "keep_port")
  /\ Goto(t, "write_host", [local[t] EXCEPT !.new.port = stored.port])
  /\ UNCHANGED <<stored, cached, adminPw, late, spent, vouched>>

-----------------------------------------------------------------------------
(* put_connection *)

\* A password that is not given is the stored one, for the test; an empty one
\* is refused unless the test is skipped.
PutLabel(keep, tested, password) ==
  CASE keep                                 -> "own_password"
    [] ~keep /\ ~tested                     -> "write_host"
    [] ~keep /\ tested /\ password # None   -> "test"
    [] OTHER                                -> "idle"

Put(t, address, password, keep, tested) ==
  Start(t, "change", PutLabel(keep, tested, password),
        IF PutLabel(keep, tested, password) = "idle" THEN Rest
        ELSE [Rest EXCEPT !.job = "put", !.keep = keep, !.tested = tested,
                !.new = [host |-> address[1], port |-> address[2], password |-> password]])

OwnPassword(t) ==
  LET l == [local[t] EXCEPT !.new.password = stored.password] IN
  /\ At(t, "own_password")
  /\ IF stored.password = None /\ l.tested THEN Finish(t)
     ELSE Goto(t, IF l.tested THEN "test" ELSE "write_host", l)
  /\ UNCHANGED <<stored, cached, adminPw, late, spent, vouched>>

\* Mutant of Test: a server that refuses the password passes.
TestReachesOnly(t) ==
  /\ At(t, "test")
  /\ IF Address(local[t].new) \in Servers
     THEN Goto(t, "write_host", [local[t] EXCEPT !.sure =
                                       Answer(Address(local[t].new), local[t].new.password)])
     ELSE Finish(t)
  /\ UNCHANGED <<stored, cached, adminPw, late, spent, vouched>>

\* _test calls through a client of its own; a failure leaves all as it was.
Test(t) ==
  /\ At(t, "test")
  /\ \/ /\ Works(local[t].new) /\ UNCHANGED spent
        /\ Goto(t, "write_host", [local[t] EXCEPT !.sure =
                                       Answer(Address(local[t].new), local[t].new.password)])
     \/ ~Works(local[t].new) /\ Finish(t) /\ UNCHANGED spent
     \/ Works(local[t].new) /\ Spend("fault") /\ Finish(t)
  /\ UNCHANGED <<stored, cached, adminPw, late, vouched>>

-----------------------------------------------------------------------------
(* set_connection *)

\* cmd_connect: the installer stores the facts from a process of its own, on a
\* fresh install only.
CliConnect(t, address, password) ==
  /\ stored.password = None /\ cached = None
  /\ Start(t, "change", "write_host",
           [Rest EXCEPT !.job = "cli",
              !.new = [host |-> address[1], port |-> address[2], password |-> password]])

WriteHost(t) ==
  /\ At(t, "write_host")
  /\ stored' = [stored EXCEPT !.host = local[t].new.host]
  /\ Goto(t, "write_port", local[t])
  /\ UNCHANGED <<cached, adminPw, late, spent, vouched>>

WritePort(t) ==
  /\ At(t, "write_port")
  /\ stored' = [stored EXCEPT !.port = local[t].new.port]
  /\ Goto(t, IF local[t].keep THEN "drop" ELSE "write_password", local[t])
  /\ UNCHANGED <<cached, adminPw, late, spent, vouched>>

WritePassword(t) ==
  /\ At(t, "write_password")
  /\ stored' = [stored EXCEPT !.password = local[t].new.password]
  /\ Goto(t, "drop", local[t])
  /\ UNCHANGED <<cached, adminPw, late, spent, vouched>>

\* Mutant of Drop: the client of the old facts is kept.
DropNothing(t) ==
  /\ At(t, "drop")
  /\ vouched' = local[t].sure /\ Finish(t)
  /\ UNCHANGED <<stored, cached, adminPw, late, spent>>

\* drop_client forgets the client of this process; the installer's has none.
Drop(t) ==
  /\ At(t, "drop")
  /\ cached' = IF local[t].job = "cli" THEN cached ELSE None
  /\ vouched' = local[t].sure /\ Finish(t)
  /\ UNCHANGED <<stored, adminPw, late, spent>>

\* The panel dies: threads and client are gone, a save may be half done.
Crash ==
  /\ \E t \in Threads : ~At(t, "idle")
  /\ Spend("crash")
  /\ pc' = [t \in Threads |-> "idle"]
  /\ local' = [t \in Threads |-> Rest]
  /\ cached' = None
  /\ vouched' = IF \A t \in Threads : local[t].job \in {"none", "call"} THEN vouched ELSE "no"
  /\ UNCHANGED <<stored, adminPw, late>>

-----------------------------------------------------------------------------
(* Specification *)

Request(t) ==
  \/ Call(t)
  \/ \E password \in Passwords : SetAdminPassword(t, password)
  \/ \E address \in Hosts \X Ports :
       \/ \E password \in Passwords \cup {None}, tested \in BOOLEAN :
            Put(t, address, password, FALSE, tested)
       \/ \E tested \in BOOLEAN : Put(t, address, None, TRUE, tested)
       \/ \E password \in Passwords : CliConnect(t, address, password)

Continue(t) ==
  \/ Get(t) \/ ReadHost(t) \/ ReadPort(t) \/ ReadConfigured(t)
  \/ ReadPassword(t) \/ Install(t) \/ Use(t) \/ KeepHost(t) \/ KeepPort(t)
  \/ OwnPassword(t) \/ Test(t)
  \/ WriteHost(t) \/ WritePort(t) \/ WritePassword(t) \/ Drop(t)

Next == \/ \E t \in Threads : Request(t) \/ Continue(t)
        \/ \E change \in late : CarryOutLate(change)
        \/ Crash

Spec == Init /\ [][Next]_vars

-----------------------------------------------------------------------------
(* Properties of requests that do not overlap *)

Quiet == \A t \in Threads : At(t, "idle")

\* Between requests the shared client is one of the stored facts: after a save
\* no call goes to the old address or with the old password.
CacheFollowsStore == Quiet => cached \in {None, stored}

\* Between requests the server accepts the stored facts, when the last save was
\* tested or changed the password itself ("keep the panel's stored credential in
\* step"), the server held no change to another password then, and no crash or
\* lost answer has cut a change short since.
StoredWorks == Quiet /\ vouched = "settled" => Works(stored)

\* What set_admin_password says of itself: a change that was answered leaves the
\* stored credential in step, though the server may hold an earlier one.
AnswerKeepsInStep == Quiet /\ vouched # "no" => Works(stored)
=============================================================================
