# Verification of the SoftEther Manager panel

The panel is one FastAPI process that manages one SoftEther VPN server over its
JSON-RPC API and keeps its own state in SQLite. This directory holds TLA+
models of its parts, TLC instances that check them, and TLAPS proofs about them.
Every definition is translated from the source; `PROJECT.json` names the lines.

## 1. The system and its components

| Component | State | Operations | Interacts with |
| --- | --- | --- | --- |
| Traffic quotas `services/quota.py`, `routers/quota.py` | table `TrafficQuota`: limit, baseline, cached counter, block, what to restore | save, switch, reset, delete, forget, refresh, observe, enforce (block, release), tick | VPN server by RPC, sampler, hub and user operations, settings |
| Sampler `services/sampler.py` | one background thread, sample tables, session ledger | traffic pass, session pass, quota tick, prune | VPN server, quotas |
| Hub and user operations `routers/se_hub.py` | none of its own | create, edit, delete, online switch, usage, .vpn file | VPN server, quotas, credentials |
| SoftEther client `Library/softether.py` | one connection, request id, lock | call: exchange, retry, parse | VPN server |
| Cached connection `se.py`, `routers/connection.py`, `routers/se_server.py` | cached client, stored address and password | get, drop, set, change of the administrator password | settings, client |
| TLS manager `services/tls.py` | thread, state file, certificate files, listeners | issue, renew, back off, serve, forget | ACME client, settings |
| ACME client `services/acme.py` | account, nonces | order, challenge, poll, download | certificate authority |
| Update service `services/update_service.py`, `version.py` | state file, systemd unit, cached release check | start, launch, resolve, check | systemd, GitHub |
| Settings `settings_store.py`, `routers/system.py` | table `Setting` | get, put, put domain | everything |
| Host guard `hostguard.py`, `address.py` | domain, restriction | admit or refuse a request | settings |
| Accounts and sessions of the panel `routers/auth.py`, `routers/users.py`, `security.py`, `deps.py`, `manage.py` | table `PanelUser` | setup, login, change | database |
| Stored credentials `credentials.py`, `secrets_store.py`, `vpnfile.py` | table of credentials, key file | save, delete, read | hub and user operations |
| Database `db/` | one SQLite file, a connection per thread | execute, execute_many, query, migrate | everything |
| Resource monitor `services/resources.py` | ring buffer | sample | none |
| Shell `main.py`, `config.py`, `audit.py`, `routers/se_rpc.py` | none | wiring | everything |
| Web frontend `app/web` | browser state | render, optimistic switches | API |
| Installer `scripts/` | files, systemd units | install, update, remove | update service |

### How it runs

Request handlers are ordinary functions that FastAPI runs in a thread pool.
Beside them run the sampler, the TLS manager, the resource sampler and the update
checker, each a thread. Each thread has its own SQLite connection, and each
`execute` or `execute_many` is one transaction; nothing spans two of them.
The RPC client serialises single calls with a lock. No lock covers a whole
operation. An operation is therefore a sequence of SQL statements and RPCs
with anything in between, and each of them may fail.

### What is hard in it

- Two passes of enforcement at once: every request that changes a quota runs
  one (`_settle`), the sampler's quota tick and its traffic pass run others.
- A pass acts on a copy of the table that may be stale when it is used.
- A block or a release is several RPCs and one SQL statement; each may fail, and
  the panel may die between them.
- Counters belong to another program, only grow, and start over when their
  object is made again.
- What was on the server before a block has to survive on the row until the
  block is lifted.
- Retries of calls whose answer was lost; a cached client built from facts that
  change meanwhile; certificate and update runs that outlive a process.

### What makes each part correct

- Quotas: a subject is cut off only while a row says so; what a release puts
  back is what the operator had set; a finished pass leaves exactly the rows
  over their limit blocked; only a reset or a counter that starts over moves a
  baseline; a subject over its limit is blocked in the end, one that is no
  longer over gets its access back.
- Client: a call that changes the server is not carried out twice; nobody is
  handed the answer to another call; every call ends.
- Cached connection: calls use the stored facts, and those are the server's.
- Session history: after a pass the open rows are the sessions listed, a session
  that is gone is closed in the end, a chart never adds up more than was moved.
- TLS manager: key, chain and note belong together, the back-off is respected,
  the listeners are those of the settings, HTTPS is reached in the end; ACME: a
  certificate is granted only to a name proved while its token was on show.
- Domain settings: the guard comes to what is stored, the restriction never names
  an address nobody reached the panel by.
- Updates: an installer at work is recorded, an outcome rests on evidence, and no
  update runs for ever.
- Panel accounts and keys: what is sealed stays readable, a token is honoured until
  it expires, as long as the key is made once and stored.
- Routes: the audit trail tells of every change; an edit of one field of a record
  keeps the others; a .vpn file carries the hash the account has.

## 2. Plan

1. **Quotas** (done): `QuotaLedger`, `Quota`, `MCQuota`, `QuotaProofs`, and on top of
   it `QuotaSerialProofs`.
2. **The way to the VPN server** (done): `RpcPromise`, `SeClient`, `MCSeClient`,
   `SeClientProofs`; `SeConnection`, `MCSeConnection`, `SeConnectionProofs`.
3. **The panel's own name** (done): `PanelDomain` (settings, guard, command line),
   `TlsManager` on top of it, `MCTlsManager` and `MCDomainLife`, `TlsManagerProofs`.
4. **Issuing certificates** (done): `Issuance`, the promise `TlsManager` relies on,
   and `Acme`, which implements it, `AcmeProofs`; **updates**: `Versions`, `Updates`;
   **accounts and keys**: `Accounts`; checked together by `MCPanel`, proved about in
   `PanelProofs`.
5. **Around the VPN server** (done): `Sessions`; `WireApi`, `Routes` and
   `Administration`; `Edits`; `Credentials`; checked together by `MCServer`, proved
   about in `ServerProofs`.
6. Left, and small: the hub and user sample tables, the optimistic switch of the
   frontend.

Each module states the component's own properties. Those of modules that share
no state are checked in one run: `MCPanel` and `MCServer` are interleavings of
nothing, the initial state says which part a behaviour belongs to.

## 3. What is modelled

### QuotaLedger

The arithmetic of one row: what it says has been used (`NetBytes`, `Metered`,
`UsedBytes`), when it is over (`IsOver`), and where `observe` leaves its baseline
under a new reading (`Rebased`). Byte counts are natural numbers; SQLite and Python
hold 64 bits and more, which no counter reaches.

### Quota

| TLA+ | Code |
| --- | --- |
| `row`, `nextId` | the `TrafficQuota` table; `UNIQUE` makes it a function of the subject, `AUTOINCREMENT` makes ids new |
| `enforcing` | the setting `quota_enforcement_enabled` |
| `gate` | SoftEther's switch of a subject: a hub's `Online_bool`, an account's `UsePolicy_bool` and `policy:Access_bool` |
| `counter`, `sessions` | SoftEther's cumulative counters and live sessions |
| `pc`, `local` | where each thread is and the values of its Python locals |
| `spent` | how many outside events have happened, for the bounds |
| `configured`, `restarted` | history the properties speak about |

One action is one SQL statement or one RPC, with the computation around it:

- requests: `Save`; `Switch`, `SwitchWrite`; `Reset`, `ResetSave`, `ResetRow`,
  `ResetAsk`, `ResetWrite`; `Delete`, `DeleteWrite`; `View`; `Remove`, `Forget`;
- settling: `Refresh`, `Observe`, `ObserveWrite`, `Enforce`;
- a pass: `Pick` (`PickBlock`, `PickRelease`, `PickKeep`), `PassDone`;
- `block`: `BlockGet`, `BlockSet`, `BlockEnum`, `BlockCut`, `BlockWrite`;
- `release`: `ReleaseGet`, `ReleaseSet`, `ReleaseWrite`, used by passes, resets and
  removals of a limit, `local.back` saying where it goes on;
- the sampler: `Tick`, `SampleTraffic`, `AskCounters`, `Feed`;
- the world: `Login`, `Logout`, `Traffic`, `Edit`, `Recreate`, `Create`, `Toggle`,
  `Crash`.

A call about an object that is gone raises; any other call may raise where
`Unreliable` allows it. A raised write may have been carried out (the answer
was lost) or not: both are outcomes. A crash forgets every thread and keeps the
table and the server.

What is left out: dates other than "set or not", the spelling of names (SoftEther
and the panel both compare them without case), the fields of an account a
block does not touch, the audit log, `EnumHub` failing before anything was read
(a tick that does not happen), and an unconfigured panel (nothing happens).
`AskCounters` reads what a pass wants in any order; the code reads hubs, then
accounts. A pass looks at its rows in any order; the code has the table's.

### MCQuota

One hub, one account in it, the sampler and one request thread. Two subjects
are the least with a hub that contains an account; two threads are the least
that overlap; every finding below appears with them. Passes do not depend on the
number of rows except through hubs and the accounts in them.

### RpcPromise and SeClient

`RpcPromise` is what the rest of the panel may rely on: calls do not overlap, an
answered call was carried out, no call is carried out more often than the retry
policy allows, and a call that raised may have been carried out, or be so
later. `Quota` and `SeConnection` use it in that form: a failed write may have
happened. `SeClient` is one client and the server at the other end:

| TLA+ | Code in `Library/softether.py` |
| --- | --- |
| `call`, `stage` | who holds `_lock`, and how far its `_transport` has come |
| `attempt`, `reused` | the locals of `_transport` |
| `conn` | `_conn` and `_conn_used` |
| `unread` | an answer still in the connection |
| `orphans`, `done` | requests the server holds after their client gave up; what it carried out |
| `tries`, `firstOver` | history |

`Begin`, `Reuse`, `Connect`, `ConnectFails`, `Send`, `SendFails`, `Receive` and
`Break` are the steps of an attempt, `Failed` the `except` clause with `MayRepeat` its
condition; `Close` is `drop_client` from another thread. Only what tells calls apart
is kept of them: whether their method is a safe one. The wording of errors, the
back-off and the request id are left out; the id is compared in `_parse` only, where
`NoStrayAnswer` shows it cannot differ.

### SeConnection

| TLA+ | Code |
| --- | --- |
| `stored` | the settings `se_host`, `se_port`, `se_password` |
| `cached` | `_client` of `se.py`, by the facts it was built from |
| `adminPw`, `late` | each server's password, and changes it still holds though nobody waits for them |
| `pc`, `local` | where a request is and what it has read or means to store; `used`: its client was there before |
| `vouched`, `local.sure` | history: how far the server answered for the last save: `no`, `answered`, or `settled`, when it held no other change besides |

`Get`, `ReadHost`, `ReadPort`, `ReadConfigured`, `ReadPassword`, `Install` are
`get_client`; `Use` is the RPC with its three ends; `OwnPassword` and `Test` are
`put_connection`; `KeepHost` and `KeepPort` the second half of
`set_admin_password`; `WriteHost`, `WritePort`, `WritePassword`, `Drop` are
`set_connection`. A password change that is answered over a connection used before
may have been answered on its repeat, and the server may hold the first request still
(`softether.py:2751`, `Answered`): `late` keeps it, and `CarryOutLate` may come at any
time. Each setting is one statement, so a crash may leave a mixture. The
`connect` command runs in a process of its own, where `drop_client` reaches no
cached client of the panel; the installer uses it before the panel has a password
(`scripts/install.sh:938`), and only that is modelled. An empty administrator
password is not given to `set_admin_password`; the panel would take it for not connected.
Reading routes (`/connection/test`, `/probe`) change nothing and are left out.

### PanelDomain and TlsManager

| TLA+ | Code |
| --- | --- |
| `settings` | the settings `domain`, `https_port`, `acme_staging`, `domain_only` |
| `policy` | `_enabled`, `_hosts` of `hostguard.py` |
| `web`, `cli` | the request each handler thread serves, and the command in progress |
| `tick`, `config` | where `_tick` and `_issue` are; the `Config` this tick read |
| `requested`, `busy` | `_issue_requested`, `_busy` |
| `http`, `https`, `redirect` | the two listeners and `responder.redirect_to` |
| `cert` | per domain, `privkey.pem`, `fullchain.pem`, `meta.json`: present, belonging together, age |
| `retry` | `consecutive_failures` and the hours until `next_attempt_at` |
| `earned`, `torn`, `cooled` | history |

`put_domain` is eight steps, one for each `set_setting` and each call that reads or
changes something: `PutBegin`, `PutName`, `PutReset`, `PutPort`, `PutStaging`,
`PutOnly`, `PutInstall`, `PutConfigure`; `delete_domain` is three, a command of
`manage.py` one or two. Requests run in threads of the pool (`Handlers`) and nothing
locks the settings, so they interleave with each other too.
`tls.manager.forget` happens within the step whose setting calls it (`Forgets`). A
tick is `TickRead`, `TickConfigure`, `TickDecide`, the issuance (`IssueBegin`,
`IssueGranted` or `IssueFail`, `WriteKey`, `WriteChain`, `WriteMeta`) and
`TickServe`. `Hour` and `Weeks` are time; `ListenerDies` and `Crash` the faults. A
listener started on a key that is not its chain's is dead from the start: its
thread raises. `https.lost` tells such a one from one that ran and ended
(`ListenerDies`). `responder.redirect_to` follows neither, it is the manager's. Serial numbers are compared only for being those on disk
(`current`). A failure and the state file it is written to are one step.

Left out: DNS look-ups and the other refusals in front of the authority, each of
which is `IssueFail`; the contact address, which changes nothing else; what the
status page shows.

### Issuance and Acme

`Issuance` is what `TlsManager` relies on: an issuance begins, may show its token,
is granted only when the name was proved meanwhile and with the token withdrawn,
or fails; and it ends. `Acme` is `_issue`'s dialogue with the authority: `pool` is
`_nonces`, `attempt` the loop counter of `_post`, `carried` the nonce of the last
refusal, `token` the responder's, `polls` the rounds of the two polling loops, `authz`,
`order`, `usable` the authority's side. A POST, what the authority does with it and
the answer are one step (`Accepted`, `Refused`); `Fail` is any exception. The
authority validates, signs and forgets nonces when it likes (`Validate`, `Sign`,
`ForgetNonces`). Deadlines are counted in polls. An order has one authorization: the
panel asks for one name.

### Versions and Updates

`Versions` is `version.py`: parts compared as numbers, a prerelease below its
release, a build that is no release offered nothing. `Updates`:

| TLA+ | Code |
| --- | --- |
| `record`, `overdue` | `update-state.json`: stage, `from_version`; started more than half an hour ago |
| `unit`, `goal` | the transient systemd unit and what its installer installs |
| `running`, `installed` | `get_version()` of the process, the version of the files |
| `start`, `want` | where `UpdateApplier.start` is, under its lock |
| `evidence`, `strayed` | history: an installer ended well; the unit may not be that of the recorded run |
| `checker` | `UpdateChecker`: checking, latest, error |

`StartBegin`, `StartClear`, `StartWrite`, `Launch`, `StartGiveUp` are `start`;
`PollState` is `state()`, `Resolved` its `_resolve`. `systemd-run` may start the unit,
refuse, or answer too late (`Launch`); the installer replaces the files and restarts
the panel (`Install`), and ends well or not. `PanelRestarts`, `TornRecord`, `Reboot`,
`ResetUnit` are the faults. Four failures the code passes over are `Hitches`: a state
file that cannot be read counts as idle (`unread`); one that cannot be written is
logged and no more, and may be left half written (`unwritten`, `Write`; `StartWrite`
launches all the same); a `systemctl show` that fails or times out shows no unit
(`blind`, `Seen`); and nobody looks whether `systemctl stop` stopped the unit
(`uncleared`). `strayed` remembers that one of them, or an answer that came too late,
may have left an installer the record does not tell of.

### Accounts

| TLA+ | Code |
| --- | --- |
| `accounts`, `tokens` | `PanelUser`; the cookies browsers hold, each with the key it was signed with |
| `files`, `caches` | the two key files; what each process remembers of them (`lru_cache`) |
| `hand` | where a thread is in `_read_or_create`, and a key only it has |
| `sealed` | the key `se_password` is encrypted with |
| `visit`, `command` | a request and a command between check and write |
| `astray` | history: keys made beside another, or whose file could not be read or written |

The panel, with the threads of its pool, and the command line are two processes;
either may end anywhere (`Ends`). `SeekKey`, `ReadKey`, `GenerateKey`, `WriteKey` are
`secret_key` and `encryption_passphrase`. A thread that finds nothing remembered reads
the file; where there is none, or an empty one, it generates a key. `lru_cache` holds no
lock while it computes, and no key is made when the panel starts, so two threads, or
a thread and the command line, may each make one: the first to return is remembered,
the other serves the call that asked for it (`hand[w][k].at = "keeps"`). Writing is
best-effort (`secrets_store.py:56-65`): the file may stay as it was, or empty, and the
key is used all the same. A file that is there and cannot be read is one more reason to
generate (`Failures` bounds these). Nothing but time revokes a token. Hashing is the
identity of the password, which no property needs to invert. Of the setup, one at a
time is modelled (section 6).

### Sessions

| TLA+ | Code in `services/sampler.py` |
| --- | --- |
| `session`, `moved`, `hubThere` | SoftEther's sessions, what each moved, whether the hub is listed |
| `monitor` | the settings `session_monitor_enabled`, `session_traffic_enabled` |
| `rows`, `unseen`, `download` | `VpnSessionSample`: open or ended, days since `LastSeenDate`, `DownloadBytes` |
| `series` | `VpnSessionTrafficSample`, download direction |
| `scan` | locals of `_sample_sessions` |

`ScanBegin`, `ScanOne` per session, `ScanPoints`, `ScanClose` are a pass, `ScanBreaks`
an exception or a crash in it, `Prune` the retention; one thread does both. `Usage` is
what `se_hub.py` adds up for a chart. Upload and total are counted the same way and
left out, as is the pruning of single points of a session still open, which only
shortens a series at its old end.

### WireApi, Routes, Administration, Edits

`WireApi` has one definition for each typed method of `softether.py`: the RPC it
sends, the fields its signature demands, the fields it offers. It stands for the whole
method, signature, body and docstring, and `map` says so: of about 5,900 lines of
`softether.py` that the map names, some 4,000 are the documentation of the fields, from
which nothing is taken. `Encodes` and `Pack` are `_pack`, `IsSafe` is `_is_safe`. `Routes` has one for each route of `se_hub.py`,
`se_server.py` and `se_rpc.py`: the method, the fields the route fills in, whether
the client's body supplies the rest, the audit action, what it reads back. `RoutesFit`,
which TLC evaluates, says that every route names fields its RPC has and demands
nothing of a body it does not take; `read_log_file` adds one its RPC does not declare,
when the offset is not 0 (`Unoffered`, `se_server.py:519-520`). `set_vgs_config` hands any parameters on, and
the `overview` route gathers reads; the first is listed without fields, the second
left out.

`Administration` serves any of these routes: call, what the route keeps for itself,
audit row, reading back. The answer may be lost, a statement between the answered call
and its row may raise (`FollowUpFails`, in the routes whose record says `follows`; the
row's own `INSERT`, `RecordFails`), or the panel dies between any two. `Edits` changes one field of one
record by the three ways there are: a script on the typed methods (`WriteTyped`),
a screen that passes the wire record back, and SecureNAT's route that merges
(`WriteWire`), with another administrator writing in between (`Meanwhile`). The
server replaces the whole record (`Replace`), as the warning at every `set_*` says.
A second writer can take the first one's change back; nothing in these RPCs could
prevent it, so `EditKeepsRest` compares with what was read.

### Credentials

`account` is the hash the server has, `cached` the row of `VpnUserCredential`, `clerk`
where each request of the account routes is. `CreateUser`, `SetUser`, `Remember`,
`DeleteUser`, `ForgetUser`, `VpnFile`, `SaveTyped`, `CredentialState`, `Obtain` and `Keep` are
the routes and `credentials.py`; `MadeElsewhere` another tool. Assumed: an answered
RPC (a lost answer leaves the old hash cached), passwords changed through the panel
only (nothing tells it otherwise, `credentials.py:14`), nobody mistypes, accounts named
in one case, and a hub that stays.

## 4. What the runs check

Runs that pass:

| Run | Overlap | What may fail | Shows |
| --- | --- | --- | --- |
| `QuotaSerial` | no | calls that only read; counters that start over | `CutOffIsExplained`, `RestoreIsOriginal`, `BlockedIsCutOff`, `PassSettlesTable`: block and release are exact; `MeterNeverRunsBack`: only a reset or a restarted counter moves a baseline or lets a meter fall |
| `QuotaOverlap` | yes | any call; accounts are edited, deleted and created | `BaseNeverAboveLast`, `NeverInventsAccess`, `BlockRemembersRestore`, `MarksOnlyWhatItSawOver`: stale copies and half-done work do no harm to these |
| `QuotaLive` | no | any call but a release's, crash, setting flipped | `OverEventuallyBlocked`, `ReleaseEventuallyTakes` |
| `ClientCalls` | callers queue for the lock | connecting, sending, answering, at any point; the server acts late | `NoStrayAnswer`, `RepeatsAreBounded`, `KeepsPromise` (`SeClient` implements `RpcPromise`), `EveryCallEnds` |
| `ConnectionSerial` | no | any call, a password change carried out late or twice, crash between any two statements | `CacheFollowsStore`; `StoredWorks`, for saves the server answered to with no other change pending |
| `DomainLife` | a request, a command and a tick; and two requests in two threads | an attempt, a port, a listener, a crash; with two requests, a crash | `FilesAgree`, `ListenersFollowTick`, `UnaskedWaits`, `PolicyConverges`, `HttpsReached` |
| `PanelParts` | authority; unit and host; two threads and the command line | nonces, deadlines, refusals; crash, reboot, reset, a file torn, unread or unwritten, `systemctl` failing, late answers; a process ends, a key's file cannot be read or written | `TokenStands`, `RetryUsesCarried`, `GrantsAreProven` (`Acme` implements `Issuance`); `InstallerIsRecorded`, `SuccessHasEvidence`, `RunResolved`, `OffersOnlyNewer`; `SealedReadable`, `TokensHonoured` |
| `ServerParts` | the server's sessions; another administrator | status calls, passes that break off, days without a sighting; lost answers, statements after a call, the audit row, death of the panel | `SessionsReconciled`, `UsageWithinMoved`, `GoneIsClosed`; `TrailKeepsUp`; `EditKeepsRest` for nine kinds of record; `FileSignsIn` |

`TypeOK` of the composed modules is checked with them, and proved too.

Some of these properties carry an exception, which is where the code gives no
guarantee; for each a configuration below shows what happens there. `StoredWorks` is about saves
that were answered for while the server held no other change (`StaleRepeat`);
`ListenersFollowTick` lets port 80 redirect to a listener whose thread has ended, until the
next tick, or that never came up because a crash left key and chain of two issuances
(`ListenerLost`); `InstallerIsRecorded` and `SuccessHasEvidence` except an update that was
lost track of (`strayed`, `UnrecordedInstaller`), `SealedReadable` and `TokensHonoured`
keys that are on no disk or made beside another (`astray`, `KeyMadeTwice`), `TrailKeepsUp`
one row for every answer lost, failed statement and death (`TrailGap`).

The runs without overlap state what the machinery does when one pass or request
runs at a time (`MayOverlap = FALSE` in `MayStart`). Nothing in the code enforces
that; the runs below show what is lost without it.

Runs that TLC refutes, each a disagreement between what the source says and what
the code does (quoted in `PROJECT.json` under `findings`):

| Run | What happens |
| --- | --- |
| `QuotaTwoBlocks` | two passes block the same row; the second stores the first's denial as the state to restore, and the account stays denied for good |
| `DomainLockOut` | a new name that repeats `domain_only: true` while the restriction is on passes the guard: the panel answers only at a name nobody has reached |
| `RetryUnbounded` | at the 36th failure in a row the uncapped delay overflows, nothing is recorded, and an attempt follows at every tick |
| `CascadeEdit` | a cascade read and passed back as the documentation advises loses its proxy and its server certificate |

Seven more statements of the source are refuted by configurations that are here for
TLC and are no runs of `PROJECT.json` (`tlc -config StaleRepeat.cfg MCSeConnection`). Five
show what the exceptions above leave open, `CarriedTwice` what it means that a call may
be sent twice, and `DomainOverlap` is a second way into the lock-out:

| Configuration, module | Property | What happens | Against |
| --- | --- | --- | --- |
| `CarriedTwice`, `MCSeClient` | `CarriedOutOnce` | a call that writes times out over a used connection, is repeated whatever `retry_unsafe` says (`softether.py:2751`), and the server carries both out | 2748-2750: 'provably never delivered the request' |
| `StaleRepeat`, `MCSeConnection` | `AnswerKeepsInStep` | a password change is answered on such a repeat and another one after it; then the server carries the first request out: the panel has stored a password the server no longer has | `se_server.py:269-270`: 'keep the panel's stored credential in step' |
| `DomainOverlap`, `MCTlsManager` | `RestrictionEarned` | of two overlapping requests one asks for the restriction at the old name, the other writes a new one (`system.py:238`): the panel answers only at a name nobody has reached | `system.py:200-201` |
| `ListenerLost`, `MCTlsManager` | `RedirectsWhileUp` | the thread of the HTTPS listener ends, and port 80 redirects to it until the next tick | `tls.py:332-333`, `339`: 'while HTTPS is up' |
| `UnrecordedInstaller`, `MCPanel` | `WorkIsRecorded` | the state file cannot be written, which is logged (`update_service.py:354-359`), and the installer is launched: it replaces a panel that knows of no update | 309-311, 405-406: 'Written before the launch' |
| `KeyMadeTwice`, `MCPanel` | `SealedWithStored` | two threads find no key file and make a key each (`secrets_store.py:73`); a password is encrypted with the one that is not on disk, and is unreadable after a restart | 8-11: 'generated once and then never move' |
| `TrailGap`, `MCServer` | `OneRowEach` | the server has answered a change, and a statement before its row raises, as `forget_hub` may (`se_hub.py:59`) | `audit.py:1`: 'every state-changing panel action, one row' |

Four more are refuted when the assumption of a passing run is dropped. They are
reached by changing one constant of its configuration:

- `QuotaLive` with `Unreliable <- AnyCall`: a release whose RPC fails clears the row,
  and nobody tries again (`quota.py:556`, against `quota.py:525-527`).
- `QuotaSerial` with `MayOverlap = TRUE`: a reading taken before a reset is stored
  after it, below the new baseline, which is dropped (`quota.py:393`, against 367-369);
  and a limit removed during a block leaves the subject cut off without a row
  (`quota.py:329`, against 319-320).
- `ConnectionSerial` with `MayOverlap = TRUE`: a call reads the old facts, the facts
  change and `drop_client` finds nothing to drop, and the call caches a client of the
  old facts (`se.py:81`, against 86).
- `ServerParts` with `MayRace = TRUE`: a deletion and an edit of one account overlap
  and a hash stays cached that the account no longer has (`se_hub.py:194`).

The theorems about passes that follow one another (section 5) leave out some
failures, each because TLC refutes the property with it, already on one account, one
request thread, the lowest limit and at most three requests:

| Left out | Refuted | How |
| --- | --- | --- |
| a crash | `BlockedIsCutOff`, `CutOffIsExplained`, `RestoreIsOriginal` | the panel dies between `SetUser` and the `UPDATE` of the row (`quota.py:505`): cut off without a mark, and the next block stores the denial |
| a crash, with an object made again | `MeterNeverRunsBack` | a reset asks for the counters of a new object and dies before it writes them down |
| a failed `GetUser` or `SetUser` of a release, or `SetHubOnline` | `CutOffIsExplained` | the row is cleared and the subject stays off (`quota.py:556`) |
| the same, with a row deleted and saved again | `RestoreIsOriginal` | nothing remembers that the subject is still denied; the block of the new row takes the denial for what to put back |
| a failed `SetUser`, `SetHubOnline` or `EnumSession` of a block | `CutOffIsExplained` | access is denied (a lost answer may mean so), no row says it (`quota.py:499`) |
| a failed `DeleteSession` | `BlockedIsCutOff` | it counts as a session that is gone (`quota.py:584`) |
| an edit of a subject | `BlockedIsCutOff` | the operator opens a blocked account, the row stays (`quota.py:605`) |

More things the model shows, which need no search:

- One thread alone can lose the original state: when `EnumSession` fails after
  `SetUser` has denied access, `block` reports a failure and the next tick's `block`
  records the denial as what to restore (`quota.py:501`). `ReleaseEventuallyTakes`
  therefore speaks only of rows that remember an operator's choice.
- `enforce` compares rows, not accounts: an operator's edit that opens a blocked
  account stays until the row changes (`quota.py:605`). `BlockedIsCutOff` is checked
  without edits.
- `_cut_sessions` takes every failed `DeleteSession` for a session that has gone
  (`quota.py:584`); a session may survive its block. `BlockedIsCutOff` is checked
  with `block_cut` answered.
- A request settles whatever `quota_enforcement_enabled` says (`routers/quota.py:62`),
  so saving a limit blocks while enforcement is off; only the ticks are switched off.
- A status call that fails contributes a zero to a series of running totals
  (`sampler.py:359`); the next reading then counts in full again. `UsageWithinMoved`
  excepts such sessions.
- A row closed as stale is never opened again while its session lives
  (`sampler.py:300`): `SessionsReconciled` excepts those rows.
- `RepeatsAreBounded` allows a call that changes the server to be sent twice, the first
  time over a used connection, and `KeepsPromise` lets both be carried out; that
  `softether.py:2748-2750` promises more is what `CarriedTwice` refutes.
- `_post` tries a refused nonce up to twice, not once as its comment says
  (`acme.py:229`), each time with the nonce the refusal carried.
- A key that is not its chain's, after a crash between the two writes, keeps HTTPS off
  until the certificate is due for renewal (`tls.py:708`): the listener dies as it
  starts, and is started again at every tick. `HttpsReached` holds because weeks
  pass.

### Bounds

`Budget` bounds the outside events (requests, faults, crashes, edits, deletions,
recreations, flips of the setting), `MaxBytes` the traffic of one counter,
`SessionNames` the sessions of an account. Limits are 1 (reached by one unit
of traffic), 9 (never reached) and 0 (none); `MaxBytes` is 2 where baselines and
meters are the question, so that a counter can move before and after a reset.
`SerialBound` lets an object be made again only beside one request and no failure,
`OverlapBound` an account be edited only beside one request and no deletion: what they
cut off is a second such event in one behaviour.
Two requests are enough for each to undo the other (set and reset, set and
remove, set low and set high); two faults and two flips, with a crash, for a block
that is retried; the passes themselves are not bounded. The
budgets keep events that the property is not about at zero, and each passing run
names the ones it is about.

For the client, two repetitions as the panel sets them (`retries=2`), one call
that reads and two that write: the least with a call over a connection another one
used, twice in a row. For the connection, two servers at different addresses, two
passwords, two calls, three changes, one fault, one repeat that is answered and one
crash: a change of address, a change of password and one of them again, with a failure
in between; two threads where requests overlap.

`DomainLife` has two names, two ports, five bodies of a PUT, and at most two events in
all: two requests; a request and a command; a failed attempt and a crash; and so
on. Ticks are not bounded, so a certificate is issued, ages and is renewed with any
two events anywhere in between. One attempt may fail, so an unasked one waits the first
delay, an hour; the doubling and the cap are reached in `RetryUnbounded` and in the
proof. Requests that overlap are about one name and one port there and nothing but the
panel fails meanwhile (the second scene of `MCDomainLife`): four bodies, that set the name,
switch the restriction on or off, or both, the least for each of two requests to undo
the other. The theorems have no such bounds. `DomainLockOut` allows three requests, the least for a name,
its restriction and another name; `RetryUnbounded` has the hours of `tls.py` and
enough failures.

`PanelParts`: three attempts of a POST as in the code, nonces forgotten up to three
times, so that a call can be refused to the last, two polls before a deadline; two
starts of an update with any two of crash, reboot, reset, torn file, file unread or
unwritten, unit not shown or not stopped (each once, two writes), and two late
answers; one account, two passwords, two inputs, two threads and the command line, one
process that ends and one read or write of a key's file that fails, for either key
with the other left alone. Two workers are what it takes for two keys, one input to
use a key and one more to find it lost. `ServerParts`: one session
that moves two bytes, three readings, days up to retention; every route, twice;
every field of every record, one edit after another; two clerks and five acts, which
is create, file, delete, create, file. Sessions do not interact except in the pass
that lists them, and `_sample_sessions` treats them one by one.

### Fairness

`EveryCallEnds` assumes `WF` of `Exchange`: every socket operation of `_exchange` and
`_connect` ends, with its result or with the timeout the client was built with, and
back-off is a bounded sleep. The server is under no fairness, it may never answer.

`OverEventuallyBlocked` and `ReleaseEventuallyTakes` assume that a thread that has
begun goes on (`WF` of `Continue`), which the operating system's scheduler and
the RPC timeouts give, and that the sampler's quota clock comes due again
after whatever else the sampler is doing (`SF` of `Tick(Sampler)`): in `_loop`
every turn ends and `next_quota` is set again, exceptions included. It is strong
because a pass of another thread or the traffic pass may disable it for a while.
Nothing makes an operator, the world or a failure act.

`DomainLife`: the manager's thread goes on (`WF` of `TickStep`: `_loop` ticks every 20
seconds, exceptions included, and every wait in a tick has a deadline), a request goes
on in its thread (`WF` of `Handle(r)` for every handler: its steps are SQL statements) and
so does a command, and time passes. Attempts, ports and listeners may fail
only as often as `Budget` says, so the two liveness properties speak of what follows
when they stop failing.

`PanelParts`: the client of the authority goes on (`WF` of `ClientStep`; every request
has a timeout, every polling loop a deadline), and the authority is under no fairness;
the page of an update polls, a started request goes on, half an hour passes
(`RunResolved`: the outcome is worked out only when somebody asks).

`ServerParts`: a pass that began goes on (`WF` of `ScanRest`); days pass and the
retention runs again and again (`SF` of `Day` and `Prune`: a pass under way disables
both, and ends). Passes themselves are under no fairness: `GoneIsClosed` does not
need one to come.

## 5. What is proved

`QuotaProofs` proves, for every set of hubs, accounts, request threads, sessions,
limits and budgets, with overlap, failures and crashes:

- `TypeCorrect`: `Spec => []TypeOK`
- `BaselineNeverAbove`: `Spec => []BaseNeverAboveLast`
- `AccessNeverInvented`: `Spec => []NeverInventsAccess`
- `BlocksRemember`: `Spec => []BlockRemembersRestore`
- `MarkedRowWasSeenOver`: `Spec => MarksOnlyWhatItSawOver`

None of these is inductive. `BlockWrite` writes what the thread found some steps
ago, `ReleaseSet` gives back what a copy of a row remembered, `ObserveWrite` stores
figures computed from an older row. The invariant `IInv` therefore says of every
thread what it holds where it stands (`LocalSound`): a releasing thread holds a
row that was blocked; a blocking thread holds a row over its limit, and beyond
its first step a state of that subject; copies of rows are as sound as rows
(`RowSound`); figures to be stored have no baseline above their reading. It is
joined with the facts about the table (`TableInv`), the server (`ServerInv`) and the
history (`BookInv`). `Known(s)` only grows, so copies stay sound while the
world moves on (`ChoicesGrow`).

There is one lemma per action, each with one step per part of the invariant;
`GotoKeepsThreads`, `RowReplaced`, `RowAtHandReplaced`, `GateSet` and
`ReleaseKeepsThreads` carry what the actions share. `InitEstablishes`, `StepKeeps`
and `Invariance` put them together. `MarkedRowWasSeenOver` adds that of all actions
only `BlockWrite` marks a row (`OnlyBlockWriteMarks`, `OthersMarkNothing`), on a
record with the id of the thread's copy, which `IInv` says is over.

`WorkEnds` is what the two liveness properties rest on beside fairness: every step of a
thread that has begun something brings its end nearer (`WorkCloses`), under any overlap
and failure, and nothing short of a crash moves it from outside. The order is that of
three numbers: the stages ahead (`Stage`), the hubs to ask or rows to look at in this one
(`Items`), the calls left of a block or a release (`Calls`). They are bounded (`Measured`),
so there is no endless descent, and a copy of a table that changes meanwhile makes no
pass longer. It assumes finitely many hubs, accounts and sessions.

The assumptions are those the modules name: accounts live in hubs and are none,
requests are about subjects, gates are gates, limits are natural numbers, and
`None` is neither a gate nor a row. TLC evaluates them in every run.

`SeClientProofs` proves, for every set of calls, any number of retries and either
`retry_unsafe`: `TypeCorrect`, `ConnectionIsClean` (`NoStrayAnswer`), `Bounded`
(`RepeatsAreBounded`) and `ImplementsPromise` (`Spec => KeepsPromise`). The
invariant says that the lock's holder is the one running call (`LockInv`), that
`reused` tells the truth about the connection and a repetition never finds a used one
(`ConnInv`: `Failed` has closed it), how many requests the running call has sent by
now (`TriesInv`), and that requests carried out and requests still held were all
sent (`CountInv`). The last two bound what the server does late, which is what
`RpcPromise` needs: every step of `SeClient` is one of its steps or a stutter.
`CallsEnd` is what `EveryCallEnds` rests on beside fairness: `StepsLeft`, three for each
attempt left, falls with every step of the client and is zero exactly when the lock is
free (`CallCloses`); a failed step costs an attempt (`FailureCosts`).

`SeConnectionProofs` proves `TypeCorrect` under every overlap, and, assuming
`MayOverlap = FALSE`, `SerialCacheFollows` (`CacheFollowsStore`) and
`SerialStoredWorks` (`StoredWorks`): the facts of a save that the server answered to,
holding no other change then, keep working until a crash or a lost answer cuts a later
change short, whatever repeats are answered. `HasRead` says which facts a thread has read by
the time it reaches a label. For the serial theorems, at most one thread is not idle
(`Solo`), what it has read is what is stored (`Reads`), what it has written is what it
means to store (`Saves`), and what the server answered to is still so (`IsSure`, which
says of a settled answer that every change still held is to that password);
`CacheInv` and `VouchInv` carry that to the moments between requests. Both
assumptions are needed: section 4.

`TlsManagerProofs` proves, for every set of names, ports and bodies and any budget of
events: `TypeCorrect` and `FilesStayTogether` (`FilesAgree`); and, assuming that no
more attempts fail in all than the delay can be doubled
(`Budget["authority"] <= DoublingLimit`), `AttemptsWait` (`UnaskedWaits`) and
`ListenersFollow` (`ListenersFollowTick`). `FilesAgree` needs `Halfway`: before the note
is written, key and chain are of this tick's issuance. `UnaskedWaits` needs `WaitInv`:
the hours that have passed since a failure and those still to wait make up its delay,
whatever crashed. `ListenersFollowTick` needs that port 80 redirects to the HTTPS
listener at every moment (`RedirectTrue`), and that this one runs unless it was lost or
its files are of two issuances. The assumption is what `RetryUnbounded`
shows to be missing: past it `FailureIsRecorded` is false, and a tick ends with
nothing recorded and no listener looked at.

`RestrictionIsEarned` is `RestrictionEarned`, which `DomainLockOut` refutes, with what it
needs to hold: while the restriction is on, the panel answers to a name somebody
reached it by. It assumes that no body names a domain and asks for the restriction
at once (`OneAtATime`; such a body is `DomainLockOut`), and of the behaviour (`Apart`) that
no two requests overlap (`DomainOverlap` is what two do), that no request begins while a
command is between its writes, that no command writes while a request is served, and
that the panel does not die between a request's write of the name and that of the
switch. The code gives none of these: there is no lock, and a crash there leaves the new
name under the old switch.
`EarnedInv` adds to the property what a request has checked before it writes
(`PutChecked`), and that from the write of a new name to that of the switch (`Renaming`)
the name is one somebody has used or the switch is about to be turned off.

`AcmeProofs` proves, for any number of attempts, polls, forgotten nonces and bare answers:
`TypeCorrect`, `TokenOnShow` (`TokenStands`), `RetriesUseCarried` (`RetryUsesCarried`)
and `ImplementsIssuance`: every step of `Acme` is one of `Issuance`'s or a stutter under
the mapping of `GrantsAreProven`. `ShowInv` says where the token is on show, where the
authority may be looking for it, and that what is being signed was proved. The rest of
`GrantsAreProven`, that an issuance ends, is liveness and model-checked; what it rests
on beside fairness is `IssuancesEnd`: `Rank` falls with every step of the client, and the
authority, which may forget nonces and take its time, never raises it. `Rank` counts the
stages ahead, the polls left and the attempts left of each call, in this order
of weight.

`QuotaSerialProofs` assumes that passes and requests follow one another (`Serial`),
and proves, for every set of hubs, accounts, request threads, sessions, limits and
budgets:

| Theorem | Property | Also assumed |
| --- | --- | --- |
| `PassesSettle` | `PassSettlesTable` | nothing |
| `MetersOnlyGrow` | `MeterNeverRunsBack` | `Uncrashed` or `NothingRemade` |
| `BlockedStaysCutOff` | `BlockedIsCutOff` | `Uncrashed`, `SessionsEnd`, `Unedited` |
| `CutsAreExplained` | `CutOffIsExplained` | `Uncrashed`, `CutsAndLiftsAnswer` |
| `RestoresAreOriginal` | `RestoreIsOriginal` | `Uncrashed`, `CutsAndLiftsAnswer` |

`QuotaSerial` satisfies all of these, and section 4 says what happens without each.
None of the five properties is inductive; all rest on `IInv` and on copies being
fresh (`FreshInv`): at most one thread is busy, the rows it still has to look at and
the one it acts on are what the table has, and a row whose release is over is there
and not blocked. That is where `Serial` goes in, and nothing else does. On top of it:

- `SettlesInv`: of the rows a pass copied, those it is through with are blocked
  exactly when over their limit, unless a call failed or their object vanished.
- `CutOffInv`: a blocked subject is shut, but while it is being released; a
  subject being blocked is shut from the step on that found no session left
  (`Isolated`), a hub with every account in it (`Under`). It needs `ObjectsInv`: an
  account there has its hub, and what is gone is known to have been made anew when
  it comes back.
- `MeterInv`: the baseline and the cached counter of a row are not ahead of the
  object's counter unless that started over (`NotAhead`), nor is what a thread has
  read and not stored (`InBetween`).
- `SteadyInv`: where nothing is deleted or made again (`NothingRemade`), no counter
  starts over and no figure is ever ahead of its counter, which a crash does not
  change: a reset that died half-way does no harm then, and `MetersOnlyGrow` holds over
  crashes at any point.
- `ExplainedInv`: a denial is an operator's, or a row's, or that of the thread
  about to write the row; and what a row or a thread would put back is an
  operator's.

`PanelProofs` and `ServerProofs` hold what is proved of the parts that `MCPanel` and
`MCServer` put side by side, each part first by itself.

Accounts: `AccountsTyped`, `SealedStaysReadable` (`SealedReadable`) and
`TokensStayHonoured` (`TokensHonoured`) for any users, passwords, threads, inputs, restarts
and failures. The invariants say where keys that are not astray can be: in the file and
nowhere beside another. A key just made is either astray or the only one being made,
with no key in the file (`MakeInv`); what a process or a thread uses is the file's key or
astray (`UseInv`); what is signed or sealed was in use (`RingInv`, `VaultInv`). That a key
is astray when it was made beside another, or when its file could not be read or
written, is all the properties leave out; failures and overlaps that concern other keys
they survive.

Updates: `InstallersAreRecorded` (`InstallerIsRecorded`) and `SuccessesHaveEvidence`
(`SuccessHasEvidence`), for any versions and any number of crashes, reboots, torn
records, late answers and failures passed over. Unless the run was lost track of
(`strayed`): no unit is left over when a start writes its record, and the record says
running from then on until the start is over (`StartInv`); an installer at work is
recorded and a unit that ended well leaves evidence (`UnitInv`). `SuccessHasEvidence` is
about the step that records a success (`SuccessStep`). `VersionsAreOrdered`: `LessThan` is a strict total
order on tags. `OffersAreNewer` (`OffersOnlyNewer`) assumes `Digits`: numbers and
ranks below a hundred. `OffersOnlyNewer` compares by one number (`Weight`), so that
it is not a repetition of the comparison it judges; the digits are what makes that
number a faithful one, and the code needs no such bound. `PanelTyped` is `TypeOK` of
the composition.

Session history: `SessionsTyped` and `Reconciled` (`SessionsReconciled`) for any
sessions and ages. A row that has ended belongs to a session that is gone or was closed
as stale (`HistoryInv`); within a pass the open rows are among those that were open
before and those asked for since, and what is open and not listed is gone
(`PassInv`, `GoneInv`), so that closing takes exactly the sessions that ended.
`UsageStaysWithin` (`UsageWithinMoved`) needs to know what the recursive sum over a series
of any length is. Induction is had from the well-foundedness of `<` on the naturals
(`LeastNumber`, `UpTo`), which shows that the equation of `Sums` has one solution
(`SumsThere`) and that a prefix has the sum it had; `UsageInv` then says that a series adds
up to no more than its last point (`Rising`), and that what the pass under way has read
lies between that point and what was moved (`ReadWell`), but where a status call failed.

Audit trail: `TrailIsKept` (`TrailKeepsUp`), without assumption, for every route of
both routers and any number of requests: at most one row is missing for every answer
lost, statement that raised between an answered call and its row, and death of the
panel, and none is written twice or for nothing. `TrailInv` counts with `Due`: what was
changed, what is recorded and what the request under way has still to record
balance, these three apart. That a route which changes the
server names an audit action (`AdminAssumption`) is a fact about the table of
routes, over strings; TLC evaluates it for all of them in `ServerParts`.

Edits: `EditsKeepTheRest` (`EditKeepsRest`) for the nine kinds of `PlainKinds`. Of each
kind one lemma (`HubFits` and so on) shows that its `Get`, its `Set` and its record
fit together (`Fits`): what a typed method carries over is all of the record, or the
method refuses. `CascadesDoNotFit` shows why the tenth kind is left out, which
`CascadeEdit` refutes.

Credentials: `FilesSignIn` (`FileSignsIn`) from `~MayRace`, for any hashes, clerks and
number of acts: at most one request is served (`Solo`), and what it holds and what
is remembered is the account's, but while a request that changed the account has
yet to say so (`CredInv`, `Agrees`).

`SideBySide` shows that a behaviour of `MCServer` is one of each part alone, whence
`ServerTyped` (`TypeOK`) and `ServerKeepsItsWord`, the conjunction of the five
properties above. In the same way `PanelKeepsItsWord` is the conjunction of the seven of
the exchange, the updater and the accounts, six invariants and `SuccessHasEvidence` (under
`Digits`, which only `OffersOnlyNewer` needs), and
`PanelIssues` says that the composition still implements `Issuance`, fairness apart.

Only model-checked: `OverEventuallyBlocked`, `ReleaseEventuallyTakes`, `EveryCallEnds`,
`PolicyConverges`, `HttpsReached`, `RunResolved`, `GoneIsClosed` and the fairness part of
`GrantsAreProven`, for `WF`, `SF` and `ENABLED` are beyond the prover. That `IsSafe` and
`RoutesFit` say what they should of every method is left to TLC as well: they take
strings apart.

## 6. Not modelled

- The hub and user sample tables of the sampler: appended to once a tick and pruned
  by age, with no control beyond that; what quotas take from the same readings is in
  `Quota`.
- The text of a `.vpn` file (`vpnfile.py`), of answers, e-mails, logs and pages: layout.
- Decoding of RPC answers, password hashing, token signing, encryption, DNS and
  X.509: primitives, used for what they promise.
- `GetConfig` is searched for an account's hash; the search is modelled by its result.
- Opening and migrating the database; wiring of the application; configuration.
- The resource monitor: figures of `/proc` in a ring buffer nothing else depends on.
- The web frontend, and the shell scripts of installer and release, which only
  appear as what they do to the panel (`Updates`, `Accounts`).
- Two setups at once with different names, which insert both: listed in `PROJECT.json`
  under `hazards`.
