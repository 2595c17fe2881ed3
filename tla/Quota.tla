-------------------------------- MODULE Quota --------------------------------
(***************************************************************************)
(* Traffic quotas of the panel: the TrafficQuota table, the sampler thread *)
(* that ticks the enforcement, the request handlers that change quotas and *)
(* settle them at once, and the SoftEther objects they cut off and give    *)
(* back.                                                                   *)
(*                                                                         *)
(* Handlers are plain functions run in a thread pool beside the sampler    *)
(* thread, and nothing locks a pass: the only atomic units are one SQL     *)
(* statement and one RPC.  Each is one action here.  A thread's position   *)
(* is pc[t], what it has read so far is local[t].                          *)
(***************************************************************************)
EXTENDS QuotaLedger, FiniteSets

CONSTANTS
  Hubs,          \* Virtual Hubs
  Users,         \* VPN accounts
  HubOf,         \* the hub an account lives in
  SessionNames,  \* names a live session may carry
  Sampler,       \* the background thread
  Handlers,      \* request threads
  MayOverlap,    \* FALSE: a pass or a request starts only when none is running
  Watched,       \* the subjects requests are about
  OperatorGates, \* gates an operator leaves a subject in
  Ceilings,      \* <<limit, metric>> pairs an operator may set (limit 0: none)
  MaxBytes,      \* bound: traffic one counter may show
  Unreliable,    \* where a call may raise although its object is there
  Budget,        \* bound: how often each kind of outside event may happen
  None           \* no row, no object, nothing read yet

Subjects == Hubs \cup Users
Threads  == Handlers \cup {Sampler}

\* Outside events TLC bounds: requests to the quota endpoints, failed RPCs,
\* panel crashes, edits of an account or hub through its own screens,
\* deletions of them through the panel, recreations behind the panel's back
\* (which restart the counter), and flips of the global enforcement setting.
Kinds == {"request", "fault", "crash", "edit", "delete", "recreate", "toggle"}

\* What lets a subject carry traffic: a hub's Online flag, an account's policy
\* switch together with the policy's Access flag.
HubGate  == [online : BOOLEAN]
UserGate == [usePolicy : BOOLEAN, access : BOOLEAN]
Gates    == HubGate \cup UserGate
Choices(s) == OperatorGates \cap (IF s \in Hubs THEN HubGate ELSE UserGate)

\* The state block puts a subject in.
Deny(s) == IF s \in Hubs THEN [online |-> FALSE]
                         ELSE [usePolicy |-> TRUE, access |-> FALSE]

ASSUME SubjectsAssumption ==
  /\ Hubs \cap Users = {}
  /\ HubOf \in [Users -> Hubs]
  /\ Watched \subseteq Subjects
  /\ OperatorGates \subseteq Gates

ASSUME BoundsAssumption ==
  /\ Ceilings \subseteq Nat \X Metrics
  /\ MaxBytes \in Nat
  /\ Budget \in [Kinds -> Nat]
  /\ MayOverlap \in BOOLEAN

VARIABLES
  row,        \* the TrafficQuota table: a row or None per subject (it is UNIQUE)
  nextId,     \* AUTOINCREMENT: ids are never handed out twice
  enforcing,  \* the quota_enforcement_enabled setting
  gate,       \* SoftEther: the subject's switch, None when it does not exist
  counter,    \* SoftEther: cumulative bytes
  sessions,   \* SoftEther: names of the live sessions of each account
  pc, local,  \* where each thread is and what it holds
  spent,      \* outside events so far
  configured, \* history: every gate some operator gave the subject
  restarted   \* history: the counter started over since the last reset read it

table   == <<row, nextId, enforcing>>
server  == <<gate, counter, sessions>>
history == <<configured, restarted>>
vars    == <<table, server, pc, local, spent, history>>

-----------------------------------------------------------------------------
(* State *)

Row == [subj : Subjects, id : Nat, limit : Nat, metric : Metrics,
        isEnabled : BOOLEAN, base : Bytes, last : Bytes, exceeded : BOOLEAN,
        enforced : BOOLEAN, restore : Gates \cup {None}]

ASSUME NoneAssumption == None \notin Gates /\ None \notin Row

Reading == [subj : Subjects, bytes : Bytes]
Update  == [subj : Subjects, id : Nat, base : Bytes, last : Bytes]
Query   == {"status", "users"} \X Hubs

Labels == {"idle", "switch_write",
           "reset_save", "reset_row", "reset_ask", "reset_write",
           "delete_write", "forget",
           "refresh", "ask", "feed", "observe", "observe_write",
           "enforce", "pick",
           "block_get", "block_set", "block_enum", "block_cut", "block_write",
           "release_get", "release_set", "release_write"}

\* Where a release comes from: a pass, a reset, the removal of a limit.
Returns == {"idle", "pick", "reset_write", "delete_write"}

Local == [job : {"none", "view", "settle", "tick", "traffic"},
          subj : Subjects \cup {None},
          row : Row \cup {None},          \* the row the thread acts on
          back : Returns,                 \* where release goes on
          todo : SUBSET Row,              \* rows of the pass still to look at
          ask : SUBSET Query,             \* counters still to be read
          readings : SUBSET Reading,
          updates : SUBSET Update,
          found : Gates \cup {None},      \* what block read off the server
          cut : SUBSET SessionNames]

Rest == [job |-> "none", subj |-> None, row |-> None, back |-> "idle",
         todo |-> {}, ask |-> {}, readings |-> {}, updates |-> {},
         found |-> None, cut |-> {}]

TypeOK ==
  /\ row \in [Subjects -> Row \cup {None}]
  /\ nextId \in Nat
  /\ enforcing \in BOOLEAN
  /\ gate \in [Subjects -> Gates \cup {None}]
  /\ counter \in [Subjects -> Bytes]
  /\ sessions \in [Users -> SUBSET SessionNames]
  /\ pc \in [Threads -> Labels]
  /\ local \in [Threads -> Local]
  /\ spent \in [Kinds -> Nat]
  /\ configured \in [Subjects -> SUBSET Gates]
  /\ restarted \in [Subjects -> BOOLEAN]

Init ==
  /\ row = [s \in Subjects |-> None]
  /\ nextId = 1
  /\ enforcing \in BOOLEAN
  /\ gate \in [Subjects -> OperatorGates]
  /\ \A s \in Subjects : gate[s] \in Choices(s)
  /\ counter = [s \in Subjects |-> Zero]
  /\ sessions = [u \in Users |-> {}]
  /\ pc = [t \in Threads |-> "idle"]
  /\ local = [t \in Threads |-> Rest]
  /\ spent = [k \in Kinds |-> 0]
  /\ configured = [s \in Subjects |-> {gate[s]}]
  /\ restarted = [s \in Subjects |-> FALSE]

-----------------------------------------------------------------------------
(* Building blocks *)

Spend(k) == spent[k] < Budget[k] /\ spent' = [spent EXCEPT ![k] = @ + 1]

At(t, label) == pc[t] = label

Goto(t, label, l) ==
  /\ pc' = [pc EXCEPT ![t] = label]
  /\ local' = [local EXCEPT ![t] = l]

Finish(t) == Goto(t, "idle", Rest)

\* A thread takes up new work.
MayStart(t) ==
  /\ At(t, "idle")
  /\ MayOverlap \/ \A o \in Threads : At(o, "idle")

\* An RPC about subject s that thread t makes is answered, or it raises: the
\* object is gone, or the server could not be reached.
Answers(s)   == gate[s] # None /\ UNCHANGED spent
Fault(t)     == pc[t] \in Unreliable /\ Spend("fault")
Raises(t, s) == \/ gate[s] = None /\ UNCHANGED spent
                \/ Fault(t)

\* Mutant of StillThere: the row is found by its subject, whatever its id.
StillThereBySubject(r) == row[r.subj] # None

\* UPDATE ... WHERE "TrafficQuotaID" = r.id touches the row r was read from,
\* and nothing once that row is gone.
StillThere(r) == row[r.subj] # None /\ row[r.subj].id = r.id

AllRows == {row[s] : s \in Subjects} \ {None}

WithoutHub(h) == [u \in Users |-> IF HubOf[u] = h THEN {} ELSE sessions[u]]

\* Give subject s the gate g on the server; an offline hub drops everybody.
SetGate(s, g) ==
  /\ gate' = [gate EXCEPT ![s] = g]
  /\ sessions' = IF s \in Hubs /\ ~g.online THEN WithoutHub(s) ELSE sessions

-----------------------------------------------------------------------------
(* The VPN server and the world outside the panel *)

MayConnect(u) ==
  /\ gate[u] # None /\ gate[HubOf[u]] # None
  /\ gate[HubOf[u]].online
  /\ ~(gate[u].usePolicy /\ ~gate[u].access)

Login(u, n) ==
  /\ MayConnect(u) /\ n \notin sessions[u]
  /\ sessions' = [sessions EXCEPT ![u] = @ \cup {n}]
  /\ UNCHANGED <<table, gate, counter, pc, local, spent, history>>

Logout(u, n) ==
  /\ n \in sessions[u]
  /\ sessions' = [sessions EXCEPT ![u] = @ \ {n}]
  /\ UNCHANGED <<table, gate, counter, pc, local, spent, history>>

\* A live session moves a unit of traffic; it counts for the hub as well.
Traffic(u, d) ==
  /\ sessions[u] # {}
  /\ \A s \in {u, HubOf[u]} : counter[s]["send"] + counter[s]["recv"] < MaxBytes
  /\ counter' = [s \in Subjects |->
                   IF s \in {u, HubOf[u]} THEN [counter[s] EXCEPT ![d] = @ + 1]
                                          ELSE counter[s]]
  /\ UNCHANGED <<table, gate, sessions, pc, local, spent, history>>

\* set_user and set_hub_online: one RPC, no word to the quota table.
Edit(s, g) ==
  /\ gate[s] # None /\ g \in Choices(s) /\ Spend("edit")
  /\ SetGate(s, g)
  /\ configured' = [configured EXCEPT ![s] = @ \cup {g}]
  /\ UNCHANGED <<table, counter, pc, local, restarted>>

\* The object is deleted and created again by another SoftEther tool: a hub
\* takes its accounts with it, the counters start over, the row stays.
Recreate(s, g) ==
  /\ gate[s] # None /\ g \in Choices(s) /\ Spend("recreate")
  /\ LET lost == {x \in Users : x = s \/ HubOf[x] = s} IN
     /\ gate' = [x \in Subjects |-> CASE x = s -> g
                                      [] x # s /\ x \in lost -> None
                                      [] OTHER -> gate[x]]
     /\ sessions' = [u \in Users |-> IF u \in lost THEN {} ELSE sessions[u]]
     /\ counter' = [x \in Subjects |-> IF x \in lost \cup {s} THEN Zero ELSE counter[x]]
     /\ restarted' = [x \in Subjects |-> restarted[x] \/ x \in lost \cup {s}]
     /\ configured' = [configured EXCEPT ![s] = @ \cup {g}]
  /\ UNCHANGED <<table, pc, local>>

\* create_hub, create_user.
Create(s, g) ==
  /\ gate[s] = None /\ g \in Choices(s)
  /\ s \in Users => gate[HubOf[s]] # None
  /\ gate' = [gate EXCEPT ![s] = g]
  /\ configured' = [configured EXCEPT ![s] = @ \cup {g}]
  /\ UNCHANGED <<table, counter, sessions, pc, local, spent, restarted>>

Toggle ==
  /\ Spend("toggle") /\ enforcing' = ~enforcing
  /\ UNCHANGED <<row, nextId, server, pc, local, history>>

\* The panel process dies and comes back: its threads forget everything, the
\* table and the VPN server stay as they are.
Crash ==
  /\ \E t \in Threads : ~At(t, "idle")
  /\ Spend("crash")
  /\ pc' = [t \in Threads |-> "idle"]
  /\ local' = [t \in Threads |-> Rest]
  /\ UNCHANGED <<table, server, history>>

-----------------------------------------------------------------------------
(* Settling: refresh one subject, then enforce the whole table *)

\* What a thread does once its counters are stored, or could not be read.
AfterRefresh(t, l) ==
  IF l.job = "view" THEN Finish(t) ELSE Goto(t, "enforce", l)

\* Mutant of Upsert: changing a limit restarts the meter.
UpsertFromZero(s, limit, metric, isEnabled) ==
  IF row[s] = None
  THEN /\ row' = [row EXCEPT ![s] =
                    [subj |-> s, id |-> nextId, limit |-> limit, metric |-> metric,
                     isEnabled |-> isEnabled, base |-> Zero, last |-> Zero,
                     exceeded |-> FALSE, enforced |-> FALSE, restore |-> None]]
       /\ nextId' = nextId + 1
  ELSE /\ row' = [row EXCEPT ![s] = [@ EXCEPT !.limit = limit, !.metric = metric,
                               !.isEnabled = isEnabled, !.base = row[s].last]]
       /\ UNCHANGED nextId

\* The upsert of save: a change keeps the baseline, the counters and the block.
Upsert(s, limit, metric, isEnabled) ==
  IF row[s] = None
  THEN /\ row' = [row EXCEPT ![s] =
                    [subj |-> s, id |-> nextId, limit |-> limit, metric |-> metric,
                     isEnabled |-> isEnabled, base |-> Zero, last |-> Zero,
                     exceeded |-> FALSE, enforced |-> FALSE, restore |-> None]]
       /\ nextId' = nextId + 1
  ELSE /\ row' = [row EXCEPT ![s] = [@ EXCEPT !.limit = limit, !.metric = metric,
                                             !.isEnabled = isEnabled]]
       /\ UNCHANGED nextId

Save(t, s, limit, metric, isEnabled) ==
  /\ MayStart(t) /\ Spend("request")
  /\ Upsert(s, limit, metric, isEnabled)
  /\ Goto(t, "refresh", [Rest EXCEPT !.job = "settle", !.subj = s])
  /\ UNCHANGED <<enforcing, server, history>>

View(t, s) ==
  /\ MayStart(t) /\ Spend("request")
  /\ Goto(t, "refresh", [Rest EXCEPT !.job = "view", !.subj = s])
  /\ UNCHANGED <<table, server, history>>

\* set_enabled reads the row, and refuses a subject without a ceiling.
Switch(t, s) ==
  /\ MayStart(t) /\ Spend("request")
  /\ row[s] # None /\ row[s].limit > 0
  /\ Goto(t, "switch_write",
          [Rest EXCEPT !.job = "settle", !.subj = s, !.row = row[s]])
  /\ UNCHANGED <<table, server, history>>

SwitchWrite(t, isEnabled) ==
  LET r == local[t].row IN
  /\ At(t, "switch_write")
  /\ row' = IF StillThere(r) THEN [row EXCEPT ![r.subj].isEnabled = isEnabled] ELSE row
  /\ Goto(t, "refresh", [local[t] EXCEPT !.row = None])
  /\ UNCHANGED <<nextId, enforcing, server, spent, history>>

\* refresh: without a record nothing is read; an unreadable counter is skipped.
Refresh(t) ==
  LET s == local[t].subj IN
  /\ At(t, "refresh")
  /\ \/ row[s] = None /\ UNCHANGED spent /\ AfterRefresh(t, local[t])
     \/ row[s] # None /\ Raises(t, s) /\ AfterRefresh(t, local[t])
     \/ /\ row[s] # None /\ Answers(s)
        /\ Goto(t, "observe", [local[t] EXCEPT
                !.readings = {[subj |-> s, bytes |-> counter[s]]}])
  /\ UNCHANGED <<table, server, history>>

\* observe reads every row first and computes the new figures from that copy.
NewFigures(reading) ==
  LET r == row[reading.subj] IN
  [subj |-> r.subj, id |-> r.id, last |-> reading.bytes,
   base |-> Rebased(r, reading.bytes)]

Observe(t) ==
  LET known == {g \in local[t].readings : row[g.subj] # None} IN
  /\ At(t, "observe")
  /\ IF known = {} THEN AfterRefresh(t, [local[t] EXCEPT !.readings = {}])
     ELSE Goto(t, "observe_write", [local[t] EXCEPT
             !.readings = {}, !.updates = {NewFigures(g) : g \in known}])
  /\ UNCHANGED <<table, server, spent, history>>

\* One transaction writes them all, each by row id.
UpdateOf(t, s) == {u \in local[t].updates : u.subj = s /\ StillThere(u)}

ObserveWrite(t) ==
  /\ At(t, "observe_write")
  /\ row' = [s \in Subjects |->
               IF UpdateOf(t, s) = {} THEN row[s]
               ELSE LET u == CHOOSE u \in UpdateOf(t, s) : TRUE IN
                    [row[s] EXCEPT !.base = u.base, !.last = u.last]]
  /\ AfterRefresh(t, [local[t] EXCEPT !.updates = {}])
  /\ UNCHANGED <<nextId, enforcing, server, spent, history>>

\* enforce works on a copy of the whole table.
Enforce(t) ==
  /\ At(t, "enforce")
  /\ Goto(t, "pick", [Rest EXCEPT !.todo = AllRows])
  /\ UNCHANGED <<table, server, spent, history>>

-----------------------------------------------------------------------------
(* release: a no-op on a row read as not blocked *)

\* A hub that was offline before the block is left offline: no RPC at all.
ReleaseLabel(r, back) ==
  CASE ~r.enforced                        -> back
    [] r.enforced /\ r.subj \in Users     -> "release_get"
    [] /\ r.enforced /\ r.subj \notin Users
       /\ r.restore.online                -> "release_set"
    [] OTHER                              -> "release_write"

Release(t, l, back) == Goto(t, ReleaseLabel(l.row, back), [l EXCEPT !.back = back])

\* The account is read first; every other field of it goes back as it came.
ReleaseGet(t) ==
  LET s == local[t].row.subj IN
  /\ At(t, "release_get")
  /\ \/ Answers(s) /\ Goto(t, "release_set", local[t])
     \/ Raises(t, s) /\ Goto(t, "release_write", local[t])
  /\ UNCHANGED <<table, server, history>>

\* Mutants of ReleaseSet: an assumed default instead of the remembered state;
\* the policy switch put back, the Access flag forgotten.
ReleaseToDefault(t) ==
  LET r == local[t].row IN
  /\ At(t, "release_set") /\ Answers(r.subj)
  /\ SetGate(r.subj, IF r.subj \in Hubs THEN [online |-> TRUE]
                                        ELSE [usePolicy |-> FALSE, access |-> TRUE])
  /\ Goto(t, "release_write", local[t])
  /\ UNCHANGED <<table, counter, history>>

ReleaseForgetsAccess(t) ==
  LET r == local[t].row IN
  /\ At(t, "release_set") /\ Answers(r.subj)
  /\ SetGate(r.subj, IF r.subj \in Hubs THEN r.restore
                     ELSE [gate[r.subj] EXCEPT !.usePolicy = r.restore.usePolicy])
  /\ Goto(t, "release_write", local[t])
  /\ UNCHANGED <<table, counter, history>>

\* A call that raises may have been carried out all the same.
ReleaseSet(t) ==
  LET r == local[t].row IN
  /\ At(t, "release_set")
  /\ \/ Answers(r.subj) /\ SetGate(r.subj, r.restore)
     \/ Raises(t, r.subj) /\ UNCHANGED <<gate, sessions>>
     \/ gate[r.subj] # None /\ Fault(t) /\ SetGate(r.subj, r.restore)
  /\ Goto(t, "release_write", local[t])
  /\ UNCHANGED <<table, counter, history>>

\* Mutant of ReleaseWrite: the remembered state is left on the row.
ReleaseKeepsRestore(t) ==
  LET r == local[t].row IN
  /\ At(t, "release_write")
  /\ row' = IF StillThere(r) THEN [row EXCEPT ![r.subj].enforced = FALSE] ELSE row
  /\ Goto(t, local[t].back, IF local[t].back = "pick"
                            THEN [local[t] EXCEPT !.row = None, !.back = "idle"]
                            ELSE local[t])
  /\ UNCHANGED <<nextId, enforcing, server, spent, history>>

\* Whatever became of the calls, the row forgets the block.
ReleaseWrite(t) ==
  LET r == local[t].row IN
  /\ At(t, "release_write")
  /\ row' = IF StillThere(r)
            THEN [row EXCEPT ![r.subj] = [@ EXCEPT !.enforced = FALSE, !.restore = None]]
            ELSE row
  /\ Goto(t, local[t].back, IF local[t].back = "pick"
                            THEN [local[t] EXCEPT !.row = None, !.back = "idle"]
                            ELSE local[t])
  /\ UNCHANGED <<nextId, enforcing, server, spent, history>>

-----------------------------------------------------------------------------
(* block *)

\* Any failure ends the attempt with the row untouched.
GiveUp(t) == Goto(t, "pick", [local[t] EXCEPT !.row = None, !.found = None])

BlockGet(t) ==
  LET s == local[t].row.subj IN
  /\ At(t, "block_get")
  /\ \/ Answers(s) /\ Goto(t, "block_set", [local[t] EXCEPT !.found = gate[s]])
     \/ Raises(t, s) /\ GiveUp(t)
  /\ UNCHANGED <<table, server, history>>

\* Mutant of BlockSet: access is denied, the open sessions are left alone.
BlockWithoutCut(t) ==
  LET s == local[t].row.subj IN
  /\ At(t, "block_set")
  /\ \/ Answers(s) /\ SetGate(s, Deny(s)) /\ Goto(t, "block_write", local[t])
     \/ Raises(t, s) /\ UNCHANGED <<gate, sessions>> /\ GiveUp(t)
  /\ UNCHANGED <<table, counter, history>>

BlockSet(t) ==
  LET s == local[t].row.subj IN
  /\ At(t, "block_set")
  /\ \/ /\ Answers(s) /\ SetGate(s, Deny(s))
        /\ Goto(t, IF s \in Users THEN "block_enum" ELSE "block_write", local[t])
     \/ Raises(t, s) /\ UNCHANGED <<gate, sessions>> /\ GiveUp(t)
     \/ gate[s] # None /\ Fault(t) /\ SetGate(s, Deny(s)) /\ GiveUp(t)
  /\ UNCHANGED <<table, counter, history>>

\* _cut_sessions: list the sessions, then end them one by one.
BlockEnum(t) ==
  LET u == local[t].row.subj IN
  /\ At(t, "block_enum")
  /\ \/ /\ gate[HubOf[u]] # None /\ UNCHANGED spent
        /\ Goto(t, IF sessions[u] = {} THEN "block_write" ELSE "block_cut",
                [local[t] EXCEPT !.cut = sessions[u]])
     \/ Raises(t, HubOf[u]) /\ GiveUp(t)
  /\ UNCHANGED <<table, server, history>>

\* A DeleteSession that raises is taken for a session that already dropped.
BlockCut(t, n) ==
  LET u    == local[t].row.subj
      left == local[t].cut \ {n} IN
  /\ At(t, "block_cut") /\ n \in local[t].cut
  /\ \/ UNCHANGED spent /\ sessions' = [sessions EXCEPT ![u] = @ \ {n}]
     \/ Fault(t) /\ UNCHANGED sessions
  /\ Goto(t, IF left = {} THEN "block_write" ELSE "block_cut",
          [local[t] EXCEPT !.cut = left])
  /\ UNCHANGED <<table, gate, counter, history>>

BlockWrite(t) ==
  LET r == local[t].row IN
  /\ At(t, "block_write")
  /\ row' = IF StillThere(r)
            THEN [row EXCEPT ![r.subj] = [@ EXCEPT !.enforced = TRUE, !.exceeded = TRUE,
                                                  !.restore = local[t].found]]
            ELSE row
  /\ GiveUp(t)
  /\ UNCHANGED <<nextId, enforcing, server, spent, history>>

-----------------------------------------------------------------------------
(* One pass of enforce, row by row *)

\* Mutant of PickBlock: a row over its limit is blocked again on every pass.
PickBlockAgain(t, r) ==
  /\ IsOver(r)
  /\ Goto(t, "block_get", [local[t] EXCEPT !.todo = @ \ {r}, !.row = r])
  /\ UNCHANGED row

PickBlock(t, r) ==
  /\ IsOver(r) /\ ~r.enforced
  /\ Goto(t, "block_get", [local[t] EXCEPT !.todo = @ \ {r}, !.row = r])
  /\ UNCHANGED row

PickRelease(t, r) ==
  /\ ~IsOver(r) /\ r.enforced
  /\ Release(t, [local[t] EXCEPT !.todo = @ \ {r}, !.row = r], "pick")
  /\ UNCHANGED row

\* Mutant of PickKeep: a blocked row is never looked at again.
PickKeepBlocked(t, r) ==
  /\ IsOver(r) => r.enforced
  /\ UNCHANGED row
  /\ Goto(t, "pick", [local[t] EXCEPT !.todo = @ \ {r}])

\* Nothing to change on the server; a blocked row remembers it is exceeded.
PickKeep(t, r) ==
  /\ IsOver(r) <=> r.enforced
  /\ row' = IF IsOver(r) /\ ~r.exceeded /\ StillThere(r)
            THEN [row EXCEPT ![r.subj].exceeded = TRUE] ELSE row
  /\ Goto(t, "pick", [local[t] EXCEPT !.todo = @ \ {r}])

Pick(t) ==
  /\ At(t, "pick")
  /\ \E r \in local[t].todo : PickBlock(t, r) \/ PickRelease(t, r) \/ PickKeep(t, r)
  /\ UNCHANGED <<nextId, enforcing, server, spent, history>>

PassDone(t) ==
  /\ At(t, "pick") /\ local[t].todo = {} /\ Finish(t)
  /\ UNCHANGED <<table, server, spent, history>>

-----------------------------------------------------------------------------
(* reset_transfer: a record is created for a subject that has none *)

Reset(t, s) ==
  /\ MayStart(t) /\ Spend("request")
  /\ Goto(t, IF row[s] = None THEN "reset_save" ELSE "reset_ask",
          [Rest EXCEPT !.job = "settle", !.subj = s, !.row = row[s]])
  /\ UNCHANGED <<table, server, history>>

ResetSave(t) ==
  /\ At(t, "reset_save")
  /\ Upsert(local[t].subj, 0, "total", TRUE)
  /\ Goto(t, "reset_row", local[t])
  /\ UNCHANGED <<enforcing, server, spent, history>>

ResetRow(t) ==
  LET s == local[t].subj IN
  /\ At(t, "reset_row")
  /\ IF row[s] = None THEN Finish(t)
     ELSE Goto(t, "reset_ask", [local[t] EXCEPT !.row = row[s]])
  /\ UNCHANGED <<table, server, spent, history>>

\* The new zero: a live reading, or the cached one when nobody answers.
ResetAsk(t) ==
  LET r == local[t].row
      zeroAt(bytes) == Release(t, [local[t] EXCEPT
                         !.readings = {[subj |-> r.subj, bytes |-> bytes]}], "reset_write") IN
  /\ At(t, "reset_ask")
  /\ \/ Answers(r.subj) /\ zeroAt(counter[r.subj])
        /\ restarted' = [restarted EXCEPT ![r.subj] = FALSE]
     \/ Raises(t, r.subj) /\ zeroAt(r.last) /\ UNCHANGED restarted
  /\ UNCHANGED <<table, server, configured>>

ResetWrite(t) ==
  LET r == local[t].row IN
  /\ At(t, "reset_write")
  /\ \E g \in local[t].readings :
       row' = IF StillThere(r)
              THEN [row EXCEPT ![r.subj] = [@ EXCEPT !.base = g.bytes, !.last = g.bytes,
                                                    !.exceeded = FALSE]]
              ELSE row
  /\ Goto(t, "refresh", [local[t] EXCEPT !.row = None, !.back = "idle", !.readings = {}])
  /\ UNCHANGED <<nextId, enforcing, server, spent, history>>

-----------------------------------------------------------------------------
(* delete, and what goes with a deleted account or hub *)

\* Mutant of Delete: the limit goes without lifting its block first.
DeleteWithoutRelease(t, s) ==
  /\ MayStart(t) /\ Spend("request")
  /\ row[s] # None
  /\ Goto(t, "delete_write", [Rest EXCEPT !.subj = s, !.row = row[s]])
  /\ UNCHANGED <<table, server, history>>

Delete(t, s) ==
  /\ MayStart(t) /\ Spend("request")
  /\ row[s] # None
  /\ Release(t, [Rest EXCEPT !.subj = s, !.row = row[s]], "delete_write")
  /\ UNCHANGED <<table, server, history>>

\* The row stays, without a ceiling, when the copy read first had a baseline.
DeleteWrite(t) ==
  LET r == local[t].row IN
  /\ At(t, "delete_write")
  /\ row' = CASE ~StillThere(r)                   -> row
              [] StillThere(r) /\ HasBaseline(r)  ->
                   [row EXCEPT ![r.subj] = [@ EXCEPT !.limit = 0, !.exceeded = FALSE]]
              [] OTHER                            -> [row EXCEPT ![r.subj] = None]
  /\ Finish(t)
  /\ UNCHANGED <<nextId, enforcing, server, spent, history>>

Contains(s) == {s} \cup {u \in Users : HubOf[u] = s}

\* delete_user and delete_hub: first the RPC, then the rows.
Remove(t, s) ==
  /\ MayStart(t) /\ gate[s] # None /\ Spend("delete")
  /\ gate' = [x \in Subjects |-> IF x \in Contains(s) THEN None ELSE gate[x]]
  /\ counter' = [x \in Subjects |-> IF x \in Contains(s) THEN Zero ELSE counter[x]]
  /\ sessions' = [u \in Users |-> IF u \in Contains(s) THEN {} ELSE sessions[u]]
  /\ restarted' = [x \in Subjects |-> restarted[x] \/ x \in Contains(s)]
  /\ Goto(t, "forget", [Rest EXCEPT !.subj = s])
  /\ UNCHANGED <<table, configured>>

Forget(t) ==
  /\ At(t, "forget")
  /\ row' = [x \in Subjects |-> IF x \in Contains(local[t].subj) THEN None ELSE row[x]]
  /\ Finish(t)
  /\ UNCHANGED <<nextId, enforcing, server, spent, history>>

-----------------------------------------------------------------------------
(* The sampler thread *)

\* Once the last counter is in, a tick stores them; a traffic pass has its
\* samples to store first.
Collect(t, l) ==
  Goto(t, CASE l.ask # {}                      -> "ask"
            [] l.ask = {} /\ l.job = "tick"    -> "observe"
            [] OTHER                           -> "feed", l)

\* Mutant of Tick: only the hubs' own counters are read.
TickHubsOnly(t) ==
  /\ MayStart(t) /\ AllRows # {} /\ enforcing
  /\ Collect(t, [Rest EXCEPT !.job = "tick",
        !.ask = {<<"status", r.subj>> : r \in {x \in AllRows :
                    x.subj \in Hubs /\ gate[x.subj] # None}}])
  /\ UNCHANGED <<table, server, spent, history>>

\* quota.tick: skipped without rows or with enforcement off; it reads what
\* some row watches, in the hubs the server still has.
Tick(t) ==
  /\ MayStart(t) /\ AllRows # {} /\ enforcing
  /\ LET watched == {<<IF r.subj \in Hubs THEN "status" ELSE "users",
                      IF r.subj \in Hubs THEN r.subj ELSE HubOf[r.subj]>> : r \in AllRows} IN
     Collect(t, [Rest EXCEPT !.job = "tick",
                             !.ask = {q \in watched : gate[q[2]] # None}])
  /\ UNCHANGED <<table, server, spent, history>>

\* sample_traffic reads every hub and account, and keeps the readings while
\* it stores its samples.
SampleTraffic(t) ==
  /\ MayStart(t)
  /\ Collect(t, [Rest EXCEPT !.job = "traffic",
                             !.ask = {q \in Query : gate[q[2]] # None}])
  /\ UNCHANGED <<table, server, spent, history>>

ReadingsOf(q) ==
  LET found == IF q[1] = "status" THEN {q[2]}
               ELSE {u \in Users : HubOf[u] = q[2] /\ gate[u] # None} IN
  {[subj |-> s, bytes |-> counter[s]] : s \in found}

\* One GetHubStatus or EnumUser; a failure abandons the whole pass.
AskCounters(t) ==
  /\ At(t, "ask")
  /\ \E q \in local[t].ask :
       \/ /\ Answers(q[2])
          /\ Collect(t, [local[t] EXCEPT !.ask = @ \ {q},
                                         !.readings = @ \cup ReadingsOf(q)])
       \/ Raises(t, q[2]) /\ Finish(t)
  /\ UNCHANGED <<table, server, history>>

\* _feed_quotas: the readings reach the quotas only while enforcement is on.
Feed(t) ==
  /\ At(t, "feed")
  /\ IF enforcing THEN Goto(t, "observe", local[t]) ELSE Finish(t)
  /\ UNCHANGED <<table, server, spent, history>>

-----------------------------------------------------------------------------
(* Specification *)

Request(t) ==
  \E s \in Watched :
    \/ \E c \in Ceilings, isEnabled \in BOOLEAN : Save(t, s, c[1], c[2], isEnabled)
    \/ Switch(t, s) \/ Reset(t, s) \/ Delete(t, s) \/ View(t, s) \/ Remove(t, s)

\* What a thread that has started something does next.
Continue(t) ==
  \/ \E isEnabled \in BOOLEAN : SwitchWrite(t, isEnabled)
  \/ Refresh(t) \/ Observe(t) \/ ObserveWrite(t) \/ Enforce(t)
  \/ ReleaseGet(t) \/ ReleaseSet(t) \/ ReleaseWrite(t)
  \/ BlockGet(t) \/ BlockSet(t) \/ BlockEnum(t) \/ BlockWrite(t)
  \/ \E n \in SessionNames : BlockCut(t, n)
  \/ Pick(t) \/ PassDone(t)
  \/ ResetSave(t) \/ ResetRow(t) \/ ResetAsk(t) \/ ResetWrite(t)
  \/ DeleteWrite(t) \/ Forget(t)
  \/ AskCounters(t) \/ Feed(t)

World ==
  \/ \E u \in Users : \/ \E n \in SessionNames : Login(u, n) \/ Logout(u, n)
                      \/ \E d \in Dirs : Traffic(u, d)
  \/ \E s \in Subjects, g \in OperatorGates : Edit(s, g) \/ Recreate(s, g) \/ Create(s, g)
  \/ Toggle \/ Crash

Next ==
  \/ \E t \in Handlers : Request(t)
  \/ Tick(Sampler) \/ SampleTraffic(Sampler)
  \/ \E t \in Threads : Continue(t)
  \/ World

Spec == Init /\ [][Next]_vars

\* The quota clock of the sampler's loop comes due again after every pass,
\* whatever else shares the loop, and a thread that has begun goes on; nothing
\* makes the world, the operator or a failure happen.
Fairness ==
  /\ SF_vars(Tick(Sampler))
  /\ \A t \in Threads : WF_vars(Continue(t))

FairSpec == Spec /\ Fairness

-----------------------------------------------------------------------------
(* Properties that hold whatever overlaps, fails or crashes *)

\* The cached counter never lies below the baseline of its row, however old
\* the reading and the copy it was computed from: the clamp of net_bytes
\* "should never actually bite".
BaseNeverAboveLast ==
  \A s \in Subjects : row[s] # None => \A d \in Dirs : row[s].base[d] <= row[s].last[d]

\* A gate the subject was given by somebody, or the one block puts it in.
Known(s) == configured[s] \cup {Deny(s)}

\* Blocks and releases never put a subject into a state of their own making:
\* a gate is one that an operator chose, or the denial ("rather than at some
\* assumed default").
NeverInventsAccess ==
  \A s \in Subjects : gate[s] # None => gate[s] \in Known(s)

\* A blocked row always knows what to put back, and it is a state of this very
\* subject; a row that is not blocked holds nothing to put back.
BlockRemembersRestore ==
  \A s \in Subjects : row[s] # None =>
    IF row[s].enforced THEN row[s].restore \in Known(s) ELSE row[s].restore = None

\* A row is marked blocked only by a pass that saw this very record over its
\* limit: not by one that saw a record since deleted and created again.
MarksOnlyWhatItSawOver ==
  [][\A s \in Subjects :
       (row'[s] # None /\ row'[s].enforced /\ ~(row[s] # None /\ row[s].enforced))
         => \E t \in Threads : /\ local[t].row # None
                               /\ local[t].row.id = row'[s].id
                               /\ IsOver(local[t].row)]_vars

-----------------------------------------------------------------------------
(* Properties of passes that do not overlap, with every call answered *)

Quiet == \A t \in Threads : At(t, "idle")

\* Between passes nobody is left cut off without a blocked row that explains
\* it, and lifting a block has put back exactly what block found.
CutOffIsExplained ==
  Quiet => \A s \in Subjects :
             gate[s] # None /\ ~(row[s] # None /\ row[s].enforced)
               => gate[s] \in configured[s]

\* What a blocked row remembers is what an operator gave the subject, never
\* the denial another block had put there.
RestoreIsOriginal ==
  \A s \in Subjects :
    row[s] # None /\ row[s].enforced => row[s].restore \in configured[s]

\* Between passes a blocked subject is off, unless another tool made it anew:
\* the gate is shut and nothing it had open survived.
BlockedIsCutOff ==
  Quiet => \A s \in Subjects :
             gate[s] # None /\ row[s] # None /\ row[s].enforced /\ ~restarted[s]
               => /\ gate[s] = Deny(s)
                  /\ \A u \in Users : u = s \/ HubOf[u] = s => sessions[u] = {}

\* A pass that has ended with every call answered leaves exactly the rows over
\* their limit blocked, objects that vanished under it apart.
PassSettlesTable ==
  [][\A t \in Threads : PassDone(t) /\ spent["fault"] = 0 =>
       \A s \in Subjects : row[s] # None /\ gate[s] # None /\ ~restarted[s] =>
         (row[s].enforced <=> IsOver(row[s]))]_vars

\* Outside a reset, and while the counter keeps counting, neither the baseline
\* of a row nor its meter ever runs backwards: "a reading below the stored
\* baseline can only mean the counter started over".
MeterNeverRunsBack ==
  [][\A s \in Subjects : \A d \in Dirs :
       (/\ row[s] # None /\ row'[s] # None /\ row'[s].id = row[s].id
        /\ \/ row'[s].base[d] < row[s].base[d]
           \/ NetBytes(row'[s], d) < NetBytes(row[s], d))
         => restarted[s] \/ \E t \in Threads : ResetWrite(t)]_vars

-----------------------------------------------------------------------------
(* Liveness *)

\* The live counter of a limited, armed subject has reached the limit.
LiveOver(s) ==
  /\ enforcing /\ gate[s] # None /\ row[s] # None
  /\ IsOver([row[s] EXCEPT !.last = counter[s]])

\* A subject over its ceiling is blocked sooner or later, whichever calls
\* failed in between, unless it stops being over.
OverEventuallyBlocked ==
  \A s \in Subjects :
    LiveOver(s) ~> (~LiveOver(s) \/ (row[s] # None /\ row[s].enforced))

\* A blocked subject that is no longer over, and whose row remembers what an
\* operator gave it, gets that back, unless it goes over again.
ReleaseEventuallyTakes ==
  \A s \in Subjects :
    (/\ row[s] # None /\ row[s].enforced /\ row[s].restore \in configured[s]
     /\ enforcing /\ ~LiveOver(s))
      ~> (~enforcing \/ LiveOver(s) \/ gate[s] = None \/ gate[s] \in configured[s])
=============================================================================
