----------------------------- MODULE QuotaProofs -----------------------------
(***************************************************************************)
(* What holds of the quota machinery for every number of hubs, accounts,   *)
(* request threads, limits and outside events: theorems of Spec in Quota,  *)
(* with passes and requests overlapping in any way, any call failing and   *)
(* the panel crashing at any point.                                        *)
(***************************************************************************)
EXTENDS Quota, FiniteSetTheorems, TLAPS

-----------------------------------------------------------------------------
(* The inductive invariant *)

\* A copy of a row is as sound as the row it was read from.
RowSound(r) == IF r.enforced THEN r.restore \in Known(r.subj) ELSE r.restore = None

Releasing == {"release_get", "release_set", "release_write"}
Blocking  == {"block_get", "block_set", "block_enum", "block_cut", "block_write"}
OnARow    == {"release_get", "release_set", "release_write", "block_get",
              "block_set", "block_enum", "block_cut", "block_write",
              "switch_write", "reset_ask", "reset_write", "delete_write"}
OnSubject == {"refresh", "switch_write", "reset_save", "reset_row", "reset_ask",
              "reset_write", "forget"}

\* What a thread at label holds in l suits its place.
LocalSound(label, l) ==
  /\ label \in OnARow => l.row \in Row
  /\ label \in Releasing => l.row.enforced /\ l.back # "idle"
  /\ label \in Blocking => IsOver(l.row)
  /\ label \in Blocking \ {"block_get"} => l.found \in Known(l.row.subj)
  /\ label \in {"block_enum", "block_cut"} => l.row.subj \in Users
  /\ label \in OnSubject \/ l.back = "reset_write" => l.subj \in Subjects
  /\ l.row \in Row => RowSound(l.row)
  /\ \A r \in l.todo : RowSound(r)
  /\ \A u \in l.updates : \A d \in Dirs : u.base[d] <= u.last[d]

ThreadInv ==
  /\ pc \in [Threads -> Labels]
  /\ local \in [Threads -> Local]
  /\ \A t \in Threads : LocalSound(pc[t], local[t])

\* Rows are filed under their own subject; the rest is what is to be proved.
TableInv ==
  /\ row \in [Subjects -> Row \cup {None}]
  /\ nextId \in Nat
  /\ enforcing \in BOOLEAN
  /\ \A s \in Subjects : row[s] \in Row =>
       /\ row[s].subj = s
       /\ RowSound(row[s])
       /\ \A d \in Dirs : row[s].base[d] <= row[s].last[d]

ServerInv ==
  /\ gate \in [Subjects -> Gates \cup {None}]
  /\ counter \in [Subjects -> Bytes]
  /\ sessions \in [Users -> SUBSET SessionNames]
  /\ NeverInventsAccess

BookInv ==
  /\ spent \in [Kinds -> Nat]
  /\ configured \in [Subjects -> SUBSET Gates]
  /\ restarted \in [Subjects -> BOOLEAN]

IInv == TableInv /\ ServerInv /\ ThreadInv /\ BookInv

-----------------------------------------------------------------------------
(* Lemmas about the building blocks *)

\* The place a thread has come to, and what it holds there, is all there is
\* to check of a thread's own step.
LEMMA GotoKeepsThreads ==
  ASSUME ThreadInv, NEW t \in Threads, NEW label \in Labels, NEW l \in Local,
         LocalSound(label, l), Goto(t, label, l), UNCHANGED configured
  PROVE  ThreadInv'
<1>1. /\ pc' \in [Threads -> Labels]
      /\ local' \in [Threads -> Local]
  BY DEF ThreadInv, Goto
<1>2. ASSUME NEW o \in Threads PROVE LocalSound(pc[o], local[o])'
  <2>1. CASE o = t
    BY <2>1 DEF ThreadInv, Goto, LocalSound, RowSound, Known
  <2>2. CASE o # t
    BY <2>2 DEF ThreadInv, Goto, LocalSound, RowSound, Known
  <2> QED BY <2>1, <2>2
<1> QED BY <1>1, <1>2 DEF ThreadInv

LEMMA RestIsSound ==
  /\ Rest \in Local
  /\ \A label \in Labels \ (OnARow \cup OnSubject) : LocalSound(label, Rest)
BY NoneAssumption DEF Rest, Local, Returns, LocalSound, OnARow, OnSubject, Releasing, Blocking

LEMMA KnownAreGates ==
  ASSUME BookInv, NEW s \in Subjects
  PROVE  Known(s) \subseteq Gates /\ Deny(s) \in Gates /\ Deny(s) \in Known(s)
<1>1. [online |-> FALSE] \in HubGate /\ [usePolicy |-> TRUE, access |-> FALSE] \in UserGate
  BY DEF HubGate, UserGate
<1>2. Deny(s) \in Gates
  BY <1>1 DEF Deny, Gates
<1> QED BY <1>2 DEF BookInv, Known

LEMMA TableUntouched ==
  ASSUME TableInv, UNCHANGED <<table, configured>>
  PROVE  TableInv'
BY DEF TableInv, table, RowSound, Known

LEMMA ServerUntouched ==
  ASSUME ServerInv, UNCHANGED <<server, configured>>
  PROVE  ServerInv'
BY DEF ServerInv, server, NeverInventsAccess, Known

\* One row is replaced by another of the same subject that is sound.
LEMMA RowReplaced ==
  ASSUME TableInv, NEW s \in Subjects, NEW r \in Row,
         r.subj = s, RowSound(r), \A d \in Dirs : r.base[d] <= r.last[d],
         row' = [row EXCEPT ![s] = r],
         nextId' \in Nat, UNCHANGED <<enforcing, configured>>
  PROVE  TableInv'
BY DEF TableInv, RowSound, Known

LEMMA GateSet ==
  ASSUME ServerInv, NEW s \in Subjects, NEW g \in Gates, g \in Known(s),
         SetGate(s, g), UNCHANGED <<counter, configured>>
  PROVE  ServerInv'
BY DEF ServerInv, SetGate, WithoutHub, NeverInventsAccess, Known

LEMMA SpendKeepsCount ==
  ASSUME BookInv, NEW k \in Kinds, Spend(k)
  PROVE  spent' \in [Kinds -> Nat]
BY DEF BookInv, Spend

LEMMA CallKeepsCount ==
  ASSUME BookInv, NEW t \in Threads, NEW s, Answers(s) \/ Raises(t, s) \/ Fault(t)
  PROVE  spent' \in [Kinds -> Nat]
BY SpendKeepsCount DEF Answers, Raises, Fault, BookInv, Kinds

\* A row that is still there is the one its subject has now.
LEMMA StillThereIsRow ==
  ASSUME TableInv, NEW r, r.subj \in Subjects, StillThere(r)
  PROVE  row[r.subj] \in Row
BY DEF TableInv, StillThere

LEMMA AllRowsSound ==
  ASSUME TableInv
  PROVE  /\ AllRows \subseteq Row
         /\ \A r \in AllRows : RowSound(r)
BY NoneAssumption DEF TableInv, AllRows

-----------------------------------------------------------------------------
(* What a thread does: each step keeps the invariant *)

\* The ends of a refresh and of a piece of work.
LEMMA FinishKeepsThreads ==
  ASSUME ThreadInv, NEW t \in Threads, Finish(t), UNCHANGED configured
  PROVE  ThreadInv'
<1>1. "idle" \in Labels /\ "idle" \notin OnARow \cup OnSubject
  BY DEF Labels, OnARow, OnSubject
<1> QED BY <1>1, GotoKeepsThreads, RestIsSound DEF Finish

LEMMA RefreshedKeepsThreads ==
  ASSUME ThreadInv, NEW t \in Threads, NEW l \in Local,
         LocalSound("enforce", l), AfterRefresh(t, l), UNCHANGED configured
  PROVE  ThreadInv'
<1>1. CASE l.job = "view"
  BY <1>1, FinishKeepsThreads DEF AfterRefresh
<1>2. CASE l.job # "view"
  <2>1. Goto(t, "enforce", l) /\ "enforce" \in Labels
    BY <1>2 DEF AfterRefresh, Labels
  <2> QED BY <2>1, GotoKeepsThreads
<1> QED BY <1>1, <1>2

LEMMA UpsertKeepsTable ==
  ASSUME TableInv, NEW s \in Subjects, NEW limit \in Nat, NEW metric \in Metrics,
         NEW isEnabled \in BOOLEAN, Upsert(s, limit, metric, isEnabled),
         UNCHANGED <<enforcing, configured>>
  PROVE  TableInv'
<1>1. CASE row[s] = None
  <2> DEFINE r == [subj |-> s, id |-> nextId, limit |-> limit, metric |-> metric,
                   isEnabled |-> isEnabled, base |-> Zero, last |-> Zero,
                   exceeded |-> FALSE, enforced |-> FALSE, restore |-> None]
  <2>1. r \in Row
    BY DEF TableInv, Row, Zero, Bytes
  <2>2. /\ r.subj = s /\ RowSound(r)
        /\ \A d \in Dirs : r.base[d] <= r.last[d]
    BY DEF RowSound, Zero
  <2>3. row' = [row EXCEPT ![s] = r] /\ nextId' \in Nat
    BY <1>1 DEF Upsert, TableInv
  <2> QED BY <2>1, <2>2, <2>3, RowReplaced
<1>2. CASE row[s] # None
  <2> DEFINE r == [row[s] EXCEPT !.limit = limit, !.metric = metric,
                                 !.isEnabled = isEnabled]
  <2>1. row[s] \in Row
    BY <1>2 DEF TableInv
  <2>2. r \in Row /\ r.subj = s /\ RowSound(r)
        /\ \A d \in Dirs : r.base[d] <= r.last[d]
    BY <2>1 DEF TableInv, Row, RowSound
  <2>3. row' = [row EXCEPT ![s] = r] /\ nextId' \in Nat
    BY <1>2 DEF Upsert, TableInv
  <2> QED BY <2>2, <2>3, RowReplaced
<1> QED BY <1>1, <1>2

LEMMA ThreadFacts ==
  ASSUME ThreadInv, NEW t \in Threads
  PROVE  local[t] \in Local /\ LocalSound(pc[t], local[t])
BY DEF ThreadInv

LEMMA RowAtHand ==
  ASSUME ThreadInv, NEW t \in Threads, pc[t] \in OnARow
  PROVE  /\ local[t].row \in Row /\ local[t].row.subj \in Subjects
         /\ RowSound(local[t].row)
BY ThreadFacts DEF LocalSound, Row

LEMMA SubjectAtHand ==
  ASSUME ThreadInv, NEW t \in Threads, pc[t] \in OnSubject
  PROVE  local[t].subj \in Subjects
BY ThreadFacts DEF LocalSound

LEMMA BookKept ==
  ASSUME BookInv, spent' \in [Kinds -> Nat], UNCHANGED history
  PROVE  BookInv'
BY DEF BookInv, history

\* A request that begins by reading holds nothing but its subject and the row.
LEMMA StartIsSound ==
  ASSUME NEW s \in Subjects, NEW j \in {"view", "settle"}
  PROVE  /\ [Rest EXCEPT !.job = j, !.subj = s] \in Local
         /\ LocalSound("refresh", [Rest EXCEPT !.job = j, !.subj = s])
BY NoneAssumption DEF Rest, Local, Returns, LocalSound, OnARow, OnSubject, Releasing, Blocking

LEMMA SaveStep ==
  ASSUME IInv, NEW t \in Threads, NEW s \in Subjects, NEW limit \in Nat,
         NEW metric \in Metrics, NEW isEnabled \in BOOLEAN,
         Save(t, s, limit, metric, isEnabled)
  PROVE  IInv'
<1>1. TableInv'
  BY UpsertKeepsTable DEF IInv, Save, history
<1>2. ServerInv'
  BY ServerUntouched DEF IInv, Save, history
<1>3. ThreadInv'
  BY StartIsSound, GotoKeepsThreads DEF IInv, Save, history, Labels
<1>4. BookInv'
  BY SpendKeepsCount, BookKept DEF IInv, Save, Kinds
<1> QED BY <1>1, <1>2, <1>3, <1>4 DEF IInv

LEMMA ViewStep ==
  ASSUME IInv, NEW t \in Threads, NEW s \in Subjects, View(t, s)
  PROVE  IInv'
<1>1. TableInv' /\ ServerInv'
  BY TableUntouched, ServerUntouched DEF IInv, View, history
<1>2. ThreadInv'
  BY StartIsSound, GotoKeepsThreads DEF IInv, View, history, Labels
<1>3. BookInv'
  BY SpendKeepsCount, BookKept DEF IInv, View, Kinds
<1> QED BY <1>1, <1>2, <1>3 DEF IInv

LEMMA SwitchStep ==
  ASSUME IInv, NEW t \in Threads, NEW s \in Subjects, Switch(t, s)
  PROVE  IInv'
<1>1. TableInv' /\ ServerInv'
  BY TableUntouched, ServerUntouched DEF IInv, Switch, history
<1>2. ThreadInv'
  <2> DEFINE l == [Rest EXCEPT !.job = "settle", !.subj = s, !.row = row[s]]
  <2>1. row[s] \in Row /\ RowSound(row[s])
    BY DEF IInv, TableInv, Switch
  <2>2. l \in Local /\ LocalSound("switch_write", l)
    BY <2>1 DEF Rest, Local, Returns, LocalSound, OnARow, OnSubject, Releasing, Blocking
  <2> QED BY <2>2, GotoKeepsThreads DEF IInv, Switch, history, Labels
<1>3. BookInv'
  BY SpendKeepsCount, BookKept DEF IInv, Switch, Kinds
<1> QED BY <1>1, <1>2, <1>3 DEF IInv

LEMMA SwitchWriteStep ==
  ASSUME IInv, NEW t \in Threads, NEW isEnabled \in BOOLEAN, SwitchWrite(t, isEnabled)
  PROVE  IInv'
<1> DEFINE r == local[t].row
<1>1. TableInv'
  <2>1. r.subj \in Subjects
    BY RowAtHand DEF IInv, SwitchWrite, At, OnARow
  <2>2. CASE StillThere(r)
    <3> DEFINE new == [row[r.subj] EXCEPT !.isEnabled = isEnabled]
    <3>1. row[r.subj] \in Row
      BY <2>1, <2>2, StillThereIsRow DEF IInv
    <3>2. new \in Row /\ new.subj = r.subj /\ RowSound(new)
          /\ \A d \in Dirs : new.base[d] <= new.last[d]
      BY <2>1, <3>1 DEF IInv, TableInv, Row, RowSound
    <3>3. row' = [row EXCEPT ![r.subj] = new] /\ nextId' \in Nat
      BY <2>1, <2>2, <3>1 DEF SwitchWrite, IInv, TableInv, Row
    <3> QED BY <2>1, <3>2, <3>3, RowReplaced DEF IInv, SwitchWrite, history
  <2>3. CASE ~StillThere(r)
    BY <2>3, TableUntouched DEF IInv, SwitchWrite, table, history
  <2> QED BY <2>2, <2>3
<1>2. ServerInv'
  BY ServerUntouched DEF IInv, SwitchWrite, history
<1>3. ThreadInv'
  <2> DEFINE l == [local[t] EXCEPT !.row = None]
  <2>1. local[t] \in Local /\ LocalSound("switch_write", local[t])
    BY ThreadFacts DEF IInv, SwitchWrite, At
  <2>2. l \in Local /\ LocalSound("refresh", l)
    BY <2>1, NoneAssumption DEF Local, LocalSound, OnARow, OnSubject, Releasing, Blocking
  <2> QED BY <2>2, GotoKeepsThreads DEF IInv, SwitchWrite, history, Labels
<1>4. BookInv'
  BY BookKept DEF IInv, SwitchWrite, BookInv
<1> QED BY <1>1, <1>2, <1>3, <1>4 DEF IInv

LEMMA RefreshStep ==
  ASSUME IInv, NEW t \in Threads, Refresh(t)
  PROVE  IInv'
<1> DEFINE s == local[t].subj
<1>1. TableInv' /\ ServerInv'
  BY TableUntouched, ServerUntouched DEF IInv, Refresh, history
<1>2. s \in Subjects /\ local[t] \in Local /\ LocalSound("refresh", local[t])
  BY ThreadFacts DEF IInv, Refresh, At, LocalSound, OnSubject
<1>3. ThreadInv'
  <2>1. CASE AfterRefresh(t, local[t])
    <3>1. LocalSound("enforce", local[t])
      BY <1>2 DEF LocalSound, OnARow, OnSubject, Releasing, Blocking
    <3> QED BY <1>2, <2>1, <3>1, RefreshedKeepsThreads DEF IInv, Refresh, history
  <2> DEFINE l == [local[t] EXCEPT !.readings = {[subj |-> s, bytes |-> counter[s]]}]
  <2>2. CASE Goto(t, "observe", l)
    <3>1. [subj |-> s, bytes |-> counter[s]] \in Reading
      BY <1>2 DEF Reading, IInv, ServerInv
    <3>2. l \in Local /\ LocalSound("observe", l)
      BY <1>2, <3>1 DEF Local, LocalSound, OnARow, OnSubject, Releasing, Blocking
    <3> QED BY <2>2, <3>2, GotoKeepsThreads DEF IInv, Refresh, history, Labels
  <2> QED BY <2>1, <2>2 DEF Refresh
<1>4. BookInv'
  <2>1. spent' \in [Kinds -> Nat]
    BY CallKeepsCount DEF IInv, Refresh, BookInv
  <2> QED BY <2>1, BookKept DEF IInv, Refresh
<1> QED BY <1>1, <1>3, <1>4 DEF IInv

\* The baseline observe computes never lies above the reading it stores.
LEMMA FiguresAreSound ==
  ASSUME TableInv, NEW g \in Reading, row[g.subj] # None
  PROVE  /\ NewFigures(g) \in Update
         /\ \A d \in Dirs : NewFigures(g).base[d] <= NewFigures(g).last[d]
<1>1. g.subj \in Subjects /\ g.bytes \in Bytes
  BY DEF Reading
<1>2. row[g.subj] \in Row
  BY <1>1 DEF TableInv
<1>3. row[g.subj].base \in Bytes /\ row[g.subj].id \in Nat /\ row[g.subj].subj \in Subjects
  BY <1>2 DEF Row
<1>4. /\ Rebased(row[g.subj], g.bytes) \in Bytes
      /\ \A d \in Dirs : Rebased(row[g.subj], g.bytes)[d] <= g.bytes[d]
  BY <1>1, <1>3 DEF Rebased, Bytes
<1> QED BY <1>1, <1>3, <1>4 DEF NewFigures, Update

LEMMA ObserveStep ==
  ASSUME IInv, NEW t \in Threads, Observe(t)
  PROVE  IInv'
<1> DEFINE known == {g \in local[t].readings : row[g.subj] # None}
<1>1. TableInv' /\ ServerInv'
  BY TableUntouched, ServerUntouched DEF IInv, Observe, history
<1>2. local[t] \in Local /\ LocalSound("observe", local[t])
  BY ThreadFacts DEF IInv, Observe, At
<1>3. ThreadInv'
  <2>1. CASE known = {}
    <3> DEFINE l == [local[t] EXCEPT !.readings = {}]
    <3>1. l \in Local /\ LocalSound("enforce", l)
      BY <1>2 DEF Local, LocalSound, OnARow, OnSubject, Releasing, Blocking
    <3> QED BY <2>1, <3>1, RefreshedKeepsThreads DEF IInv, Observe, history
  <2>2. CASE known # {}
    <3> DEFINE new == {NewFigures(g) : g \in known}
               l   == [local[t] EXCEPT !.readings = {}, !.updates = new]
    <3>1. \A u \in new : u \in Update /\ \A d \in Dirs : u.base[d] <= u.last[d]
      BY <1>2, FiguresAreSound DEF IInv, Local
    <3> HIDE DEF new
    <3>2. l \in Local /\ LocalSound("observe_write", l)
      BY <1>2, <3>1 DEF Local, LocalSound, OnARow, OnSubject, Releasing, Blocking
    <3>3. Goto(t, "observe_write", l)
      BY <2>2 DEF Observe, new
    <3> QED BY <3>2, <3>3, GotoKeepsThreads DEF IInv, Observe, history, Labels
  <2> QED BY <2>1, <2>2
<1>4. BookInv'
  BY BookKept DEF IInv, Observe, BookInv
<1> QED BY <1>1, <1>3, <1>4 DEF IInv

LEMMA ObserveWriteStep ==
  ASSUME IInv, NEW t \in Threads, ObserveWrite(t)
  PROVE  IInv'
<1>1. local[t] \in Local /\ LocalSound("observe_write", local[t])
  BY ThreadFacts DEF IInv, ObserveWrite, At
<1>2. TableInv'
  <2>1. ASSUME NEW s \in Subjects
        PROVE  /\ row'[s] \in Row \cup {None}
               /\ row'[s] \in Row => /\ row'[s].subj = s
                                    /\ RowSound(row'[s])
                                    /\ \A d \in Dirs : row'[s].base[d] <= row'[s].last[d]
    <3>1. CASE UpdateOf(t, s) = {}
      BY <3>1 DEF ObserveWrite, IInv, TableInv
    <3>2. CASE UpdateOf(t, s) # {}
      <4>1. PICK u \in UpdateOf(t, s) :
               row'[s] = [row[s] EXCEPT !.base = u.base, !.last = u.last]
        BY <3>2 DEF ObserveWrite
      <4>2. u \in Update /\ u.subj = s /\ StillThere(u)
            /\ \A d \in Dirs : u.base[d] <= u.last[d]
        BY <1>1 DEF UpdateOf, Local, LocalSound
      <4>3. row[s] \in Row
        BY <4>2, StillThereIsRow DEF IInv
      <4> QED BY <4>1, <4>2, <4>3 DEF IInv, TableInv, Row, Update, RowSound
    <3> QED BY <3>1, <3>2
  <2>2. DOMAIN row' = Subjects /\ row' = [s \in Subjects |-> row'[s]]
    BY DEF ObserveWrite
  <2> QED BY <2>1, <2>2 DEF TableInv, IInv, ObserveWrite, RowSound, Known, history
<1>3. ServerInv'
  BY ServerUntouched DEF IInv, ObserveWrite, history
<1>4. ThreadInv'
  <2> DEFINE l == [local[t] EXCEPT !.updates = {}]
  <2>1. l \in Local /\ LocalSound("enforce", l)
    BY <1>1 DEF Local, LocalSound, OnARow, OnSubject, Releasing, Blocking
  <2> QED BY <2>1, RefreshedKeepsThreads DEF IInv, ObserveWrite, history
<1>5. BookInv'
  BY BookKept DEF IInv, ObserveWrite, BookInv
<1> QED BY <1>2, <1>3, <1>4, <1>5 DEF IInv

LEMMA EnforceStep ==
  ASSUME IInv, NEW t \in Threads, Enforce(t)
  PROVE  IInv'
<1>1. TableInv' /\ ServerInv'
  BY TableUntouched, ServerUntouched DEF IInv, Enforce, history
<1>2. ThreadInv'
  <2> DEFINE l == [Rest EXCEPT !.todo = AllRows]
  <2>1. l \in Local /\ LocalSound("pick", l)
    BY NoneAssumption, AllRowsSound
    DEF IInv, Rest, Local, Returns, LocalSound, OnARow, OnSubject, Releasing, Blocking
  <2> QED BY <2>1, GotoKeepsThreads DEF IInv, Enforce, history, Labels
<1>3. BookInv'
  BY BookKept DEF IInv, Enforce, BookInv
<1> QED BY <1>1, <1>2, <1>3 DEF IInv

\* A release goes where its row sends it, the row in hand.
LEMMA ReleaseKeepsThreads ==
  ASSUME ThreadInv, NEW t \in Threads, NEW l \in Local, NEW back \in Returns \ {"idle"},
         l.row \in Row, RowSound(l.row), \A r \in l.todo : RowSound(r),
         \A u \in l.updates : \A d \in Dirs : u.base[d] <= u.last[d],
         back = "reset_write" => l.subj \in Subjects,
         Release(t, l, back), UNCHANGED configured
  PROVE  ThreadInv'
<1> DEFINE m == [l EXCEPT !.back = back]
<1>1. m \in Local /\ m.row = l.row /\ m.todo = l.todo /\ m.updates = l.updates
      /\ m.subj = l.subj /\ m.back = back
  BY DEF Local
<1>2. CASE ~l.row.enforced
  <2>1. back \in Labels /\ LocalSound(back, m)
    BY <1>1 DEF Returns, Labels, LocalSound, OnARow, OnSubject, Releasing, Blocking
  <2>2. Goto(t, back, m)
    BY <1>2 DEF Release, ReleaseLabel
  <2> QED BY <1>1, <2>1, <2>2, GotoKeepsThreads
<1>3. CASE l.row.enforced
  <2>1. PICK label \in Releasing : Goto(t, label, m)
    BY <1>3 DEF Release, ReleaseLabel, Releasing
  <2>2. label \in Labels /\ LocalSound(label, m)
    BY <1>1, <1>3 DEF Labels, LocalSound, OnARow, OnSubject, Releasing, Blocking
  <2> QED BY <1>1, <2>1, <2>2, GotoKeepsThreads
<1> QED BY <1>2, <1>3 DEF LocalSound

LEMMA ReleaseGetStep ==
  ASSUME IInv, NEW t \in Threads, ReleaseGet(t)
  PROVE  IInv'
<1>1. TableInv' /\ ServerInv'
  BY TableUntouched, ServerUntouched DEF IInv, ReleaseGet, history
<1>2. ThreadInv'
  <2>1. PICK label \in {"release_set", "release_write"} : Goto(t, label, local[t])
    BY DEF ReleaseGet
  <2>2. local[t] \in Local /\ LocalSound("release_get", local[t])
    BY ThreadFacts DEF IInv, ReleaseGet, At
  <2>3. label \in Labels /\ LocalSound(label, local[t])
    BY <2>2 DEF Labels, LocalSound, OnARow, OnSubject, Releasing, Blocking
  <2> QED BY <2>1, <2>2, <2>3, GotoKeepsThreads DEF IInv, ReleaseGet, history
<1>3. BookInv'
  BY CallKeepsCount, BookKept DEF IInv, ReleaseGet
<1> QED BY <1>1, <1>2, <1>3 DEF IInv

\* What a release puts back is what the row in hand remembers.
LEMMA RestoreAtHand ==
  ASSUME IInv, NEW t \in Threads, pc[t] \in Releasing
  PROVE  /\ local[t].row \in Row /\ local[t].row.subj \in Subjects
         /\ local[t].row.enforced
         /\ local[t].row.restore \in Known(local[t].row.subj)
         /\ local[t].row.restore \in Gates
<1>1. /\ local[t].row \in Row /\ local[t].row.subj \in Subjects
      /\ RowSound(local[t].row) /\ local[t].row.enforced
  BY RowAtHand, ThreadFacts DEF IInv, LocalSound, Releasing, OnARow
<1>2. local[t].row.restore \in Known(local[t].row.subj)
  BY <1>1 DEF RowSound
<1> QED BY <1>1, <1>2, KnownAreGates DEF IInv

LEMMA ReleaseSetStep ==
  ASSUME IInv, NEW t \in Threads, ReleaseSet(t)
  PROVE  IInv'
<1> DEFINE r == local[t].row
<1>1. /\ r \in Row /\ r.subj \in Subjects /\ r.enforced
      /\ r.restore \in Known(r.subj) /\ r.restore \in Gates
  BY RestoreAtHand DEF ReleaseSet, At, Releasing
<1>2. TableInv'
  BY TableUntouched DEF IInv, ReleaseSet, history
<1>3. ServerInv'
  <2>1. CASE SetGate(r.subj, r.restore)
    BY <1>1, <2>1, GateSet DEF IInv, ReleaseSet, history
  <2>2. CASE UNCHANGED <<gate, sessions>>
    BY <2>2, ServerUntouched DEF IInv, ReleaseSet, history, server
  <2> QED BY <2>1, <2>2 DEF ReleaseSet
<1>4. ThreadInv'
  <2>1. local[t] \in Local /\ LocalSound("release_set", local[t])
    BY ThreadFacts DEF IInv, ReleaseSet, At
  <2>2. "release_write" \in Labels /\ LocalSound("release_write", local[t])
    BY <2>1 DEF Labels, LocalSound, OnARow, OnSubject, Releasing, Blocking
  <2> QED BY <2>1, <2>2, GotoKeepsThreads DEF IInv, ReleaseSet, history
<1>5. BookInv'
  <2>1. spent' \in [Kinds -> Nat]
    BY CallKeepsCount DEF IInv, ReleaseSet
  <2> QED BY <2>1, BookKept DEF IInv, ReleaseSet
<1> QED BY <1>2, <1>3, <1>4, <1>5 DEF IInv

\* A step that replaces the row in hand, when it is still there, by a sound one.
LEMMA RowAtHandReplaced ==
  ASSUME TableInv, NEW r, r.subj \in Subjects, NEW new,
         StillThere(r) => /\ new \in Row /\ new.subj = r.subj /\ RowSound(new)
                          /\ \A d \in Dirs : new.base[d] <= new.last[d],
         row' = (IF StillThere(r) THEN [row EXCEPT ![r.subj] = new] ELSE row),
         UNCHANGED <<nextId, enforcing, configured>>
  PROVE  TableInv'
<1>1. CASE StillThere(r)
  BY <1>1, RowReplaced DEF TableInv
<1>2. CASE ~StillThere(r)
  BY <1>2, TableUntouched DEF table
<1> QED BY <1>1, <1>2

LEMMA ReleaseWriteStep ==
  ASSUME IInv, NEW t \in Threads, ReleaseWrite(t)
  PROVE  IInv'
<1> DEFINE r == local[t].row
           new == [row[r.subj] EXCEPT !.enforced = FALSE, !.restore = None]
<1>1. local[t] \in Local /\ LocalSound("release_write", local[t])
  BY ThreadFacts DEF IInv, ReleaseWrite, At
<1>2. TableInv'
  <2>1. r.subj \in Subjects
    BY RestoreAtHand DEF ReleaseWrite, At, Releasing
  <2>2. ASSUME StillThere(r)
        PROVE  /\ new \in Row /\ new.subj = r.subj /\ RowSound(new)
               /\ \A d \in Dirs : new.base[d] <= new.last[d]
    <3>1. row[r.subj] \in Row
      BY <2>1, <2>2, StillThereIsRow DEF IInv
    <3> QED BY <2>1, <3>1 DEF IInv, TableInv, Row, RowSound
  <2>3. row' = IF StillThere(r) THEN [row EXCEPT ![r.subj] = new] ELSE row
    BY <2>1 DEF ReleaseWrite, IInv, TableInv
  <2> QED BY <2>1, <2>2, <2>3, RowAtHandReplaced DEF IInv, ReleaseWrite, history
<1>3. ServerInv'
  BY ServerUntouched DEF IInv, ReleaseWrite, history
<1>4. ThreadInv'
  <2> DEFINE l == IF local[t].back = "pick"
                  THEN [local[t] EXCEPT !.row = None, !.back = "idle"] ELSE local[t]
  <2>1. l \in Local /\ local[t].back \in Labels /\ LocalSound(local[t].back, l)
    BY <1>1, NoneAssumption
    DEF Local, Returns, Labels, LocalSound, OnARow, OnSubject, Releasing, Blocking
  <2> QED BY <2>1, GotoKeepsThreads DEF IInv, ReleaseWrite, history
<1>5. BookInv'
  BY BookKept DEF IInv, ReleaseWrite, BookInv
<1> QED BY <1>2, <1>3, <1>4, <1>5 DEF IInv

\* An attempt that is given up leaves the rest of the pass as it was.
LEMMA GiveUpKeepsThreads ==
  ASSUME ThreadInv, NEW t \in Threads, GiveUp(t), UNCHANGED configured
  PROVE  ThreadInv'
<1> DEFINE l == [local[t] EXCEPT !.row = None, !.found = None]
<1>1. local[t] \in Local /\ LocalSound(pc[t], local[t])
  BY ThreadFacts
<1>2. "pick" \in Labels /\ l \in Local
  BY <1>1 DEF Labels, Local
<1>3. LocalSound("pick", l)
  <2>1. l.row = None /\ l.todo = local[t].todo /\ l.updates = local[t].updates
        /\ l.back = local[t].back /\ l.subj = local[t].subj
    BY <1>1 DEF Local
  <2> QED BY <1>1, <2>1, NoneAssumption
          DEF LocalSound, OnARow, OnSubject, Releasing, Blocking
<1> QED BY <1>2, <1>3, GotoKeepsThreads DEF GiveUp

\* A step of a block that keeps the row and what was found on the server.
LEMMA BlockGoesOn ==
  ASSUME ThreadInv, NEW t \in Threads, pc[t] \in Blocking \ {"block_get"},
         NEW label \in Blocking \ {"block_get"}, NEW cut \in SUBSET SessionNames,
         label \in {"block_enum", "block_cut"} => local[t].row.subj \in Users,
         Goto(t, label, [local[t] EXCEPT !.cut = cut]), UNCHANGED configured
  PROVE  ThreadInv'
<1> DEFINE l == [local[t] EXCEPT !.cut = cut]
<1>1. local[t] \in Local /\ LocalSound(pc[t], local[t])
  BY ThreadFacts
<1>2. /\ l \in Local /\ l.row = local[t].row /\ l.found = local[t].found
      /\ l.todo = local[t].todo /\ l.updates = local[t].updates
      /\ l.back = local[t].back /\ l.subj = local[t].subj
  BY <1>1 DEF Local
<1>3. label \in Labels /\ LocalSound(label, l)
  BY <1>1, <1>2 DEF Labels, LocalSound, OnARow, OnSubject, Releasing, Blocking
<1> QED BY <1>2, <1>3, GotoKeepsThreads

LEMMA BlockGetStep ==
  ASSUME IInv, NEW t \in Threads, BlockGet(t)
  PROVE  IInv'
<1> DEFINE s == local[t].row.subj
<1>1. TableInv' /\ ServerInv'
  BY TableUntouched, ServerUntouched DEF IInv, BlockGet, history
<1>2. ThreadInv'
  <2>1. CASE GiveUp(t)
    BY <2>1, GiveUpKeepsThreads DEF IInv, BlockGet, history
  <2> DEFINE l == [local[t] EXCEPT !.found = gate[s]]
  <2>2. CASE gate[s] # None /\ Goto(t, "block_set", l)
    <3>1. local[t] \in Local /\ LocalSound("block_get", local[t]) /\ s \in Subjects
      BY ThreadFacts, RowAtHand DEF IInv, BlockGet, At, OnARow
    <3>2. gate[s] \in Known(s) /\ gate[s] \in Gates
      BY <2>2, <3>1 DEF IInv, ServerInv, NeverInventsAccess
    <3>3. /\ l \in Local /\ l.row = local[t].row /\ l.found = gate[s]
          /\ l.todo = local[t].todo /\ l.updates = local[t].updates
          /\ l.back = local[t].back /\ l.subj = local[t].subj
      BY <3>1, <3>2 DEF Local
    <3>4. "block_set" \in Labels /\ LocalSound("block_set", l)
      BY <3>1, <3>2, <3>3 DEF Labels, LocalSound, OnARow, OnSubject, Releasing, Blocking
    <3> QED BY <2>2, <3>3, <3>4, GotoKeepsThreads DEF IInv, BlockGet, history
  <2> QED BY <2>1, <2>2 DEF BlockGet, Answers
<1>3. BookInv'
  <2>1. spent' \in [Kinds -> Nat]
    BY CallKeepsCount DEF IInv, BlockGet
  <2> QED BY <2>1, BookKept DEF IInv, BlockGet
<1> QED BY <1>1, <1>2, <1>3 DEF IInv

LEMMA BlockSetStep ==
  ASSUME IInv, NEW t \in Threads, BlockSet(t)
  PROVE  IInv'
<1> DEFINE s == local[t].row.subj
<1>1. /\ s \in Subjects /\ local[t] \in Local
      /\ pc[t] \in Blocking \ {"block_get"}
  BY RowAtHand, ThreadFacts DEF IInv, BlockSet, At, OnARow, Blocking
<1>2. TableInv'
  BY TableUntouched DEF IInv, BlockSet, history
<1>3. ServerInv'
  <2>1. CASE SetGate(s, Deny(s))
    BY <1>1, <2>1, KnownAreGates, GateSet DEF IInv, BlockSet, history
  <2>2. CASE UNCHANGED <<gate, sessions>>
    BY <2>2, ServerUntouched DEF IInv, BlockSet, history, server
  <2> QED BY <2>1, <2>2 DEF BlockSet
<1>4. ThreadInv'
  <2>1. CASE GiveUp(t)
    BY <2>1, GiveUpKeepsThreads DEF IInv, BlockSet, history
  <2>2. ASSUME NEW label \in {"block_enum", "block_write"}, Goto(t, label, local[t]),
               label = "block_enum" => s \in Users
        PROVE  ThreadInv'
    <3>1. local[t] = [local[t] EXCEPT !.cut = local[t].cut] /\ local[t].cut \in SUBSET SessionNames
      BY <1>1 DEF Local
    <3>2. label \in Blocking \ {"block_get"}
      BY DEF Blocking
    <3> QED BY <1>1, <2>2, <3>1, <3>2, BlockGoesOn DEF IInv, BlockSet, history
  <2> QED BY <2>1, <2>2 DEF BlockSet
<1>5. BookInv'
  <2>1. spent' \in [Kinds -> Nat]
    BY CallKeepsCount DEF IInv, BlockSet
  <2> QED BY <2>1, BookKept DEF IInv, BlockSet
<1> QED BY <1>2, <1>3, <1>4, <1>5 DEF IInv

LEMMA BlockEnumStep ==
  ASSUME IInv, NEW t \in Threads, BlockEnum(t)
  PROVE  IInv'
<1> DEFINE u == local[t].row.subj
<1>1. TableInv' /\ ServerInv'
  BY TableUntouched, ServerUntouched DEF IInv, BlockEnum, history
<1>2. ThreadInv'
  <2>1. CASE GiveUp(t)
    BY <2>1, GiveUpKeepsThreads DEF IInv, BlockEnum, history
  <2>2. ASSUME NEW label \in {"block_write", "block_cut"},
               Goto(t, label, [local[t] EXCEPT !.cut = sessions[u]])
        PROVE  ThreadInv'
    <3>1. u \in Users /\ pc[t] = "block_enum"
      BY ThreadFacts DEF IInv, BlockEnum, At, LocalSound
    <3>2. sessions[u] \in SUBSET SessionNames
      BY <3>1 DEF IInv, ServerInv
    <3> QED BY <2>2, <3>1, <3>2, BlockGoesOn DEF IInv, BlockEnum, history, Blocking
  <2> QED BY <2>1, <2>2 DEF BlockEnum
<1>3. BookInv'
  <2>1. spent' \in [Kinds -> Nat]
    BY CallKeepsCount DEF IInv, BlockEnum, BookInv
  <2> QED BY <2>1, BookKept DEF IInv, BlockEnum
<1> QED BY <1>1, <1>2, <1>3 DEF IInv

LEMMA BlockCutStep ==
  ASSUME IInv, NEW t \in Threads, NEW n \in SessionNames, BlockCut(t, n)
  PROVE  IInv'
<1> DEFINE left == local[t].cut \ {n}
<1>1. local[t] \in Local /\ local[t].row.subj \in Users /\ pc[t] = "block_cut"
  BY ThreadFacts DEF IInv, BlockCut, At, LocalSound
<1>2. TableInv'
  BY TableUntouched DEF IInv, BlockCut, history
<1>3. ServerInv'
  <2>1. sessions' \in [Users -> SUBSET SessionNames]
    BY DEF BlockCut, IInv, ServerInv
  <2> QED BY <2>1 DEF BlockCut, IInv, ServerInv, NeverInventsAccess, Known, history
<1>4. ThreadInv'
  <2>1. PICK label \in {"block_write", "block_cut"} :
           Goto(t, label, [local[t] EXCEPT !.cut = left])
    BY DEF BlockCut
  <2>2. left \in SUBSET SessionNames
    BY <1>1 DEF Local
  <2> QED BY <1>1, <2>1, <2>2, BlockGoesOn DEF IInv, BlockCut, history, Blocking
<1>5. BookInv'
  <2>1. spent' \in [Kinds -> Nat]
    BY CallKeepsCount DEF IInv, BlockCut, BookInv
  <2> QED BY <2>1, BookKept DEF IInv, BlockCut
<1> QED BY <1>2, <1>3, <1>4, <1>5 DEF IInv

LEMMA BlockWriteStep ==
  ASSUME IInv, NEW t \in Threads, BlockWrite(t)
  PROVE  IInv'
<1> DEFINE r   == local[t].row
           new == [row[r.subj] EXCEPT !.enforced = TRUE, !.exceeded = TRUE,
                                      !.restore = local[t].found]
<1>1. /\ r.subj \in Subjects /\ local[t] \in Local
      /\ local[t].found \in Known(r.subj)
  BY RowAtHand, ThreadFacts DEF IInv, BlockWrite, At, OnARow, Blocking, LocalSound
<1>2. local[t].found \in Gates
  BY <1>1, KnownAreGates DEF IInv
<1>3. TableInv'
  <2>1. ASSUME StillThere(r)
        PROVE  /\ new \in Row /\ new.subj = r.subj /\ RowSound(new)
               /\ \A d \in Dirs : new.base[d] <= new.last[d]
    <3>1. row[r.subj] \in Row
      BY <1>1, <2>1, StillThereIsRow DEF IInv
    <3> QED BY <1>1, <1>2, <3>1 DEF IInv, TableInv, Row, RowSound
  <2>2. row' = IF StillThere(r) THEN [row EXCEPT ![r.subj] = new] ELSE row
    BY <1>1 DEF BlockWrite, IInv, TableInv
  <2> QED BY <1>1, <2>1, <2>2, RowAtHandReplaced DEF IInv, BlockWrite, history
<1>4. ServerInv'
  BY ServerUntouched DEF IInv, BlockWrite, history
<1>5. ThreadInv'
  BY GiveUpKeepsThreads DEF IInv, BlockWrite, history
<1>6. BookInv'
  BY BookKept DEF IInv, BlockWrite, BookInv
<1> QED BY <1>3, <1>4, <1>5, <1>6 DEF IInv

LEMMA PickBlockKeepsThreads ==
  ASSUME IInv, NEW t \in Threads, At(t, "pick"), NEW r \in local[t].todo,
         PickBlock(t, r), UNCHANGED configured
  PROVE  ThreadInv'
<1> DEFINE l == [local[t] EXCEPT !.todo = @ \ {r}, !.row = r]
<1>1. local[t] \in Local /\ LocalSound("pick", local[t])
  BY ThreadFacts DEF IInv, At
<1>2. /\ l \in Local /\ l.row = r /\ l.todo \subseteq local[t].todo
      /\ l.updates = local[t].updates /\ l.back = local[t].back
      /\ l.subj = local[t].subj /\ r \in Row
  BY <1>1 DEF Local
<1>3. "block_get" \in Labels /\ LocalSound("block_get", l)
  BY <1>1, <1>2 DEF PickBlock, Labels, LocalSound, OnARow, OnSubject, Releasing, Blocking
<1> QED BY <1>2, <1>3, GotoKeepsThreads DEF PickBlock, IInv

LEMMA PickReleaseKeepsThreads ==
  ASSUME IInv, NEW t \in Threads, At(t, "pick"), NEW r \in local[t].todo,
         PickRelease(t, r), UNCHANGED configured
  PROVE  ThreadInv'
<1> DEFINE l == [local[t] EXCEPT !.todo = @ \ {r}, !.row = r]
<1>1. local[t] \in Local /\ LocalSound("pick", local[t])
  BY ThreadFacts DEF IInv, At
<1>2. /\ l \in Local /\ l.row = r /\ l.todo \subseteq local[t].todo
      /\ l.updates = local[t].updates /\ r \in Row
  BY <1>1 DEF Local
<1>3. RowSound(r) /\ \A x \in l.todo : RowSound(x)
  BY <1>1, <1>2 DEF LocalSound
<1>4. "pick" \in Returns \ {"idle"}
  BY DEF Returns
<1>5. \A u \in l.updates : \A d \in Dirs : u.base[d] <= u.last[d]
  BY <1>1, <1>2 DEF LocalSound
<1>6. Release(t, l, "pick")
  BY DEF PickRelease
<1> HIDE DEF l
<1> QED BY <1>2, <1>3, <1>4, <1>5, <1>6, ReleaseKeepsThreads DEF IInv

LEMMA PickKeepKeepsThreads ==
  ASSUME IInv, NEW t \in Threads, At(t, "pick"), NEW r \in local[t].todo,
         PickKeep(t, r), UNCHANGED configured
  PROVE  ThreadInv'
<1> DEFINE l == [local[t] EXCEPT !.todo = @ \ {r}]
<1>1. local[t] \in Local /\ LocalSound("pick", local[t])
  BY ThreadFacts DEF IInv, At
<1>2. /\ l \in Local /\ l.row = local[t].row /\ l.todo \subseteq local[t].todo
      /\ l.updates = local[t].updates /\ l.back = local[t].back
      /\ l.subj = local[t].subj
  BY <1>1 DEF Local
<1>3. "pick" \in Labels /\ LocalSound("pick", l)
  BY <1>1, <1>2 DEF Labels, LocalSound, OnARow, OnSubject, Releasing, Blocking
<1> QED BY <1>2, <1>3, GotoKeepsThreads DEF PickKeep, IInv

LEMMA PickStep ==
  ASSUME IInv, NEW t \in Threads, Pick(t)
  PROVE  IInv'
<1>1. PICK r \in local[t].todo : PickBlock(t, r) \/ PickRelease(t, r) \/ PickKeep(t, r)
  BY DEF Pick
<1>2. r \in Row /\ r.subj \in Subjects
  BY ThreadFacts DEF IInv, Local, Row
<1>3. TableInv'
  <2>1. CASE UNCHANGED row
    BY <2>1, TableUntouched DEF IInv, Pick, table, history
  <2>2. CASE StillThere(r) /\ row' = [row EXCEPT ![r.subj].exceeded = TRUE]
    <3> DEFINE new == [row[r.subj] EXCEPT !.exceeded = TRUE]
    <3>1. row[r.subj] \in Row
      BY <1>2, <2>2, StillThereIsRow DEF IInv
    <3>2. new \in Row /\ new.subj = r.subj /\ RowSound(new)
          /\ \A d \in Dirs : new.base[d] <= new.last[d]
      BY <1>2, <3>1 DEF IInv, TableInv, Row, RowSound
    <3>3. row' = [row EXCEPT ![r.subj] = new] /\ nextId' \in Nat
      BY <2>2 DEF Pick, IInv, TableInv
    <3> QED BY <1>2, <3>2, <3>3, RowReplaced DEF IInv, Pick, history
  <2> QED BY <1>1, <2>1, <2>2 DEF PickBlock, PickRelease, PickKeep
<1>4. ServerInv'
  BY ServerUntouched DEF IInv, Pick, history
<1>5. ThreadInv'
  BY <1>1, PickBlockKeepsThreads, PickReleaseKeepsThreads, PickKeepKeepsThreads
  DEF Pick, history
<1>6. BookInv'
  BY BookKept DEF IInv, Pick, BookInv
<1> QED BY <1>3, <1>4, <1>5, <1>6 DEF IInv

LEMMA PassDoneStep ==
  ASSUME IInv, NEW t \in Threads, PassDone(t)
  PROVE  IInv'
<1>1. TableInv' /\ ServerInv'
  BY TableUntouched, ServerUntouched DEF IInv, PassDone, history
<1>2. ThreadInv'
  BY FinishKeepsThreads DEF IInv, PassDone, history
<1>3. BookInv'
  BY BookKept DEF IInv, PassDone, BookInv
<1> QED BY <1>1, <1>2, <1>3 DEF IInv

-----------------------------------------------------------------------------
(* Reset, delete and what goes with a deleted object *)

LEMMA ResetStep ==
  ASSUME IInv, NEW t \in Threads, NEW s \in Subjects, Reset(t, s)
  PROVE  IInv'
<1> DEFINE l == [Rest EXCEPT !.job = "settle", !.subj = s, !.row = row[s]]
<1>1. TableInv' /\ ServerInv'
  BY TableUntouched, ServerUntouched DEF IInv, Reset, history
<1>2. ThreadInv'
  <2>1. row[s] \in Row \cup {None} /\ (row[s] \in Row => RowSound(row[s]))
    BY DEF IInv, TableInv
  <2>2. l \in Local
    BY <2>1 DEF Rest, Local, Returns
  <2>3. /\ LocalSound("reset_save", l)
        /\ row[s] # None => LocalSound("reset_ask", l)
    BY <2>1 DEF Rest, LocalSound, OnARow, OnSubject, Releasing, Blocking
  <2>4. PICK label \in {"reset_save", "reset_ask"} :
           Goto(t, label, l) /\ (label = "reset_ask" => row[s] # None)
    BY DEF Reset
  <2>5. label \in Labels /\ LocalSound(label, l)
    BY <2>3, <2>4 DEF Labels
  <2> QED BY <2>2, <2>4, <2>5, GotoKeepsThreads DEF IInv, Reset, history
<1>3. BookInv'
  BY SpendKeepsCount, BookKept DEF IInv, Reset, Kinds
<1> QED BY <1>1, <1>2, <1>3 DEF IInv

LEMMA ResetSaveStep ==
  ASSUME IInv, NEW t \in Threads, ResetSave(t)
  PROVE  IInv'
<1>1. local[t] \in Local /\ LocalSound("reset_save", local[t]) /\ local[t].subj \in Subjects
  BY ThreadFacts DEF IInv, ResetSave, At, LocalSound, OnSubject
<1>2. TableInv'
  <2>1. 0 \in Nat /\ "total" \in Metrics /\ TRUE \in BOOLEAN
    BY DEF Metrics
  <2> QED BY <1>1, <2>1, UpsertKeepsTable DEF IInv, ResetSave, history
<1>3. ServerInv'
  BY ServerUntouched DEF IInv, ResetSave, history
<1>4. ThreadInv'
  <2>1. "reset_row" \in Labels /\ LocalSound("reset_row", local[t])
    BY <1>1 DEF Labels, LocalSound, OnARow, OnSubject, Releasing, Blocking
  <2> QED BY <1>1, <2>1, GotoKeepsThreads DEF IInv, ResetSave, history
<1>5. BookInv'
  BY BookKept DEF IInv, ResetSave, BookInv
<1> QED BY <1>2, <1>3, <1>4, <1>5 DEF IInv

LEMMA ResetRowStep ==
  ASSUME IInv, NEW t \in Threads, ResetRow(t)
  PROVE  IInv'
<1> DEFINE s == local[t].subj
           l == [local[t] EXCEPT !.row = row[s]]
<1>1. TableInv' /\ ServerInv'
  BY TableUntouched, ServerUntouched DEF IInv, ResetRow, history
<1>2. ThreadInv'
  <2>1. CASE Finish(t)
    BY <2>1, FinishKeepsThreads DEF IInv, ResetRow, history
  <2>2. CASE row[s] # None /\ Goto(t, "reset_ask", l)
    <3>1. local[t] \in Local /\ LocalSound("reset_row", local[t]) /\ s \in Subjects
      BY ThreadFacts DEF IInv, ResetRow, At, LocalSound, OnSubject
    <3>2. row[s] \in Row /\ RowSound(row[s])
      BY <2>2, <3>1 DEF IInv, TableInv
    <3>3. /\ l \in Local /\ l.row = row[s] /\ l.todo = local[t].todo
          /\ l.updates = local[t].updates /\ l.back = local[t].back
          /\ l.subj = s
      BY <3>1, <3>2 DEF Local
    <3>4. "reset_ask" \in Labels /\ LocalSound("reset_ask", l)
      BY <3>1, <3>2, <3>3 DEF Labels, LocalSound, OnARow, OnSubject, Releasing, Blocking
    <3> QED BY <2>2, <3>3, <3>4, GotoKeepsThreads DEF IInv, ResetRow, history
  <2> QED BY <2>1, <2>2 DEF ResetRow
<1>3. BookInv'
  BY BookKept DEF IInv, ResetRow, BookInv
<1> QED BY <1>1, <1>2, <1>3 DEF IInv

LEMMA ResetAskStep ==
  ASSUME IInv, NEW t \in Threads, ResetAsk(t)
  PROVE  IInv'
<1> DEFINE r    == local[t].row
           l(b) == [local[t] EXCEPT !.readings = {[subj |-> r.subj, bytes |-> b]}]
<1>1. TableInv' /\ ServerInv'
  BY TableUntouched, ServerUntouched DEF IInv, ResetAsk
<1>2. /\ local[t] \in Local /\ LocalSound("reset_ask", local[t])
      /\ r \in Row /\ r.subj \in Subjects /\ RowSound(r) /\ local[t].subj \in Subjects
  BY ThreadFacts, RowAtHand, SubjectAtHand DEF IInv, ResetAsk, At, OnARow, OnSubject
<1>3. ThreadInv'
  <2>1. PICK b \in Bytes : Release(t, l(b), "reset_write")
    BY <1>2 DEF ResetAsk, IInv, ServerInv, Row
  <2>2. /\ l(b) \in Local /\ l(b).row = r /\ l(b).todo = local[t].todo
        /\ l(b).updates = local[t].updates /\ l(b).subj = local[t].subj
    <3>1. [subj |-> r.subj, bytes |-> b] \in Reading
      BY <1>2, <2>1 DEF Reading
    <3> QED BY <1>2, <3>1 DEF Local
  <2>3. /\ \A x \in l(b).todo : RowSound(x)
        /\ \A u \in l(b).updates : \A d \in Dirs : u.base[d] <= u.last[d]
    BY <1>2, <2>2 DEF LocalSound
  <2>4. "reset_write" \in Returns \ {"idle"}
    BY DEF Returns
  <2> HIDE DEF l
  <2> QED BY <1>2, <2>1, <2>2, <2>3, <2>4, ReleaseKeepsThreads DEF IInv, ResetAsk
<1>4. BookInv'
  <2>1. spent' \in [Kinds -> Nat]
    BY CallKeepsCount DEF IInv, ResetAsk
  <2>2. restarted' \in [Subjects -> BOOLEAN]
    BY DEF ResetAsk, IInv, BookInv
  <2> QED BY <2>1, <2>2 DEF BookInv, IInv, ResetAsk
<1> QED BY <1>1, <1>3, <1>4 DEF IInv

LEMMA ResetWriteStep ==
  ASSUME IInv, NEW t \in Threads, ResetWrite(t)
  PROVE  IInv'
<1> DEFINE r == local[t].row
           l == [local[t] EXCEPT !.row = None, !.back = "idle", !.readings = {}]
<1>1. /\ local[t] \in Local /\ LocalSound("reset_write", local[t])
      /\ r.subj \in Subjects /\ local[t].subj \in Subjects
  BY ThreadFacts, RowAtHand, SubjectAtHand DEF IInv, ResetWrite, At, OnARow, OnSubject
<1>2. TableInv'
  <2>1. PICK g \in local[t].readings :
          row' = IF StillThere(r)
                 THEN [row EXCEPT ![r.subj] = [@ EXCEPT !.base = g.bytes, !.last = g.bytes,
                                                       !.exceeded = FALSE]]
                 ELSE row
    BY DEF ResetWrite
  <2> DEFINE new == [row[r.subj] EXCEPT !.base = g.bytes, !.last = g.bytes,
                                        !.exceeded = FALSE]
  <2>2. g.bytes \in Bytes
    BY <1>1, <2>1 DEF Local, Reading
  <2>3. ASSUME StillThere(r)
        PROVE  /\ new \in Row /\ new.subj = r.subj /\ RowSound(new)
               /\ \A d \in Dirs : new.base[d] <= new.last[d]
    <3>1. row[r.subj] \in Row
      BY <1>1, <2>3, StillThereIsRow DEF IInv
    <3>2. new \in Row /\ new.subj = r.subj /\ RowSound(new)
      BY <1>1, <2>2, <3>1 DEF IInv, TableInv, Row, RowSound
    <3>3. new.base = g.bytes /\ new.last = g.bytes
      BY <3>1 DEF Row
    <3>4. \A d \in Dirs : g.bytes[d] <= g.bytes[d]
      BY <2>2 DEF Bytes
    <3> QED BY <3>2, <3>3, <3>4
  <2>4. row' = IF StillThere(r) THEN [row EXCEPT ![r.subj] = new] ELSE row
    BY <1>1, <2>1 DEF IInv, TableInv
  <2> QED BY <1>1, <2>3, <2>4, RowAtHandReplaced DEF IInv, ResetWrite, history
<1>3. ServerInv'
  BY ServerUntouched DEF IInv, ResetWrite, history
<1>4. ThreadInv'
  <2>1. /\ l \in Local /\ l.row = None /\ l.back = "idle" /\ l.todo = local[t].todo
        /\ l.updates = local[t].updates /\ l.subj = local[t].subj
    BY <1>1 DEF Local, Returns
  <2>2. "refresh" \in Labels /\ LocalSound("refresh", l)
    BY <1>1, <2>1, NoneAssumption
    DEF Labels, LocalSound, OnARow, OnSubject, Releasing, Blocking
  <2> QED BY <2>1, <2>2, GotoKeepsThreads DEF IInv, ResetWrite, history
<1>5. BookInv'
  BY BookKept DEF IInv, ResetWrite, BookInv
<1> QED BY <1>2, <1>3, <1>4, <1>5 DEF IInv

LEMMA DeleteStep ==
  ASSUME IInv, NEW t \in Threads, NEW s \in Subjects, Delete(t, s)
  PROVE  IInv'
<1> DEFINE l == [Rest EXCEPT !.subj = s, !.row = row[s]]
<1>1. TableInv' /\ ServerInv'
  BY TableUntouched, ServerUntouched DEF IInv, Delete, history
<1>2. ThreadInv'
  <2>1. row[s] \in Row /\ RowSound(row[s])
    BY DEF Delete, IInv, TableInv
  <2>2. l \in Local /\ l.row = row[s] /\ l.todo = {} /\ l.updates = {}
    BY <2>1 DEF Rest, Local, Returns
  <2>3. "delete_write" \in Returns \ {"idle"}
    BY DEF Returns
  <2>4. Release(t, l, "delete_write")
    BY DEF Delete
  <2> HIDE DEF l
  <2> QED BY <2>1, <2>2, <2>3, <2>4, ReleaseKeepsThreads DEF IInv, Delete, history
<1>3. BookInv'
  BY SpendKeepsCount, BookKept DEF IInv, Delete, Kinds
<1> QED BY <1>1, <1>2, <1>3 DEF IInv

LEMMA DeleteWriteStep ==
  ASSUME IInv, NEW t \in Threads, DeleteWrite(t)
  PROVE  IInv'
<1> DEFINE r   == local[t].row
           new == [row[r.subj] EXCEPT !.limit = 0, !.exceeded = FALSE]
<1>1. r.subj \in Subjects
  BY RowAtHand DEF IInv, DeleteWrite, At, OnARow
<1>2. TableInv'
  <2>1. CASE row' = row
    BY <2>1, TableUntouched DEF IInv, DeleteWrite, table, history
  <2>2. CASE StillThere(r) /\ row' = [row EXCEPT ![r.subj] =
                                       [@ EXCEPT !.limit = 0, !.exceeded = FALSE]]
    <3>1. row[r.subj] \in Row
      BY <1>1, <2>2, StillThereIsRow DEF IInv
    <3>2. new \in Row /\ new.subj = r.subj /\ RowSound(new)
          /\ \A d \in Dirs : new.base[d] <= new.last[d]
      BY <1>1, <3>1 DEF IInv, TableInv, Row, RowSound
    <3>3. row' = [row EXCEPT ![r.subj] = new] /\ nextId' \in Nat
      BY <1>1, <2>2 DEF DeleteWrite, IInv, TableInv
    <3> QED BY <1>1, <3>2, <3>3, RowReplaced DEF IInv, DeleteWrite, history
  <2>3. CASE row' = [row EXCEPT ![r.subj] = None]
    BY <1>1, <2>3, NoneAssumption DEF IInv, TableInv, DeleteWrite, RowSound, Known, history
  <2> QED BY <2>1, <2>2, <2>3 DEF DeleteWrite
<1>3. ServerInv'
  BY ServerUntouched DEF IInv, DeleteWrite, history
<1>4. ThreadInv'
  BY FinishKeepsThreads DEF IInv, DeleteWrite, history
<1>5. BookInv'
  BY BookKept DEF IInv, DeleteWrite, BookInv
<1> QED BY <1>2, <1>3, <1>4, <1>5 DEF IInv

LEMMA RemoveStep ==
  ASSUME IInv, NEW t \in Threads, NEW s \in Subjects, Remove(t, s)
  PROVE  IInv'
<1>1. TableInv'
  BY TableUntouched DEF IInv, Remove
<1>2. ServerInv'
  <2>1. /\ gate' \in [Subjects -> Gates \cup {None}]
        /\ \A x \in Subjects : gate'[x] # None => gate'[x] = gate[x]
    BY DEF Remove, IInv, ServerInv
  <2>2. counter' \in [Subjects -> Bytes]
    BY DEF Remove, IInv, ServerInv, Zero, Bytes
  <2>3. sessions' \in [Users -> SUBSET SessionNames]
    BY DEF Remove, IInv, ServerInv
  <2>4. UNCHANGED configured
    BY DEF Remove
  <2> QED BY <2>1, <2>2, <2>3, <2>4 DEF IInv, ServerInv, NeverInventsAccess, Known
<1>3. ThreadInv'
  <2> DEFINE l == [Rest EXCEPT !.subj = s]
  <2>1. l \in Local /\ "forget" \in Labels /\ LocalSound("forget", l)
    BY NoneAssumption
    DEF Rest, Local, Returns, Labels, LocalSound, OnARow, OnSubject, Releasing, Blocking
  <2> QED BY <2>1, GotoKeepsThreads DEF IInv, Remove
<1>4. BookInv'
  BY SpendKeepsCount DEF IInv, Remove, BookInv, Kinds
<1> QED BY <1>1, <1>2, <1>3, <1>4 DEF IInv

LEMMA ForgetStep ==
  ASSUME IInv, NEW t \in Threads, Forget(t)
  PROVE  IInv'
<1>1. TableInv'
  BY NoneAssumption DEF IInv, TableInv, Forget, RowSound, Known, history
<1>2. ServerInv'
  BY ServerUntouched DEF IInv, Forget, history
<1>3. ThreadInv'
  BY FinishKeepsThreads DEF IInv, Forget, history
<1>4. BookInv'
  BY BookKept DEF IInv, Forget, BookInv
<1> QED BY <1>1, <1>2, <1>3, <1>4 DEF IInv

-----------------------------------------------------------------------------
(* The sampler thread *)

LEMMA CollectKeepsThreads ==
  ASSUME ThreadInv, NEW t \in Threads, NEW l \in Local, LocalSound("ask", l),
         Collect(t, l), UNCHANGED configured
  PROVE  ThreadInv'
<1>1. PICK label \in {"ask", "observe", "feed"} : Goto(t, label, l)
  BY DEF Collect
<1>2. label \in Labels /\ LocalSound(label, l)
  BY <1>1 DEF Labels, LocalSound, OnARow, OnSubject, Releasing, Blocking
<1> QED BY <1>1, <1>2, GotoKeepsThreads

LEMMA AskingIsSound ==
  ASSUME NEW j \in {"tick", "traffic"}, NEW ask \in SUBSET Query
  PROVE  /\ [Rest EXCEPT !.job = j, !.ask = ask] \in Local
         /\ LocalSound("ask", [Rest EXCEPT !.job = j, !.ask = ask])
BY NoneAssumption DEF Rest, Local, Returns, LocalSound, OnARow, OnSubject, Releasing, Blocking

LEMMA TickStep ==
  ASSUME IInv, NEW t \in Threads, Tick(t)
  PROVE  IInv'
<1>1. TableInv' /\ ServerInv'
  BY TableUntouched, ServerUntouched DEF IInv, Tick, history
<1>2. ThreadInv'
  <2> DEFINE watched == {<<IF r.subj \in Hubs THEN "status" ELSE "users",
                           IF r.subj \in Hubs THEN r.subj ELSE HubOf[r.subj]>> : r \in AllRows}
             asked   == {q \in watched : gate[q[2]] # None}
  <2>1. \A r \in AllRows : r.subj \in Hubs \cup Users
    BY AllRowsSound DEF IInv, Row, Subjects
  <2>2. watched \subseteq Query
    BY <2>1, SubjectsAssumption DEF Query
  <2>3. asked \in SUBSET Query
    BY <2>2
  <2>4. Collect(t, [Rest EXCEPT !.job = "tick", !.ask = asked])
    BY DEF Tick
  <2> HIDE DEF asked
  <2> QED BY <2>3, <2>4, AskingIsSound, CollectKeepsThreads DEF IInv, Tick, history
<1>3. BookInv'
  BY BookKept DEF IInv, Tick, BookInv
<1> QED BY <1>1, <1>2, <1>3 DEF IInv

LEMMA SampleTrafficStep ==
  ASSUME IInv, NEW t \in Threads, SampleTraffic(t)
  PROVE  IInv'
<1>1. TableInv' /\ ServerInv'
  BY TableUntouched, ServerUntouched DEF IInv, SampleTraffic, history
<1>2. ThreadInv'
  <2> DEFINE asked == {q \in Query : gate[q[2]] # None}
  <2>1. Collect(t, [Rest EXCEPT !.job = "traffic", !.ask = asked])
    BY DEF SampleTraffic
  <2>2. asked \in SUBSET Query
    OBVIOUS
  <2> HIDE DEF asked
  <2> QED BY <2>1, <2>2, AskingIsSound, CollectKeepsThreads DEF IInv, SampleTraffic, history
<1>3. BookInv'
  BY BookKept DEF IInv, SampleTraffic, BookInv
<1> QED BY <1>1, <1>2, <1>3 DEF IInv

LEMMA ReadingsAreReadings ==
  ASSUME ServerInv, NEW q \in Query
  PROVE  ReadingsOf(q) \subseteq Reading
BY DEF ServerInv, ReadingsOf, Reading, Query, Subjects

LEMMA AskCountersStep ==
  ASSUME IInv, NEW t \in Threads, AskCounters(t)
  PROVE  IInv'
<1>1. TableInv' /\ ServerInv'
  BY TableUntouched, ServerUntouched DEF IInv, AskCounters, history
<1>2. local[t] \in Local /\ LocalSound("ask", local[t])
  BY ThreadFacts DEF IInv, AskCounters, At
<1>3. PICK q \in local[t].ask :
        \/ /\ Answers(q[2])
           /\ Collect(t, [local[t] EXCEPT !.ask = @ \ {q},
                                          !.readings = @ \cup ReadingsOf(q)])
        \/ Raises(t, q[2]) /\ Finish(t)
  BY DEF AskCounters
<1>4. ThreadInv'
  <2>1. CASE Finish(t)
    BY <2>1, FinishKeepsThreads DEF IInv, AskCounters, history
  <2> DEFINE l == [local[t] EXCEPT !.ask = @ \ {q}, !.readings = @ \cup ReadingsOf(q)]
  <2>2. CASE Collect(t, l)
    <3>1. ReadingsOf(q) \subseteq Reading
      BY <1>2, ReadingsAreReadings DEF IInv, Local
    <3>2. /\ l \in Local /\ l.row = local[t].row /\ l.todo = local[t].todo
          /\ l.updates = local[t].updates /\ l.back = local[t].back
          /\ l.subj = local[t].subj
      BY <1>2, <3>1 DEF Local
    <3>3. LocalSound("ask", l)
      BY <1>2, <3>2 DEF LocalSound, OnARow, OnSubject, Releasing, Blocking
    <3> QED BY <2>2, <3>2, <3>3, CollectKeepsThreads DEF IInv, AskCounters, history
  <2> QED BY <1>3, <2>1, <2>2
<1>5. BookInv'
  <2>1. spent' \in [Kinds -> Nat]
    BY <1>3, CallKeepsCount DEF IInv
  <2> QED BY <2>1, BookKept DEF IInv, AskCounters
<1> QED BY <1>1, <1>4, <1>5 DEF IInv

LEMMA FeedStep ==
  ASSUME IInv, NEW t \in Threads, Feed(t)
  PROVE  IInv'
<1>1. TableInv' /\ ServerInv'
  BY TableUntouched, ServerUntouched DEF IInv, Feed, history
<1>2. ThreadInv'
  <2>1. CASE Finish(t)
    BY <2>1, FinishKeepsThreads DEF IInv, Feed, history
  <2>2. CASE Goto(t, "observe", local[t])
    <3>1. local[t] \in Local /\ LocalSound("feed", local[t])
      BY ThreadFacts DEF IInv, Feed, At
    <3>2. "observe" \in Labels /\ LocalSound("observe", local[t])
      BY <3>1 DEF Labels, LocalSound, OnARow, OnSubject, Releasing, Blocking
    <3> QED BY <2>2, <3>1, <3>2, GotoKeepsThreads DEF IInv, Feed, history
  <2> QED BY <2>1, <2>2 DEF Feed
<1>3. BookInv'
  BY BookKept DEF IInv, Feed, BookInv
<1> QED BY <1>1, <1>2, <1>3 DEF IInv

-----------------------------------------------------------------------------
(* The world outside the panel *)

\* Operators only ever add to what they have chosen: all that is sound stays so.
LEMMA ChoicesGrow ==
  ASSUME IInv, \A s \in Subjects : configured[s] \subseteq configured'[s],
         UNCHANGED <<table, pc, local>>
  PROVE  TableInv' /\ ThreadInv'
<1>1. \A s \in Subjects : Known(s) \subseteq Known(s)'
  BY DEF Known, Deny
<1>2. \A r \in Row : RowSound(r) => RowSound(r)'
  BY <1>1 DEF RowSound, Row
<1>3. TableInv'
  BY <1>2 DEF IInv, TableInv, table
<1>4. ASSUME NEW t \in Threads PROVE LocalSound(pc[t], local[t])'
  <2>1. local[t] \in Local /\ LocalSound(pc[t], local[t])
    BY ThreadFacts DEF IInv
  <2>2. \A r \in local[t].todo : RowSound(r)'
    BY <1>2, <2>1 DEF LocalSound, Local
  <2>3. local[t].row \in Row => RowSound(local[t].row)'
    BY <1>2, <2>1 DEF LocalSound
  <2>4. pc[t] \in Blocking \ {"block_get"} => local[t].found \in Known(local[t].row.subj)'
    <3>1. pc[t] \in Blocking => local[t].row \in Row
      BY <2>1 DEF LocalSound, Blocking, OnARow
    <3> QED BY <1>1, <2>1, <3>1 DEF LocalSound, Row
  <2> QED BY <2>1, <2>2, <2>3, <2>4 DEF LocalSound
<1>5. ThreadInv'
  BY <1>4 DEF IInv, ThreadInv
<1> QED BY <1>3, <1>5

LEMMA ChosenGatesAreGates ==
  ASSUME NEW s \in Subjects, NEW g \in Choices(s)
  PROVE  g \in Gates
BY DEF Choices, Gates

LEMMA SessionStep ==
  ASSUME IInv, NEW u \in Users, NEW n \in SessionNames, Login(u, n) \/ Logout(u, n)
  PROVE  IInv'
<1>1. sessions' \in [Users -> SUBSET SessionNames]
  BY DEF Login, Logout, IInv, ServerInv
<1>2. UNCHANGED <<table, gate, counter, pc, local, spent, history>>
  BY DEF Login, Logout
<1>3. TableInv' /\ ThreadInv'
  BY <1>2, ChoicesGrow DEF history
<1>4. ServerInv' /\ BookInv'
  BY <1>1, <1>2 DEF IInv, ServerInv, BookInv, NeverInventsAccess, Known, history
<1> QED BY <1>3, <1>4 DEF IInv

LEMMA TrafficStep ==
  ASSUME IInv, NEW u \in Users, NEW d \in Dirs, Traffic(u, d)
  PROVE  IInv'
<1>1. counter' \in [Subjects -> Bytes]
  BY DEF Traffic, IInv, ServerInv, Bytes
<1>2. UNCHANGED <<table, gate, sessions, pc, local, spent, history>>
  BY DEF Traffic
<1>3. TableInv' /\ ThreadInv'
  BY <1>2, ChoicesGrow DEF history
<1>4. ServerInv' /\ BookInv'
  BY <1>1, <1>2 DEF IInv, ServerInv, BookInv, NeverInventsAccess, Known, history
<1> QED BY <1>3, <1>4 DEF IInv

LEMMA EditStep ==
  ASSUME IInv, NEW s \in Subjects, NEW g, Edit(s, g)
  PROVE  IInv'
<1>1. g \in Gates
  BY ChosenGatesAreGates DEF Edit
<1>2. /\ configured' \in [Subjects -> SUBSET Gates]
      /\ g \in configured'[s]
      /\ \A x \in Subjects : configured[x] \subseteq configured'[x]
  BY <1>1 DEF Edit, IInv, BookInv
<1>3. TableInv' /\ ThreadInv'
  BY <1>2, ChoicesGrow DEF Edit
<1>4. ServerInv'
  <2>1. sessions' \in [Users -> SUBSET SessionNames]
    BY DEF Edit, SetGate, WithoutHub, IInv, ServerInv
  <2>2. /\ gate' \in [Subjects -> Gates \cup {None}]
        /\ \A x \in Subjects : gate'[x] = gate[x] \/ (x = s /\ gate'[x] = g)
    BY <1>1 DEF Edit, SetGate, IInv, ServerInv
  <2>3. NeverInventsAccess'
    BY <1>2, <2>2 DEF NeverInventsAccess, Known, IInv, ServerInv
  <2> QED BY <2>1, <2>2, <2>3 DEF ServerInv, Edit, IInv
<1>5. BookInv'
  BY <1>2, SpendKeepsCount DEF Edit, IInv, BookInv, Kinds
<1> QED BY <1>3, <1>4, <1>5 DEF IInv

LEMMA RecreateStep ==
  ASSUME IInv, NEW s \in Subjects, NEW g, Recreate(s, g)
  PROVE  IInv'
<1>1. g \in Gates
  BY ChosenGatesAreGates DEF Recreate
<1>2. /\ configured' \in [Subjects -> SUBSET Gates]
      /\ g \in configured'[s]
      /\ \A x \in Subjects : configured[x] \subseteq configured'[x]
  BY <1>1 DEF Recreate, IInv, BookInv
<1>3. TableInv' /\ ThreadInv'
  BY <1>2, ChoicesGrow DEF Recreate
<1>4. ServerInv'
  <2>1. sessions' \in [Users -> SUBSET SessionNames]
    BY DEF Recreate, IInv, ServerInv
  <2>2. /\ gate' \in [Subjects -> Gates \cup {None}]
        /\ \A x \in Subjects : \/ gate'[x] = gate[x] \/ gate'[x] = None
                               \/ x = s /\ gate'[x] = g
    BY <1>1 DEF Recreate, IInv, ServerInv
  <2>3. NeverInventsAccess'
    BY <1>2, <2>2 DEF NeverInventsAccess, Known, IInv, ServerInv
  <2>4. counter' \in [Subjects -> Bytes]
    BY DEF Recreate, IInv, ServerInv, Zero, Bytes
  <2> QED BY <2>1, <2>2, <2>3, <2>4 DEF ServerInv
<1>5. BookInv'
  BY <1>2, SpendKeepsCount DEF Recreate, IInv, BookInv, Kinds
<1> QED BY <1>3, <1>4, <1>5 DEF IInv

LEMMA CreateStep ==
  ASSUME IInv, NEW s \in Subjects, NEW g, Create(s, g)
  PROVE  IInv'
<1>1. g \in Gates
  BY ChosenGatesAreGates DEF Create
<1>2. /\ configured' \in [Subjects -> SUBSET Gates]
      /\ g \in configured'[s]
      /\ \A x \in Subjects : configured[x] \subseteq configured'[x]
  BY <1>1 DEF Create, IInv, BookInv
<1>3. TableInv' /\ ThreadInv'
  BY <1>2, ChoicesGrow DEF Create
<1>4. ServerInv'
  <2>1. /\ gate' \in [Subjects -> Gates \cup {None}]
        /\ \A x \in Subjects : gate'[x] = gate[x] \/ (x = s /\ gate'[x] = g)
    BY <1>1 DEF Create, IInv, ServerInv
  <2>2. NeverInventsAccess'
    BY <1>2, <2>1 DEF NeverInventsAccess, Known, IInv, ServerInv
  <2> QED BY <2>1, <2>2 DEF ServerInv, Create, IInv
<1>5. BookInv'
  BY <1>2 DEF Create, IInv, BookInv
<1> QED BY <1>3, <1>4, <1>5 DEF IInv

LEMMA ToggleStep ==
  ASSUME IInv, Toggle
  PROVE  IInv'
<1>1. TableInv'
  BY DEF Toggle, IInv, TableInv, RowSound, Known, history
<1>2. ServerInv' /\ BookInv'
  BY ServerUntouched, SpendKeepsCount, BookKept DEF Toggle, IInv, Kinds, history
<1>3. ThreadInv'
  BY DEF Toggle, IInv, ThreadInv, LocalSound, RowSound, Known, history
<1> QED BY <1>1, <1>2, <1>3 DEF IInv

LEMMA CrashStep ==
  ASSUME IInv, Crash
  PROVE  IInv'
<1>1. TableInv' /\ ServerInv'
  BY TableUntouched, ServerUntouched DEF Crash, IInv, history
<1>2. ThreadInv'
  <2>1. "idle" \in Labels /\ LocalSound("idle", Rest)
    BY RestIsSound DEF Labels, OnARow, OnSubject
  <2>2. LocalSound("idle", Rest)'
    BY <2>1 DEF LocalSound, RowSound, Known, Crash, history
  <2>3. /\ pc' \in [Threads -> Labels] /\ local' \in [Threads -> Local]
        /\ \A t \in Threads : pc'[t] = "idle" /\ local'[t] = Rest
    BY <2>1, RestIsSound DEF Crash
  <2> QED BY <2>2, <2>3 DEF ThreadInv
<1>3. BookInv'
  BY SpendKeepsCount, BookKept DEF Crash, IInv, Kinds
<1> QED BY <1>1, <1>2, <1>3 DEF IInv

-----------------------------------------------------------------------------
(* The invariant holds initially and is kept by every step *)

LEMMA InitEstablishes ==
  Init => IInv
<1> SUFFICES ASSUME Init PROVE IInv
  OBVIOUS
<1>1. TableInv
  BY NoneAssumption DEF Init, TableInv
<1>2. ServerInv
  <2>1. gate \in [Subjects -> Gates \cup {None}]
    BY SubjectsAssumption DEF Init
  <2>2. counter \in [Subjects -> Bytes]
    BY DEF Init, Zero, Bytes
  <2>3. NeverInventsAccess
    BY DEF Init, NeverInventsAccess, Known
  <2> QED BY <2>1, <2>2, <2>3 DEF Init, ServerInv
<1>3. ThreadInv
  <2>1. "idle" \in Labels /\ LocalSound("idle", Rest) /\ Rest \in Local
    BY RestIsSound DEF Labels, OnARow, OnSubject
  <2> QED BY <2>1 DEF Init, ThreadInv
<1>4. BookInv
  BY SubjectsAssumption DEF Init, BookInv
<1> QED BY <1>1, <1>2, <1>3, <1>4 DEF IInv

LEMMA RequestStep ==
  ASSUME IInv, NEW t \in Threads, Request(t)
  PROVE  IInv'
<1>1. PICK s \in Watched :
        \/ \E c \in Ceilings, isEnabled \in BOOLEAN : Save(t, s, c[1], c[2], isEnabled)
        \/ Switch(t, s) \/ Reset(t, s) \/ Delete(t, s) \/ View(t, s) \/ Remove(t, s)
  BY DEF Request
<1>2. s \in Subjects
  BY SubjectsAssumption
<1>3. ASSUME NEW c \in Ceilings, NEW isEnabled \in BOOLEAN, Save(t, s, c[1], c[2], isEnabled)
      PROVE  IInv'
  <2>1. c[1] \in Nat /\ c[2] \in Metrics
    BY BoundsAssumption
  <2> QED BY <1>2, <1>3, <2>1, SaveStep
<1> QED BY <1>1, <1>2, <1>3, SwitchStep, ResetStep, DeleteStep, ViewStep, RemoveStep

LEMMA ContinueStep ==
  ASSUME IInv, NEW t \in Threads, Continue(t)
  PROVE  IInv'
BY SwitchWriteStep, RefreshStep, ObserveStep, ObserveWriteStep, EnforceStep,
   ReleaseGetStep, ReleaseSetStep, ReleaseWriteStep,
   BlockGetStep, BlockSetStep, BlockEnumStep, BlockCutStep, BlockWriteStep,
   PickStep, PassDoneStep, ResetSaveStep, ResetRowStep, ResetAskStep, ResetWriteStep,
   DeleteWriteStep, ForgetStep, AskCountersStep, FeedStep
DEF Continue

LEMMA WorldStep ==
  ASSUME IInv, World
  PROVE  IInv'
<1>1. CASE \E u \in Users : \/ \E n \in SessionNames : Login(u, n) \/ Logout(u, n)
                            \/ \E d \in Dirs : Traffic(u, d)
  BY <1>1, SessionStep, TrafficStep
<1>2. CASE \E s \in Subjects, g \in OperatorGates : Edit(s, g) \/ Recreate(s, g) \/ Create(s, g)
  BY <1>2, EditStep, RecreateStep, CreateStep
<1>3. CASE Toggle \/ Crash
  BY <1>3, ToggleStep, CrashStep
<1> QED BY <1>1, <1>2, <1>3 DEF World

LEMMA StepKeeps ==
  IInv /\ [Next]_vars => IInv'
<1> SUFFICES ASSUME IInv, [Next]_vars PROVE IInv'
  OBVIOUS
<1>1. Sampler \in Threads /\ Handlers \subseteq Threads
  BY DEF Threads
<1>2. CASE \E t \in Handlers : Request(t)
  BY <1>1, <1>2, RequestStep
<1>3. CASE Tick(Sampler) \/ SampleTraffic(Sampler)
  BY <1>1, <1>3, TickStep, SampleTrafficStep
<1>4. CASE \E t \in Threads : Continue(t)
  BY <1>4, ContinueStep
<1>5. CASE World
  BY <1>5, WorldStep
<1>6. CASE UNCHANGED vars
  <2>1. TableInv' /\ ServerInv'
    BY <1>6, TableUntouched, ServerUntouched DEF vars, IInv, history
  <2>2. ThreadInv' /\ BookInv'
    BY <1>6, ChoicesGrow DEF vars, IInv, history, BookInv
  <2> QED BY <2>1, <2>2 DEF IInv
<1> QED BY <1>2, <1>3, <1>4, <1>5, <1>6 DEF Next

\* Whatever overlaps, fails or crashes, the invariant of this module holds.
THEOREM Invariance ==
  Spec => []IInv
<1>1. Init => IInv
  BY InitEstablishes
<1>2. IInv /\ [Next]_vars => IInv'
  BY StepKeeps
<1> QED BY <1>1, <1>2, PTL DEF Spec

-----------------------------------------------------------------------------
(* What follows *)

\* The table, the server and the threads only ever hold what they may hold: a
\* step of observe, block or release finds in hand what an earlier step left.
THEOREM TypeCorrect ==
  Spec => []TypeOK
<1>1. IInv => TypeOK
  BY DEF IInv, TableInv, ServerInv, ThreadInv, BookInv, TypeOK
<1> QED BY <1>1, Invariance, PTL

\* observe stores a baseline and a reading computed from a row read earlier,
\* by row id: still, no overlap of passes, resets and recreations leaves a row
\* whose baseline lies above its cached counter.
THEOREM BaselineNeverAbove ==
  Spec => []BaseNeverAboveLast
<1>1. IInv => BaseNeverAboveLast
  BY NoneAssumption DEF IInv, TableInv, BaseNeverAboveLast
<1> QED BY <1>1, Invariance, PTL

\* block and release only ever put a subject into the denial or into a state an
\* operator gave this subject.
THEOREM AccessNeverInvented ==
  Spec => []NeverInventsAccess
<1>1. IInv => NeverInventsAccess
  BY DEF IInv, ServerInv
<1> QED BY <1>1, Invariance, PTL

\* A blocked row has something to put back, a row that is not blocked has
\* nothing: whatever ids, retries and crashes came between.
THEOREM BlocksRemember ==
  Spec => []BlockRemembersRestore
<1>1. IInv => BlockRemembersRestore
  <2> SUFFICES ASSUME IInv, NEW s \in Subjects, row[s] # None
               PROVE  IF row[s].enforced THEN row[s].restore \in Known(s)
                                         ELSE row[s].restore = None
    BY DEF BlockRemembersRestore
  <2>1. row[s] \in Row /\ row[s].subj = s /\ RowSound(row[s])
    BY DEF IInv, TableInv
  <2> QED BY <2>1 DEF RowSound
<1> QED BY <1>1, Invariance, PTL

-----------------------------------------------------------------------------
(* Who marks a row blocked *)

\* This step marks the row of s blocked.
Marked(s) == row'[s] # None /\ row'[s].enforced /\ ~(row[s] # None /\ row[s].enforced)

\* Only the last step of a block does, on the row it is about.
LEMMA UpsertMarksNothing ==
  ASSUME TableInv, NEW s \in Subjects, NEW x \in Subjects, NEW limit, NEW metric,
         NEW isEnabled, Upsert(x, limit, metric, isEnabled)
  PROVE  ~Marked(s)
<1>1. CASE s # x
  BY <1>1 DEF Upsert, Marked, TableInv
<1>2. CASE s = x /\ row[x] = None
  <2>1. ~row'[s].enforced
    BY <1>2 DEF Upsert, TableInv
  <2> QED BY <2>1 DEF Marked
<1>3. CASE s = x /\ row[x] # None
  <2>1. row[x] \in Row
    BY <1>3 DEF TableInv
  <2>2. row'[s].enforced = row[s].enforced
    BY <1>3, <2>1 DEF Upsert, TableInv, Row
  <2> QED BY <1>3, <2>2 DEF Marked
<1> QED BY <1>1, <1>2, <1>3

\* A step that replaces the row in hand by one no more blocked than it was.
LEMMA RewriteMarksNothing ==
  ASSUME TableInv, NEW s \in Subjects, NEW r, r.subj \in Subjects, NEW new,
         StillThere(r) /\ new # None /\ new.enforced => row[r.subj].enforced,
         row' = (IF StillThere(r) THEN [row EXCEPT ![r.subj] = new] ELSE row)
  PROVE  ~Marked(s)
BY DEF Marked, TableInv, StillThere

LEMMA OnlyBlockWriteMarks ==
  ASSUME IInv, NEW t \in Threads, Continue(t), NEW s \in Subjects, Marked(s)
  PROVE  BlockWrite(t) /\ s = local[t].row.subj /\ StillThere(local[t].row)
<1> DEFINE r == local[t].row
<1> USE DEF IInv
<1>0. pc[t] \in OnARow => r.subj \in Subjects
  BY RowAtHand
<1>1. ~UNCHANGED row
  BY DEF Marked
<1>2. ASSUME NEW isEnabled \in BOOLEAN, SwitchWrite(t, isEnabled) PROVE FALSE
  <2> DEFINE new == [row[r.subj] EXCEPT !.isEnabled = isEnabled]
  <2>1. r.subj \in Subjects
    BY <1>0, <1>2 DEF SwitchWrite, At, OnARow
  <2>2. StillThere(r) => row[r.subj] \in Row
    BY <2>1, StillThereIsRow
  <2>3. StillThere(r) /\ new.enforced => row[r.subj].enforced
    BY <2>2 DEF Row
  <2>4. row' = IF StillThere(r) THEN [row EXCEPT ![r.subj] = new] ELSE row
    BY <1>2, <2>1 DEF SwitchWrite, TableInv
  <2> QED BY <2>1, <2>3, <2>4, RewriteMarksNothing
<1>3. ASSUME ReleaseWrite(t) PROVE FALSE
  <2> DEFINE new == [row[r.subj] EXCEPT !.enforced = FALSE, !.restore = None]
  <2>1. r.subj \in Subjects
    BY <1>0, <1>3 DEF ReleaseWrite, At, OnARow
  <2>2. StillThere(r) => row[r.subj] \in Row
    BY <2>1, StillThereIsRow
  <2>3. StillThere(r) => ~new.enforced
    BY <2>2 DEF Row
  <2>4. row' = IF StillThere(r) THEN [row EXCEPT ![r.subj] = new] ELSE row
    BY <1>3, <2>1 DEF ReleaseWrite, TableInv
  <2> QED BY <2>1, <2>3, <2>4, RewriteMarksNothing
<1>4. ASSUME ResetWrite(t) PROVE FALSE
  <2>1. r.subj \in Subjects
    BY <1>0, <1>4 DEF ResetWrite, At, OnARow
  <2>2. StillThere(r) => row[r.subj] \in Row
    BY <2>1, StillThereIsRow
  <2>3. PICK g \in local[t].readings :
          row' = IF StillThere(r)
                 THEN [row EXCEPT ![r.subj] = [@ EXCEPT !.base = g.bytes, !.last = g.bytes,
                                                       !.exceeded = FALSE]]
                 ELSE row
    BY <1>4 DEF ResetWrite
  <2> DEFINE new == [row[r.subj] EXCEPT !.base = g.bytes, !.last = g.bytes,
                                        !.exceeded = FALSE]
  <2>4. StillThere(r) /\ new.enforced => row[r.subj].enforced
    BY <2>2 DEF Row
  <2>5. row' = IF StillThere(r) THEN [row EXCEPT ![r.subj] = new] ELSE row
    BY <2>1, <2>3 DEF TableInv
  <2> QED BY <2>1, <2>4, <2>5, RewriteMarksNothing
<1>5. ASSUME DeleteWrite(t) PROVE FALSE
  <2>1. r.subj \in Subjects
    BY <1>0, <1>5 DEF DeleteWrite, At, OnARow
  <2> DEFINE new == IF HasBaseline(r) THEN [row[r.subj] EXCEPT !.limit = 0, !.exceeded = FALSE]
                                      ELSE None
  <2>2. StillThere(r) => row[r.subj] \in Row
    BY <2>1, StillThereIsRow
  <2>3. StillThere(r) /\ new # None /\ new.enforced => row[r.subj].enforced
    BY <2>2 DEF Row
  <2>4. row' = IF StillThere(r) THEN [row EXCEPT ![r.subj] = new] ELSE row
    BY <1>5, <2>1 DEF DeleteWrite, TableInv
  <2> HIDE DEF new
  <2> QED BY <2>1, <2>3, <2>4, RewriteMarksNothing
<1>6. ASSUME Pick(t) PROVE FALSE
  <2>1. PICK p \in local[t].todo : PickKeep(t, p)
    BY <1>1, <1>6 DEF Pick, PickBlock, PickRelease
  <2>2. p.subj \in Subjects
    BY ThreadFacts DEF Local, Row
  <2>3. StillThere(p) /\ row' = [row EXCEPT ![p.subj].exceeded = TRUE]
    BY <1>1, <2>1 DEF PickKeep
  <2>4. row[p.subj] \in Row
    BY <2>2, <2>3, StillThereIsRow
  <2> DEFINE new == [row[p.subj] EXCEPT !.exceeded = TRUE]
  <2>5. StillThere(p) /\ new.enforced => row[p.subj].enforced
    BY <2>4 DEF Row
  <2>6. row' = IF StillThere(p) THEN [row EXCEPT ![p.subj] = new] ELSE row
    BY <2>3
  <2> QED BY <2>2, <2>5, <2>6, RewriteMarksNothing
<1>7. ASSUME ObserveWrite(t) PROVE FALSE
  <2>1. CASE UpdateOf(t, s) = {}
    BY <1>7, <2>1 DEF ObserveWrite, Marked
  <2>2. CASE UpdateOf(t, s) # {}
    <3>1. PICK u \in UpdateOf(t, s) :
             row'[s] = [row[s] EXCEPT !.base = u.base, !.last = u.last]
      BY <1>7, <2>2 DEF ObserveWrite
    <3>2. row[s] \in Row
      BY StillThereIsRow DEF UpdateOf
    <3> QED BY <3>1, <3>2, NoneAssumption DEF Marked, Row
  <2> QED BY <2>1, <2>2
<1>8. ASSUME ResetSave(t) PROVE FALSE
  <2>1. local[t].subj \in Subjects
    BY <1>8, SubjectAtHand DEF ResetSave, At, OnSubject
  <2> QED BY <1>8, <2>1, UpsertMarksNothing DEF ResetSave
<1>9. ~Forget(t)
  BY DEF Forget, Marked
<1>10. BlockWrite(t)
  BY <1>1, <1>2, <1>3, <1>4, <1>5, <1>6, <1>7, <1>8, <1>9
  DEF Continue, Refresh, Observe, Enforce, ReleaseGet, ReleaseSet, BlockGet, BlockSet,
      BlockEnum, BlockCut, PassDone, ResetRow, ResetAsk, AskCounters, Feed, table
<1>11. r.subj \in Subjects
  BY <1>0, <1>10 DEF BlockWrite, At, OnARow
<1> QED BY <1>1, <1>10, <1>11 DEF BlockWrite, Marked, TableInv

LEMMA OthersMarkNothing ==
  ASSUME IInv, NEW s \in Subjects,
         \/ \E t \in Handlers : Request(t)
         \/ Tick(Sampler) \/ SampleTraffic(Sampler)
         \/ World
         \/ UNCHANGED vars
  PROVE  ~Marked(s)
<1>1. ASSUME NEW t \in Handlers, NEW x \in Watched, NEW c \in Ceilings,
             NEW isEnabled \in BOOLEAN, Save(t, x, c[1], c[2], isEnabled)
      PROVE  ~Marked(s)
  BY <1>1, UpsertMarksNothing, SubjectsAssumption DEF Save, IInv
<1>2. ASSUME UNCHANGED row PROVE ~Marked(s)
  BY <1>2 DEF Marked
<1> QED
  BY <1>1, <1>2
  DEF Request, Switch, Reset, Delete, View, Remove, Tick, SampleTraffic, World, Login,
      Logout, Traffic, Edit, Recreate, Create, Toggle, Crash, vars, table

\* A record is marked blocked only by a thread that holds a copy of this very
\* record, over its limit: no overlap marks a record that replaced it.
THEOREM MarkedRowWasSeenOver ==
  Spec => MarksOnlyWhatItSawOver
<1> DEFINE Seen == \A s \in Subjects : Marked(s) =>
                     \E t \in Threads : /\ local[t].row # None
                                        /\ local[t].row.id = row'[s].id
                                        /\ IsOver(local[t].row)
<1>1. IInv /\ [Next]_vars => Seen
  <2> SUFFICES ASSUME IInv, [Next]_vars, NEW s \in Subjects, Marked(s)
               PROVE  \E t \in Threads : /\ local[t].row # None
                                         /\ local[t].row.id = row'[s].id
                                         /\ IsOver(local[t].row)
    OBVIOUS
  <2>1. PICK t \in Threads : Continue(t)
    BY OthersMarkNothing DEF Next
  <2> DEFINE r == local[t].row
  <2>2. BlockWrite(t) /\ s = r.subj /\ StillThere(r)
    BY <2>1, OnlyBlockWriteMarks
  <2>3. r \in Row /\ IsOver(r)
    BY <2>2, ThreadFacts DEF IInv, BlockWrite, At, LocalSound, OnARow, Blocking
  <2>4. row[s] \in Row /\ row[s].id = r.id
    BY <2>2, StillThereIsRow DEF IInv, StillThere
  <2>5. row'[s].id = r.id
    BY <2>2, <2>4 DEF BlockWrite, IInv, TableInv, Row
  <2> QED BY <2>3, <2>5, NoneAssumption
<1>2. Spec => [][Seen]_vars
  BY <1>1, Invariance, PTL DEF Spec
<1> QED BY <1>2 DEF MarksOnlyWhatItSawOver, Marked

-----------------------------------------------------------------------------
(* Every piece of work ends *)

\* A thread is among the rows of a pass.
Passing(place, l) ==
  place \in Blocking \cup {"pick"} \/ (place \in Releasing /\ l.back = "pick")

\* The stages of a piece of work still ahead of a place, at most: what a request
\* does before it settles, a refresh or a reading of all counters, the pass.
Stage(place, l) ==
  CASE place = "reset_save"                                      -> 10
    [] place = "reset_row"                                       -> 9
    [] place = "reset_ask"                                       -> 8
    [] place \in Releasing /\ l.back = "reset_write"             -> 7
    [] place \in {"reset_write", "switch_write", "ask"}          -> 6
    [] place \in {"refresh", "feed"}                             -> 5
    [] place = "observe"                                         -> 4
    [] place = "observe_write"                                   -> 3
    [] place = "enforce"                                         -> 2
    [] place \in Releasing /\ l.back = "delete_write"            -> 2
    [] place = "idle"                                            -> 0
    [] OTHER                                                     -> 1

\* What a stage has still to go through: hubs to ask, rows to look at.
Items(place, l) ==
  CASE place = "ask"      -> Cardinality(l.ask)
    [] Passing(place, l)  -> Cardinality(l.todo)
    [] OTHER              -> 0

\* The calls and the statement left of a block or a release, at most.
Calls(place, l) ==
  CASE place = "block_get"     -> Cardinality(SessionNames) + 4
    [] place = "block_set"     -> Cardinality(SessionNames) + 3
    [] place = "block_enum"    -> Cardinality(SessionNames) + 2
    [] place = "block_cut"     -> Cardinality(l.cut) + 1
    [] place = "block_write"   -> 1
    [] place = "release_get"   -> 3
    [] place = "release_set"   -> 2
    [] place = "release_write" -> 1
    [] OTHER                   -> 0

\* Place p with l is nearer the end than place q with k.
Nearer(p, l, q, k) ==
  \/ Stage(p, l) < Stage(q, k)
  \/ Stage(p, l) = Stage(q, k) /\ Items(p, l) < Items(q, k)
  \/ Stage(p, l) = Stage(q, k) /\ Items(p, l) = Items(q, k) /\ Calls(p, l) < Calls(q, k)

\* No place is further from it than this.
Measured(t) ==
  /\ Stage(pc[t], local[t]) \in 0 .. 10
  /\ Items(pc[t], local[t]) \in 0 .. 2 * Cardinality(Hubs) + Cardinality(Subjects)
  /\ Calls(pc[t], local[t]) \in 0 .. Cardinality(SessionNames) + 4

\* A thread that has begun comes nearer its end with every step of its own,
\* and no step of another thread or of the world, short of a crash, moves it.
WorkCloses ==
  [][\A t \in Threads : ~At(t, "idle") =>
       /\ Continue(t) => Nearer(pc'[t], local'[t], pc[t], local[t])
       /\ ~Continue(t) => UNCHANGED <<pc[t], local[t]>> \/ pc'[t] = "idle"]_vars

LEMMA Stages ==
  ASSUME NEW l
  PROVE  /\ Stage("reset_save", l) = 10 /\ Stage("reset_row", l) = 9
         /\ Stage("reset_ask", l) = 8
         /\ Stage("reset_write", l) = 6 /\ Stage("switch_write", l) = 6 /\ Stage("ask", l) = 6
         /\ Stage("refresh", l) = 5 /\ Stage("feed", l) = 5
         /\ Stage("observe", l) = 4 /\ Stage("observe_write", l) = 3
         /\ Stage("enforce", l) = 2 /\ Stage("idle", l) = 0
         /\ Stage("pick", l) = 1 /\ Stage("delete_write", l) = 1 /\ Stage("forget", l) = 1
         /\ \A place \in Blocking : Stage(place, l) = 1
         /\ \A place \in Releasing :
              Stage(place, l) = CASE l.back = "reset_write"  -> 7
                                  [] l.back = "delete_write" -> 2
                                  [] OTHER                   -> 1
BY DEF Stage, Releasing, Blocking

LEMMA StageTyped ==
  ASSUME NEW place \in Labels, NEW l
  PROVE  /\ Stage(place, l) \in 0 .. 10
         /\ place # "idle" => Stage(place, l) > 0
<1>1. /\ Stage(place, l) \in {0, 1, 2, 3, 4, 5, 6, 7, 8, 9, 10}
      /\ place # "idle" => Stage(place, l) # 0
  BY DEF Stage
<1> QED BY <1>1

LEMMA Going ==
  ASSUME ThreadInv, NEW t \in Threads, NEW label, NEW l, Goto(t, label, l)
  PROVE  /\ pc'[t] = label /\ local'[t] = l
         /\ \A o \in Threads \ {t} : pc'[o] = pc[o] /\ local'[o] = local[o]
BY DEF ThreadInv, Goto

\* The end is nearer than anything else.
LEMMA EndIsNearer ==
  ASSUME ThreadInv, NEW t \in Threads, ~At(t, "idle"), Finish(t)
  PROVE  Nearer(pc'[t], local'[t], pc[t], local[t])
<1>1. pc'[t] = "idle" /\ pc[t] \in Labels /\ pc[t] # "idle"
  BY Going DEF Finish, At, ThreadInv
<1>2. Stage(pc'[t], local'[t]) = 0 /\ Stage(pc[t], local[t]) \in 0 .. 10
      /\ Stage(pc[t], local[t]) > 0
  BY <1>1, Stages, StageTyped
<1> QED BY <1>2 DEF Nearer

LEMMA StageEnds ==
  ASSUME ThreadInv, NEW t \in Threads, NEW label, NEW l, Goto(t, label, l),
         Stage(label, l) < Stage(pc[t], local[t])
  PROVE  Nearer(pc'[t], local'[t], pc[t], local[t])
BY Going DEF Nearer

LEMMA RefreshedIsNearer ==
  ASSUME ThreadInv, NEW t \in Threads, NEW l, AfterRefresh(t, l),
         pc[t] \in {"refresh", "observe", "observe_write"}
  PROVE  Nearer(pc'[t], local'[t], pc[t], local[t])
<1>1. CASE l.job = "view"
  BY <1>1, EndIsNearer DEF AfterRefresh, At
<1>2. CASE l.job # "view"
  <2>1. Goto(t, "enforce", l) /\ Stage("enforce", l) = 2
    BY <1>2, Stages DEF AfterRefresh
  <2>2. Stage(pc[t], local[t]) \in {3, 4, 5}
    BY Stages
  <2> QED BY <2>1, <2>2, StageEnds
<1> QED BY <1>1, <1>2

-----------------------------------------------------------------------------
(* Every step of a thread brings its end nearer *)

LEMMA SettlingIsNearer ==
  ASSUME ThreadInv, NEW t \in Threads,
         \/ \E isEnabled \in BOOLEAN : SwitchWrite(t, isEnabled)
         \/ Refresh(t) \/ Observe(t) \/ ObserveWrite(t) \/ Enforce(t) \/ Feed(t)
  PROVE  Nearer(pc'[t], local'[t], pc[t], local[t])
<1>1. ASSUME NEW isEnabled \in BOOLEAN, SwitchWrite(t, isEnabled)
      PROVE  Nearer(pc'[t], local'[t], pc[t], local[t])
  BY <1>1, Stages, StageEnds DEF SwitchWrite, At
<1>2. CASE Refresh(t)
  BY <1>2, Stages, StageEnds, RefreshedIsNearer DEF Refresh, At
<1>3. CASE Observe(t)
  BY <1>3, Stages, StageEnds, RefreshedIsNearer DEF Observe, At
<1>4. CASE ObserveWrite(t)
  BY <1>4, RefreshedIsNearer DEF ObserveWrite, At
<1>5. CASE Enforce(t)
  BY <1>5, Stages, StageEnds DEF Enforce, At
<1>6. CASE Feed(t)
  BY <1>6, Stages, StageEnds, EndIsNearer DEF Feed, At
<1> QED BY <1>1, <1>2, <1>3, <1>4, <1>5, <1>6

LEMMA ResetIsNearer ==
  ASSUME ThreadInv, NEW t \in Threads,
         \/ ResetSave(t) \/ ResetRow(t) \/ ResetAsk(t) \/ ResetWrite(t)
         \/ DeleteWrite(t) \/ Forget(t) \/ PassDone(t)
  PROVE  Nearer(pc'[t], local'[t], pc[t], local[t])
<1>1. CASE ResetSave(t)
  BY <1>1, Stages, StageEnds DEF ResetSave, At
<1>2. CASE ResetRow(t)
  BY <1>2, Stages, StageEnds, EndIsNearer DEF ResetRow, At
<1>3. CASE ResetAsk(t)
  <2>1. PICK b : Release(t, [local[t] EXCEPT !.readings =
                              {[subj |-> local[t].row.subj, bytes |-> b]}], "reset_write")
    BY <1>3 DEF ResetAsk
  <2> DEFINE m == [local[t] EXCEPT !.readings =
                              {[subj |-> local[t].row.subj, bytes |-> b]}]
             l == [m EXCEPT !.back = "reset_write"]
             label == ReleaseLabel(m.row, "reset_write")
  <2>2. Goto(t, label, l) /\ l.back = "reset_write"
    BY <2>1 DEF Release, ThreadInv, Local
  <2>3. label = "reset_write" \/ label \in Releasing
    BY DEF ReleaseLabel, Releasing
  <2> HIDE DEF l, label
  <2>4. Stage(label, l) \in {6, 7}
    BY <2>2, <2>3, Stages
  <2>5. Stage(pc[t], local[t]) = 8
    BY <1>3, Stages DEF ResetAsk, At
  <2>6. Stage(label, l) < Stage(pc[t], local[t])
    BY <2>4, <2>5
  <2> QED BY <2>2, <2>6, StageEnds
<1>4. CASE ResetWrite(t)
  <2>1. PICK l : Goto(t, "refresh", l)
    BY <1>4 DEF ResetWrite
  <2>2. Stage("refresh", l) = 5 /\ Stage(pc[t], local[t]) = 6
    BY <1>4, Stages DEF ResetWrite, At
  <2> QED BY <2>1, <2>2, StageEnds
<1>5. CASE DeleteWrite(t) \/ Forget(t) \/ PassDone(t)
  BY <1>5, EndIsNearer DEF DeleteWrite, Forget, PassDone, At
<1> QED BY <1>1, <1>2, <1>3, <1>4, <1>5

\* Within a stage, one item or one call less.
LEMMA ItemDone ==
  ASSUME ThreadInv, NEW t \in Threads, NEW label, NEW l, Goto(t, label, l),
         Stage(label, l) = Stage(pc[t], local[t]),
         Items(label, l) < Items(pc[t], local[t])
  PROVE  Nearer(pc'[t], local'[t], pc[t], local[t])
BY Going DEF Nearer

LEMMA CallDone ==
  ASSUME ThreadInv, NEW t \in Threads, NEW label, NEW l, Goto(t, label, l),
         Stage(label, l) = Stage(pc[t], local[t]),
         Items(label, l) = Items(pc[t], local[t]),
         Calls(label, l) < Calls(pc[t], local[t])
  PROVE  Nearer(pc'[t], local'[t], pc[t], local[t])
BY Going DEF Nearer

\* A block goes on within its pass.
LEMMA BlockGoesNearer ==
  ASSUME ThreadInv, NEW t \in Threads, NEW label \in Blocking \cup {"pick"}, NEW l,
         Goto(t, label, l), l.todo = local[t].todo, pc[t] \in Blocking,
         Calls(label, l) < Calls(pc[t], local[t])
  PROVE  Nearer(pc'[t], local'[t], pc[t], local[t])
<1>1. Stage(label, l) = 1 /\ Stage(pc[t], local[t]) = 1
  BY Stages
<1>2. Items(label, l) = Items(pc[t], local[t])
  BY DEF Items, Passing, Blocking
<1> QED BY <1>1, <1>2, CallDone

LEMMA BlockIsNearer ==
  ASSUME ThreadInv, ServerInv, IsFiniteSet(SessionNames), NEW t \in Threads,
         \/ BlockGet(t) \/ BlockSet(t) \/ BlockEnum(t) \/ BlockWrite(t)
         \/ \E n \in SessionNames : BlockCut(t, n)
  PROVE  Nearer(pc'[t], local'[t], pc[t], local[t])
<1>0. /\ local[t] \in Local /\ LocalSound(pc[t], local[t])
      /\ Cardinality(SessionNames) \in Nat
      /\ \A names \in SUBSET SessionNames :
           /\ IsFiniteSet(names) /\ Cardinality(names) \in Nat
           /\ Cardinality(names) <= Cardinality(SessionNames)
  BY ThreadFacts, FS_Subset, FS_CardinalityType
<1>1. ASSUME GiveUp(t), pc[t] \in Blocking
      PROVE  Nearer(pc'[t], local'[t], pc[t], local[t])
  <2> DEFINE l == [local[t] EXCEPT !.row = None, !.found = None]
  <2>1. Goto(t, "pick", l) /\ l.todo = local[t].todo
    BY <1>0, <1>1 DEF GiveUp, Local
  <2>2. Cardinality(local[t].cut) \in Nat
    BY <1>0 DEF Local
  <2>3. Calls("pick", l) = 0 /\ Calls(pc[t], local[t]) > 0
    BY <1>0, <1>1, <2>2 DEF Calls, Blocking
  <2> HIDE DEF l
  <2> QED BY <1>1, <2>1, <2>3, BlockGoesNearer
<1>2. CASE BlockGet(t)
  <2> DEFINE l == [local[t] EXCEPT !.found = gate[local[t].row.subj]]
  <2>1. pc[t] = "block_get" /\ pc[t] \in Blocking /\ "block_set" \in Blocking
    BY <1>2 DEF BlockGet, At, Blocking
  <2>2. GiveUp(t) \/ Goto(t, "block_set", l)
    BY <1>2 DEF BlockGet
  <2>3. l.todo = local[t].todo
    BY <1>0 DEF Local
  <2>4. Calls("block_set", l) < Calls(pc[t], local[t])
    BY <1>0, <2>1 DEF Calls
  <2> HIDE DEF l
  <2> QED BY <1>1, <2>1, <2>2, <2>3, <2>4, BlockGoesNearer
<1>3. CASE BlockSet(t)
  <2>1. pc[t] = "block_set" /\ pc[t] \in Blocking
    BY <1>3 DEF BlockSet, At, Blocking
  <2>2. PICK label \in {"block_enum", "block_write"} : GiveUp(t) \/ Goto(t, label, local[t])
    BY <1>3 DEF BlockSet
  <2>3. Calls(label, local[t]) < Calls(pc[t], local[t]) /\ label \in Blocking
    BY <1>0, <2>1, <2>2 DEF Calls, Blocking
  <2> QED BY <1>1, <2>1, <2>2, <2>3, BlockGoesNearer
<1>4. CASE BlockEnum(t)
  <2> DEFINE u == local[t].row.subj
             l == [local[t] EXCEPT !.cut = sessions[u]]
  <2>1. pc[t] = "block_enum" /\ pc[t] \in Blocking /\ u \in Users
    BY <1>0, <1>4 DEF BlockEnum, At, Blocking, LocalSound
  <2>2. PICK label \in {"block_write", "block_cut"} : GiveUp(t) \/ Goto(t, label, l)
    BY <1>4 DEF BlockEnum
  <2>3. l.todo = local[t].todo /\ l.cut = sessions[u] /\ sessions[u] \in SUBSET SessionNames
    BY <1>0, <2>1 DEF Local, ServerInv
  <2>4. Calls(label, l) < Calls(pc[t], local[t]) /\ label \in Blocking
    <3> HIDE DEF l, u
    <3>1. Cardinality(l.cut) \in Nat /\ Cardinality(l.cut) <= Cardinality(SessionNames)
      BY <1>0, <2>3
    <3> QED BY <1>0, <2>1, <2>2, <3>1 DEF Calls, Blocking
  <2> HIDE DEF l, u
  <2> QED BY <1>1, <2>1, <2>2, <2>3, <2>4, BlockGoesNearer
<1>5. CASE BlockWrite(t)
  BY <1>1, <1>5 DEF BlockWrite, At, Blocking
<1>6. ASSUME NEW n \in SessionNames, BlockCut(t, n)
      PROVE  Nearer(pc'[t], local'[t], pc[t], local[t])
  <2> DEFINE left == local[t].cut \ {n}
             l == [local[t] EXCEPT !.cut = left]
  <2>1. pc[t] = "block_cut" /\ pc[t] \in Blocking /\ n \in local[t].cut
    BY <1>6 DEF BlockCut, At, Blocking
  <2>2. PICK label \in {"block_write", "block_cut"} : Goto(t, label, l)
    BY <1>6 DEF BlockCut
  <2>3. /\ l.todo = local[t].todo /\ l.cut = left
        /\ local[t].cut \in SUBSET SessionNames /\ left \in SUBSET SessionNames
    BY <1>0 DEF Local
  <2>4. Cardinality(left) = Cardinality(local[t].cut) - 1
    BY <1>0, <2>1, <2>3, FS_RemoveElement
  <2>5. Calls(label, l) < Calls(pc[t], local[t]) /\ label \in Blocking
    <3> HIDE DEF l, left
    <3>1. Cardinality(left) \in Nat /\ Cardinality(local[t].cut) \in Nat
      BY <1>0, <2>3
    <3> QED BY <2>1, <2>2, <2>3, <2>4, <3>1 DEF Calls, Blocking
  <2> HIDE DEF l, left
  <2> QED BY <2>1, <2>2, <2>3, <2>5, BlockGoesNearer
<1> QED BY <1>1, <1>2, <1>3, <1>4, <1>5, <1>6

LEMMA ReleaseIsNearer ==
  ASSUME ThreadInv, NEW t \in Threads, ReleaseGet(t) \/ ReleaseSet(t) \/ ReleaseWrite(t)
  PROVE  Nearer(pc'[t], local'[t], pc[t], local[t])
<1>0. local[t] \in Local /\ LocalSound(pc[t], local[t])
  BY ThreadFacts
<1>1. CASE ReleaseGet(t) \/ ReleaseSet(t)
  <2>1. pc[t] \in {"release_get", "release_set"} /\ pc[t] \in Releasing
    BY <1>1 DEF ReleaseGet, ReleaseSet, At, Releasing
  <2>2. PICK label \in {"release_set", "release_write"} :
          /\ Goto(t, label, local[t])
          /\ pc[t] = "release_set" => label = "release_write"
    BY <1>1 DEF ReleaseGet, ReleaseSet, At
  <2>3. label \in Releasing
    BY DEF Releasing
  <2>4. Stage(label, local[t]) = Stage(pc[t], local[t])
    BY <2>1, <2>3, Stages
  <2>5. Items(label, local[t]) = Items(pc[t], local[t])
    BY <2>1, <2>3 DEF Items, Passing, Blocking, Releasing
  <2>6. Calls(label, local[t]) < Calls(pc[t], local[t])
    BY <2>1, <2>2 DEF Calls
  <2> QED BY <2>2, <2>4, <2>5, <2>6, CallDone
<1>2. CASE ReleaseWrite(t)
  <2>1. pc[t] = "release_write" /\ pc[t] \in Releasing
    BY <1>2 DEF ReleaseWrite, At, Releasing
  <2>2. local[t].back \in {"pick", "reset_write", "delete_write"}
    BY <1>0, <2>1 DEF LocalSound, Local, Returns
  <2>3. CASE local[t].back = "pick"
    <3> DEFINE l == [local[t] EXCEPT !.row = None, !.back = "idle"]
    <3>1. Goto(t, "pick", l) /\ l.todo = local[t].todo
      BY <1>0, <1>2, <2>3 DEF ReleaseWrite, Local
    <3> HIDE DEF l
    <3>2. Stage("pick", l) = Stage(pc[t], local[t])
      BY <2>1, <2>3, Stages
    <3>3. Items("pick", l) = Items(pc[t], local[t])
      BY <2>1, <2>3, <3>1 DEF Items, Passing
    <3>4. Calls("pick", l) < Calls(pc[t], local[t])
      BY <2>1 DEF Calls
    <3> QED BY <3>1, <3>2, <3>3, <3>4, CallDone
  <2>4. CASE local[t].back = "reset_write"
    <3>1. Goto(t, "reset_write", local[t])
      BY <1>2, <2>4 DEF ReleaseWrite
    <3>2. Stage("reset_write", local[t]) = 6 /\ Stage(pc[t], local[t]) = 7
      BY <2>1, <2>4, Stages
    <3> QED BY <3>1, <3>2, StageEnds
  <2>5. CASE local[t].back = "delete_write"
    <3>1. Goto(t, "delete_write", local[t])
      BY <1>2, <2>5 DEF ReleaseWrite
    <3>2. Stage("delete_write", local[t]) = 1 /\ Stage(pc[t], local[t]) = 2
      BY <2>1, <2>5, Stages
    <3> QED BY <3>1, <3>2, StageEnds
  <2> QED BY <2>2, <2>3, <2>4, <2>5
<1> QED BY <1>1, <1>2

\* A pass never has more rows to look at than there are subjects.
TodoInv ==
  \A t \in Threads : /\ IsFiniteSet(local[t].todo)
                     /\ Cardinality(local[t].todo) <= Cardinality(Subjects)

LEMMA AllRowsFinite ==
  ASSUME TableInv, IsFiniteSet(Subjects)
  PROVE  IsFiniteSet(AllRows) /\ Cardinality(AllRows) <= Cardinality(Subjects)
<1> DEFINE T == {row[s] : s \in Subjects}
<1>1. row \in Surjection(Subjects, T)
  BY DEF TableInv, Surjection
<1>2. IsFiniteSet(T) /\ Cardinality(T) <= Cardinality(Subjects)
  <2> HIDE DEF T
  <2> QED BY <1>1, FS_Surjection
<1>3. AllRows \in SUBSET T
  BY DEF AllRows
<1>4. IsFiniteSet(AllRows) /\ Cardinality(AllRows) <= Cardinality(T)
  <2> HIDE DEF T
  <2> QED BY <1>2, <1>3, FS_Subset
<1>5. Cardinality(AllRows) \in Nat /\ Cardinality(T) \in Nat /\ Cardinality(Subjects) \in Nat
  BY <1>2, <1>4, FS_CardinalityType
<1> QED BY <1>2, <1>4, <1>5

\* Nor more counters to read than two for each hub.
LEMMA AskFinite ==
  ASSUME ThreadInv, IsFiniteSet(Hubs), NEW t \in Threads
  PROVE  /\ IsFiniteSet(local[t].ask)
         /\ Cardinality(local[t].ask) \in 0 .. 2 * Cardinality(Hubs)
<1> DEFINE Topics == {"status", "users"}
<1>1. IsFiniteSet({"status"}) /\ Cardinality({"status"}) = 1
  BY FS_Singleton
<1>2. Topics = {"status"} \cup {"users"} /\ "users" \notin {"status"}
  OBVIOUS
<1>3. IsFiniteSet(Topics) /\ Cardinality(Topics) = 2
  <2> HIDE DEF Topics
  <2>1. /\ IsFiniteSet({"status"} \cup {"users"})
        /\ Cardinality({"status"} \cup {"users"}) = Cardinality({"status"}) + 1
    BY <1>1, <1>2, FS_AddElement
  <2> QED BY <1>1, <1>2, <2>1
<1>4. IsFiniteSet(Query) /\ Cardinality(Query) = 2 * Cardinality(Hubs)
  <2>1. Query = Topics \X Hubs
    BY DEF Query
  <2> HIDE DEF Topics
  <2> QED BY <1>3, <2>1, FS_Product
<1>5. local[t].ask \in SUBSET Query
  BY ThreadFacts DEF Local
<1>6. IsFiniteSet(local[t].ask) /\ Cardinality(local[t].ask) <= Cardinality(Query)
  BY <1>4, <1>5, FS_Subset
<1>7. Cardinality(local[t].ask) \in Nat /\ Cardinality(Hubs) \in Nat
  BY <1>6, FS_CardinalityType
<1> QED BY <1>4, <1>6, <1>7

\* A hub less to ask.
LEMMA AskIsNearer ==
  ASSUME ThreadInv, IsFiniteSet(Hubs), NEW t \in Threads, AskCounters(t)
  PROVE  Nearer(pc'[t], local'[t], pc[t], local[t])
<1>1. pc[t] = "ask" /\ local[t] \in Local
  BY ThreadFacts DEF AskCounters, At
<1>2. CASE Finish(t)
  BY <1>1, <1>2, EndIsNearer DEF At
<1>3. CASE ~Finish(t)
  <2>1. PICK q \in local[t].ask :
          Collect(t, [local[t] EXCEPT !.ask = @ \ {q}, !.readings = @ \cup ReadingsOf(q)])
    BY <1>3 DEF AskCounters
  <2> DEFINE l == [local[t] EXCEPT !.ask = @ \ {q}, !.readings = @ \cup ReadingsOf(q)]
  <2>2. l.ask = local[t].ask \ {q} /\ Collect(t, l)
    BY <1>1, <2>1 DEF Local
  <2>3. IsFiniteSet(local[t].ask)
    BY AskFinite
  <2>4. Cardinality(l.ask) = Cardinality(local[t].ask) - 1 /\ Cardinality(local[t].ask) \in Nat
    <3> HIDE DEF l
    <3> QED BY <2>2, <2>3, FS_RemoveElement, FS_CardinalityType
  <2> HIDE DEF l
  <2>5. CASE Goto(t, "ask", l)
    <3>1. Stage("ask", l) = Stage(pc[t], local[t])
      BY <1>1, Stages
    <3>2. Items("ask", l) = Cardinality(l.ask)
          /\ Items(pc[t], local[t]) = Cardinality(local[t].ask)
      BY <1>1 DEF Items, Passing, Blocking, Releasing
    <3>3. Items("ask", l) < Items(pc[t], local[t])
      BY <2>4, <3>2
    <3> QED BY <2>5, <3>1, <3>3, ItemDone
  <2>6. CASE Goto(t, "observe", l) \/ Goto(t, "feed", l)
    BY <1>1, <2>6, Stages, StageEnds
  <2> QED BY <2>2, <2>5, <2>6 DEF Collect
<1> QED BY <1>2, <1>3

\* A row less to look at.
LEMMA PickIsNearer ==
  ASSUME ThreadInv, TodoInv, NEW t \in Threads, Pick(t)
  PROVE  Nearer(pc'[t], local'[t], pc[t], local[t])
<1>1. pc[t] = "pick" /\ local[t] \in Local
  BY ThreadFacts DEF Pick, At
<1>2. PICK r \in local[t].todo : PickBlock(t, r) \/ PickRelease(t, r) \/ PickKeep(t, r)
  BY DEF Pick
<1>3. \E label, l : /\ Goto(t, label, l)
                    /\ l.todo = local[t].todo \ {r}
                    /\ \/ label \in {"block_get", "pick"}
                       \/ label \in Releasing /\ l.back = "pick"
  <2>1. CASE PickBlock(t, r)
    BY <1>1, <2>1 DEF PickBlock, Local
  <2>2. CASE PickRelease(t, r)
    <3> DEFINE m == [local[t] EXCEPT !.todo = @ \ {r}, !.row = r]
               l == [m EXCEPT !.back = "pick"]
    <3>1. Goto(t, ReleaseLabel(m.row, "pick"), l)
      BY <2>2 DEF PickRelease, Release
    <3>2. l.todo = local[t].todo \ {r} /\ l.back = "pick"
      BY <1>1 DEF Local
    <3>3. ReleaseLabel(m.row, "pick") \in Releasing \cup {"pick"}
      BY DEF ReleaseLabel, Releasing
    <3> HIDE DEF m, l
    <3> QED BY <3>1, <3>2, <3>3
  <2>3. CASE PickKeep(t, r)
    BY <1>1, <2>3 DEF PickKeep, Local
  <2> QED BY <1>2, <2>1, <2>2, <2>3
<1>4. PICK label, l : /\ Goto(t, label, l)
                      /\ l.todo = local[t].todo \ {r}
                      /\ \/ label \in {"block_get", "pick"}
                         \/ label \in Releasing /\ l.back = "pick"
  BY <1>3
<1>5. Stage(label, l) = Stage(pc[t], local[t])
  BY <1>1, <1>4, Stages DEF Blocking
<1>6. Cardinality(l.todo) = Cardinality(local[t].todo) - 1 /\ Cardinality(local[t].todo) \in Nat
  BY <1>4, FS_RemoveElement, FS_CardinalityType DEF TodoInv
<1>7. Items(label, l) < Items(pc[t], local[t])
  BY <1>1, <1>4, <1>6 DEF Items, Passing, Blocking, Releasing
<1> QED BY <1>4, <1>5, <1>7, ItemDone

LEMMA WorkIsNearer ==
  ASSUME IInv, TodoInv, IsFiniteSet(Hubs), IsFiniteSet(SessionNames),
         NEW t \in Threads, Continue(t)
  PROVE  Nearer(pc'[t], local'[t], pc[t], local[t])
BY SettlingIsNearer, ResetIsNearer, BlockIsNearer, ReleaseIsNearer, AskIsNearer, PickIsNearer
DEF IInv, Continue

\* Who takes a step has begun something, or begins it; nobody else is moved.
LEMMA ActorMoves ==
  ASSUME IInv, NEW t \in Threads,
         Continue(t) \/ Request(t) \/ Tick(t) \/ SampleTraffic(t)
  PROVE  /\ \A o \in Threads \ {t} : pc'[o] = pc[o] /\ local'[o] = local[o]
         /\ Continue(t) \/ pc[t] = "idle"
<1>1. \E label, l : Goto(t, label, l)
  <2>1. CASE Continue(t)
    BY <2>1
    DEF Continue, SwitchWrite, Refresh, Observe, ObserveWrite, Enforce, ReleaseGet,
        ReleaseSet, ReleaseWrite, BlockGet, BlockSet, BlockEnum, BlockWrite, BlockCut,
        Pick, PickBlock, PickRelease, PickKeep, PassDone, ResetSave, ResetRow, ResetAsk,
        ResetWrite, DeleteWrite, Forget, AskCounters, Feed, Finish, AfterRefresh, GiveUp,
        Release, Collect
  <2>2. CASE Request(t) \/ Tick(t) \/ SampleTraffic(t)
    BY <2>2
    DEF Request, Save, Switch, Reset, Delete, View, Remove, Release, Tick, SampleTraffic,
        Collect
  <2> QED BY <2>1, <2>2
<1>2. Continue(t) \/ pc[t] = "idle"
  BY DEF Request, Save, Switch, Reset, Delete, View, Remove, Tick, SampleTraffic, MayStart, At
<1> QED BY <1>1, <1>2, Going DEF IInv

\* It takes rows from its list, or drops it, or makes a new one of all rows.
LEMMA ListMoves ==
  ASSUME IInv, NEW t \in Threads,
         Continue(t) \/ Request(t) \/ Tick(t) \/ SampleTraffic(t)
  PROVE  local'[t].todo \subseteq local[t].todo \/ local'[t].todo \in {{}, AllRows}
<1> DEFINE Shorter == local'[t].todo \subseteq local[t].todo \/ local'[t].todo \in {{}, AllRows}
<1>0. local[t] \in Local /\ local \in [Threads -> Local]
  BY ThreadFacts DEF IInv, ThreadInv
<1>1. ASSUME Finish(t) PROVE Shorter
  BY <1>0, <1>1 DEF Finish, Goto, Rest
<1>2. ASSUME NEW l, l.todo = local[t].todo, AfterRefresh(t, l) PROVE Shorter
  BY <1>0, <1>1, <1>2 DEF AfterRefresh, Goto
<1>3. ASSUME NEW label, NEW l, l.todo = local[t].todo \/ l.todo = {}, Goto(t, label, l)
      PROVE  Shorter
  BY <1>0, <1>3 DEF Goto
<1>5. ASSUME GiveUp(t) PROVE Shorter
  BY <1>0, <1>5 DEF GiveUp, Goto, Local
<1>6. ASSUME NEW isEnabled \in BOOLEAN, SwitchWrite(t, isEnabled) PROVE Shorter
  BY <1>0, <1>6 DEF SwitchWrite, Goto, Local
<1>7. CASE Refresh(t)
  <2>1. ASSUME ~AfterRefresh(t, local[t]) PROVE Shorter
    BY <1>0, <1>7, <2>1 DEF Refresh, Goto, Local
  <2> QED BY <1>2, <2>1
<1>8. CASE Observe(t)
  <2> DEFINE l == [local[t] EXCEPT !.readings = {}]
  <2>1. l.todo = local[t].todo
    BY <1>0 DEF Local
  <2>2. ASSUME ~AfterRefresh(t, l) PROVE Shorter
    BY <1>0, <1>8, <2>2 DEF Observe, Goto, Local
  <2> HIDE DEF l
  <2> QED BY <1>2, <2>1, <2>2
<1>9. CASE ObserveWrite(t)
  <2> DEFINE l == [local[t] EXCEPT !.updates = {}]
  <2>1. l.todo = local[t].todo /\ AfterRefresh(t, l)
    BY <1>0, <1>9 DEF ObserveWrite, Local
  <2> HIDE DEF l
  <2> QED BY <1>2, <2>1
<1>10. CASE Enforce(t)
  BY <1>0, <1>10 DEF Enforce, Goto, Rest
<1>11. CASE PassDone(t) \/ DeleteWrite(t) \/ Forget(t) \/ Feed(t)
  BY <1>1, <1>3, <1>11 DEF PassDone, DeleteWrite, Forget, Feed
<1>12. CASE ReleaseGet(t) \/ ReleaseSet(t)
  BY <1>3, <1>12 DEF ReleaseGet, ReleaseSet
<1>13. CASE ReleaseWrite(t)
  BY <1>0, <1>13 DEF ReleaseWrite, Goto, Local
<1>14. CASE BlockGet(t)
  BY <1>0, <1>5, <1>14 DEF BlockGet, Goto, Local
<1>15. CASE BlockSet(t)
  BY <1>3, <1>5, <1>15 DEF BlockSet
<1>16. CASE BlockEnum(t)
  BY <1>0, <1>5, <1>16 DEF BlockEnum, Goto, Local
<1>17. ASSUME NEW n \in SessionNames, BlockCut(t, n) PROVE Shorter
  BY <1>0, <1>17 DEF BlockCut, Goto, Local
<1>18. CASE BlockWrite(t)
  BY <1>5, <1>18 DEF BlockWrite
<1>19. CASE Pick(t)
  <2>1. PICK r \in local[t].todo : PickBlock(t, r) \/ PickRelease(t, r) \/ PickKeep(t, r)
    BY <1>19 DEF Pick
  <2> DEFINE rest == local[t].todo \ {r}
  <2>2. /\ [local[t] EXCEPT !.todo = rest].todo = rest
        /\ [local[t] EXCEPT !.todo = rest, !.row = r].todo = rest
        /\ [[local[t] EXCEPT !.todo = rest, !.row = r] EXCEPT !.back = "pick"].todo = rest
    BY <1>0 DEF Local
  <2>3. ASSUME NEW label, NEW l, l.todo = rest, Goto(t, label, l) PROVE Shorter
    BY <1>0, <2>3 DEF Goto
  <2>4. CASE PickBlock(t, r)
    BY <2>2, <2>3, <2>4 DEF PickBlock
  <2>5. CASE PickRelease(t, r)
    BY <2>2, <2>3, <2>5 DEF PickRelease, Release
  <2>6. CASE PickKeep(t, r)
    BY <2>2, <2>3, <2>6 DEF PickKeep
  <2> QED BY <2>1, <2>4, <2>5, <2>6
<1>20. CASE ResetSave(t)
  BY <1>3, <1>20 DEF ResetSave
<1>21. CASE ResetRow(t)
  BY <1>0, <1>1, <1>21 DEF ResetRow, Goto, Local
<1>22. CASE ResetAsk(t)
  <2>1. PICK x : Release(t, [local[t] EXCEPT !.readings = x], "reset_write")
    BY <1>22 DEF ResetAsk
  <2> QED BY <1>0, <2>1 DEF Release, Goto, Local
<1>23. CASE ResetWrite(t)
  <2>1. Goto(t, "refresh", [local[t] EXCEPT !.row = None, !.back = "idle", !.readings = {}])
    BY <1>23 DEF ResetWrite
  <2> QED BY <1>0, <2>1 DEF Goto, Local
<1>24. CASE AskCounters(t)
  <2>1. Finish(t) \/ \E x, y : Collect(t, [local[t] EXCEPT !.ask = x, !.readings = y])
    BY <1>24 DEF AskCounters
  <2>2. ASSUME NEW x, NEW y, Collect(t, [local[t] EXCEPT !.ask = x, !.readings = y])
        PROVE  Shorter
    <3> DEFINE l == [local[t] EXCEPT !.ask = x, !.readings = y]
    <3>1. l.todo = local[t].todo /\ Collect(t, l)
      BY <1>0, <2>2 DEF Local
    <3> HIDE DEF l
    <3> QED BY <1>3, <3>1 DEF Collect
  <2> QED BY <1>1, <2>1, <2>2
<1>25. CASE Request(t) \/ Tick(t) \/ SampleTraffic(t)
  <2>1. CASE Request(t)
    <3>1. PICK x \in Watched :
            \/ \E c \in Ceilings, isEnabled \in BOOLEAN : Save(t, x, c[1], c[2], isEnabled)
            \/ Switch(t, x) \/ Reset(t, x) \/ Delete(t, x) \/ View(t, x) \/ Remove(t, x)
      BY <2>1 DEF Request
    <3>2. ASSUME NEW limit, NEW metric, NEW isEnabled, Save(t, x, limit, metric, isEnabled)
          PROVE  Shorter
      BY <1>0, <3>2 DEF Save, Goto, Rest
    <3>3. CASE Switch(t, x) \/ View(t, x) \/ Remove(t, x)
      BY <1>0, <3>3 DEF Switch, View, Remove, Goto, Rest
    <3>4. CASE Reset(t, x)
      BY <1>0, <3>4 DEF Reset, Goto, Rest
    <3>5. CASE Delete(t, x)
      BY <1>0, <3>5 DEF Delete, Release, Goto, Rest
    <3> QED BY <3>1, <3>2, <3>3, <3>4, <3>5
  <2>2. CASE Tick(t)
    <3>1. PICK x : Collect(t, [Rest EXCEPT !.job = "tick", !.ask = x])
      BY <2>2 DEF Tick
    <3> QED BY <1>0, <3>1 DEF Collect, Goto, Rest
  <2>3. CASE SampleTraffic(t)
    <3>1. PICK x : Collect(t, [Rest EXCEPT !.job = "traffic", !.ask = x])
      BY <2>3 DEF SampleTraffic
    <3> QED BY <1>0, <3>1 DEF Collect, Goto, Rest
  <2> QED BY <1>25, <2>1, <2>2, <2>3
<1> QED
  BY <1>6, <1>7, <1>8, <1>9, <1>10, <1>11, <1>12, <1>13, <1>14, <1>15, <1>16, <1>17, <1>18,
     <1>19, <1>20, <1>21, <1>22, <1>23, <1>24, <1>25
  DEF Continue

LEMMA WorldMovesNobody ==
  ASSUME World \/ UNCHANGED vars, ~Crash
  PROVE  UNCHANGED <<pc, local>>
BY DEF World, Login, Logout, Traffic, Edit, Recreate, Create, Toggle, vars

LEMMA WhoActs ==
  ASSUME [Next]_vars
  PROVE  \/ \E t \in Threads : Continue(t) \/ Request(t) \/ Tick(t) \/ SampleTraffic(t)
         \/ World \/ UNCHANGED vars
BY DEF Next, Threads

LEMMA TodoStep ==
  ASSUME IInv, TodoInv, IsFiniteSet(Subjects), [Next]_vars
  PROVE  TodoInv'
<1> SUFFICES ASSUME NEW o \in Threads
             PROVE  /\ IsFiniteSet(local'[o].todo)
                    /\ Cardinality(local'[o].todo) <= Cardinality(Subjects)
  BY DEF TodoInv
<1>0. /\ Cardinality(Subjects) \in Nat
      /\ IsFiniteSet({}) /\ Cardinality({}) = 0
      /\ IsFiniteSet(local[o].todo) /\ Cardinality(local[o].todo) <= Cardinality(Subjects)
      /\ Cardinality(local[o].todo) \in Nat
  BY FS_CardinalityType, FS_EmptySet DEF TodoInv
<1>1. CASE local'[o] = local[o]
  BY <1>0, <1>1
<1>2. CASE Crash
  BY <1>0, <1>2 DEF Crash, Rest
<1>3. CASE local'[o] # local[o] /\ ~Crash
  <2>1. Continue(o) \/ Request(o) \/ Tick(o) \/ SampleTraffic(o)
    BY <1>3, WhoActs, WorldMovesNobody, ActorMoves
  <2>2. local'[o].todo \in SUBSET local[o].todo \/ local'[o].todo \in {{}, AllRows}
    BY <2>1, ListMoves
  <2>3. CASE local'[o].todo \in SUBSET local[o].todo
    <3>1. /\ IsFiniteSet(local'[o].todo)
          /\ Cardinality(local'[o].todo) <= Cardinality(local[o].todo)
      BY <1>0, <2>3, FS_Subset
    <3>2. Cardinality(local'[o].todo) \in Nat
      BY <3>1, FS_CardinalityType
    <3> QED BY <1>0, <3>1, <3>2
  <2>4. CASE local'[o].todo \in {{}, AllRows}
    BY <1>0, <2>4, AllRowsFinite DEF IInv
  <2> QED BY <2>2, <2>3, <2>4
<1> QED BY <1>1, <1>2, <1>3

LEMMA WorkIsMeasured ==
  ASSUME IInv, TodoInv, IsFiniteSet(Subjects), IsFiniteSet(Hubs), IsFiniteSet(SessionNames),
         NEW t \in Threads
  PROVE  Measured(t)
<1>1. local[t] \in Local /\ pc[t] \in Labels
  BY ThreadFacts DEF IInv, ThreadInv
<1>2. /\ Cardinality(Hubs) \in Nat /\ Cardinality(Subjects) \in Nat
      /\ Cardinality(SessionNames) \in Nat
  BY FS_CardinalityType
<1>3. Stage(pc[t], local[t]) \in 0 .. 10
  BY <1>1, StageTyped
<1>4. Items(pc[t], local[t]) \in 0 .. 2 * Cardinality(Hubs) + Cardinality(Subjects)
  <2>1. /\ Cardinality(local[t].todo) \in Nat
        /\ Cardinality(local[t].todo) <= Cardinality(Subjects)
    BY FS_CardinalityType DEF TodoInv
  <2>2. Cardinality(local[t].ask) \in 0 .. 2 * Cardinality(Hubs)
    BY AskFinite DEF IInv
  <2>3. Items(pc[t], local[t]) \in {Cardinality(local[t].ask), Cardinality(local[t].todo), 0}
    BY DEF Items
  <2> QED BY <1>2, <2>1, <2>2, <2>3
<1>5. Calls(pc[t], local[t]) \in 0 .. Cardinality(SessionNames) + 4
  <2>1. Cardinality(local[t].cut) \in Nat /\ Cardinality(local[t].cut) <= Cardinality(SessionNames)
    <3>1. local[t].cut \in SUBSET SessionNames
      BY <1>1 DEF Local
    <3> QED BY <3>1, FS_Subset, FS_CardinalityType
  <2> QED BY <1>2, <2>1 DEF Calls
<1> QED BY <1>3, <1>4, <1>5 DEF Measured

\* A request, a tick or a traffic pass that has begun is over after a bounded
\* number of its own steps, whatever overlaps with it, fails, or changes the
\* table under it: every step brings its end nearer, in an order without
\* endless descents, and nothing but a crash moves a thread from outside.
THEOREM WorkEnds ==
  ASSUME IsFiniteSet(Hubs), IsFiniteSet(Users), IsFiniteSet(SessionNames)
  PROVE  Spec => [](\A t \in Threads : Measured(t)) /\ WorkCloses
<1> DEFINE Closes == \A t \in Threads : ~At(t, "idle") =>
                       /\ Continue(t) => Nearer(pc'[t], local'[t], pc[t], local[t])
                       /\ ~Continue(t) => UNCHANGED <<pc[t], local[t]>> \/ pc'[t] = "idle"
<1>0. IsFiniteSet(Subjects)
  BY FS_Union DEF Subjects
<1>1. Init => TodoInv
  <2> SUFFICES ASSUME Init, NEW t \in Threads
               PROVE  /\ IsFiniteSet(local[t].todo)
                      /\ Cardinality(local[t].todo) <= Cardinality(Subjects)
    BY DEF TodoInv
  <2>1. local[t].todo = {}
    BY DEF Init, Rest
  <2> QED BY <1>0, <2>1, FS_EmptySet, FS_CardinalityType
<1>2. IInv /\ TodoInv /\ [Next]_vars => TodoInv'
  BY <1>0, TodoStep
<1>3. Spec => [](IInv /\ TodoInv)
  BY <1>1, <1>2, Invariance, PTL DEF Spec
<1>4. IInv /\ TodoInv => \A t \in Threads : Measured(t)
  BY <1>0, WorkIsMeasured
<1>5. IInv /\ TodoInv /\ [Next]_vars => Closes
  <2> SUFFICES ASSUME IInv, TodoInv, [Next]_vars, NEW t \in Threads, ~At(t, "idle")
               PROVE  /\ Continue(t) => Nearer(pc'[t], local'[t], pc[t], local[t])
                      /\ ~Continue(t) => \/ UNCHANGED <<pc[t], local[t]>>
                                         \/ pc'[t] = "idle"
    OBVIOUS
  <2>1. CASE Continue(t)
    BY <2>1, WorkIsNearer
  <2>2. CASE Crash
    BY <2>2, WorkIsNearer DEF Crash
  <2>3. CASE ~Continue(t) /\ ~Crash
    <3>1. ASSUME NEW o \in Threads, Continue(o) \/ Request(o) \/ Tick(o) \/ SampleTraffic(o)
          PROVE  pc'[t] = pc[t] /\ local'[t] = local[t]
      <4>1. Continue(o) \/ pc[o] = "idle"
        BY <3>1, ActorMoves
      <4>2. o # t
        BY <2>3, <4>1 DEF At
      <4> QED BY <3>1, <4>2, ActorMoves
    <3>2. pc'[t] = pc[t] /\ local'[t] = local[t]
      BY <2>3, <3>1, WhoActs, WorldMovesNobody
    <3> QED BY <2>3, <3>2
  <2> QED BY <2>1, <2>2, <2>3
<1>6. Spec => [][Closes]_vars
  BY <1>3, <1>5, PTL DEF Spec
<1>7. Spec => [](\A t \in Threads : Measured(t))
  BY <1>3, <1>4, PTL
<1> QED
  BY <1>6, <1>7 DEF WorkCloses
=============================================================================
