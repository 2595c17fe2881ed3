--------------------------- MODULE QuotaSerialProofs ---------------------------
(***************************************************************************)
(* What passes and requests that follow one another achieve: theorems of   *)
(* Spec in Quota with MayOverlap = FALSE, for every number of hubs,        *)
(* accounts, request threads, limits and outside events.  Each theorem     *)
(* names the failures it has to leave out; section 4 of the README tells   *)
(* what each of them does.                                                 *)
(***************************************************************************)
EXTENDS QuotaProofs

-----------------------------------------------------------------------------
(* What the theorems assume of the constants *)

\* A pass or a request starts only when none is running.
Serial == MayOverlap = FALSE

\* The panel does not die.
Uncrashed == Budget["crash"] = 0

\* The calls of a block and of a release fail only when their object is gone.
CutsAndLiftsAnswer ==
  Unreliable \cap {"block_set", "block_enum", "release_get", "release_set"} = {}

\* DeleteSession ends the session it names.
SessionsEnd == "block_cut" \notin Unreliable

\* No account or hub is deleted, by the panel or by another tool, and made again.
NothingRemade == Budget["recreate"] = 0 /\ Budget["delete"] = 0

\* No operator changes an account or a hub through its own screen.
Unedited == Budget["edit"] = 0

-----------------------------------------------------------------------------
(* Copies are fresh *)

\* At most one thread is busy, and the others hold nothing.
Solo ==
  /\ \A t, o \in Threads : ~At(t, "idle") /\ ~At(o, "idle") => t = o
  /\ \A t \in Threads : At(t, "idle") => local[t] = Rest

InPass == Releasing \cup Blocking \cup {"pick"}

\* Where a thread holds no copy of a row that anything below depends on.
Bare == Labels \ (InPass \cup {"reset_ask", "reset_write", "delete_write"})

\* What thread t holds agrees with the table: rows still to be looked at and
\* the row it acts on are what the table has, and a row whose release is over
\* is there, not blocked.  And it knows where it came from.
Fresh(t) ==
  LET label == pc[t]  l == local[t] IN
  /\ \A r \in l.todo : row[r.subj] = r
  /\ label \notin InPass => l.todo = {}
  /\ label \in Releasing /\ l.back # "pick" => l.todo = {}
  /\ label \in Releasing \cup Blocking => l.row \notin l.todo
  /\ label \in Releasing \cup Blocking \cup {"reset_ask"} => row[l.row.subj] = l.row
  /\ label \in Blocking => ~l.row.enforced
  /\ label \in {"reset_write", "delete_write"} =>
       /\ row[l.row.subj] # None /\ row[l.row.subj].id = l.row.id
       /\ ~row[l.row.subj].enforced
  /\ label \notin Releasing \cup {"reset_write", "delete_write"} => l.back = "idle"
  /\ label \in {"reset_write", "delete_write"} => l.back = label
  /\ label \in Releasing /\ l.back = "pick" => ~IsOver(l.row)

FreshInv == Solo /\ \A t \in Threads : Fresh(t)

\* Every thread but t has nothing to do.
Alone(t) == \A o \in Threads \ {t} : pc[o] = "idle" /\ local[o] = Rest

LEMMA OthersIdle ==
  ASSUME Solo, NEW t \in Threads, ~At(t, "idle") \/ (Serial /\ MayStart(t))
  PROVE  Alone(t)
BY DEF Solo, At, MayStart, Serial, Alone

\* A step of the only busy thread leaves it the only busy one.
LEMMA GotoStaysAlone ==
  ASSUME ThreadInv, NEW t \in Threads, Alone(t), NEW label, NEW l,
         Goto(t, label, l), label = "idle" => l = Rest
  PROVE  /\ Alone(t)' /\ Solo'
         /\ pc'[t] = label /\ local'[t] = l
BY DEF ThreadInv, Alone, Goto, Solo, At

LEMMA AloneIsFresh ==
  ASSUME NEW t \in Threads, Alone(t)', Solo', Fresh(t)'
  PROVE  FreshInv'
<1>1. ASSUME NEW o \in Threads \ {t} PROVE Fresh(o)'
  BY <1>1 DEF Alone, Fresh, Rest, InPass, Releasing, Blocking
<1> QED BY <1>1 DEF FreshInv

\* A step to a place where nothing is held.
LEMMA BareIsFresh ==
  ASSUME ThreadInv, NEW t \in Threads, Alone(t), NEW label \in Bare, NEW l,
         l.todo = {}, l.back = "idle", label = "idle" => l = Rest, Goto(t, label, l)
  PROVE  FreshInv'
<1>1. Alone(t)' /\ Solo' /\ pc'[t] = label /\ local'[t] = l
  BY GotoStaysAlone
<1>2. Fresh(t)'
  BY <1>1 DEF Fresh, Bare, InPass, Releasing, Blocking
<1> QED BY <1>1, <1>2, AloneIsFresh

LEMMA FinishIsFresh ==
  ASSUME ThreadInv, NEW t \in Threads, Alone(t), Finish(t)
  PROVE  FreshInv'
BY BareIsFresh DEF Finish, Rest, Bare, Labels, InPass, Releasing, Blocking

LEMMA RefreshedIsFresh ==
  ASSUME ThreadInv, NEW t \in Threads, Alone(t), NEW l, l.todo = {}, l.back = "idle",
         AfterRefresh(t, l)
  PROVE  FreshInv'
<1>1. CASE l.job = "view"
  BY <1>1, FinishIsFresh DEF AfterRefresh
<1>2. CASE l.job # "view"
  BY <1>2, BareIsFresh DEF AfterRefresh, Bare, Labels, InPass, Releasing, Blocking
<1> QED BY <1>1, <1>2

LEMMA CollectIsFresh ==
  ASSUME ThreadInv, NEW t \in Threads, Alone(t), NEW l, l.todo = {}, l.back = "idle",
         Collect(t, l)
  PROVE  FreshInv'
<1>1. PICK label \in {"ask", "observe", "feed"} : Goto(t, label, l)
  BY DEF Collect
<1>2. label \in Bare /\ label # "idle"
  BY <1>1 DEF Bare, Labels, InPass, Releasing, Blocking
<1> QED BY <1>1, <1>2, BareIsFresh

\* What a thread at such a place holds, and that it is the only one.
LEMMA BareAtHand ==
  ASSUME IInv, FreshInv, NEW t \in Threads, pc[t] \in Bare \ {"idle"}
  PROVE  /\ Alone(t) /\ local[t] \in Local
         /\ local[t].todo = {} /\ local[t].back = "idle"
<1>1. Alone(t)
  BY OthersIdle DEF FreshInv, At
<1>2. local[t] \in Local
  BY ThreadFacts DEF IInv
<1>3. local[t].todo = {} /\ local[t].back = "idle"
  BY DEF FreshInv, Fresh, Bare, InPass
<1> QED BY <1>1, <1>2, <1>3

LEMMA HandFacts ==
  ASSUME IInv, FreshInv, NEW t \in Threads, ~At(t, "idle")
  PROVE  /\ Alone(t) /\ Fresh(t) /\ local[t] \in Local
         /\ LocalSound(pc[t], local[t])
BY OthersIdle, ThreadFacts DEF IInv, FreshInv

-----------------------------------------------------------------------------
(* Each step of a thread keeps copies fresh *)

\* Requests that begin with nothing in hand but their subject.
LEMMA StartFresh ==
  ASSUME IInv, FreshInv, Serial, NEW t \in Threads, NEW s \in Subjects,
         \/ \E limit \in Nat, metric \in Metrics, isEnabled \in BOOLEAN :
              Save(t, s, limit, metric, isEnabled)
         \/ View(t, s) \/ Switch(t, s) \/ Remove(t, s)
         \/ Reset(t, s) /\ row[s] = None
  PROVE  FreshInv'
<1>1. Alone(t)
  BY OthersIdle DEF FreshInv, Save, View, Switch, Remove, Reset
<1>2. PICK label, l : /\ label \in {"refresh", "switch_write", "forget", "reset_save"}
                      /\ l.todo = {} /\ l.back = "idle" /\ Goto(t, label, l)
  <2> DEFINE Holds(l) == l.todo = {} /\ l.back = "idle"
  <2>1. \A j, x, r : /\ Holds([Rest EXCEPT !.job = j, !.subj = x])
                    /\ Holds([Rest EXCEPT !.job = j, !.subj = x, !.row = r])
                    /\ Holds([Rest EXCEPT !.subj = x])
    BY DEF Rest
  <2> HIDE DEF Holds
  <2>2. \E label, l : /\ label \in {"refresh", "switch_write", "forget", "reset_save"}
                     /\ Holds(l) /\ Goto(t, label, l)
    BY <2>1 DEF Save, View, Switch, Remove, Reset
  <2> QED BY <2>2 DEF Holds
<1>3. label \in Bare /\ label # "idle"
  BY <1>2 DEF Bare, Labels, InPass, Releasing, Blocking
<1> QED BY <1>1, <1>2, <1>3, BareIsFresh DEF IInv

\* The sampler's own work begins the same way.
LEMMA CollectStartFresh ==
  ASSUME IInv, FreshInv, Serial, NEW t \in Threads, Tick(t) \/ SampleTraffic(t)
  PROVE  FreshInv'
<1>1. Alone(t)
  BY OthersIdle DEF FreshInv, Tick, SampleTraffic
<1>2. PICK l : l.todo = {} /\ l.back = "idle" /\ Collect(t, l)
  BY DEF Tick, SampleTraffic, Rest
<1> QED BY <1>1, <1>2, CollectIsFresh DEF IInv

\* Steps from a place where nothing is held to another.
LEMMA BareStepFresh ==
  ASSUME IInv, FreshInv, NEW t \in Threads,
         \/ \E isEnabled \in BOOLEAN : SwitchWrite(t, isEnabled)
         \/ Refresh(t) \/ Observe(t) \/ ObserveWrite(t)
         \/ ResetSave(t) \/ Forget(t) \/ AskCounters(t) \/ Feed(t)
  PROVE  FreshInv'
<1>1. pc[t] \in {"switch_write", "refresh", "observe", "observe_write", "reset_save",
                 "forget", "ask", "feed"}
  BY DEF SwitchWrite, Refresh, Observe, ObserveWrite, ResetSave, Forget, AskCounters,
         Feed, At
<1>2. pc[t] \in Bare \ {"idle"}
  BY <1>1 DEF Bare, Labels, InPass, Releasing, Blocking
<1>3. Alone(t) /\ local[t] \in Local /\ local[t].todo = {} /\ local[t].back = "idle"
  BY <1>2, BareAtHand
<1>4. CASE \E l : l.todo = {} /\ l.back = "idle" /\ (AfterRefresh(t, l) \/ Collect(t, l))
  BY <1>3, <1>4, RefreshedIsFresh, CollectIsFresh DEF IInv
<1>5. CASE Finish(t)
  BY <1>3, <1>5, FinishIsFresh DEF IInv
<1>6. CASE \E label, l : /\ label \in {"refresh", "observe", "observe_write", "reset_row"}
                        /\ l.todo = {} /\ l.back = "idle" /\ Goto(t, label, l)
  <2>1. PICK label, l : /\ label \in {"refresh", "observe", "observe_write", "reset_row"}
                        /\ l.todo = {} /\ l.back = "idle" /\ Goto(t, label, l)
    BY <1>6
  <2>2. label \in Bare /\ label # "idle"
    BY <2>1 DEF Bare, Labels, InPass, Releasing, Blocking
  <2> QED BY <1>3, <2>1, <2>2, BareIsFresh DEF IInv
<1>7. ASSUME NEW isEnabled \in BOOLEAN, SwitchWrite(t, isEnabled) PROVE FreshInv'
  BY <1>3, <1>6, <1>7 DEF SwitchWrite, Local
<1>8. ASSUME Refresh(t) PROVE FreshInv'
  <2> DEFINE l == [local[t] EXCEPT !.readings =
                     {[subj |-> local[t].subj, bytes |-> counter[local[t].subj]]}]
  <2>1. l.todo = {} /\ l.back = "idle"
    BY <1>3 DEF Local
  <2>2. AfterRefresh(t, local[t]) \/ Goto(t, "observe", l)
    BY <1>8 DEF Refresh
  <2> HIDE DEF l
  <2> QED BY <1>3, <1>4, <1>6, <2>1, <2>2
<1>9. ASSUME Observe(t) PROVE FreshInv'
  <2> DEFINE known == {g \in local[t].readings : row[g.subj] # None}
             l     == [local[t] EXCEPT !.readings = {}]
             m     == [local[t] EXCEPT !.readings = {},
                                       !.updates = {NewFigures(g) : g \in known}]
  <2>1. l.todo = {} /\ l.back = "idle" /\ m.todo = {} /\ m.back = "idle"
    BY <1>3 DEF Local
  <2>2. AfterRefresh(t, l) \/ Goto(t, "observe_write", m)
    BY <1>9 DEF Observe
  <2> HIDE DEF l, m
  <2> QED BY <1>4, <1>6, <2>1, <2>2
<1>10. ASSUME ObserveWrite(t) PROVE FreshInv'
  <2> DEFINE l == [local[t] EXCEPT !.updates = {}]
  <2>1. l.todo = {} /\ l.back = "idle" /\ AfterRefresh(t, l)
    BY <1>3, <1>10 DEF Local, ObserveWrite
  <2> QED BY <1>4, <2>1
<1>11. ASSUME ResetSave(t) PROVE FreshInv'
  BY <1>3, <1>6, <1>11 DEF ResetSave
<1>12. ASSUME Forget(t) PROVE FreshInv'
  BY <1>5, <1>12 DEF Forget
<1>13. ASSUME AskCounters(t) PROVE FreshInv'
  <2>1. PICK q \in local[t].ask :
          Finish(t) \/ Collect(t, [local[t] EXCEPT !.ask = @ \ {q},
                                                   !.readings = @ \cup ReadingsOf(q)])
    BY <1>13 DEF AskCounters
  <2> DEFINE l == [local[t] EXCEPT !.ask = @ \ {q}, !.readings = @ \cup ReadingsOf(q)]
  <2>2. l.todo = {} /\ l.back = "idle"
    BY <1>3 DEF Local
  <2> HIDE DEF l
  <2> QED BY <1>4, <1>5, <2>1, <2>2 DEF l
<1>14. ASSUME Feed(t) PROVE FreshInv'
  <2>1. Finish(t) \/ Goto(t, "observe", local[t])
    BY <1>14 DEF Feed
  <2> QED BY <1>3, <1>5, <1>6, <2>1
<1> QED BY <1>7, <1>8, <1>9, <1>10, <1>11, <1>12, <1>13, <1>14

\* A pass or a reset takes up a row the table has, the table untouched.
LEMMA TakesUpFresh ==
  ASSUME IInv, FreshInv, NEW t \in Threads, Alone(t), UNCHANGED row,
         NEW l, NEW label \in {"reset_ask", "pick"}, Goto(t, label, l),
         \A r \in l.todo : row[r.subj] = r, l.back = "idle",
         label = "reset_ask" => l.todo = {} /\ row[l.row.subj] = l.row
  PROVE  FreshInv'
<1>1. Alone(t)' /\ Solo' /\ pc'[t] = label /\ local'[t] = l
  BY GotoStaysAlone DEF IInv
<1>2. Fresh(t)'
  BY <1>1 DEF Fresh, InPass, Releasing, Blocking
<1> QED BY <1>1, <1>2, AloneIsFresh

LEMMA ResetFresh ==
  ASSUME IInv, FreshInv, Serial, NEW t \in Threads, NEW s \in Subjects,
         Reset(t, s), row[s] # None
  PROVE  FreshInv'
<1> DEFINE l == [Rest EXCEPT !.job = "settle", !.subj = s, !.row = row[s]]
<1>1. Alone(t)
  BY OthersIdle DEF FreshInv, Reset
<1>2. l.todo = {} /\ l.back = "idle" /\ l.row = row[s] /\ row[l.row.subj] = l.row
  BY DEF Rest, IInv, TableInv
<1>3. Goto(t, "reset_ask", l) /\ UNCHANGED row
  BY DEF Reset, table
<1> HIDE DEF l
<1> QED BY <1>1, <1>2, <1>3, TakesUpFresh

LEMMA ResetRowFresh ==
  ASSUME IInv, FreshInv, NEW t \in Threads, ResetRow(t)
  PROVE  FreshInv'
<1> DEFINE s == local[t].subj
           l == [local[t] EXCEPT !.row = row[s]]
<1>1. /\ Alone(t) /\ local[t] \in Local
      /\ local[t].todo = {} /\ local[t].back = "idle" /\ s \in Subjects
  BY BareAtHand, SubjectAtHand
  DEF ResetRow, At, Bare, Labels, InPass, Releasing, Blocking, IInv, OnSubject
<1>2. CASE row[s] = None
  BY <1>1, <1>2, FinishIsFresh DEF ResetRow, IInv
<1>3. CASE row[s] # None
  <2>1. l.todo = {} /\ l.back = "idle" /\ l.row = row[s] /\ row[l.row.subj] = l.row
    BY <1>1, <1>3 DEF Local, IInv, TableInv
  <2>2. Goto(t, "reset_ask", l) /\ UNCHANGED row
    BY <1>3 DEF ResetRow, table
  <2> HIDE DEF l
  <2> QED BY <1>1, <2>1, <2>2, TakesUpFresh
<1> QED BY <1>2, <1>3

LEMMA EnforceFresh ==
  ASSUME IInv, FreshInv, NEW t \in Threads, Enforce(t)
  PROVE  FreshInv'
<1> DEFINE l == [Rest EXCEPT !.todo = AllRows]
<1>1. Alone(t)
  BY HandFacts DEF Enforce, At
<1>2. l.back = "idle" /\ \A r \in l.todo : row[r.subj] = r
  BY DEF Rest, AllRows, IInv, TableInv
<1>3. Goto(t, "pick", l) /\ UNCHANGED row
  BY DEF Enforce, table
<1> HIDE DEF l
<1> QED BY <1>1, <1>2, <1>3, TakesUpFresh

LEMMA PassDoneFresh ==
  ASSUME IInv, FreshInv, NEW t \in Threads, PassDone(t)
  PROVE  FreshInv'
BY HandFacts, FinishIsFresh DEF PassDone, At, IInv

\* A release begins on a row the table has.
LEMMA ReleaseFresh ==
  ASSUME IInv, FreshInv, NEW t \in Threads, Alone(t), UNCHANGED row,
         NEW l \in Local, NEW back \in Returns \ {"idle"}, Release(t, l, back),
         l.row \in Row, row[l.row.subj] = l.row, l.row \notin l.todo,
         \A r \in l.todo : row[r.subj] = r,
         back # "pick" => l.todo = {},
         back = "pick" => l.row.enforced /\ ~IsOver(l.row)
  PROVE  FreshInv'
<1> DEFINE m == [l EXCEPT !.back = back]
<1>1. m.row = l.row /\ m.todo = l.todo /\ m.back = back
  BY DEF Local
<1>2. row[l.row.subj] # None
  BY NoneAssumption
<1>3. CASE ~l.row.enforced
  <2>1. Goto(t, back, m) /\ back \in {"reset_write", "delete_write"}
    BY <1>3 DEF Release, ReleaseLabel, Returns
  <2> HIDE DEF m
  <2>2. Alone(t)' /\ Solo' /\ pc'[t] = back /\ local'[t] = m
    BY <2>1, GotoStaysAlone DEF IInv
  <2>3. Fresh(t)'
    BY <1>1, <1>2, <1>3, <2>1, <2>2 DEF Fresh, InPass, Releasing, Blocking
  <2> QED BY <2>2, <2>3, AloneIsFresh
<1>4. CASE l.row.enforced
  <2>1. PICK label \in Releasing : Goto(t, label, m)
    BY <1>4 DEF Release, ReleaseLabel, Releasing
  <2> HIDE DEF m
  <2>2. Alone(t)' /\ Solo' /\ pc'[t] = label /\ local'[t] = m
    BY <2>1, GotoStaysAlone DEF IInv, Releasing
  <2>3. Fresh(t)'
    BY <1>1, <2>1, <2>2 DEF Fresh, InPass, Releasing, Blocking
  <2> QED BY <2>2, <2>3, AloneIsFresh
<1> QED BY <1>3, <1>4 DEF Local

LEMMA ResetAskFresh ==
  ASSUME IInv, FreshInv, NEW t \in Threads, ResetAsk(t)
  PROVE  FreshInv'
<1> DEFINE r == local[t].row
           l(bytes) == [local[t] EXCEPT !.readings = {[subj |-> r.subj, bytes |-> bytes]}]
<1>1. /\ Alone(t) /\ Fresh(t) /\ local[t] \in Local /\ LocalSound(pc[t], local[t])
      /\ pc[t] = "reset_ask"
  BY HandFacts DEF ResetAsk, At
<1>2. r \in Row /\ row[r.subj] = r /\ local[t].todo = {}
  BY <1>1 DEF LocalSound, OnARow, Fresh, InPass, Releasing, Blocking
<1>3. r.subj \in Subjects /\ counter[r.subj] \in Bytes /\ r.last \in Bytes
  BY <1>2 DEF Row, IInv, ServerInv
<1>4. \E bytes \in Bytes : Release(t, l(bytes), "reset_write")
  BY <1>3 DEF ResetAsk
<1>5. PICK bytes \in Bytes : Release(t, l(bytes), "reset_write")
  BY <1>4
<1>6. l(bytes) \in Local /\ l(bytes).row = r /\ l(bytes).todo = {}
  BY <1>1, <1>2, <1>3 DEF Local, Reading
<1>7. UNCHANGED row /\ "reset_write" \in Returns \ {"idle"}
  BY DEF ResetAsk, table, Returns
<1> HIDE DEF l
<1> QED BY <1>1, <1>2, <1>5, <1>6, <1>7, ReleaseFresh

LEMMA DeleteFresh ==
  ASSUME IInv, FreshInv, Serial, NEW t \in Threads, NEW s \in Subjects, Delete(t, s)
  PROVE  FreshInv'
<1> DEFINE l == [Rest EXCEPT !.subj = s, !.row = row[s]]
<1>1. Alone(t)
  BY OthersIdle DEF FreshInv, Delete
<1>2. row[s] \in Row /\ row[s].subj = s
  BY DEF Delete, IInv, TableInv
<1>3. l \in Local /\ l.row = row[s] /\ l.todo = {}
  BY <1>2, NoneAssumption DEF Rest, Local, Returns
<1>4. /\ Release(t, l, "delete_write") /\ UNCHANGED row
      /\ "delete_write" \in Returns \ {"idle"}
  BY DEF Delete, table, Returns
<1> HIDE DEF l
<1> QED BY <1>1, <1>2, <1>3, <1>4, ReleaseFresh

\* The reset and the removal that follow a release.
LEMMA WriteFresh ==
  ASSUME IInv, FreshInv, NEW t \in Threads, ResetWrite(t) \/ DeleteWrite(t)
  PROVE  FreshInv'
<1>1. /\ Alone(t) /\ Fresh(t) /\ local[t] \in Local
      /\ pc[t] \in {"reset_write", "delete_write"}
  BY HandFacts DEF ResetWrite, DeleteWrite, At
<1>2. local[t].todo = {}
  BY <1>1 DEF Fresh, InPass, Releasing, Blocking
<1>3. CASE DeleteWrite(t)
  BY <1>1, <1>3, FinishIsFresh DEF DeleteWrite, IInv
<1>4. CASE ResetWrite(t)
  <2> DEFINE l == [local[t] EXCEPT !.row = None, !.back = "idle", !.readings = {}]
  <2>1. l.todo = {} /\ l.back = "idle" /\ Goto(t, "refresh", l)
    BY <1>1, <1>2, <1>4 DEF Local, ResetWrite
  <2>2. "refresh" \in Bare
    BY DEF Bare, Labels, InPass, Releasing, Blocking
  <2> QED BY <1>1, <2>1, <2>2, BareIsFresh DEF IInv
<1> QED BY <1>3, <1>4

\* A thread on a row of a pass or of a release goes on, the table untouched.
LEMMA GoesOnFresh ==
  ASSUME IInv, FreshInv, NEW t \in Threads, Alone(t), Fresh(t), UNCHANGED row,
         NEW l, l.row = local[t].row, l.todo = local[t].todo, l.back = local[t].back,
         NEW label, Goto(t, label, l),
         \/ pc[t] \in Blocking /\ label \in Blocking
         \/ pc[t] \in Releasing /\ label \in Releasing
  PROVE  FreshInv'
<1>1. label # "idle"
  BY DEF Blocking, Releasing
<1>2. Alone(t)' /\ Solo' /\ pc'[t] = label /\ local'[t] = l
  BY <1>1, GotoStaysAlone DEF IInv
<1>3. Fresh(t)'
  BY <1>2 DEF Fresh, InPass, Releasing, Blocking
<1> QED BY <1>2, <1>3, AloneIsFresh

\* Writing the row at hand leaves the copies of the other rows fresh.
LEMMA OtherCopiesStay ==
  ASSUME IInv, NEW t \in Threads, Fresh(t), NEW r \in Row, row[r.subj] = r,
         NEW todo, todo \subseteq local[t].todo, r \notin todo, local[t] \in Local,
         \A s \in Subjects : s # r.subj => row'[s] = row[s]
  PROVE  \A x \in todo : row'[x.subj] = x
<1> SUFFICES ASSUME NEW x \in todo PROVE row'[x.subj] = x
  OBVIOUS
<1>1. x \in Row /\ x.subj \in Subjects
  BY DEF Local, Row
<1>2. row[x.subj] = x
  BY DEF Fresh
<1>3. x.subj # r.subj
  BY <1>2
<1> QED BY <1>1, <1>2, <1>3

\* Back to the rows of the pass, the row at hand written or not.
LEMMA BackToPassFresh ==
  ASSUME IInv, FreshInv, NEW t \in Threads, Alone(t), Fresh(t), local[t] \in Local,
         NEW r \in Row, row[r.subj] = r,
         \A s \in Subjects : s # r.subj => row'[s] = row[s],
         NEW l, l.back = "idle", l.todo \subseteq local[t].todo, r \notin l.todo,
         Goto(t, "pick", l)
  PROVE  FreshInv'
<1>1. \A x \in l.todo : row'[x.subj] = x
  BY OtherCopiesStay
<1>2. Alone(t)' /\ Solo' /\ pc'[t] = "pick" /\ local'[t] = l
  BY GotoStaysAlone DEF IInv
<1>3. Fresh(t)'
  BY <1>1, <1>2 DEF Fresh, InPass, Releasing, Blocking
<1> QED BY <1>2, <1>3, AloneIsFresh

\* What a thread knows of the row it acts on.
LEMMA RowInHand ==
  ASSUME IInv, FreshInv, NEW t \in Threads, pc[t] \in Releasing \cup Blocking
  PROVE  /\ Alone(t) /\ Fresh(t) /\ local[t] \in Local /\ LocalSound(pc[t], local[t])
         /\ local[t].row \in Row /\ local[t].row.subj \in Subjects
         /\ row[local[t].row.subj] = local[t].row
         /\ local[t].row \notin local[t].todo
         /\ StillThere(local[t].row)
<1>1. /\ Alone(t) /\ Fresh(t) /\ local[t] \in Local /\ LocalSound(pc[t], local[t])
  BY HandFacts DEF At, Releasing, Blocking
<1>2. /\ local[t].row \in Row /\ row[local[t].row.subj] = local[t].row
      /\ local[t].row \notin local[t].todo
  BY <1>1 DEF LocalSound, OnARow, Fresh, Releasing, Blocking
<1>3. local[t].row.subj \in Subjects
  BY <1>2 DEF Row
<1> QED BY <1>1, <1>2, <1>3, NoneAssumption DEF StillThere

LEMMA BlockFresh ==
  ASSUME IInv, FreshInv, NEW t \in Threads,
         \/ BlockGet(t) \/ BlockSet(t) \/ BlockEnum(t) \/ BlockWrite(t)
         \/ \E n \in SessionNames : BlockCut(t, n)
  PROVE  FreshInv'
<1>1. pc[t] \in Blocking
  BY DEF BlockGet, BlockSet, BlockEnum, BlockWrite, BlockCut, At, Blocking
<1> DEFINE r == local[t].row
<1>2. /\ Alone(t) /\ Fresh(t) /\ local[t] \in Local
      /\ r \in Row /\ r.subj \in Subjects /\ row[r.subj] = r /\ r \notin local[t].todo
  BY <1>1, RowInHand
<1>3. local[t].back = "idle"
  BY <1>1, <1>2 DEF Fresh, Blocking, Releasing
<1>4. CASE GiveUp(t) /\ \A s \in Subjects : s # r.subj => row'[s] = row[s]
  <2> DEFINE l == [local[t] EXCEPT !.row = None, !.found = None]
  <2>1. Goto(t, "pick", l) /\ l.back = "idle" /\ l.todo = local[t].todo
    BY <1>2, <1>3, <1>4 DEF GiveUp, Local
  <2> QED BY <1>2, <1>4, <2>1, BackToPassFresh
<1>5. CASE /\ UNCHANGED row
           /\ \E label \in Blocking, found \in Gates \cup {None}, cut \in SUBSET SessionNames :
                Goto(t, label, [local[t] EXCEPT !.found = found, !.cut = cut])
  <2>1. PICK label \in Blocking, found \in Gates \cup {None}, cut \in SUBSET SessionNames :
                Goto(t, label, [local[t] EXCEPT !.found = found, !.cut = cut])
    BY <1>5
  <2> DEFINE l == [local[t] EXCEPT !.found = found, !.cut = cut]
  <2>2. l.row = local[t].row /\ l.todo = local[t].todo /\ l.back = local[t].back
    BY <1>2 DEF Local
  <2> QED BY <1>1, <1>2, <1>5, <2>1, <2>2, GoesOnFresh
<1>6. local[t] = [local[t] EXCEPT !.found = local[t].found, !.cut = local[t].cut]
      /\ local[t].found \in Gates \cup {None} /\ local[t].cut \in SUBSET SessionNames
  BY <1>2 DEF Local
<1>7. CASE BlockGet(t)
  <2>1. gate[r.subj] \in Gates \cup {None}
    BY <1>2 DEF IInv, ServerInv
  <2>2. [local[t] EXCEPT !.found = gate[r.subj]] =
          [local[t] EXCEPT !.found = gate[r.subj], !.cut = local[t].cut]
    BY <1>2 DEF Local
  <2>3. ASSUME Goto(t, "block_set", [local[t] EXCEPT !.found = gate[r.subj]])
        PROVE  \E label \in Blocking, found \in Gates \cup {None}, cut \in SUBSET SessionNames :
                 Goto(t, label, [local[t] EXCEPT !.found = found, !.cut = cut])
    BY <1>6, <2>1, <2>2, <2>3 DEF Blocking
  <2> QED BY <1>4, <1>5, <1>7, <2>3 DEF BlockGet, table
<1>8. CASE BlockSet(t)
  <2>1. ASSUME NEW label \in Blocking, Goto(t, label, local[t]) PROVE FreshInv'
    <3>1. local[t].row = r /\ UNCHANGED row
      BY <1>8 DEF BlockSet, table
    <3> QED BY <1>1, <1>2, <2>1, <3>1, GoesOnFresh
  <2> QED BY <1>4, <1>8, <2>1 DEF BlockSet, table, Blocking
<1>9. CASE BlockEnum(t) \/ \E n \in SessionNames : BlockCut(t, n)
  <2>1. \A cut : [local[t] EXCEPT !.cut = cut] =
                 [local[t] EXCEPT !.found = local[t].found, !.cut = cut]
    BY <1>2 DEF Local
  <2>2. ASSUME BlockEnum(t), ~GiveUp(t)
        PROVE  \E label \in Blocking, cut \in SUBSET SessionNames :
                 Goto(t, label, [local[t] EXCEPT !.cut = cut])
    <3>1. r.subj \in Users
      BY <1>1, <2>2, RowInHand DEF BlockEnum, At, LocalSound
    <3> QED BY <2>2, <3>1 DEF BlockEnum, Blocking, IInv, ServerInv
  <2>3. ASSUME NEW n \in SessionNames, BlockCut(t, n)
        PROVE  \E label \in Blocking, cut \in SUBSET SessionNames :
                 Goto(t, label, [local[t] EXCEPT !.cut = cut])
    BY <1>6, <2>3 DEF BlockCut, Blocking
  <2>4. UNCHANGED row
    BY <1>9 DEF BlockEnum, BlockCut, table
  <2> QED BY <1>4, <1>5, <1>6, <1>9, <2>1, <2>2, <2>3, <2>4
<1>10. CASE BlockWrite(t)
  BY <1>2, <1>4, <1>10 DEF BlockWrite, IInv, TableInv
<1> QED BY <1>7, <1>8, <1>9, <1>10

LEMMA ReleaseStepFresh ==
  ASSUME IInv, FreshInv, NEW t \in Threads,
         ReleaseGet(t) \/ ReleaseSet(t) \/ ReleaseWrite(t)
  PROVE  FreshInv'
<1>1. pc[t] \in Releasing
  BY DEF ReleaseGet, ReleaseSet, ReleaseWrite, At, Releasing
<1> DEFINE r == local[t].row
<1>2. /\ Alone(t) /\ Fresh(t) /\ local[t] \in Local /\ LocalSound(pc[t], local[t])
      /\ r \in Row /\ r.subj \in Subjects /\ row[r.subj] = r /\ r \notin local[t].todo
      /\ StillThere(r)
  BY <1>1, RowInHand
<1>3. CASE ReleaseGet(t) \/ ReleaseSet(t)
  <2>1. PICK label \in Releasing : Goto(t, label, local[t])
    BY <1>3 DEF ReleaseGet, ReleaseSet, Releasing
  <2>2. UNCHANGED row
    BY <1>3 DEF ReleaseGet, ReleaseSet, table
  <2> QED BY <1>1, <1>2, <2>1, <2>2, GoesOnFresh
<1>4. CASE ReleaseWrite(t)
  <2>1. row' = [row EXCEPT ![r.subj] = [@ EXCEPT !.enforced = FALSE, !.restore = None]]
    BY <1>2, <1>4 DEF ReleaseWrite
  <2>2. CASE local[t].back = "pick"
    <3> DEFINE l == [local[t] EXCEPT !.row = None, !.back = "idle"]
    <3>1. Goto(t, "pick", l) /\ l.back = "idle" /\ l.todo = local[t].todo
      BY <1>2, <1>4, <2>2 DEF ReleaseWrite, Local
    <3>2. \A s \in Subjects : s # r.subj => row'[s] = row[s]
      BY <1>2, <2>1 DEF IInv, TableInv
    <3> QED BY <1>2, <3>1, <3>2, BackToPassFresh
  <2>3. CASE local[t].back # "pick"
    <3>1. local[t].back \in {"reset_write", "delete_write"} /\ local[t].todo = {}
      BY <1>1, <1>2, <2>3 DEF LocalSound, Fresh, Local, Returns
    <3>2. Goto(t, local[t].back, local[t])
      BY <1>4, <2>3 DEF ReleaseWrite
    <3>3. Alone(t)' /\ Solo' /\ pc'[t] = local[t].back /\ local'[t] = local[t]
      BY <1>2, <3>1, <3>2, GotoStaysAlone DEF IInv
    <3>4. row'[r.subj] # None /\ row'[r.subj].id = r.id /\ ~row'[r.subj].enforced
      <4> DEFINE new == [r EXCEPT !.enforced = FALSE, !.restore = None]
      <4>1. row'[r.subj] = new
        BY <1>2, <2>1 DEF IInv, TableInv
      <4>2. new \in Row /\ new.id = r.id /\ ~new.enforced
        BY <1>2 DEF Row
      <4> HIDE DEF new
      <4> QED BY <4>1, <4>2, NoneAssumption
    <3>5. pc'[t] \in {"reset_write", "delete_write"} /\ local'[t].back = pc'[t]
          /\ local'[t].todo = {} /\ local'[t].row = r
      BY <3>1, <3>3
    <3>6. pc'[t] \notin InPass /\ pc'[t] \notin Releasing /\ pc'[t] \notin Blocking
          /\ pc'[t] # "reset_ask"
      BY <3>5 DEF InPass, Releasing, Blocking
    <3>7. Fresh(t)'
      BY <3>4, <3>5, <3>6 DEF Fresh
    <3> QED BY <3>3, <3>7, AloneIsFresh
  <2> QED BY <2>2, <2>3
<1> QED BY <1>3, <1>4

LEMMA PickFresh ==
  ASSUME IInv, FreshInv, NEW t \in Threads, Pick(t)
  PROVE  FreshInv'
<1>1. Alone(t) /\ Fresh(t) /\ local[t] \in Local /\ pc[t] = "pick"
  BY HandFacts DEF Pick, At
<1>2. local[t].back = "idle" /\ \A x \in local[t].todo : row[x.subj] = x
  BY <1>1 DEF Fresh, Releasing
<1>3. PICK r \in local[t].todo : PickBlock(t, r) \/ PickRelease(t, r) \/ PickKeep(t, r)
  BY DEF Pick
<1>4. r \in Row /\ r.subj \in Subjects /\ row[r.subj] = r
  BY <1>1, <1>2 DEF Local, Row
<1> DEFINE rest == local[t].todo \ {r}
           l    == [local[t] EXCEPT !.todo = @ \ {r}, !.row = r]
<1>5. l \in Local /\ l.row = r /\ l.todo = rest /\ l.back = "idle"
  BY <1>1, <1>2, <1>4 DEF Local
<1>6. CASE PickBlock(t, r)
  <2>1. Goto(t, "block_get", l) /\ ~r.enforced /\ UNCHANGED row
    BY <1>6 DEF PickBlock
  <2> HIDE DEF l
  <2>2. Alone(t)' /\ Solo' /\ pc'[t] = "block_get" /\ local'[t] = l
    BY <1>1, <2>1, GotoStaysAlone DEF IInv
  <2>3. Fresh(t)'
    BY <1>2, <1>4, <1>5, <2>1, <2>2 DEF Fresh, InPass, Releasing, Blocking
  <2> QED BY <2>2, <2>3, AloneIsFresh
<1>7. CASE PickRelease(t, r)
  <2>1. /\ Release(t, l, "pick") /\ r.enforced /\ ~IsOver(r) /\ UNCHANGED row
        /\ "pick" \in Returns \ {"idle"}
    BY <1>7 DEF PickRelease, Returns
  <2> HIDE DEF l
  <2> QED BY <1>1, <1>2, <1>4, <1>5, <2>1, ReleaseFresh
<1>8. CASE PickKeep(t, r)
  <2> DEFINE m == [local[t] EXCEPT !.todo = @ \ {r}]
  <2>1. m.todo \subseteq local[t].todo /\ r \notin m.todo /\ m.back = "idle"
    BY <1>1, <1>2 DEF Local
  <2>2. Goto(t, "pick", m)
    BY <1>8 DEF PickKeep
  <2>3. \A s \in Subjects : s # r.subj => row'[s] = row[s]
    BY <1>8 DEF PickKeep, IInv, TableInv
  <2> HIDE DEF m
  <2> QED BY <1>1, <1>4, <2>1, <2>2, <2>3, BackToPassFresh
<1> QED BY <1>3, <1>6, <1>7, <1>8

LEMMA UntouchedFresh ==
  ASSUME FreshInv, UNCHANGED <<row, pc, local>>
  PROVE  FreshInv'
BY DEF FreshInv, Solo, At, Fresh, IsOver, UsedBytes, Metered, NetBytes

LEMMA CrashFresh ==
  ASSUME Crash
  PROVE  FreshInv'
<1>1. ASSUME NEW t \in Threads PROVE pc'[t] = "idle" /\ local'[t] = Rest
  BY <1>1 DEF Crash
<1>2. ASSUME NEW t \in Threads PROVE Fresh(t)'
  BY <1>1, <1>2 DEF Fresh, Rest, InPass, Releasing, Blocking
<1> QED BY <1>1, <1>2 DEF FreshInv, Solo, At

LEMMA StepFresh ==
  ASSUME IInv, FreshInv, Serial, [Next]_vars
  PROVE  FreshInv'
<1>1. ASSUME NEW t \in Handlers, Request(t) PROVE FreshInv'
  <2>1. PICK s \in Watched :
          \/ \E c \in Ceilings, isEnabled \in BOOLEAN : Save(t, s, c[1], c[2], isEnabled)
          \/ Switch(t, s) \/ Reset(t, s) \/ Delete(t, s) \/ View(t, s) \/ Remove(t, s)
    BY <1>1 DEF Request
  <2>2. s \in Subjects /\ t \in Threads
    BY SubjectsAssumption DEF Threads
  <2>3. ASSUME NEW c \in Ceilings, NEW isEnabled \in BOOLEAN,
               Save(t, s, c[1], c[2], isEnabled)
        PROVE  FreshInv'
    <3>1. c[1] \in Nat /\ c[2] \in Metrics
      BY BoundsAssumption
    <3> QED BY <2>2, <2>3, <3>1, StartFresh
  <2>4. CASE Reset(t, s) /\ row[s] # None
    BY <2>2, <2>4, ResetFresh
  <2>5. CASE Delete(t, s)
    BY <2>2, <2>5, DeleteFresh
  <2> QED BY <2>1, <2>2, <2>3, <2>4, <2>5, StartFresh
<1>2. ASSUME Tick(Sampler) \/ SampleTraffic(Sampler) PROVE FreshInv'
  BY <1>2, CollectStartFresh DEF Threads
<1>3. ASSUME NEW t \in Threads, Continue(t) PROVE FreshInv'
  BY <1>3, BareStepFresh, ResetRowFresh, EnforceFresh, PassDoneFresh, ResetAskFresh,
     WriteFresh, BlockFresh, ReleaseStepFresh, PickFresh
  DEF Continue
<1>4. CASE World
  BY <1>4, UntouchedFresh, CrashFresh
  DEF World, Login, Logout, Traffic, Edit, Recreate, Create, Toggle, table
<1>5. CASE UNCHANGED vars
  BY <1>5, UntouchedFresh DEF vars, table
<1> QED BY <1>1, <1>2, <1>3, <1>4, <1>5 DEF Next

LEMMA InitFresh ==
  ASSUME Init
  PROVE  FreshInv
BY DEF Init, FreshInv, Solo, At, Fresh, Rest, InPass, Releasing, Blocking

LEMMA Freshness ==
  ASSUME Serial
  PROVE  Spec => []FreshInv
<1>1. IInv /\ FreshInv /\ [Next]_vars => FreshInv'
  BY StepFresh
<1>2. Init => FreshInv
  BY InitFresh
<1> QED BY <1>1, <1>2, Invariance, PTL DEF Spec

-----------------------------------------------------------------------------
(* Which objects the server has *)

\* A counter that went with its object has started over, and an account is in
\* a hub that exists.
GoneRestarted == \A s \in Subjects : gate[s] = None => restarted[s]
HubsThere     == \A u \in Users : gate[u] # None => gate[HubOf[u]] # None

\* The hub of an account whose sessions a block is about to list.
HubAtHand(t) == pc[t] = "block_enum" => gate[HubOf[local[t].row.subj]] # None

ObjectsInv == GoneRestarted /\ HubsThere /\ \A t \in Threads : HubAtHand(t)

\* The same objects are there after the step.
SameObjects == \A s \in Subjects : gate'[s] = None <=> gate[s] = None

LEMMA GatesAreNotNone ==
  ASSUME IInv, NEW s \in Subjects
  PROVE  /\ Deny(s) # None
         /\ \A g \in Choices(s) : g # None
BY KnownAreGates, NoneAssumption, SubjectsAssumption DEF IInv, Choices

LEMMA SetGateSameObjects ==
  ASSUME IInv, NEW s \in Subjects, NEW g, g # None, gate[s] # None, SetGate(s, g)
  PROVE  SameObjects
BY DEF SetGate, SameObjects, IInv, ServerInv

\* Objects come and go by their own requests, or behind the panel's back.
LEMMA ObjectsStay ==
  ASSUME IInv, [Next]_vars,
         ~\E t \in Threads, s \in Subjects : Remove(t, s),
         ~\E s \in Subjects, g \in OperatorGates : Recreate(s, g) \/ Create(s, g)
  PROVE  SameObjects
<1>1. CASE UNCHANGED gate
  BY <1>1 DEF SameObjects
<1>2. ASSUME NEW t \in Threads, Continue(t) PROVE SameObjects
  <2> DEFINE s == local[t].row.subj
  <2>1. CASE BlockSet(t)
    <3>1. s \in Subjects
      BY <2>1, RowAtHand DEF IInv, BlockSet, At, OnARow
    <3>2. Deny(s) # None
      BY <3>1, GatesAreNotNone
    <3> QED BY <1>1, <2>1, <3>1, <3>2, SetGateSameObjects DEF BlockSet, Answers
  <2>2. CASE ReleaseSet(t)
    <3>1. s \in Subjects /\ local[t].row.restore # None
      BY <2>2, RestoreAtHand, NoneAssumption DEF ReleaseSet, At, Releasing
    <3> QED BY <1>1, <2>2, <3>1, SetGateSameObjects DEF ReleaseSet, Answers
  <2>3. CASE ~BlockSet(t) /\ ~ReleaseSet(t)
    <3>1. UNCHANGED gate
      BY <1>2, <2>3
      DEF Continue, SwitchWrite, Refresh, Observe, ObserveWrite, Enforce, ReleaseGet,
          ReleaseWrite, BlockGet, BlockEnum, BlockWrite, BlockCut, Pick, PassDone,
          ResetSave, ResetRow, ResetAsk, ResetWrite, DeleteWrite, Forget, AskCounters,
          Feed, server
    <3> QED BY <1>1, <3>1
  <2> QED BY <2>1, <2>2, <2>3
<1>3. ASSUME NEW t \in Handlers, Request(t) PROVE SameObjects
  <2>1. UNCHANGED gate
    BY <1>3, SubjectsAssumption
    DEF Request, Save, Switch, Reset, Delete, View, Threads, server
  <2> QED BY <1>1, <2>1
<1>4. CASE World
  <2>1. ASSUME NEW s \in Subjects, NEW g \in OperatorGates, Edit(s, g) PROVE SameObjects
    BY <2>1, GatesAreNotNone, SetGateSameObjects DEF Edit
  <2>2. CASE UNCHANGED server
    BY <1>1, <2>2 DEF server
  <2> QED BY <1>1, <1>4, <2>1, <2>2 DEF World, Login, Logout, Traffic, Toggle, Crash
<1> QED
  BY <1>1, <1>2, <1>3, <1>4 DEF Next, Tick, SampleTraffic, vars, server

\* A restart of the counter is forgotten by a reset that reads it, no sooner.
LEMMA RestartsStay ==
  ASSUME IInv, [Next]_vars, NEW s \in Subjects, restarted[s], ~restarted'[s]
  PROVE  \E t \in Threads : ResetAsk(t) /\ gate[s] # None /\ local[t].row.subj = s
<1>1. ASSUME NEW t \in Threads, ResetAsk(t)
      PROVE  gate[s] # None /\ local[t].row.subj = s
  BY <1>1 DEF ResetAsk, Answers, IInv, BookInv
<1>2. \E t \in Threads : ResetAsk(t)
  BY SubjectsAssumption
  DEF Next, vars, history, Request, Save, Switch, Reset, Delete, View, Remove, Tick,
      SampleTraffic, World, Login, Logout, Traffic, Edit, Recreate, Create, Toggle, Crash,
      Continue, SwitchWrite, Refresh, Observe, ObserveWrite, Enforce, ReleaseGet,
      ReleaseSet, ReleaseWrite, BlockGet, BlockSet, BlockEnum, BlockWrite, BlockCut, Pick,
      PassDone, ResetSave, ResetRow, ResetWrite, DeleteWrite, Forget, AskCounters, Feed
<1> QED BY <1>1, <1>2

\* Steps of thread t.
Acts(t) == (t \in Handlers /\ Request(t)) \/ Tick(t) \/ SampleTraffic(t) \/ Continue(t)

LEMMA StepActors ==
  ASSUME [Next]_vars
  PROVE  (\E t \in Threads : Acts(t)) \/ World \/ UNCHANGED vars
BY DEF Next, Acts, Threads

\* Whoever takes a step is the only one with anything to do, then and after.
LEMMA ActorAlone ==
  ASSUME IInv, FreshInv, Serial, NEW t \in Threads, Acts(t)
  PROVE  /\ Alone(t) /\ Alone(t)'
         /\ \E label, l : Goto(t, label, l)
<1>1. \E label, l : Goto(t, label, l)
  <2>1. CASE Continue(t)
    BY <2>1
    DEF Continue, SwitchWrite, Refresh, Observe, ObserveWrite, Enforce, ReleaseGet,
        ReleaseSet, ReleaseWrite, BlockGet, BlockSet, BlockEnum, BlockWrite, BlockCut,
        Pick, PickBlock, PickRelease, PickKeep, PassDone, ResetSave, ResetRow, ResetAsk,
        ResetWrite, DeleteWrite, Forget, AskCounters, Feed, Finish, AfterRefresh, GiveUp,
        Release, Collect
  <2>2. CASE Request(t) \/ Tick(t) \/ SampleTraffic(t)
    BY <2>2
    DEF Request, Save, Switch, Reset, Delete, View, Remove, Release, Tick, SampleTraffic,
        Collect
  <2> QED BY <2>1, <2>2 DEF Acts
<1>2. Alone(t)
  <2>1. CASE Continue(t)
    BY <2>1, OthersIdle
    DEF Continue, SwitchWrite, Refresh, Observe, ObserveWrite, Enforce, ReleaseGet,
        ReleaseSet, ReleaseWrite, BlockGet, BlockSet, BlockEnum, BlockWrite, BlockCut,
        Pick, PassDone, ResetSave, ResetRow, ResetAsk, ResetWrite, DeleteWrite, Forget,
        AskCounters, Feed, FreshInv, At
  <2>2. CASE Request(t) \/ Tick(t) \/ SampleTraffic(t)
    BY <2>2, OthersIdle
    DEF Request, Save, Switch, Reset, Delete, View, Remove, Tick, SampleTraffic, FreshInv
  <2> QED BY <2>1, <2>2 DEF Acts
<1>3. Alone(t)'
  BY <1>1, <1>2 DEF Alone, Goto, IInv, ThreadInv
<1> QED BY <1>1, <1>2, <1>3

\* Sessions are about to be listed because the account was just found there.
LEMMA EnumComesFromSet ==
  ASSUME IInv, NEW t \in Threads, Acts(t), pc'[t] = "block_enum"
  PROVE  /\ BlockSet(t) /\ local'[t] = local[t]
         /\ local[t].row.subj \in Users /\ gate[local[t].row.subj] # None
<1>1. local[t] \in Local
  BY ThreadFacts DEF IInv
<1>2. pc \in [Threads -> Labels] /\ local \in [Threads -> Local]
  BY DEF IInv, ThreadInv
<1>3. CASE BlockSet(t)
  BY <1>2, <1>3 DEF BlockSet, Goto, GiveUp, Answers
<1>4. CASE ~BlockSet(t)
  <2>1. CASE Continue(t)
    BY <1>1, <1>2, <1>4, <2>1
    DEF Continue, SwitchWrite, Refresh, Observe, ObserveWrite, Enforce, ReleaseGet,
        ReleaseSet, ReleaseWrite, BlockGet, BlockEnum, BlockWrite, BlockCut,
        Pick, PickBlock, PickRelease, PickKeep, PassDone, ResetSave, ResetRow, ResetAsk,
        ResetWrite, DeleteWrite, Forget, AskCounters, Feed, Finish, AfterRefresh, GiveUp,
        Release, ReleaseLabel, Collect, Goto, Local, Returns
  <2>2. CASE Request(t) \/ Tick(t) \/ SampleTraffic(t)
    BY <1>2, <2>2
    DEF Request, Save, Switch, Reset, Delete, View, Remove, Release, ReleaseLabel, Tick,
        SampleTraffic, Collect, Goto
  <2> QED BY <2>1, <2>2 DEF Acts
<1> QED BY <1>3, <1>4

LEMMA ObjectsStep ==
  ASSUME IInv, FreshInv, Serial, ObjectsInv, [Next]_vars
  PROVE  ObjectsInv'
<1> USE DEF ObjectsInv
<1>0. gate \in [Subjects -> Gates \cup {None}] /\ HubOf \in [Users -> Hubs]
      /\ Hubs \cap Users = {} /\ Subjects = Hubs \cup Users
  BY SubjectsAssumption DEF IInv, ServerInv, Subjects
<1>1. ASSUME SameObjects PROVE GoneRestarted' /\ HubsThere'
  <2>1. GoneRestarted'
    BY <1>1, RestartsStay DEF GoneRestarted, SameObjects
  <2> QED BY <1>0, <1>1, <2>1 DEF HubsThere, SameObjects
<1>2. ASSUME NEW t \in Threads, NEW s \in Subjects, Remove(t, s)
      PROVE  GoneRestarted' /\ HubsThere'
  BY <1>0, <1>2 DEF Remove, GoneRestarted, HubsThere, Contains
<1>3. ASSUME NEW s \in Subjects, NEW g \in OperatorGates, Recreate(s, g)
      PROVE  GoneRestarted' /\ HubsThere' /\ \A h \in Hubs : gate[h] # None => gate'[h] # None
  <2>1. g # None
    BY <1>3, GatesAreNotNone DEF Recreate
  <2> QED BY <1>0, <1>3, <2>1 DEF Recreate, GoneRestarted, HubsThere
<1>4. ASSUME NEW s \in Subjects, NEW g \in OperatorGates, Create(s, g)
      PROVE  GoneRestarted' /\ HubsThere' /\ \A h \in Hubs : gate[h] # None => gate'[h] # None
  <2>1. g # None
    BY <1>4, GatesAreNotNone DEF Create
  <2> QED BY <1>0, <1>4, <2>1 DEF Create, GoneRestarted, HubsThere
<1>5. GoneRestarted' /\ HubsThere'
  BY <1>1, <1>2, <1>3, <1>4, ObjectsStay
<1>6. ASSUME NEW o \in Threads PROVE HubAtHand(o)'
  <2>1. ASSUME NEW t \in Threads, Acts(t) PROVE HubAtHand(o)'
    <3>1. Alone(t)'
      BY <2>1, ActorAlone
    <3>2. CASE o # t
      BY <3>1, <3>2 DEF Alone, HubAtHand
    <3>3. CASE o = t /\ pc'[t] = "block_enum"
      <4>1. /\ BlockSet(t) /\ local'[t] = local[t]
            /\ local[t].row.subj \in Users /\ gate[local[t].row.subj] # None
        BY <2>1, <3>3, EnumComesFromSet
      <4>2. gate'[HubOf[local[t].row.subj]] # None
        BY <1>0, <4>1, NoneAssumption DEF HubsThere, BlockSet, SetGate, Deny
      <4> QED BY <3>3, <4>1, <4>2 DEF HubAtHand
    <3> QED BY <3>2, <3>3 DEF HubAtHand
  <2>2. CASE World \/ UNCHANGED vars
    <3>1. CASE Crash
      BY <3>1 DEF Crash, HubAtHand
    <3>2. CASE ~Crash
      <4>1. pc' = pc /\ local' = local
        BY <2>2, <3>2
        DEF World, Login, Logout, Traffic, Edit, Recreate, Create, Toggle, vars
      <4>2. \A h \in Hubs : gate[h] # None => gate'[h] # None
        <5>1. CASE \E s \in Subjects, g \in OperatorGates : Recreate(s, g) \/ Create(s, g)
          BY <1>3, <1>4, <5>1
        <5>2. CASE UNCHANGED vars
          BY <5>2 DEF vars, server
        <5>3. ASSUME NEW s \in Subjects, NEW g \in OperatorGates, Edit(s, g)
              PROVE  SameObjects
          BY <5>3, GatesAreNotNone, SetGateSameObjects DEF Edit
        <5> QED
          BY <1>0, <2>2, <3>2, <5>1, <5>2, <5>3
          DEF World, Login, Logout, Traffic, Toggle, SameObjects, server
      <4>3. pc[o] = "block_enum" => HubOf[local[o].row.subj] \in Hubs
        BY <1>0, ThreadFacts DEF IInv, LocalSound
      <4> QED BY <4>1, <4>2, <4>3 DEF HubAtHand
    <3> QED BY <3>1, <3>2
  <2> QED BY <2>1, <2>2, StepActors
<1> QED BY <1>5, <1>6

LEMMA Objects ==
  ASSUME Serial
  PROVE  Spec => [](FreshInv /\ ObjectsInv)
<1>1. Init => ObjectsInv
  <2> SUFFICES ASSUME Init PROVE ObjectsInv
    OBVIOUS
  <2>1. IInv
    BY InitEstablishes
  <2>2. \A s \in Subjects : gate[s] # None
    BY <2>1, GatesAreNotNone DEF Init
  <2> QED BY <2>2, SubjectsAssumption
          DEF Init, ObjectsInv, GoneRestarted, HubsThere, HubAtHand, Subjects
<1>2. IInv /\ FreshInv /\ ObjectsInv /\ [Next]_vars => ObjectsInv'
  BY ObjectsStep
<1> QED BY <1>1, <1>2, Invariance, Freshness, PTL DEF Spec

-----------------------------------------------------------------------------
(* A pass looks at every row *)

InThePass(t) == pc[t] \in InPass /\ (pc[t] \in Releasing => local[t].back = "pick")

\* Subject s is as a pass leaves it, or a failure or a restart excuses it.
Settled(s) ==
  \/ spent["fault"] > 0 \/ restarted[s]
  \/ row[s].enforced <=> IsOver(row[s])

\* A row of the table is still to be looked at, being acted on, or settled.
LookedAt(t) ==
  InThePass(t) => \A s \in Subjects : row[s] # None =>
                    \/ row[s] \in local[t].todo
                    \/ pc[t] # "pick" /\ local[t].row.subj = s
                    \/ Settled(s)

SettlesInv == \A t \in Threads : LookedAt(t)

\* A step that neither crashes the panel nor is a thread's leaves threads be.
LEMMA WorldLeavesThreads ==
  ASSUME IInv, World \/ UNCHANGED vars, ~Crash
  PROVE  /\ UNCHANGED <<row, pc, local>>
         /\ \A s \in Subjects : restarted[s] => restarted'[s]
BY DEF World, Login, Logout, Traffic, Edit, Recreate, Create, Toggle, vars, table, history,
       IInv, BookInv

LEMMA FaultsStay ==
  ASSUME IInv, [Next]_vars, spent["fault"] > 0
  PROVE  spent'["fault"] > 0
<1>1. spent \in [Kinds -> Nat] /\ "fault" \in Kinds
  BY DEF IInv, BookInv, Kinds
<1>2. ASSUME NEW k, Spend(k) PROVE spent'["fault"] > 0
  BY <1>1, <1>2 DEF Spend
<1>3. UNCHANGED spent \/ \E k : Spend(k)
  BY DEF Next, vars, Request, Save, Switch, Reset, Delete, View, Remove, Tick,
      SampleTraffic, World, Login, Logout, Traffic, Edit, Recreate, Create, Toggle, Crash,
      Continue, SwitchWrite, Refresh, Observe, ObserveWrite, Enforce, ReleaseGet,
      ReleaseSet, ReleaseWrite, BlockGet, BlockSet, BlockEnum, BlockWrite, BlockCut, Pick,
      PassDone, ResetSave, ResetRow, ResetAsk, ResetWrite, DeleteWrite, Forget,
      AskCounters, Feed, Answers, Raises, Fault
<1> QED BY <1>1, <1>2, <1>3

\* A subject stays settled while its row stays as it is.
LEMMA SettledStays ==
  ASSUME IInv, [Next]_vars, ~\E t \in Threads : ResetAsk(t),
         NEW s \in Subjects, Settled(s), row'[s] = row[s]
  PROVE  Settled(s)'
<1>1. restarted[s] => restarted'[s]
  BY RestartsStay DEF IInv, BookInv
<1>2. (row[s].enforced <=> IsOver(row[s])) => (row[s].enforced <=> IsOver(row[s]))'
  BY DEF IsOver, UsedBytes, Metered, NetBytes
<1> QED BY <1>1, <1>2, FaultsStay DEF Settled

LEMMA ReleaseLeads ==
  ASSUME ThreadInv, NEW t \in Threads, NEW l \in Local, NEW back, Release(t, l, back)
  PROVE  /\ pc'[t] \in Releasing \cup {back}
         /\ l.row.enforced => pc'[t] \in Releasing
         /\ local'[t].back = back /\ local'[t].row = l.row /\ local'[t].todo = l.todo
         /\ local'[t].readings = l.readings
<1> DEFINE label == ReleaseLabel(l.row, back)
           m     == [l EXCEPT !.back = back]
<1>1. label \in Releasing \cup {back} /\ (l.row.enforced => label \in Releasing)
  BY DEF ReleaseLabel, Releasing
<1>2. /\ m.back = back /\ m.row = l.row /\ m.todo = l.todo
      /\ m.readings = l.readings
  BY DEF Local
<1>3. Goto(t, label, m)
  BY DEF Release
<1> HIDE DEF label, m
<1>4. pc'[t] = label /\ local'[t] = m
  BY <1>3 DEF Goto, ThreadInv
<1> QED BY <1>1, <1>2, <1>4

\* A pass begins with a copy of the table; nothing else leads into one.
LEMMA PassBegins ==
  ASSUME IInv, FreshInv, NEW t \in Threads, Acts(t), ~Enforce(t), InThePass(t)'
  PROVE  /\ InThePass(t) /\ Continue(t)
         /\ ~ResetAsk(t)
<1>1. local[t] \in Local /\ Fresh(t)
  BY ThreadFacts DEF IInv, FreshInv
<1>2. pc \in [Threads -> Labels] /\ local \in [Threads -> Local]
  BY DEF IInv, ThreadInv
<1>3. CASE Continue(t)
  <2>1. CASE pc[t] \in Releasing /\ local[t].back # "pick"
    <3>1. ReleaseGet(t) \/ ReleaseSet(t) \/ ReleaseWrite(t)
      BY <1>3, <2>1
      DEF Continue, SwitchWrite, Refresh, Observe, ObserveWrite, Enforce, BlockGet,
          BlockSet, BlockEnum, BlockWrite, BlockCut, Pick, PassDone, ResetSave, ResetRow,
          ResetAsk, ResetWrite, DeleteWrite, Forget, AskCounters, Feed, At, Releasing
    <3>2. local'[t].back # "pick" /\ pc'[t] \notin InPass \ Releasing
      BY <1>1, <1>2, <2>1, <3>1
      DEF ReleaseGet, ReleaseSet, ReleaseWrite, Goto, InPass, Releasing, Blocking, Local,
          Returns
    <3> QED BY <3>2 DEF InThePass
  <2>2. CASE pc[t] \notin InPass
    <3>1. local[t].back # "pick"
      BY <1>1, <2>2 DEF Fresh, InPass
    <3>2. CASE ResetAsk(t)
      <4>1. local'[t].back = "reset_write" /\ pc'[t] \notin InPass \ Releasing
        <5>1. local[t].row.subj \in Subjects /\ local[t].row.last \in Bytes
          BY <3>2, RowAtHand DEF IInv, ResetAsk, At, OnARow, Row
        <5>2. PICK bytes \in Bytes :
                Release(t, [local[t] EXCEPT !.readings =
                              {[subj |-> local[t].row.subj, bytes |-> bytes]}], "reset_write")
          BY <3>2, <5>1 DEF ResetAsk, IInv, ServerInv
        <5> DEFINE l == [local[t] EXCEPT !.readings =
                              {[subj |-> local[t].row.subj, bytes |-> bytes]}]
        <5>3. l \in Local
          BY <1>1, <5>1 DEF Local, Reading
        <5> HIDE DEF l
        <5>4. Release(t, l, "reset_write")
          BY <5>2 DEF l
        <5> QED BY <5>3, <5>4, ReleaseLeads DEF IInv, InPass, Releasing, Blocking
      <4> QED BY <4>1 DEF InThePass
    <3>3. CASE ~ResetAsk(t)
      <4>1. pc'[t] \notin InPass
        BY <1>1, <1>2, <1>3, <2>2, <3>3
        DEF Continue, SwitchWrite, Refresh, Observe, ObserveWrite, ReleaseGet,
            ReleaseSet, ReleaseWrite, BlockGet, BlockSet, BlockEnum, BlockWrite, BlockCut,
            Pick, PassDone, ResetSave, ResetRow, ResetWrite, DeleteWrite, Forget,
            AskCounters, Feed, Finish, AfterRefresh, Collect, Goto, At, InPass, Releasing,
            Blocking
      <4> QED BY <4>1 DEF InThePass
    <3> QED BY <3>2, <3>3
  <2>3. CASE InThePass(t)
    BY <1>3, <2>3 DEF InThePass, ResetAsk, At, InPass, Releasing, Blocking
  <2> QED BY <2>1, <2>2, <2>3 DEF InThePass
<1>4. CASE Request(t) \/ Tick(t) \/ SampleTraffic(t)
  <2>1. ASSUME NEW s \in Watched, Delete(t, s) PROVE FALSE
    <3>1. local'[t].back = "delete_write" /\ pc'[t] \notin InPass \ Releasing
      BY <1>2, <2>1
      DEF Delete, Release, ReleaseLabel, Goto, InPass, Releasing, Blocking, Rest
    <3> QED BY <3>1 DEF InThePass
  <2>2. ASSUME NEW label \in {"refresh", "switch_write", "reset_save", "reset_ask",
                              "forget", "ask", "observe", "feed"},
               NEW l, Goto(t, label, l)
        PROVE  FALSE
    BY <1>2, <2>2 DEF InThePass, Goto, InPass, Releasing, Blocking
  <2>3. CASE Tick(t) \/ SampleTraffic(t)
    BY <2>2, <2>3 DEF Tick, SampleTraffic, Collect
  <2>4. CASE Request(t)
    BY <2>1, <2>2, <2>4 DEF Request, Save, Switch, Reset, View, Remove
  <2> QED BY <1>4, <2>3, <2>4
<1> QED BY <1>3, <1>4 DEF Acts

\* A call of a block that raised found the object gone, or failed.
LEMMA RaisedForAReason ==
  ASSUME IInv, [Next]_vars, NEW t \in Threads, NEW s \in Subjects, Raises(t, s) \/ Fault(t)
  PROVE  spent'["fault"] > 0 \/ gate[s] = None
BY DEF Raises, Fault, Spend, IInv, BookInv, Kinds

\* The row at hand of a block or a release that goes on, or leaves it settled.
LEMMA BlockLooks ==
  ASSUME IInv, FreshInv, Serial, ObjectsInv, [Next]_vars, NEW t \in Threads,
         pc[t] \in Blocking, Continue(t)
  PROVE  /\ local'[t].todo = local[t].todo
         /\ pc'[t] \in Blocking \cup {"pick"}
         /\ \A s \in Subjects : s # local[t].row.subj => row'[s] = row[s]
         /\ pc'[t] # "pick" => local'[t].row = local[t].row
         /\ \A s \in Subjects : pc'[t] = "pick" /\ s = local[t].row.subj => Settled(s)'
<1> DEFINE r == local[t].row
<1>1. /\ Alone(t) /\ Fresh(t) /\ local[t] \in Local /\ LocalSound(pc[t], local[t])
      /\ r \in Row /\ r.subj \in Subjects /\ row[r.subj] = r /\ StillThere(r)
  BY RowInHand
<1>2. pc \in [Threads -> Labels] /\ local \in [Threads -> Local]
  BY DEF IInv, ThreadInv
<1>3. \/ BlockGet(t) \/ BlockSet(t) \/ BlockEnum(t) \/ BlockWrite(t)
      \/ \E n \in SessionNames : BlockCut(t, n)
  BY DEF Continue, SwitchWrite, Refresh, Observe, ObserveWrite, Enforce, ReleaseGet,
         ReleaseSet, ReleaseWrite, Pick, PassDone, ResetSave, ResetRow, ResetAsk,
         ResetWrite, DeleteWrite, Forget, AskCounters, Feed, At, Blocking
<1>4. pc'[t] \in Blocking \cup {"pick"}
  BY <1>2, <1>3
  DEF BlockGet, BlockSet, BlockEnum, BlockWrite, BlockCut, GiveUp, Goto, Blocking
<1>5. local'[t].todo = local[t].todo /\ (pc'[t] # "pick" => local'[t].row = r)
  <2>1. CASE GiveUp(t)
    BY <1>1, <1>2, <2>1 DEF GiveUp, Goto, Local
  <2>2. CASE ~GiveUp(t)
    <3>1. PICK l : /\ l = local[t] \/ (\E g : l = [local[t] EXCEPT !.found = g])
                      \/ (\E c : l = [local[t] EXCEPT !.cut = c])
                   /\ \E label : Goto(t, label, l)
      BY <1>3, <2>2 DEF BlockGet, BlockSet, BlockEnum, BlockWrite, BlockCut
    <3>2. l.todo = local[t].todo /\ l.row = r
      BY <1>1, <3>1 DEF Local
    <3> QED BY <1>2, <3>1, <3>2 DEF Goto
  <2> QED BY <2>1, <2>2
<1>6. \A s \in Subjects : s # r.subj => row'[s] = row[s]
  BY <1>1, <1>3
  DEF BlockGet, BlockSet, BlockEnum, BlockWrite, BlockCut, table, IInv, TableInv
<1>7. ASSUME pc'[t] = "pick", ~BlockWrite(t), NEW s \in Subjects, s = r.subj
      PROVE  Settled(s)'
  <2>1. Raises(t, r.subj) \/ Fault(t) \/ (BlockEnum(t) /\ Raises(t, HubOf[r.subj]))
    BY <1>2, <1>3, <1>7
    DEF BlockGet, BlockSet, BlockEnum, BlockCut, GiveUp, Goto
  <2>2. CASE BlockEnum(t) /\ Raises(t, HubOf[r.subj])
    <3>1. gate[HubOf[r.subj]] # None
      BY <2>2 DEF ObjectsInv, HubAtHand, BlockEnum, At
    <3>2. spent'["fault"] > 0
      BY <2>2, <3>1 DEF Raises, Fault, Spend, IInv, BookInv, Kinds
    <3> QED BY <3>2 DEF Settled
  <2>3. CASE Raises(t, r.subj) \/ Fault(t)
    <3>1. spent'["fault"] > 0 \/ gate[r.subj] = None
      BY <1>1, <2>3, RaisedForAReason
    <3>2. gate[r.subj] = None => restarted[r.subj]
      BY <1>1 DEF ObjectsInv, GoneRestarted
    <3>3. UNCHANGED restarted
      BY <1>3, <1>7 DEF BlockGet, BlockSet, BlockEnum, BlockCut, history
    <3> QED BY <1>7, <3>1, <3>2, <3>3 DEF Settled
  <2> QED BY <2>1, <2>2, <2>3
<1>8. ASSUME BlockWrite(t), NEW s \in Subjects, s = r.subj PROVE Settled(s)'
  <2> DEFINE new == [r EXCEPT !.enforced = TRUE, !.exceeded = TRUE,
                              !.restore = local[t].found]
  <2>1. row'[r.subj] = new
    BY <1>1, <1>8 DEF BlockWrite, IInv, TableInv
  <2>2. new.enforced /\ new.isEnabled = r.isEnabled /\ new.limit = r.limit
        /\ new.metric = r.metric /\ new.base = r.base /\ new.last = r.last
    BY <1>1 DEF Row
  <2>3. IsOver(r)
    BY <1>1 DEF LocalSound
  <2> HIDE DEF new
  <2>4. IsOver(new)
    BY <2>2, <2>3 DEF IsOver, UsedBytes, NetBytes
  <2>5. row'[s] = new
    BY <1>8, <2>1
  <2> QED BY <2>2, <2>4, <2>5 DEF Settled, IsOver, UsedBytes, Metered, NetBytes
<1> QED BY <1>4, <1>5, <1>6, <1>7, <1>8

LEMMA ReleaseLooks ==
  ASSUME IInv, FreshInv, Serial, NEW t \in Threads,
         pc[t] \in Releasing, local[t].back = "pick", Continue(t)
  PROVE  /\ local'[t].todo = local[t].todo
         /\ pc'[t] \in Releasing \cup {"pick"}
         /\ \A s \in Subjects : s # local[t].row.subj => row'[s] = row[s]
         /\ pc'[t] # "pick" => local'[t].row = local[t].row
         /\ \A s \in Subjects : pc'[t] = "pick" /\ s = local[t].row.subj => Settled(s)'
<1> DEFINE r == local[t].row
<1>1. /\ Alone(t) /\ Fresh(t) /\ local[t] \in Local
      /\ r \in Row /\ r.subj \in Subjects /\ row[r.subj] = r /\ StillThere(r)
  BY RowInHand
<1>2. pc \in [Threads -> Labels] /\ local \in [Threads -> Local]
  BY DEF IInv, ThreadInv
<1>3. ReleaseGet(t) \/ ReleaseSet(t) \/ ReleaseWrite(t)
  BY DEF Continue, SwitchWrite, Refresh, Observe, ObserveWrite, Enforce, BlockGet,
         BlockSet, BlockEnum, BlockWrite, BlockCut, Pick, PassDone, ResetSave, ResetRow,
         ResetAsk, ResetWrite, DeleteWrite, Forget, AskCounters, Feed, At, Releasing
<1>4. CASE ReleaseGet(t) \/ ReleaseSet(t)
  <2>1. UNCHANGED row /\ local'[t] = local[t] /\ pc'[t] \in Releasing
    BY <1>2, <1>4 DEF ReleaseGet, ReleaseSet, Goto, Releasing, table
  <2> QED BY <2>1 DEF Releasing
<1>5. CASE ReleaseWrite(t)
  <2> DEFINE new == [r EXCEPT !.enforced = FALSE, !.restore = None]
  <2>1. row' = [row EXCEPT ![r.subj] = new]
    BY <1>1, <1>5 DEF ReleaseWrite
  <2>2. row'[r.subj] = new /\ \A s \in Subjects : s # r.subj => row'[s] = row[s]
    BY <1>1, <2>1 DEF IInv, TableInv
  <2>3. ~new.enforced /\ new.isEnabled = r.isEnabled /\ new.limit = r.limit
        /\ new.metric = r.metric /\ new.base = r.base /\ new.last = r.last
    BY <1>1 DEF Row
  <2>4. ~IsOver(r)
    BY <1>1 DEF Fresh
  <2>5. local'[t].todo = local[t].todo /\ pc'[t] = "pick"
    BY <1>1, <1>2, <1>5 DEF ReleaseWrite, Goto, Local
  <2> HIDE DEF new
  <2>6. ~IsOver(new)
    BY <2>3, <2>4 DEF IsOver, UsedBytes, NetBytes
  <2>7. ASSUME NEW s \in Subjects, s = r.subj PROVE Settled(s)'
    <3>1. row'[s] = new
      BY <2>2, <2>7
    <3> QED BY <2>3, <2>6, <3>1 DEF Settled, IsOver, UsedBytes, Metered, NetBytes
  <2> QED BY <2>2, <2>5, <2>7
<1> QED BY <1>3, <1>4, <1>5

\* Where a thread looks at one row more, every other row stays looked at.
LEMMA OneMoreLookedAt ==
  ASSUME IInv, FreshInv, [Next]_vars, ~\E o \in Threads : ResetAsk(o),
         NEW t \in Threads, LookedAt(t), InThePass(t), pc[t] # "pick",
         local'[t].todo = local[t].todo,
         \A s \in Subjects : s # local[t].row.subj => row'[s] = row[s],
         pc'[t] # "pick" => local'[t].row = local[t].row,
         \A s \in Subjects : pc'[t] = "pick" /\ s = local[t].row.subj => Settled(s)'
  PROVE  LookedAt(t)'
<1> SUFFICES ASSUME NEW s \in Subjects, row'[s] # None
             PROVE  \/ row'[s] \in local'[t].todo
                    \/ pc'[t] # "pick" /\ local'[t].row.subj = s
                    \/ Settled(s)'
  BY DEF LookedAt
<1>1. CASE s = local[t].row.subj
  BY <1>1
<1>2. CASE s # local[t].row.subj
  <2>1. row'[s] = row[s]
    BY <1>2
  <2>2. Settled(s) => Settled(s)'
    BY <2>1, SettledStays
  <2> QED BY <1>2, <2>1, <2>2 DEF LookedAt
<1> QED BY <1>1, <1>2

LEMMA PickLooks ==
  ASSUME IInv, FreshInv, Serial, [Next]_vars, ~\E o \in Threads : ResetAsk(o),
         NEW t \in Threads, LookedAt(t), Pick(t)
  PROVE  LookedAt(t)'
<1>1. Alone(t) /\ Fresh(t) /\ local[t] \in Local /\ pc[t] = "pick"
  BY HandFacts DEF Pick, At
<1>2. pc \in [Threads -> Labels] /\ local \in [Threads -> Local]
  BY DEF IInv, ThreadInv
<1>3. PICK r \in local[t].todo : PickBlock(t, r) \/ PickRelease(t, r) \/ PickKeep(t, r)
  BY DEF Pick
<1>4. r \in Row /\ r.subj \in Subjects /\ row[r.subj] = r
  BY <1>1, <1>3 DEF Local, Row, Fresh
<1> SUFFICES ASSUME NEW s \in Subjects, row'[s] # None
             PROVE  \/ row'[s] \in local'[t].todo
                    \/ pc'[t] # "pick" /\ local'[t].row.subj = s
                    \/ Settled(s)'
  BY DEF LookedAt
<1>5. row[s] # None => row[s] \in local[t].todo \/ Settled(s)
  BY <1>1 DEF LookedAt, InThePass, InPass, Releasing
<1>6. row[s] = r => s = r.subj
  BY <1>4 DEF IInv, TableInv
<1>7. CASE PickBlock(t, r) \/ PickRelease(t, r)
  <2> DEFINE l == [local[t] EXCEPT !.todo = @ \ {r}, !.row = r]
  <2>1. l \in Local /\ l.todo = local[t].todo \ {r} /\ l.row = r
    BY <1>1, <1>4 DEF Local
  <2>2. UNCHANGED row
    BY <1>7 DEF PickBlock, PickRelease
  <2>3. local'[t].todo = local[t].todo \ {r} /\ local'[t].row = r /\ pc'[t] # "pick"
    <3>1. CASE PickBlock(t, r)
      BY <1>2, <2>1, <3>1 DEF PickBlock, Goto
    <3>2. CASE PickRelease(t, r)
      <4>1. Release(t, l, "pick") /\ l.row.enforced
        BY <2>1, <3>2 DEF PickRelease
      <4> HIDE DEF l
      <4> QED BY <2>1, <4>1, ReleaseLeads DEF IInv, Releasing
    <3> QED BY <1>7, <3>1, <3>2
  <2>4. Settled(s) => Settled(s)'
    BY <2>2, SettledStays
  <2> QED BY <1>5, <1>6, <2>2, <2>3, <2>4
<1>8. CASE PickKeep(t, r)
  <2>1. local'[t].todo = local[t].todo \ {r}
    BY <1>1, <1>2, <1>8 DEF PickKeep, Goto, Local
  <2>2. CASE s # r.subj
    <3>1. row'[s] = row[s]
      BY <1>4, <1>8, <2>2 DEF PickKeep, IInv, TableInv
    <3>2. Settled(s) => Settled(s)'
      BY <3>1, SettledStays
    <3> QED BY <1>5, <1>6, <2>1, <2>2, <3>1, <3>2
  <2>3. CASE s = r.subj
    <3> DEFINE new == [r EXCEPT !.exceeded = TRUE]
    <3>1. row'[s] \in {r, new}
      BY <1>4, <1>8, <2>3 DEF PickKeep, IInv, TableInv
    <3>2. new.enforced = r.enforced /\ new.isEnabled = r.isEnabled /\ new.limit = r.limit
          /\ new.metric = r.metric /\ new.base = r.base /\ new.last = r.last
      BY <1>4 DEF Row
    <3>3. r.enforced <=> IsOver(r)
      BY <1>8 DEF PickKeep
    <3> HIDE DEF new
    <3>4. new.enforced <=> IsOver(new)
      BY <3>2, <3>3 DEF IsOver, UsedBytes, NetBytes
    <3> QED BY <3>1, <3>3, <3>4 DEF Settled, IsOver, UsedBytes, Metered, NetBytes
  <2> QED BY <2>2, <2>3
<1> QED BY <1>3, <1>7, <1>8

LEMMA SettlesStep ==
  ASSUME IInv, FreshInv, Serial, ObjectsInv, SettlesInv, [Next]_vars
  PROVE  SettlesInv'
<1> SUFFICES ASSUME NEW o \in Threads, InThePass(o)' PROVE LookedAt(o)'
  BY DEF SettlesInv, LookedAt
<1>1. ASSUME NEW t \in Threads, Acts(t) PROVE LookedAt(o)'
  <2>1. Alone(t) /\ Alone(t)'
    BY <1>1, ActorAlone
  <2>2. o = t
    BY <2>1 DEF Alone, InThePass, InPass, Releasing, Blocking
  <2>3. CASE Enforce(t)
    <3>1. local'[t].todo = AllRows /\ UNCHANGED row
      BY <2>3 DEF Enforce, Goto, IInv, ThreadInv, Rest, table
    <3> QED BY <2>2, <3>1 DEF LookedAt, AllRows
  <2>4. CASE ~Enforce(t)
    <3>1. InThePass(t) /\ Continue(t)
      BY <1>1, <2>2, <2>4, PassBegins
    <3>2. ~\E x \in Threads : ResetAsk(x)
      BY <2>1, <3>1, <1>1, <2>2, <2>4, PassBegins DEF Alone, ResetAsk, At
    <3>3. LookedAt(t)
      BY DEF SettlesInv
    <3>4. CASE pc[t] = "pick"
      <4>1. Pick(t) \/ PassDone(t)
        BY <3>1, <3>4
        DEF Continue, SwitchWrite, Refresh, Observe, ObserveWrite, Enforce, BlockGet,
            BlockSet, BlockEnum, BlockWrite, BlockCut, ReleaseGet, ReleaseSet,
            ReleaseWrite, ResetSave, ResetRow, ResetAsk, ResetWrite, DeleteWrite, Forget,
            AskCounters, Feed, At
      <4>2. ~PassDone(t)
        BY <2>2 DEF PassDone, Finish, Goto, IInv, ThreadInv, InThePass, InPass, Releasing,
                    Blocking
      <4> QED BY <2>2, <3>2, <3>3, <4>1, <4>2, PickLooks
    <3>5. CASE pc[t] \in Blocking
      BY <2>2, <3>1, <3>2, <3>3, <3>5, BlockLooks, OneMoreLookedAt DEF Blocking
    <3>6. CASE pc[t] \in Releasing
      BY <2>2, <3>1, <3>2, <3>3, <3>6, ReleaseLooks, OneMoreLookedAt
      DEF InThePass, Releasing
    <3> QED BY <3>1, <3>4, <3>5, <3>6 DEF InThePass, InPass
  <2> QED BY <2>3, <2>4
<1>2. CASE World \/ UNCHANGED vars
  <2>1. CASE Crash
    BY <2>1 DEF Crash, InThePass, InPass, Releasing, Blocking
  <2>2. CASE ~Crash
    <3>1. /\ pc' = pc /\ local' = local /\ row' = row
          /\ \A s \in Subjects : restarted[s] => restarted'[s]
      BY <1>2, <2>2, WorldLeavesThreads
    <3>2. InThePass(o) /\ LookedAt(o)
      BY <3>1 DEF InThePass, SettlesInv
    <3>3. ASSUME NEW s \in Subjects, Settled(s) PROVE Settled(s)'
      BY <3>1, <3>3, FaultsStay DEF Settled, IsOver, UsedBytes, Metered, NetBytes
    <3> QED BY <3>1, <3>2, <3>3 DEF LookedAt
  <2> QED BY <2>1, <2>2
<1> QED BY <1>1, <1>2, StepActors

\* When passes and requests follow one another, a pass that has ended with
\* every call answered leaves exactly the rows over their limit blocked,
\* objects that vanished under it apart, whatever the panel, its operator and
\* the sessions did before and meanwhile, crashes included.
THEOREM PassesSettle ==
  ASSUME Serial
  PROVE  Spec => PassSettlesTable
<1>1. Init => SettlesInv
  BY DEF Init, SettlesInv, LookedAt, InThePass, InPass, Releasing, Blocking
<1>2. IInv /\ FreshInv /\ ObjectsInv /\ SettlesInv /\ [Next]_vars => SettlesInv'
  BY SettlesStep
<1> DEFINE Leaves == \A t \in Threads : PassDone(t) /\ spent["fault"] = 0 =>
               \A s \in Subjects : row[s] # None /\ gate[s] # None /\ ~restarted[s] =>
                 (row[s].enforced <=> IsOver(row[s]))
<1>3. IInv /\ SettlesInv => Leaves
  <2> SUFFICES ASSUME IInv, SettlesInv, NEW t \in Threads, PassDone(t), spent["fault"] = 0,
                      NEW s \in Subjects, row[s] # None, ~restarted[s]
               PROVE  row[s].enforced <=> IsOver(row[s])
    OBVIOUS
  <2>1. pc[t] = "pick" /\ local[t].todo = {}
    BY DEF PassDone, At
  <2>2. Settled(s)
    BY <2>1 DEF SettlesInv, LookedAt, InThePass, InPass, Releasing
  <2> QED BY <2>2 DEF Settled
<1>4. Spec => [][Leaves]_vars
  BY <1>1, <1>2, <1>3, Invariance, Objects, PTL DEF Spec
<1> QED BY <1>4 DEF PassSettlesTable

-----------------------------------------------------------------------------
(* A blocked subject stays shut *)

\* Block has denied access and is still at work.
Isolating == {"block_enum", "block_cut", "block_write"}

\* A release of s is under way.
Lifting(s) == \E t \in Threads : pc[t] \in Releasing /\ local[t].row.subj = s

\* What belongs to s, as far as sessions go.
Under(s) == {u \in Users : u = s \/ HubOf[u] = s}

Shut(s) == gate[s] = Deny(s) /\ \A u \in Under(s) : sessions[u] = {}

\* How far the block of subject s by thread t has come.
Isolated(t, s) ==
  pc[t] \in Isolating /\ local[t].row.subj = s /\ ~restarted[s] =>
    /\ gate[s] = Deny(s)
    /\ pc[t] = "block_cut" => sessions[s] \subseteq local[t].cut
    /\ pc[t] = "block_write" => Shut(s)

BlockedShut(s) ==
  row[s] # None /\ row[s].enforced /\ ~restarted[s] /\ ~Lifting(s) => Shut(s)

CutOffInv ==
  /\ \A s \in Subjects : BlockedShut(s)
  /\ \A t \in Threads, s \in Subjects : Isolated(t, s)

LEMMA NoCrash ==
  ASSUME IInv, Uncrashed
  PROVE  ~Crash
BY DEF IInv, BookInv, Uncrashed, Crash, Spend, Kinds

LEMMA NoEdit ==
  ASSUME IInv, Unedited, NEW s, NEW g
  PROVE  ~Edit(s, g)
BY DEF IInv, BookInv, Unedited, Edit, Spend, Kinds

\* Nobody gets in where access is denied.
LEMMA DeniedStaysOut ==
  ASSUME IInv, NEW s \in Subjects, gate[s] = Deny(s), NEW u \in Under(s)
  PROVE  ~MayConnect(u)
BY SubjectsAssumption DEF Deny, Under, MayConnect, Subjects

LEMMA SetGateShrinks ==
  ASSUME IInv, NEW u \in Users, NEW x, NEW g, SetGate(x, g)
  PROVE  sessions'[u] \subseteq sessions[u]
BY DEF SetGate, WithoutHub, IInv, ServerInv

\* What the world does to a denied subject, short of making it anew.
LEMMA WorldLeavesDenied ==
  ASSUME IInv, GoneRestarted, Uncrashed, Unedited, World \/ UNCHANGED vars,
         NEW s \in Subjects, gate[s] = Deny(s), ~restarted[s], ~restarted'[s]
  PROVE  /\ gate'[s] = Deny(s)
         /\ \A u \in Under(s) : sessions'[u] \subseteq sessions[u]
<1>1. gate[s] # None
  BY DEF GoneRestarted
<1>2. CASE UNCHANGED server
  BY <1>2 DEF server
<1>3. ASSUME NEW x \in Users, NEW n \in SessionNames, Login(x, n) \/ Logout(x, n)
      PROVE  UNCHANGED gate /\ \A u \in Under(s) : sessions'[u] \subseteq sessions[u]
  <2>1. Login(x, n) => x \notin Under(s)
    BY DeniedStaysOut DEF Login
  <2> QED BY <1>3, <2>1 DEF Login, Logout, Under, IInv, ServerInv
<1>4. ASSUME NEW x \in Subjects, NEW g \in OperatorGates, Recreate(x, g) \/ Create(x, g)
      PROVE  /\ gate'[s] = gate[s]
             /\ \A u \in Under(s) : sessions'[u] \subseteq sessions[u]
  <2>1. CASE Recreate(x, g)
    BY <2>1 DEF Recreate, Under, IInv, ServerInv, BookInv
  <2>2. CASE Create(x, g)
    BY <1>1, <2>2 DEF Create, Under, IInv, ServerInv
  <2> QED BY <1>4, <2>1, <2>2
<1> QED
  BY <1>2, <1>3, <1>4, NoCrash, NoEdit DEF World, Traffic, Toggle, vars, server

\* What the panel does to a denied subject, short of releasing or removing it.
LEMMA ThreadLeavesDenied ==
  ASSUME IInv, FreshInv, NEW t \in Threads, Acts(t),
         NEW s \in Subjects, gate[s] = Deny(s), ~restarted[s], ~restarted'[s],
         ~(ReleaseSet(t) /\ local[t].row.subj = s)
  PROVE  /\ gate'[s] = Deny(s)
         /\ \A u \in Under(s) : sessions'[u] \subseteq sessions[u]
<1>0. gate \in [Subjects -> Gates \cup {None}] /\ sessions \in [Users -> SUBSET SessionNames]
      /\ restarted \in [Subjects -> BOOLEAN]
  BY DEF IInv, ServerInv, BookInv
<1>1. CASE UNCHANGED server
  BY <1>1 DEF server
<1>2. ASSUME NEW x \in Subjects, Remove(t, x)
      PROVE  /\ gate'[s] = gate[s]
             /\ \A u \in Under(s) : sessions'[u] \subseteq sessions[u]
  BY <1>0, <1>2 DEF Remove, Under
<1>3. CASE BlockSet(t) \/ ReleaseSet(t)
  <2> DEFINE x == local[t].row.subj
  <2>1. x \in Subjects
    BY <1>3, RowAtHand DEF IInv, BlockSet, ReleaseSet, At, OnARow
  <2>2. CASE UNCHANGED <<gate, sessions>>
    BY <2>2
  <2>3. CASE \E g : SetGate(x, g) /\ (x = s => g = Deny(s))
    <3>1. PICK g : SetGate(x, g) /\ (x = s => g = Deny(s))
      BY <2>3
    <3>2. gate'[s] = Deny(s)
      BY <1>0, <2>1, <3>1 DEF SetGate
    <3> QED BY <3>1, <3>2, SetGateShrinks DEF Under
  <2> QED BY <1>3, <2>2, <2>3 DEF BlockSet, ReleaseSet
<1>4. ASSUME NEW n \in SessionNames, BlockCut(t, n)
      PROVE  /\ gate'[s] = gate[s]
             /\ \A u \in Under(s) : sessions'[u] \subseteq sessions[u]
  BY <1>0, <1>4 DEF BlockCut, Under
<1>5. CASE Continue(t)
  BY <1>1, <1>3, <1>4, <1>5
  DEF Continue, SwitchWrite, Refresh, Observe, ObserveWrite, Enforce, ReleaseGet,
      ReleaseWrite, BlockGet, BlockEnum, BlockWrite, Pick, PassDone, ResetSave, ResetRow,
      ResetAsk, ResetWrite, DeleteWrite, Forget, AskCounters, Feed
<1>6. CASE Request(t) \/ Tick(t) \/ SampleTraffic(t)
  BY <1>1, <1>2, <1>6, SubjectsAssumption
  DEF Request, Save, Switch, Reset, Delete, View, Tick, SampleTraffic
<1> QED BY <1>5, <1>6 DEF Acts

\* A block that has denied access came there by its own earlier steps.
LEMMA IsolatingComesFrom ==
  ASSUME IInv, FreshInv, NEW t \in Threads, Acts(t), pc'[t] \in Isolating
  PROVE  /\ BlockSet(t) \/ BlockEnum(t) \/ \E n \in SessionNames : BlockCut(t, n)
         /\ local'[t].row = local[t].row
         /\ BlockSet(t) => UNCHANGED restarted /\ gate'[local[t].row.subj] = Deny(local[t].row.subj)
<1>1. local[t] \in Local /\ Fresh(t)
  BY ThreadFacts DEF IInv, FreshInv
<1>2. pc \in [Threads -> Labels] /\ local \in [Threads -> Local]
  BY DEF IInv, ThreadInv
<1>3. pc'[t] \in Blocking
  BY DEF Isolating, Blocking
<1>4. InThePass(t)' /\ ~Enforce(t)
  BY <1>2, <1>3 DEF InThePass, InPass, Releasing, Blocking, Enforce, Goto
<1>5. InThePass(t) /\ Continue(t)
  BY <1>4, PassBegins
<1>6. pc[t] \in Blocking
  <2>1. CASE pc[t] = "pick"
    <3>1. Pick(t) \/ PassDone(t)
      BY <1>5, <2>1
      DEF Continue, SwitchWrite, Refresh, Observe, ObserveWrite, Enforce, BlockGet,
          BlockSet, BlockEnum, BlockWrite, BlockCut, ReleaseGet, ReleaseSet,
          ReleaseWrite, ResetSave, ResetRow, ResetAsk, ResetWrite, DeleteWrite, Forget,
          AskCounters, Feed, At
    <3>2. pc'[t] \notin Isolating
      BY <1>2, <3>1
      DEF Pick, PassDone, PickBlock, PickRelease, PickKeep, Release, ReleaseLabel, Finish,
          Goto, Isolating
    <3> QED BY <3>2
  <2>2. CASE pc[t] \in Releasing
    <3>1. ReleaseGet(t) \/ ReleaseSet(t) \/ ReleaseWrite(t)
      BY <1>5, <2>2
      DEF Continue, SwitchWrite, Refresh, Observe, ObserveWrite, Enforce, BlockGet,
          BlockSet, BlockEnum, BlockWrite, BlockCut, Pick, PassDone, ResetSave, ResetRow,
          ResetAsk, ResetWrite, DeleteWrite, Forget, AskCounters, Feed, At, Releasing
    <3>2. pc'[t] \notin Isolating
      BY <1>1, <1>2, <3>1
      DEF ReleaseGet, ReleaseSet, ReleaseWrite, Goto, Isolating, Local, Returns
    <3> QED BY <3>2
  <2> QED BY <1>5, <2>1, <2>2 DEF InThePass, InPass
<1>7. \/ BlockGet(t) \/ BlockSet(t) \/ BlockEnum(t) \/ BlockWrite(t)
      \/ \E n \in SessionNames : BlockCut(t, n)
  BY <1>5, <1>6
  DEF Continue, SwitchWrite, Refresh, Observe, ObserveWrite, Enforce, ReleaseGet,
      ReleaseSet, ReleaseWrite, Pick, PassDone, ResetSave, ResetRow, ResetAsk,
      ResetWrite, DeleteWrite, Forget, AskCounters, Feed, At, Blocking
<1>8. ~BlockGet(t) /\ ~BlockWrite(t) /\ ~GiveUp(t)
  BY <1>2 DEF BlockGet, BlockWrite, GiveUp, Goto, Isolating
<1>9. local'[t].row = local[t].row
  <2>1. PICK l : /\ l = local[t] \/ (\E c : l = [local[t] EXCEPT !.cut = c])
                 /\ \E label : Goto(t, label, l)
    BY <1>7, <1>8 DEF BlockSet, BlockEnum, BlockCut
  <2>2. l.row = local[t].row
    BY <1>1, <2>1 DEF Local
  <2> QED BY <1>2, <2>1, <2>2 DEF Goto
<1>10. ASSUME BlockSet(t)
       PROVE  UNCHANGED restarted /\ gate'[local[t].row.subj] = Deny(local[t].row.subj)
  <2>1. local[t].row.subj \in Subjects
    BY <1>10, RowAtHand DEF IInv, BlockSet, At, OnARow
  <2>2. SetGate(local[t].row.subj, Deny(local[t].row.subj)) /\ UNCHANGED history
    BY <1>8, <1>10 DEF BlockSet
  <2> QED BY <2>1, <2>2 DEF SetGate, history, IInv, ServerInv
<1> QED BY <1>7, <1>8, <1>9, <1>10

LEMMA IsolatedStep ==
  ASSUME IInv, FreshInv, Serial, ObjectsInv, CutOffInv, Uncrashed, Unedited, SessionsEnd,
         [Next]_vars, NEW o \in Threads, NEW s \in Subjects
  PROVE  Isolated(o, s)'
<1> SUFFICES ASSUME pc'[o] \in Isolating, local'[o].row.subj = s, ~restarted'[s]
             PROVE  /\ gate'[s] = Deny(s)
                    /\ pc'[o] = "block_cut" => sessions'[s] \subseteq local'[o].cut
                    /\ pc'[o] = "block_write" => Shut(s)'
  BY DEF Isolated
<1>1. ASSUME NEW t \in Threads, Acts(t)
      PROVE  /\ gate'[s] = Deny(s)
             /\ pc'[o] = "block_cut" => sessions'[s] \subseteq local'[o].cut
             /\ pc'[o] = "block_write" => Shut(s)'
  <2>1. Alone(t)' /\ o = t
    BY <1>1, ActorAlone DEF Alone, Isolating
  <2>2. /\ BlockSet(t) \/ BlockEnum(t) \/ \E n \in SessionNames : BlockCut(t, n)
        /\ local[t].row.subj = s
        /\ BlockSet(t) => UNCHANGED restarted /\ gate'[s] = Deny(s)
    BY <1>1, <2>1, IsolatingComesFrom
  <2>3. /\ pc[t] \in Blocking /\ local[t] \in Local /\ LocalSound(pc[t], local[t])
    BY <2>2, ThreadFacts DEF IInv, BlockSet, BlockEnum, BlockCut, At, Blocking
  <2>4. pc \in [Threads -> Labels] /\ local \in [Threads -> Local]
        /\ sessions \in [Users -> SUBSET SessionNames]
    BY DEF IInv, ThreadInv, ServerInv
  <2>5. CASE BlockSet(t)
    <3>1. ~GiveUp(t)
      BY <2>1, <2>4 DEF GiveUp, Goto, Isolating
    <3>2. /\ SetGate(s, Deny(s))
          /\ pc'[t] = IF s \in Users THEN "block_enum" ELSE "block_write"
      BY <2>2, <2>4, <2>5, <3>1 DEF BlockSet, Goto
    <3>3. ASSUME s \notin Users PROVE Shut(s)'
      <4>1. s \in Hubs /\ ~Deny(s).online
        BY <3>3 DEF Subjects, Deny
      <4>2. \A u \in Users : HubOf[u] = s => sessions'[u] = {}
        BY <3>2, <4>1 DEF SetGate, WithoutHub
      <4> QED BY <2>2, <2>5, <3>3, <4>2 DEF Shut, Under, Deny
    <3> QED BY <2>1, <2>2, <2>5, <3>2, <3>3
  <2>6. CASE ~BlockSet(t)
    <3>1. /\ s \in Users /\ pc[t] \in {"block_enum", "block_cut"}
          /\ UNCHANGED <<gate, restarted>>
      BY <2>2, <2>3, <2>6 DEF BlockEnum, BlockCut, At, LocalSound, server, history
    <3>2. /\ gate[s] = Deny(s)
          /\ pc[t] = "block_cut" => sessions[s] \subseteq local[t].cut
      BY <2>2, <3>1 DEF CutOffInv, Isolated, Isolating
    <3>3. Under(s) = {s}
      BY <3>1, SubjectsAssumption DEF Under
    <3>4. ASSUME sessions'[s] = {} PROVE Shut(s)'
      BY <3>1, <3>2, <3>3, <3>4 DEF Shut, Under, Deny
    <3>5. CASE BlockEnum(t)
      <4>1. ~GiveUp(t)
        BY <2>1, <2>4 DEF GiveUp, Goto, Isolating
      <4>2. /\ UNCHANGED sessions
            /\ pc'[t] = IF sessions[s] = {} THEN "block_write" ELSE "block_cut"
            /\ local'[t].cut = sessions[s]
        BY <2>2, <2>3, <2>4, <3>5, <4>1 DEF BlockEnum, Goto, server, Local
      <4> QED BY <2>1, <3>1, <3>2, <3>4, <4>2
    <3>6. ASSUME NEW n \in SessionNames, BlockCut(t, n)
          PROVE  /\ pc'[t] = "block_cut" => sessions'[s] \subseteq local'[t].cut
                 /\ pc'[t] = "block_write" => Shut(s)'
      <4> DEFINE left == local[t].cut \ {n}
      <4>1. ~Fault(t) /\ pc[t] = "block_cut"
        BY <3>6 DEF Fault, BlockCut, At, SessionsEnd
      <4>2. sessions'[s] = sessions[s] \ {n}
        BY <2>2, <2>4, <3>1, <3>6, <4>1 DEF BlockCut
      <4>3. local'[t].cut = left /\ pc'[t] = IF left = {} THEN "block_write" ELSE "block_cut"
        BY <2>3, <2>4, <3>6 DEF BlockCut, Goto, Local
      <4>4. sessions'[s] \subseteq left
        BY <3>2, <4>1, <4>2
      <4> HIDE DEF left
      <4> QED BY <3>4, <4>3, <4>4
    <3> QED BY <2>1, <2>2, <2>6, <3>1, <3>2, <3>5, <3>6
  <2> QED BY <2>5, <2>6
<1>2. ASSUME World \/ UNCHANGED vars
      PROVE  /\ gate'[s] = Deny(s)
             /\ pc'[o] = "block_cut" => sessions'[s] \subseteq local'[o].cut
             /\ pc'[o] = "block_write" => Shut(s)'
  <2>1. pc' = pc /\ local' = local /\ ~restarted[s]
    BY <1>2, NoCrash, WorldLeavesThreads
  <2>2. /\ gate[s] = Deny(s)
        /\ pc[o] = "block_cut" => sessions[s] \subseteq local[o].cut
        /\ pc[o] = "block_write" => Shut(s)
    BY <2>1 DEF CutOffInv, Isolated
  <2>3. gate'[s] = Deny(s) /\ \A u \in Under(s) : sessions'[u] \subseteq sessions[u]
    BY <1>2, <2>1, <2>2, WorldLeavesDenied DEF ObjectsInv
  <2>4. pc[o] = "block_cut" => s \in Users
    BY <2>1, ThreadFacts DEF IInv, LocalSound
  <2> QED BY <2>1, <2>2, <2>3, <2>4 DEF Shut, Under, Deny
<1> QED BY <1>1, <1>2, StepActors

\* A release ends with the row no longer blocked.
LEMMA LiftingEnds ==
  ASSUME IInv, FreshInv, Serial, Uncrashed, [Next]_vars, NEW s \in Subjects,
         Lifting(s), ~Lifting(s)'
  PROVE  ~(row'[s] # None /\ row'[s].enforced)
<1>1. PICK t \in Threads : pc[t] \in Releasing /\ local[t].row.subj = s
  BY DEF Lifting
<1>2. pc \in [Threads -> Labels] /\ local \in [Threads -> Local]
  BY DEF IInv, ThreadInv
<1>3. /\ local[t] \in Local /\ local[t].row \in Row
      /\ row[s] = local[t].row /\ StillThere(local[t].row)
  BY <1>1, RowInHand
<1>4. pc'[t] # pc[t] \/ local'[t] # local[t]
  BY <1>1 DEF Lifting
<1>5. Acts(t)
  <2>1. ~(World \/ UNCHANGED vars)
    BY <1>4, NoCrash, WorldLeavesThreads
  <2>2. PICK o \in Threads : Acts(o)
    BY <2>1, StepActors
  <2>3. o = t
    BY <1>1, <2>2, ActorAlone DEF Alone, Releasing
  <2> QED BY <2>2, <2>3
<1>6. Continue(t)
  BY <1>1, <1>5
  DEF Acts, Request, Save, Switch, Reset, Delete, View, Remove, Tick, SampleTraffic,
      MayStart, At, Releasing
<1>7. ReleaseGet(t) \/ ReleaseSet(t) \/ ReleaseWrite(t)
  BY <1>1, <1>6
  DEF Continue, SwitchWrite, Refresh, Observe, ObserveWrite, Enforce, BlockGet,
      BlockSet, BlockEnum, BlockWrite, BlockCut, Pick, PassDone, ResetSave, ResetRow,
      ResetAsk, ResetWrite, DeleteWrite, Forget, AskCounters, Feed, At, Releasing
<1>8. CASE ReleaseGet(t) \/ ReleaseSet(t)
  <2>1. pc'[t] \in Releasing /\ local'[t] = local[t]
    BY <1>2, <1>8 DEF ReleaseGet, ReleaseSet, Goto, Releasing
  <2> QED BY <1>1, <2>1 DEF Lifting
<1>9. CASE ReleaseWrite(t)
  <2> DEFINE new == [local[t].row EXCEPT !.enforced = FALSE, !.restore = None]
  <2>1. row'[s] = new
    BY <1>1, <1>3, <1>9 DEF ReleaseWrite, IInv, TableInv
  <2>2. ~new.enforced
    BY <1>3 DEF Row
  <2> QED BY <2>1, <2>2
<1> QED BY <1>7, <1>8, <1>9

LEMMA BlockedShutStep ==
  ASSUME IInv, FreshInv, Serial, ObjectsInv, CutOffInv, Uncrashed, Unedited, SessionsEnd,
         [Next]_vars, NEW s \in Subjects
  PROVE  BlockedShut(s)'
<1> SUFFICES ASSUME row'[s] # None, row'[s].enforced, ~restarted'[s], ~Lifting(s)'
             PROVE  Shut(s)'
  BY DEF BlockedShut
<1>1. CASE Marked(s)
  <2>1. PICK t \in Threads : Continue(t)
    BY <1>1, OthersMarkNothing DEF Next
  <2>2. BlockWrite(t) /\ s = local[t].row.subj
    BY <1>1, <2>1, OnlyBlockWriteMarks
  <2>3. pc[t] = "block_write" /\ UNCHANGED <<gate, sessions, restarted>>
    BY <2>2 DEF BlockWrite, At, server, history
  <2>4. Shut(s)
    BY <2>2, <2>3 DEF CutOffInv, Isolated, Isolating
  <2> QED BY <2>3, <2>4 DEF Shut, Under, Deny
<1>2. CASE ~Marked(s)
  <2>1. row[s] # None /\ row[s].enforced
    BY <1>2 DEF Marked
  <2>2. ~restarted[s]
    <3> SUFFICES ASSUME restarted[s] PROVE FALSE
      OBVIOUS
    <3>1. PICK t \in Threads : ResetAsk(t) /\ local[t].row.subj = s
      BY RestartsStay
    <3>2. local[t] \in Local /\ row[s] = local[t].row /\ local[t].row \in Row
      BY <3>1, HandFacts DEF ResetAsk, At, Fresh, LocalSound, OnARow
    <3> DEFINE l(bytes) == [local[t] EXCEPT !.readings =
                                    {[subj |-> local[t].row.subj, bytes |-> bytes]}]
    <3>3. PICK bytes \in Bytes : Release(t, l(bytes), "reset_write")
      BY <3>1, <3>2 DEF ResetAsk, IInv, ServerInv, Row
    <3>4. l(bytes) \in Local /\ l(bytes).row = local[t].row
      BY <3>1, <3>2 DEF Local, Reading
    <3> HIDE DEF l
    <3>5. pc'[t] \in Releasing /\ local'[t].row = local[t].row
      BY <2>1, <3>2, <3>3, <3>4, ReleaseLeads DEF IInv
    <3> QED BY <3>1, <3>5 DEF Lifting
  <2>3. ~Lifting(s)
    BY LiftingEnds
  <2>4. Shut(s)
    BY <2>1, <2>2, <2>3 DEF CutOffInv, BlockedShut
  <2>5. gate'[s] = Deny(s) /\ \A u \in Under(s) : sessions'[u] \subseteq sessions[u]
    <3>1. gate[s] = Deny(s)
      BY <2>4 DEF Shut
    <3>2. ASSUME NEW t \in Threads, Acts(t)
          PROVE  gate'[s] = Deny(s) /\ \A u \in Under(s) : sessions'[u] \subseteq sessions[u]
      <4>1. ~(ReleaseSet(t) /\ local[t].row.subj = s)
        BY <2>3 DEF ReleaseSet, At, Lifting, Releasing
      <4> QED BY <2>2, <3>1, <3>2, <4>1, ThreadLeavesDenied
    <3>3. CASE World \/ UNCHANGED vars
      BY <2>2, <3>1, <3>3, WorldLeavesDenied DEF ObjectsInv
    <3> QED BY <3>2, <3>3, StepActors
  <2> QED BY <2>4, <2>5 DEF Shut, Under, Deny
<1> QED BY <1>1, <1>2

\* Between passes a blocked subject is off, its gate shut and nothing it had
\* open left, unless another tool made it anew: for passes and requests that
\* follow one another, no crash of the panel, no edit of the subject behind the
\* block, and sessions that end when they are told to; any other call may fail.
THEOREM BlockedStaysCutOff ==
  ASSUME Serial, Uncrashed, Unedited, SessionsEnd
  PROVE  Spec => []BlockedIsCutOff
<1>1. Init => CutOffInv
  BY DEF Init, CutOffInv, BlockedShut, Isolated, Isolating
<1>2. IInv /\ FreshInv /\ ObjectsInv /\ CutOffInv /\ [Next]_vars => CutOffInv'
  BY IsolatedStep, BlockedShutStep DEF CutOffInv
<1>3. CutOffInv => BlockedIsCutOff
  BY DEF CutOffInv, BlockedShut, Lifting, Releasing, Shut, Under, BlockedIsCutOff, Quiet, At
<1> QED BY <1>1, <1>2, <1>3, Invariance, Objects, PTL DEF Spec

-----------------------------------------------------------------------------
(* What a step does to a row *)

\* The meter of subject s is as it was, or starts at zero with its row.
FiguresKept(s) ==
  row'[s] # None =>
    IF row[s] = None THEN row'[s].base = Zero /\ row'[s].last = Zero
    ELSE row'[s].base = row[s].base /\ row'[s].last = row[s].last

\* The block of subject s is as it was, and a new row has none.
BlockKept(s) ==
  row'[s] # None =>
    IF row[s] = None THEN ~row'[s].enforced
    ELSE row'[s].enforced = row[s].enforced /\ row'[s].restore = row[s].restore

LEMMA UpsertKeeps ==
  ASSUME IInv, NEW x \in Subjects, NEW limit, NEW metric, NEW isEnabled,
         Upsert(x, limit, metric, isEnabled), NEW s \in Subjects
  PROVE  FiguresKept(s) /\ BlockKept(s)
<1>1. CASE row[x] = None
  <2>1. /\ row'[x].base = Zero /\ row'[x].last = Zero /\ ~row'[x].enforced
        /\ \A y \in Subjects : y # x => row'[y] = row[y]
    BY <1>1 DEF Upsert, IInv, TableInv
  <2> QED BY <1>1, <2>1 DEF FiguresKept, BlockKept
<1>2. CASE row[x] # None
  <2>1. row[x] \in Row
    BY <1>2 DEF IInv, TableInv
  <2> DEFINE new == [row[x] EXCEPT !.limit = limit, !.metric = metric,
                                   !.isEnabled = isEnabled]
  <2>2. /\ new.base = row[x].base /\ new.last = row[x].last
        /\ new.enforced = row[x].enforced /\ new.restore = row[x].restore
    BY <2>1 DEF Row
  <2>3. row'[x] = new /\ \A y \in Subjects : y # x => row'[y] = row[y]
    BY <1>2 DEF Upsert, IInv, TableInv
  <2> HIDE DEF new
  <2> QED BY <1>2, <2>2, <2>3 DEF FiguresKept, BlockKept
<1> QED BY <1>1, <1>2

\* Only observe and reset write a meter; only block and release write a block.
LEMMA ContinueKeeps ==
  ASSUME IInv, NEW t \in Threads, Continue(t), NEW s \in Subjects
  PROVE  /\ ObserveWrite(t) \/ ResetWrite(t) \/ FiguresKept(s)
         /\ BlockWrite(t) \/ ReleaseWrite(t) \/ BlockKept(s)
<1> DEFINE r == local[t].row
<1>1. ASSUME UNCHANGED row PROVE FiguresKept(s) /\ BlockKept(s)
  BY <1>1 DEF FiguresKept, BlockKept
<1>2. pc[t] \in OnARow => r.subj \in Subjects /\ r \in Row
  BY RowAtHand DEF IInv
<1>3. ASSUME NEW isEnabled \in BOOLEAN, SwitchWrite(t, isEnabled)
      PROVE  FiguresKept(s) /\ BlockKept(s)
  <2> DEFINE new == [row[r.subj] EXCEPT !.isEnabled = isEnabled]
  <2>1. r.subj \in Subjects
    BY <1>2, <1>3 DEF SwitchWrite, At, OnARow
  <2>2. CASE StillThere(r)
    <3>1. row[r.subj] \in Row
      BY <2>1, <2>2, StillThereIsRow DEF IInv
    <3>2. /\ new.base = row[r.subj].base /\ new.last = row[r.subj].last
          /\ new.enforced = row[r.subj].enforced /\ new.restore = row[r.subj].restore
      BY <3>1 DEF Row
    <3>3. row'[s] = IF s = r.subj THEN new ELSE row[s]
      BY <1>3, <2>1, <2>2 DEF SwitchWrite, IInv, TableInv
    <3> HIDE DEF new
    <3> QED BY <2>2, <3>2, <3>3 DEF FiguresKept, BlockKept, StillThere
  <2>3. CASE ~StillThere(r)
    BY <1>1, <1>3, <2>3 DEF SwitchWrite
  <2> QED BY <2>2, <2>3
<1>4. ASSUME ReleaseWrite(t) \/ BlockWrite(t) PROVE FiguresKept(s)
  <2>1. r.subj \in Subjects
    BY <1>2, <1>4 DEF ReleaseWrite, BlockWrite, At, OnARow
  <2>2. CASE StillThere(r)
    <3>1. row[r.subj] \in Row
      BY <2>1, <2>2, StillThereIsRow DEF IInv
    <3>2. PICK new :
            /\ new.base = row[r.subj].base /\ new.last = row[r.subj].last
            /\ row'[s] = IF s = r.subj THEN new ELSE row[s]
      <4>1. CASE ReleaseWrite(t)
        <5> DEFINE new == [row[r.subj] EXCEPT !.enforced = FALSE, !.restore = None]
        <5>1. new.base = row[r.subj].base /\ new.last = row[r.subj].last
          BY <3>1 DEF Row
        <5>2. row'[s] = IF s = r.subj THEN new ELSE row[s]
          BY <2>1, <2>2, <4>1 DEF ReleaseWrite, IInv, TableInv
        <5> HIDE DEF new
        <5> QED BY <5>1, <5>2
      <4>2. CASE BlockWrite(t)
        <5> DEFINE new == [row[r.subj] EXCEPT !.enforced = TRUE, !.exceeded = TRUE,
                                              !.restore = local[t].found]
        <5>1. new.base = row[r.subj].base /\ new.last = row[r.subj].last
          BY <3>1 DEF Row
        <5>2. row'[s] = IF s = r.subj THEN new ELSE row[s]
          BY <2>1, <2>2, <4>2 DEF BlockWrite, IInv, TableInv
        <5> HIDE DEF new
        <5> QED BY <5>1, <5>2
      <4> QED BY <1>4, <4>1, <4>2
    <3> QED BY <2>2, <3>2 DEF FiguresKept, StillThere
  <2>3. CASE ~StillThere(r)
    BY <1>1, <1>4, <2>3 DEF ReleaseWrite, BlockWrite
  <2> QED BY <2>2, <2>3
<1>5. ASSUME ResetWrite(t) PROVE BlockKept(s)
  <2>1. r.subj \in Subjects
    BY <1>2, <1>5 DEF ResetWrite, At, OnARow
  <2>2. CASE StillThere(r)
    <3>1. row[r.subj] \in Row
      BY <2>1, <2>2, StillThereIsRow DEF IInv
    <3>2. PICK g \in local[t].readings :
            row' = [row EXCEPT ![r.subj] = [@ EXCEPT !.base = g.bytes, !.last = g.bytes,
                                                     !.exceeded = FALSE]]
      BY <1>5, <2>2 DEF ResetWrite
    <3> DEFINE new == [row[r.subj] EXCEPT !.base = g.bytes, !.last = g.bytes,
                                          !.exceeded = FALSE]
    <3>3. new.enforced = row[r.subj].enforced /\ new.restore = row[r.subj].restore
      BY <3>1 DEF Row
    <3>4. row'[s] = IF s = r.subj THEN new ELSE row[s]
      BY <2>1, <3>2 DEF IInv, TableInv
    <3> HIDE DEF new
    <3> QED BY <2>2, <3>3, <3>4 DEF BlockKept, StillThere
  <2>3. CASE ~StillThere(r)
    BY <1>1, <1>5, <2>3 DEF ResetWrite
  <2> QED BY <2>2, <2>3
<1>6. ASSUME DeleteWrite(t) PROVE FiguresKept(s) /\ BlockKept(s)
  <2>1. r.subj \in Subjects
    BY <1>2, <1>6 DEF DeleteWrite, At, OnARow
  <2> DEFINE new == IF HasBaseline(r) THEN [row[r.subj] EXCEPT !.limit = 0, !.exceeded = FALSE]
                                      ELSE None
  <2>2. CASE StillThere(r)
    <3>1. row[r.subj] \in Row
      BY <2>1, <2>2, StillThereIsRow DEF IInv
    <3>2. \/ new = None
          \/ /\ new.base = row[r.subj].base /\ new.last = row[r.subj].last
             /\ new.enforced = row[r.subj].enforced /\ new.restore = row[r.subj].restore
      BY <3>1 DEF Row
    <3>3. row'[s] = IF s = r.subj THEN new ELSE row[s]
      BY <1>6, <2>1, <2>2 DEF DeleteWrite, IInv, TableInv
    <3> HIDE DEF new
    <3> QED BY <2>2, <3>2, <3>3 DEF FiguresKept, BlockKept, StillThere
  <2>3. CASE ~StillThere(r)
    BY <1>1, <1>6, <2>3 DEF DeleteWrite
  <2> QED BY <2>2, <2>3
<1>7. ASSUME Pick(t) PROVE FiguresKept(s) /\ BlockKept(s)
  <2>1. PICK p \in local[t].todo : PickBlock(t, p) \/ PickRelease(t, p) \/ PickKeep(t, p)
    BY <1>7 DEF Pick
  <2>2. CASE ~UNCHANGED row
    <3>1. p.subj \in Subjects
      BY ThreadFacts DEF IInv, Local, Row
    <3>2. StillThere(p) /\ row' = [row EXCEPT ![p.subj].exceeded = TRUE]
      BY <2>1, <2>2 DEF PickBlock, PickRelease, PickKeep
    <3>3. row[p.subj] \in Row
      BY <3>1, <3>2, StillThereIsRow DEF IInv
    <3> DEFINE new == [row[p.subj] EXCEPT !.exceeded = TRUE]
    <3>4. /\ new.base = row[p.subj].base /\ new.last = row[p.subj].last
          /\ new.enforced = row[p.subj].enforced /\ new.restore = row[p.subj].restore
      BY <3>3 DEF Row
    <3>5. row'[s] = IF s = p.subj THEN new ELSE row[s]
      BY <3>1, <3>2 DEF IInv, TableInv
    <3> HIDE DEF new
    <3> QED BY <3>2, <3>4, <3>5 DEF FiguresKept, BlockKept, StillThere
  <2> QED BY <1>1, <2>2
<1>8. ASSUME ObserveWrite(t) PROVE BlockKept(s)
  <2>1. CASE UpdateOf(t, s) = {}
    BY <1>8, <2>1 DEF ObserveWrite, BlockKept
  <2>2. CASE UpdateOf(t, s) # {}
    <3>1. PICK u \in UpdateOf(t, s) :
             row'[s] = [row[s] EXCEPT !.base = u.base, !.last = u.last]
      BY <1>8, <2>2 DEF ObserveWrite
    <3>2. row[s] \in Row /\ row[s] # None
      BY StillThereIsRow DEF UpdateOf, StillThere, IInv
    <3> DEFINE new == [row[s] EXCEPT !.base = u.base, !.last = u.last]
    <3>3. new.enforced = row[s].enforced /\ new.restore = row[s].restore
      BY <3>2 DEF Row
    <3> HIDE DEF new
    <3> QED BY <3>1, <3>2, <3>3 DEF BlockKept, new
  <2> QED BY <2>1, <2>2
<1>9. ASSUME ResetSave(t) PROVE FiguresKept(s) /\ BlockKept(s)
  BY <1>9, SubjectAtHand, UpsertKeeps DEF ResetSave, At, OnSubject, IInv
<1>10. ASSUME Forget(t) PROVE FiguresKept(s) /\ BlockKept(s)
  BY <1>10 DEF Forget, FiguresKept, BlockKept
<1> QED
  BY <1>1, <1>3, <1>4, <1>5, <1>6, <1>7, <1>8, <1>9, <1>10
  DEF Continue, Refresh, Observe, Enforce, ReleaseGet, ReleaseSet, BlockGet, BlockSet,
      BlockEnum, BlockCut, PassDone, ResetRow, ResetAsk, AskCounters, Feed, table

LEMMA OthersKeep ==
  ASSUME IInv, [Next]_vars, ~\E t \in Threads : Continue(t), NEW s \in Subjects
  PROVE  FiguresKept(s) /\ BlockKept(s)
<1>1. ASSUME UNCHANGED row PROVE FiguresKept(s) /\ BlockKept(s)
  BY <1>1 DEF FiguresKept, BlockKept
<1>2. ASSUME NEW t \in Handlers, NEW x \in Watched, NEW c \in Ceilings,
             NEW isEnabled \in BOOLEAN, Save(t, x, c[1], c[2], isEnabled)
      PROVE  FiguresKept(s) /\ BlockKept(s)
  BY <1>2, UpsertKeeps, SubjectsAssumption DEF Save
<1> QED
  BY <1>1, <1>2
  DEF Next, Request, Switch, Reset, Delete, View, Remove, Tick, SampleTraffic, World,
      Login, Logout, Traffic, Edit, Recreate, Create, Toggle, Crash, vars, table

-----------------------------------------------------------------------------
(* Meters and readings only grow *)

Below(b, c) == \A d \in Dirs : b[d] <= c[d]

\* A reset of s has read its new zero and not yet stored it.
Resetting(s) == \E t \in Threads : local[t].back = "reset_write" /\ local[t].row.subj = s

\* The stored counter is not ahead of the real one.
NotAhead(s) ==
  row[s] # None /\ ~restarted[s] /\ ~Resetting(s) => Below(row[s].last, counter[s])

Asking == {"ask", "feed", "observe"}

\* The readings and the new figures thread t holds about subject s lie between
\* what is stored and the real counter.
InBetween(t, s) ==
  /\ ~restarted[s] =>
     /\ pc[t] \in Asking \/ local[t].back = "reset_write" =>
          \A g \in local[t].readings : g.subj = s => Below(g.bytes, counter[s])
     /\ pc[t] \in Asking /\ row[s] # None =>
          \A g \in local[t].readings : g.subj = s => Below(row[s].last, g.bytes)
     /\ pc[t] = "observe_write" =>
          \A u \in local[t].updates : u.subj = s /\ StillThere(u) =>
            /\ u.base = row[s].base
            /\ Below(row[s].last, u.last) /\ Below(u.last, counter[s])
  /\ local[t].back = "reset_write" => \A g \in local[t].readings : g.subj = local[t].row.subj

MeterInv ==
  /\ \A s \in Subjects : NotAhead(s)
  /\ \A t \in Threads, s \in Subjects : InBetween(t, s)

LEMMA BelowOrders ==
  /\ \A a \in Bytes : Below(a, a) /\ Below(Zero, a)
  /\ \A a, b, c \in Bytes : Below(a, b) /\ Below(b, c) => Below(a, c)
<1>1. \A a \in Bytes : \A d \in Dirs : a[d] \in Nat
  BY DEF Bytes
<1>2. ASSUME NEW a \in Bytes PROVE Below(a, a) /\ Below(Zero, a)
  BY <1>1 DEF Below, Zero
<1>3. ASSUME NEW a \in Bytes, NEW b \in Bytes, NEW c \in Bytes, Below(a, b), Below(b, c)
      PROVE  Below(a, c)
  <2> SUFFICES ASSUME NEW d \in Dirs PROVE a[d] <= c[d]
    BY DEF Below
  <2>1. a[d] <= b[d] /\ b[d] <= c[d]
    BY <1>3 DEF Below
  <2> QED BY <1>1, <2>1
<1> QED BY <1>2, <1>3

\* A counter that does not start over only grows.
LEMMA CounterGrows ==
  ASSUME IInv, [Next]_vars, NEW s \in Subjects, ~restarted'[s]
  PROVE  Below(counter[s], counter'[s])
<1>0. counter \in [Subjects -> Bytes] /\ restarted \in [Subjects -> BOOLEAN]
  BY DEF IInv, ServerInv, BookInv
<1>1. CASE counter'[s] = counter[s]
  BY <1>0, <1>1, BelowOrders
<1>2. ASSUME NEW u \in Users, NEW d \in Dirs, Traffic(u, d)
      PROVE  Below(counter[s], counter'[s])
  <2>1. counter'[s] \in {counter[s], [counter[s] EXCEPT ![d] = @ + 1]}
    BY <1>0, <1>2 DEF Traffic
  <2>2. counter[s] \in [Dirs -> Nat]
    BY <1>0 DEF Bytes
  <2> QED BY <2>1, <2>2 DEF Below
<1>3. ASSUME NEW t \in Threads, NEW x \in Subjects, Remove(t, x)
      PROVE  counter'[s] = counter[s]
  BY <1>0, <1>3 DEF Remove
<1>4. ASSUME NEW x \in Subjects, NEW g \in OperatorGates, Recreate(x, g)
      PROVE  counter'[s] = counter[s]
  BY <1>0, <1>4 DEF Recreate
<1>5. CASE \E t \in Threads : Continue(t)
  BY <1>1, <1>5
  DEF Continue, SwitchWrite, Refresh, Observe, ObserveWrite, Enforce, ReleaseGet,
      ReleaseSet, ReleaseWrite, BlockGet, BlockSet, BlockEnum, BlockWrite, BlockCut, Pick,
      PassDone, ResetSave, ResetRow, ResetAsk, ResetWrite, DeleteWrite, Forget,
      AskCounters, Feed, server
<1>6. CASE \E t \in Handlers : Request(t)
  BY <1>1, <1>3, <1>6, SubjectsAssumption
  DEF Request, Save, Switch, Reset, Delete, View, Threads, server
<1>7. CASE World
  BY <1>1, <1>2, <1>4, <1>7
  DEF World, Login, Logout, Edit, Create, Toggle, Crash, server
<1> QED
  BY <1>1, <1>5, <1>6, <1>7 DEF Next, Tick, SampleTraffic, vars, server

\* Where a thread that is collecting readings comes from, and what it has read:
\* what it had, and the counter.
LEMMA AskingComesFrom ==
  ASSUME IInv, FreshInv, NEW t \in Threads, Acts(t), pc'[t] \in Asking
  PROVE  /\ UNCHANGED <<row, counter, restarted>>
         /\ local[t].back = "idle" /\ local'[t].back = "idle"
         /\ \A g \in local'[t].readings :
              g.bytes = counter[g.subj] \/ (pc[t] \in Asking /\ g \in local[t].readings)
<1>0. /\ local[t] \in Local /\ Fresh(t)
      /\ pc \in [Threads -> Labels] /\ local \in [Threads -> Local]
  BY ThreadFacts DEF IInv, ThreadInv, FreshInv
<1>1. ASSUME NEW label, NEW l, Goto(t, label, l)
      PROVE  pc'[t] = label /\ local'[t] = l
  BY <1>0, <1>1 DEF Goto
<1>2. ASSUME NEW label, label \notin Asking, NEW l, Goto(t, label, l) PROVE FALSE
  BY <1>1, <1>2
<1>3. ASSUME Request(t) PROVE FALSE
  <2>1. ASSUME NEW s \in Watched, Delete(t, s) PROVE FALSE
    <3>1. PICK label, l : label \in Releasing \cup {"delete_write"} /\ Goto(t, label, l)
      BY <2>1 DEF Delete, Release, ReleaseLabel, Releasing
    <3> QED BY <1>2, <3>1 DEF Asking, Releasing
  <2>2. ASSUME NEW label \in {"refresh", "switch_write", "reset_save", "reset_ask",
                              "forget"},
               NEW l, Goto(t, label, l)
        PROVE  FALSE
    BY <1>2, <2>2 DEF Asking
  <2> QED BY <1>3, <2>1, <2>2 DEF Request, Save, Switch, Reset, View, Remove
<1>4. CASE Tick(t) \/ SampleTraffic(t)
  <2>1. UNCHANGED <<row, counter, restarted>> /\ pc[t] = "idle"
    BY <1>4 DEF Tick, SampleTraffic, table, server, history, MayStart, At
  <2>2. PICK l : l.readings = {} /\ l.back = "idle" /\ Collect(t, l)
    BY <1>4 DEF Tick, SampleTraffic, Rest
  <2>3. local'[t] = l
    BY <1>1, <2>2 DEF Collect
  <2> QED BY <1>0, <2>1, <2>2, <2>3 DEF Fresh, Releasing
<1>5. CASE Continue(t)
  <2>1. pc[t] \in {"refresh", "ask", "feed"}
    BY <1>0, <1>5
    DEF Continue, SwitchWrite, Refresh, Observe, ObserveWrite, Enforce, ReleaseGet,
        ReleaseSet, ReleaseWrite, BlockGet, BlockSet, BlockEnum, BlockWrite, BlockCut,
        Pick, PickBlock, PickRelease, PickKeep, PassDone, ResetSave, ResetRow, ResetAsk,
        ResetWrite, DeleteWrite, Forget, AskCounters, Feed, Finish, AfterRefresh, GiveUp,
        Release, ReleaseLabel, Collect, Goto, Local, Returns, At, Asking
  <2>2. Refresh(t) \/ AskCounters(t) \/ Feed(t)
    BY <1>5, <2>1
    DEF Continue, SwitchWrite, Observe, ObserveWrite, Enforce, ReleaseGet, ReleaseSet,
        ReleaseWrite, BlockGet, BlockSet, BlockEnum, BlockWrite, BlockCut, Pick,
        PassDone, ResetSave, ResetRow, ResetAsk, ResetWrite, DeleteWrite, Forget, At
  <2>3. UNCHANGED <<row, counter, restarted>> /\ local[t].back = "idle"
    BY <1>0, <2>1, <2>2
    DEF Refresh, AskCounters, Feed, table, server, history, Fresh, Releasing
  <2>4. CASE Refresh(t)
    <3> DEFINE l == [local[t] EXCEPT !.readings =
                       {[subj |-> local[t].subj, bytes |-> counter[local[t].subj]]}]
    <3>1. ~AfterRefresh(t, local[t])
      BY <1>2 DEF AfterRefresh, Finish, Asking
    <3>2. Goto(t, "observe", l)
      BY <2>4, <3>1 DEF Refresh
    <3>3. l.back = local[t].back /\ \A g \in l.readings : g.bytes = counter[g.subj]
      BY <1>0 DEF Local
    <3> HIDE DEF l
    <3> QED BY <1>1, <2>3, <3>2, <3>3
  <2>5. CASE AskCounters(t)
    <3>1. ~Finish(t)
      BY <1>2 DEF Finish, Asking
    <3>2. PICK q \in local[t].ask :
            Collect(t, [local[t] EXCEPT !.ask = @ \ {q},
                                        !.readings = @ \cup ReadingsOf(q)])
      BY <2>5, <3>1 DEF AskCounters
    <3> DEFINE l == [local[t] EXCEPT !.ask = @ \ {q}, !.readings = @ \cup ReadingsOf(q)]
    <3>3. l.back = local[t].back /\ l.readings = local[t].readings \cup ReadingsOf(q)
      BY <1>0 DEF Local
    <3>4. \A g \in ReadingsOf(q) : g.bytes = counter[g.subj]
      BY DEF ReadingsOf
    <3>5. pc[t] \in Asking
      BY <2>5 DEF AskCounters, At, Asking
    <3> HIDE DEF l
    <3>6. local'[t] = l
      BY <1>1, <3>2 DEF Collect, l
    <3> QED BY <2>3, <3>3, <3>4, <3>5, <3>6
  <2>6. CASE Feed(t)
    <3>1. ~Finish(t)
      BY <1>2 DEF Finish, Asking
    <3>2. local'[t] = local[t] /\ pc[t] \in Asking
      BY <1>1, <2>6, <3>1 DEF Feed, At, Asking
    <3> QED BY <2>3, <3>2
  <2> QED BY <2>2, <2>4, <2>5, <2>6
<1> QED BY <1>3, <1>4, <1>5 DEF Acts

\* A reset on its way to its new zero got there by reading it.
LEMMA ResettingComesFrom ==
  ASSUME IInv, FreshInv, NEW t \in Threads, Acts(t), ~ResetAsk(t),
         local'[t].back = "reset_write"
  PROVE  local'[t] = local[t] /\ ~ResetWrite(t) /\ ~ObserveWrite(t) /\ UNCHANGED restarted
<1>0. /\ local[t] \in Local /\ Fresh(t)
      /\ pc \in [Threads -> Labels] /\ local \in [Threads -> Local]
  BY ThreadFacts DEF IInv, ThreadInv, FreshInv
<1>1. ASSUME NEW label, NEW l, Goto(t, label, l)
      PROVE  pc'[t] = label /\ local'[t] = l
  BY <1>0, <1>1 DEF Goto
<1>2. ASSUME NEW label, NEW l, l.back # "reset_write", Goto(t, label, l) PROVE FALSE
  BY <1>1, <1>2
<1>3. ASSUME NEW l \in Local, NEW back, back # "reset_write", Release(t, l, back) PROVE FALSE
  BY <1>3, ReleaseLeads DEF IInv
<1>4. CASE Continue(t) /\ pc[t] \in Releasing
  <2>1. ReleaseGet(t) \/ ReleaseSet(t) \/ ReleaseWrite(t)
    BY <1>4
    DEF Continue, SwitchWrite, Refresh, Observe, ObserveWrite, Enforce, BlockGet,
        BlockSet, BlockEnum, BlockWrite, BlockCut, Pick, PassDone, ResetSave, ResetRow,
        ResetAsk, ResetWrite, DeleteWrite, Forget, AskCounters, Feed, At, Releasing
  <2>2. [local[t] EXCEPT !.row = None, !.back = "idle"].back # "reset_write"
    BY <1>0 DEF Local
  <2>3. PICK label : Goto(t, label, local[t])
    BY <1>2, <2>1, <2>2 DEF ReleaseGet, ReleaseSet, ReleaseWrite
  <2>4. UNCHANGED restarted /\ pc[t] \notin {"reset_write", "observe_write"}
    BY <2>1 DEF ReleaseGet, ReleaseSet, ReleaseWrite, At, history
  <2> QED BY <1>1, <2>3, <2>4 DEF ResetWrite, ObserveWrite, At
<1>5. CASE Continue(t) /\ pc[t] \in {"reset_write", "delete_write"}
  <2>1. ResetWrite(t) \/ DeleteWrite(t)
    BY <1>5
    DEF Continue, SwitchWrite, Refresh, Observe, ObserveWrite, Enforce, ReleaseGet,
        ReleaseSet, ReleaseWrite, BlockGet, BlockSet, BlockEnum, BlockWrite, BlockCut, Pick,
        PassDone, ResetSave, ResetRow, ResetAsk, Forget, AskCounters, Feed, At
  <2>2. [local[t] EXCEPT !.row = None, !.back = "idle", !.readings = {}].back # "reset_write"
    BY <1>0 DEF Local
  <2>3. Rest.back # "reset_write"
    BY DEF Rest
  <2> QED BY <1>2, <2>1, <2>2, <2>3 DEF ResetWrite, DeleteWrite, Finish
<1>6. CASE Continue(t) /\ pc[t] \notin Releasing \cup {"reset_write", "delete_write"}
  <2> DEFINE Back(l) == l.back = "idle"
  <2>1. Back(local[t])
    BY <1>0, <1>6 DEF Fresh
  <2>2. /\ \A x : Back([local[t] EXCEPT !.row = x]) /\ Back([local[t] EXCEPT !.readings = x])
        /\ \A x : Back([local[t] EXCEPT !.updates = x]) /\ Back([local[t] EXCEPT !.found = x])
        /\ \A x : Back([local[t] EXCEPT !.cut = x]) /\ Back([local[t] EXCEPT !.todo = x])
        /\ \A x, y : Back([local[t] EXCEPT !.readings = x, !.updates = y])
        /\ \A x, y : Back([local[t] EXCEPT !.row = x, !.found = y])
        /\ \A x, y : Back([local[t] EXCEPT !.todo = x, !.row = y])
        /\ \A x, y : Back([local[t] EXCEPT !.ask = x, !.readings = y])
        /\ \A x : Back(Rest) /\ Back([Rest EXCEPT !.todo = x])
    BY <1>0, <2>1 DEF Local, Rest
  <2> HIDE DEF Back
  <2>3. ASSUME NEW label, NEW l, Back(l), Goto(t, label, l) PROVE FALSE
    BY <1>2, <2>3 DEF Back
  <2>4. ASSUME Pick(t) PROVE FALSE
    <3>1. PICK r \in local[t].todo : PickBlock(t, r) \/ PickRelease(t, r) \/ PickKeep(t, r)
      BY <2>4 DEF Pick
    <3>2. [local[t] EXCEPT !.todo = @ \ {r}, !.row = r] \in Local
      BY <1>0 DEF Local
    <3> QED BY <1>3, <2>2, <2>3, <3>1, <3>2 DEF PickBlock, PickRelease, PickKeep
  <2>5. \/ \E isEnabled \in BOOLEAN : SwitchWrite(t, isEnabled)
        \/ Refresh(t) \/ Observe(t) \/ ObserveWrite(t) \/ Enforce(t)
        \/ BlockGet(t) \/ BlockSet(t) \/ BlockEnum(t) \/ BlockWrite(t)
        \/ \E n \in SessionNames : BlockCut(t, n)
        \/ PassDone(t) \/ ResetSave(t) \/ ResetRow(t) \/ Forget(t)
        \/ AskCounters(t) \/ Feed(t)
    BY <1>6, <2>4
    DEF Continue, ReleaseGet, ReleaseSet, ReleaseWrite, ResetWrite, DeleteWrite, At, Releasing
  <2>6. \E label, l : Back(l) /\ Goto(t, label, l)
    BY <2>1, <2>2, <2>5
    DEF SwitchWrite, Refresh, Observe, ObserveWrite, Enforce, BlockGet, BlockSet, BlockEnum,
        BlockWrite, BlockCut, PassDone, ResetSave, ResetRow, Forget, AskCounters, Feed,
        Finish, AfterRefresh, GiveUp, Collect
  <2> QED BY <2>3, <2>6
<1>7. CASE Request(t) \/ Tick(t) \/ SampleTraffic(t)
  <2>1. ASSUME NEW s \in Watched, Delete(t, s) PROVE FALSE
    <3>1. [Rest EXCEPT !.subj = s, !.row = row[s]] \in Local
      BY SubjectsAssumption DEF Rest, Local, Returns, IInv, TableInv
    <3> QED BY <1>3, <2>1, <3>1 DEF Delete
  <2> DEFINE Back(l) == l.back = "idle"
  <2>2. /\ \A x, y : Back([Rest EXCEPT !.job = x, !.subj = y])
        /\ \A x, y : Back([Rest EXCEPT !.job = x, !.ask = y])
        /\ \A x, y, z : Back([Rest EXCEPT !.job = x, !.subj = y, !.row = z])
        /\ \A x : Back([Rest EXCEPT !.subj = x])
    BY DEF Rest
  <2> HIDE DEF Back
  <2>3. ASSUME NEW label, NEW l, Back(l), Goto(t, label, l) PROVE FALSE
    BY <1>2, <2>3 DEF Back
  <2>4. \E label, l : Back(l) /\ Goto(t, label, l)
    BY <1>7, <2>1, <2>2
    DEF Request, Save, Switch, Reset, View, Remove, Tick, SampleTraffic, Collect
  <2> QED BY <2>3, <2>4
<1> QED BY <1>4, <1>5, <1>6, <1>7 DEF Acts

LEMMA ResettingEnds ==
  ASSUME IInv, FreshInv, Serial, ~Crash, [Next]_vars, NEW s \in Subjects,
         Resetting(s), ~Resetting(s)'
  PROVE  \E t \in Threads : ResetWrite(t)
<1>1. PICK t \in Threads : local[t].back = "reset_write" /\ local[t].row.subj = s
  BY DEF Resetting
<1>2. pc[t] \in Releasing \cup {"reset_write"}
  BY <1>1 DEF FreshInv, Fresh
<1>3. local'[t] # local[t]
  BY <1>1 DEF Resetting
<1>4. Acts(t)
  <2>1. ~(World \/ UNCHANGED vars)
    BY <1>3, WorldLeavesThreads
  <2>2. PICK o \in Threads : Acts(o)
    BY <2>1, StepActors
  <2>3. o = t
    BY <1>2, <2>2, ActorAlone DEF Alone, Releasing
  <2> QED BY <2>2, <2>3
<1>5. Continue(t)
  BY <1>2, <1>4
  DEF Acts, Request, Save, Switch, Reset, Delete, View, Remove, Tick, SampleTraffic,
      MayStart, At, Releasing
<1>6. ReleaseGet(t) \/ ReleaseSet(t) \/ ReleaseWrite(t) \/ ResetWrite(t)
  BY <1>2, <1>5
  DEF Continue, SwitchWrite, Refresh, Observe, ObserveWrite, Enforce, BlockGet,
      BlockSet, BlockEnum, BlockWrite, BlockCut, Pick, PassDone, ResetSave, ResetRow,
      ResetAsk, DeleteWrite, Forget, AskCounters, Feed, At, Releasing
<1>7. ~(ReleaseGet(t) \/ ReleaseSet(t) \/ ReleaseWrite(t))
  BY <1>1, <1>3 DEF ReleaseGet, ReleaseSet, ReleaseWrite, Goto, IInv, ThreadInv
<1> QED BY <1>6, <1>7

\* What a reset holds once it has read its new zero.
LEMMA ResetAskReads ==
  ASSUME IInv, FreshInv, NEW t \in Threads, ResetAsk(t)
  PROVE  LET r == local[t].row IN
         /\ r \in Row /\ r.subj \in Subjects /\ row[r.subj] = r
         /\ UNCHANGED <<row, counter>>
         /\ local'[t].back = "reset_write" /\ local'[t].row = r
         /\ \E bytes \in Bytes :
              /\ local'[t].readings = {[subj |-> r.subj, bytes |-> bytes]}
              /\ bytes = counter[r.subj] \/ (bytes = r.last /\ UNCHANGED restarted)
<1> DEFINE r == local[t].row
<1>1. /\ local[t] \in Local /\ r \in Row /\ r.subj \in Subjects /\ r.last \in Bytes
  BY RowAtHand, ThreadFacts DEF IInv, ResetAsk, At, OnARow, Row
<1>2. row[r.subj] = r
  BY DEF FreshInv, Fresh, ResetAsk, At
<1>3. PICK bytes \in Bytes :
        /\ Release(t, [local[t] EXCEPT !.readings = {[subj |-> r.subj, bytes |-> bytes]}],
                   "reset_write")
        /\ bytes = counter[r.subj] \/ (bytes = r.last /\ UNCHANGED restarted)
  BY <1>1 DEF ResetAsk, IInv, ServerInv
<1> DEFINE l == [local[t] EXCEPT !.readings = {[subj |-> r.subj, bytes |-> bytes]}]
<1>4. /\ l \in Local /\ l.row = r
      /\ l.readings = {[subj |-> r.subj, bytes |-> bytes]}
  BY <1>1 DEF Local, Reading
<1> HIDE DEF l
<1>5. Release(t, l, "reset_write")
  BY <1>3 DEF l
<1>6. local'[t].back = "reset_write" /\ local'[t].row = l.row /\ local'[t].readings = l.readings
  BY <1>4, <1>5, ReleaseLeads DEF IInv
<1>7. UNCHANGED <<row, counter>>
  BY DEF ResetAsk, table, server
<1> QED BY <1>1, <1>2, <1>3, <1>4, <1>6, <1>7

\* A thread that does not hold a new zero is alone in not resetting anything.
LEMMA NobodyResets ==
  ASSUME FreshInv, NEW t \in Threads, Alone(t), local[t].back # "reset_write",
         NEW s \in Subjects
  PROVE  ~Resetting(s)
BY DEF Resetting, Alone, Rest

LEMMA NotAheadStep ==
  ASSUME IInv, FreshInv, Serial, ~Crash, MeterInv, [Next]_vars, NEW s \in Subjects
  PROVE  NotAhead(s)'
<1> SUFFICES ASSUME row'[s] # None, ~restarted'[s], ~Resetting(s)'
             PROVE  Below(row'[s].last, counter'[s])
  BY DEF NotAhead, Below
<1>1. Below(counter[s], counter'[s])
  BY CounterGrows
<1>2. NotAhead(s) /\ \A t \in Threads : InBetween(t, s)
  BY DEF MeterInv
<1>3. /\ counter[s] \in Bytes /\ counter'[s] \in Bytes /\ row'[s].last \in Bytes
      /\ row[s] # None => row[s] \in Row /\ row[s].last \in Bytes
  <2>1. IInv'
    BY StepKeeps
  <2> QED BY <2>1 DEF IInv, ServerInv, TableInv, Row
<1>4. ASSUME Below(row'[s].last, counter[s]) PROVE Below(row'[s].last, counter'[s])
  BY <1>1, <1>3, <1>4, BelowOrders
<1>5. ASSUME NEW t \in Threads, ResetWrite(t) PROVE Below(row'[s].last, counter'[s])
  <2> DEFINE r == local[t].row
  <2>1. /\ Alone(t) /\ Fresh(t) /\ At(t, "reset_write")
    BY <1>5, HandFacts DEF ResetWrite, At
  <2>2. /\ local[t].back = "reset_write" /\ StillThere(r) /\ ~restarted[s]
    BY <1>5, <2>1 DEF Fresh, At, StillThere, ResetWrite, history
  <2>3. PICK g \in local[t].readings :
          row' = [row EXCEPT ![r.subj] = [@ EXCEPT !.base = g.bytes, !.last = g.bytes,
                                                   !.exceeded = FALSE]]
    BY <1>5, <2>2 DEF ResetWrite
  <2>4. CASE s = r.subj
    <3>1. g.subj = s /\ Below(g.bytes, counter[s])
      BY <1>2, <2>2, <2>4 DEF InBetween
    <3>2. row[s] \in Row
      BY <2>2, <2>4, StillThereIsRow DEF IInv
    <3> DEFINE new == [row[s] EXCEPT !.base = g.bytes, !.last = g.bytes, !.exceeded = FALSE]
    <3>3. new.last = g.bytes
      BY <3>2 DEF Row
    <3>4. row'[s] = new
      BY <2>3, <2>4 DEF IInv, TableInv
    <3> HIDE DEF new
    <3> QED BY <1>4, <3>1, <3>3, <3>4
  <2>5. CASE s # r.subj
    <3>1. row'[s] = row[s]
      BY <2>3, <2>5 DEF IInv, TableInv
    <3>2. ~Resetting(s)
      BY <2>1, <2>5 DEF Resetting, Alone, Rest
    <3> QED BY <1>2, <1>4, <2>2, <3>1, <3>2 DEF NotAhead
  <2> QED BY <2>4, <2>5
<1>6. ASSUME NEW t \in Threads, ObserveWrite(t) PROVE Below(row'[s].last, counter'[s])
  <2>1. /\ Alone(t) /\ Fresh(t) /\ At(t, "observe_write")
    BY <1>6, HandFacts DEF ObserveWrite, At
  <2>2. local[t].back # "reset_write" /\ ~restarted[s]
    BY <1>6, <2>1 DEF Fresh, At, Releasing, ObserveWrite, history
  <2>3. CASE UpdateOf(t, s) = {}
    <3>1. row'[s] = row[s]
      BY <1>6, <2>3 DEF ObserveWrite
    <3>2. ~Resetting(s)
      BY <2>1, <2>2, NobodyResets
    <3> QED BY <1>2, <1>4, <2>2, <3>1, <3>2 DEF NotAhead
  <2>4. CASE UpdateOf(t, s) # {}
    <3>1. PICK u \in UpdateOf(t, s) :
             row'[s] = [row[s] EXCEPT !.base = u.base, !.last = u.last]
      BY <1>6, <2>4 DEF ObserveWrite
    <3>2. row[s] \in Row
      BY <3>1, StillThereIsRow DEF UpdateOf, IInv
    <3> DEFINE new == [row[s] EXCEPT !.base = u.base, !.last = u.last]
    <3>3. new.last = u.last
      BY <3>2 DEF Row
    <3> HIDE DEF new
    <3>4. Below(u.last, counter[s])
      BY <1>2, <2>1, <2>2, <3>1 DEF InBetween, UpdateOf, At
    <3> QED BY <1>4, <3>1, <3>3, <3>4 DEF new
  <2> QED BY <2>3, <2>4
<1>7. CASE ~\E t \in Threads : ResetWrite(t) \/ ObserveWrite(t)
  <2>1. FiguresKept(s)
    BY <1>7, ContinueKeeps, OthersKeep
  <2>2. CASE row[s] = None
    BY <1>3, <1>4, <2>1, <2>2, BelowOrders DEF FiguresKept
  <2>3. CASE row[s] # None
    <3>1. row'[s].last = row[s].last
      BY <2>1, <2>3 DEF FiguresKept
    <3>2. ~Resetting(s)
      BY <1>7, ResettingEnds
    <3>3. ~restarted[s]
      <4>1. ASSUME restarted[s] PROVE FALSE
        <5>1. PICK t \in Threads : ResetAsk(t) /\ local[t].row.subj = s
          BY <4>1, RestartsStay
        <5>2. local'[t].back = "reset_write" /\ local'[t].row.subj = s
          BY <5>1, ResetAskReads
        <5> QED BY <5>2 DEF Resetting
      <4> QED BY <4>1
    <3> QED BY <1>2, <1>4, <2>3, <3>1, <3>2, <3>3 DEF NotAhead
  <2> QED BY <2>2, <2>3
<1> QED BY <1>5, <1>6, <1>7

LEMMA WriteComesFromObserve ==
  ASSUME IInv, NEW t \in Threads, Acts(t), pc'[t] = "observe_write"
  PROVE  /\ Observe(t) /\ UNCHANGED <<row, counter, restarted>>
         /\ local'[t].updates = {NewFigures(g) : g \in {x \in local[t].readings : row[x.subj] # None}}
         /\ local'[t].back = local[t].back
<1>0. /\ local[t] \in Local
      /\ pc \in [Threads -> Labels] /\ local \in [Threads -> Local]
  BY ThreadFacts DEF IInv, ThreadInv
<1>1. ASSUME NEW label, NEW l, Goto(t, label, l)
      PROVE  pc'[t] = label /\ local'[t] = l
  BY <1>0, <1>1 DEF Goto
<1>2. ASSUME NEW label, label # "observe_write", NEW l, Goto(t, label, l) PROVE FALSE
  BY <1>1, <1>2
<1>3. ASSUME Request(t) \/ Tick(t) \/ SampleTraffic(t) PROVE FALSE
  BY <1>2, <1>3
  DEF Request, Save, Switch, Reset, Delete, View, Remove, Release, ReleaseLabel, Tick,
      SampleTraffic, Collect
<1>4. ASSUME ~Observe(t), Continue(t) PROVE FALSE
  <2>1. local[t].back # "observe_write"
    BY <1>0 DEF Local, Returns
  <2>2. ASSUME NEW r, NEW l, Release(t, l, "reset_write") \/ Release(t, l, "pick") PROVE FALSE
    BY <1>2, <2>2 DEF Release, ReleaseLabel
  <2> QED
    BY <1>2, <1>4, <2>1, <2>2
    DEF Continue, SwitchWrite, Refresh, ObserveWrite, Enforce, ReleaseGet,
        ReleaseSet, ReleaseWrite, BlockGet, BlockSet, BlockEnum, BlockWrite, BlockCut,
        Pick, PickBlock, PickRelease, PickKeep, PassDone, ResetSave, ResetRow, ResetAsk,
        ResetWrite, DeleteWrite, Forget, AskCounters, Feed, Finish, AfterRefresh, GiveUp,
        Collect
<1>5. Observe(t)
  BY <1>3, <1>4 DEF Acts
<1> DEFINE new == {NewFigures(g) : g \in {x \in local[t].readings : row[x.subj] # None}}
           l   == [local[t] EXCEPT !.readings = {}, !.updates = new]
<1>6. ~AfterRefresh(t, [local[t] EXCEPT !.readings = {}])
  BY <1>2 DEF AfterRefresh, Finish
<1>7. Goto(t, "observe_write", l)
  BY <1>5, <1>6 DEF Observe
<1>8. l.updates = new /\ l.back = local[t].back
  BY <1>0 DEF Local
<1> HIDE DEF l, new
<1>9. local'[t].updates = new /\ local'[t].back = local[t].back
  BY <1>1, <1>7, <1>8
<1>10. UNCHANGED <<row, counter, restarted>>
  BY <1>5 DEF Observe, table, server, history
<1> QED BY <1>5, <1>9, <1>10 DEF new

\* The figures observe computes from a reading that is not behind the row.
LEMMA FiguresGrow ==
  ASSUME IInv, NEW g, g.subj \in Subjects, row[g.subj] # None, g.bytes \in Bytes,
         Below(row[g.subj].last, g.bytes)
  PROVE  /\ NewFigures(g).subj = g.subj /\ NewFigures(g).last = g.bytes
         /\ NewFigures(g).base = row[g.subj].base
<1> DEFINE r == row[g.subj]
<1>1. /\ r \in Row /\ r.subj = g.subj /\ r.base \in Bytes /\ r.last \in Bytes
      /\ \A d \in Dirs : r.base[d] <= r.last[d]
  BY DEF IInv, TableInv, Row
<1>2. ASSUME NEW d \in Dirs PROVE ~(g.bytes[d] < r.base[d])
  <2>1. g.bytes[d] \in Nat /\ r.base[d] \in Nat /\ r.last[d] \in Nat
    BY <1>1 DEF Bytes
  <2>2. r.base[d] <= r.last[d] /\ r.last[d] <= g.bytes[d]
    BY <1>1 DEF Below
  <2> QED BY <2>1, <2>2
<1>3. Rebased(r, g.bytes) = [d \in Dirs |-> r.base[d]]
  BY <1>2 DEF Rebased
<1>4. r.base = [d \in Dirs |-> r.base[d]]
  BY <1>1 DEF Bytes
<1> QED BY <1>1, <1>3, <1>4 DEF NewFigures

LEMMA InBetweenStep ==
  ASSUME IInv, FreshInv, Serial, ~Crash, MeterInv, [Next]_vars,
         NEW o \in Threads, NEW s \in Subjects
  PROVE  InBetween(o, s)'
<1>1. ~restarted'[s] => Below(counter[s], counter'[s])
  BY CounterGrows
<1>2. NotAhead(s) /\ InBetween(o, s)
  BY DEF MeterInv
<1>3. /\ counter[s] \in Bytes /\ counter'[s] \in Bytes
      /\ \A x \in Subjects : row[x] # None => row[x] \in Row /\ row[x].last \in Bytes
      /\ \A g \in local[o].readings : g \in Reading /\ g.bytes \in Bytes /\ g.subj \in Subjects
      /\ \A u \in local[o].updates : u \in Update /\ u.last \in Bytes
  <2>1. IInv'
    BY StepKeeps
  <2>2. local[o] \in Local
    BY ThreadFacts DEF IInv
  <2> QED BY <2>1, <2>2 DEF IInv, ServerInv, TableInv, Row, Local, Reading, Update
<1>4. ASSUME NEW b \in Bytes, ~restarted'[s], Below(b, counter[s]) PROVE Below(b, counter'[s])
  BY <1>1, <1>3, <1>4, BelowOrders
<1>5. CASE World \/ UNCHANGED vars
  <2>1. /\ row' = row /\ pc' = pc /\ local' = local
        /\ ~restarted'[s] => ~restarted[s]
    BY <1>5, WorldLeavesThreads
  <2>2. /\ pc'[o] = pc[o] /\ local'[o] = local[o] /\ row'[s] = row[s]
    BY <2>1
  <2>3. ASSUME NEW u \in local[o].updates, StillThere(u)' PROVE StillThere(u)
    BY <2>1, <2>3 DEF StillThere
  <2>4. ASSUME ~restarted'[s], pc'[o] \in Asking \/ local'[o].back = "reset_write",
               NEW g \in local'[o].readings, g.subj = s
        PROVE  Below(g.bytes, counter'[s])
    BY <1>2, <1>3, <1>4, <2>1, <2>2, <2>4 DEF InBetween
  <2>5. ASSUME ~restarted'[s], pc'[o] = "observe_write",
               NEW u \in local'[o].updates, u.subj = s, StillThere(u)'
        PROVE  /\ u.base = row'[s].base
               /\ Below(row'[s].last, u.last) /\ Below(u.last, counter'[s])
    BY <1>2, <1>3, <1>4, <2>1, <2>2, <2>3, <2>5 DEF InBetween
  <2>6. /\ ~restarted'[s] /\ pc'[o] \in Asking /\ row'[s] # None =>
             \A g \in local'[o].readings : g.subj = s => Below(row'[s].last, g.bytes)
        /\ local'[o].back = "reset_write" =>
             \A g \in local'[o].readings : g.subj = local'[o].row.subj
    BY <1>2, <2>1, <2>2 DEF InBetween
  <2> QED BY <2>4, <2>5, <2>6 DEF InBetween, Below
<1>6. ASSUME NEW t \in Threads, Acts(t), o # t PROVE InBetween(o, s)'
  <2>1. pc'[o] = "idle" /\ local'[o] = Rest
    BY <1>6, ActorAlone DEF Alone
  <2> QED BY <2>1 DEF InBetween, Rest, Asking
<1>7. CASE Acts(o)
  <2>1. Alone(o) /\ \A x \in Subjects : local[o].back # "reset_write" => ~Resetting(x)
    BY <1>7, ActorAlone, NobodyResets
  <2>2. CASE pc'[o] \in Asking
    <3>1. /\ row' = row /\ counter' = counter /\ restarted' = restarted
          /\ local[o].back = "idle" /\ local'[o].back = "idle"
          /\ \A g \in local'[o].readings :
               g.bytes = counter[g.subj] \/ (pc[o] \in Asking /\ g \in local[o].readings)
      BY <1>7, <2>2, AskingComesFrom
    <3>2. ASSUME ~restarted[s], NEW g \in local'[o].readings, g.subj = s
          PROVE  Below(g.bytes, counter[s]) /\ (row[s] # None => Below(row[s].last, g.bytes))
      <4>1. CASE g.bytes = counter[s]
        BY <1>2, <1>3, <2>1, <3>1, <3>2, <4>1, BelowOrders DEF NotAhead
      <4>2. CASE pc[o] \in Asking /\ g \in local[o].readings
        BY <1>2, <3>2, <4>2 DEF InBetween
      <4> QED BY <3>1, <3>2, <4>1, <4>2
    <3> QED BY <2>2, <3>1, <3>2 DEF InBetween, Below, Asking
  <2>3. CASE pc'[o] = "observe_write"
    <3>1. /\ Observe(o) /\ row' = row /\ counter' = counter /\ restarted' = restarted
          /\ local'[o].updates = {NewFigures(g) : g \in {x \in local[o].readings : row[x.subj] # None}}
          /\ local'[o].back = local[o].back
      BY <1>7, <2>3, WriteComesFromObserve
    <3>2. pc[o] \in Asking /\ local'[o].back # "reset_write"
      BY <3>1 DEF Observe, At, Asking, FreshInv, Fresh, Releasing
    <3>3. ASSUME ~restarted[s], NEW u \in local'[o].updates, u.subj = s
          PROVE  /\ u.base = row[s].base
                 /\ Below(row[s].last, u.last) /\ Below(u.last, counter[s])
      <4>1. PICK g \in local[o].readings : row[g.subj] # None /\ u = NewFigures(g)
        BY <3>1, <3>3
      <4>2. g.subj = s
        BY <1>3, <3>3, <4>1 DEF NewFigures, IInv, TableInv
      <4>3. Below(row[s].last, g.bytes) /\ Below(g.bytes, counter[s])
        BY <1>2, <3>2, <3>3, <4>1, <4>2 DEF InBetween
      <4> QED BY <1>3, <4>1, <4>2, <4>3, FiguresGrow
    <3> QED BY <2>3, <3>1, <3>2, <3>3 DEF InBetween, Below, Asking
  <2>4. CASE ResetAsk(o) /\ pc'[o] \notin Asking \cup {"observe_write"}
    <3> DEFINE r == local[o].row
    <3>1. /\ r \in Row /\ r.subj \in Subjects /\ row[r.subj] = r
          /\ UNCHANGED <<row, counter>>
          /\ local'[o].row = r
      BY <2>4, ResetAskReads
    <3>2. PICK bytes \in Bytes :
            /\ local'[o].readings = {[subj |-> r.subj, bytes |-> bytes]}
            /\ bytes = counter[r.subj] \/ (bytes = r.last /\ UNCHANGED restarted)
      BY <2>4, ResetAskReads
    <3>3. local[o].back # "reset_write"
      BY <2>4 DEF ResetAsk, At, FreshInv, Fresh, Releasing
    <3>4. ASSUME ~restarted'[s], s = r.subj PROVE Below(bytes, counter[s])
      BY <1>2, <1>3, <2>1, <3>1, <3>2, <3>3, <3>4, NoneAssumption, BelowOrders DEF NotAhead
    <3>5. \A g \in local'[o].readings : g.subj = r.subj /\ g.bytes = bytes
      BY <3>2
    <3> QED BY <2>4, <3>1, <3>4, <3>5 DEF InBetween, Below
  <2>5. CASE ~ResetAsk(o) /\ pc'[o] \notin Asking \cup {"observe_write"}
             /\ local'[o].back = "reset_write"
    <3>1. local'[o] = local[o] /\ (~restarted'[s] => ~restarted[s])
      BY <1>7, <2>5, ResettingComesFrom
    <3>2. ASSUME ~restarted'[s], NEW g \in local'[o].readings, g.subj = s
          PROVE  Below(g.bytes, counter'[s])
      BY <1>2, <1>3, <1>4, <2>5, <3>1, <3>2 DEF InBetween
    <3>3. \A g \in local'[o].readings : g.subj = local'[o].row.subj
      BY <1>2, <2>5, <3>1 DEF InBetween
    <3> QED BY <2>5, <3>2, <3>3 DEF InBetween, Below
  <2>6. CASE pc'[o] \notin Asking \cup {"observe_write"} /\ local'[o].back # "reset_write"
    BY <2>6 DEF InBetween
  <2> QED BY <2>2, <2>3, <2>4, <2>5, <2>6
<1> QED BY <1>5, <1>6, <1>7, StepActors

LEMMA Meters ==
  ASSUME Serial, Uncrashed
  PROVE  Spec => []MeterInv
<1>1. Init => MeterInv
  <2> SUFFICES ASSUME Init PROVE MeterInv
    OBVIOUS
  <2> QED BY DEF Init, MeterInv, NotAhead, InBetween, Rest, Asking
<1>2. IInv /\ FreshInv /\ MeterInv /\ [Next]_vars => MeterInv'
  BY NoCrash, NotAheadStep, InBetweenStep DEF MeterInv
<1> QED BY <1>1, <1>2, Invariance, Freshness, PTL DEF Spec

\* No counter has started over, and no row is ahead of its counter, a reset in
\* between or not: what a crash leaves behind is then as good as a fresh start.
SteadyInv ==
  /\ MeterInv
  /\ \A s \in Subjects : /\ ~restarted[s]
                         /\ row[s] # None => Below(row[s].last, counter[s])

LEMMA NothingRestarts ==
  ASSUME IInv, NothingRemade, \A s \in Subjects : ~restarted[s], [Next]_vars
  PROVE  \A s \in Subjects : ~restarted'[s]
<1>0. /\ restarted \in [Subjects -> BOOLEAN]
      /\ spent["recreate"] >= Budget["recreate"] /\ spent["delete"] >= Budget["delete"]
  BY DEF IInv, BookInv, NothingRemade, Kinds
<1>1. ~Spend("recreate") /\ ~Spend("delete")
  BY <1>0 DEF Spend, IInv, BookInv, NothingRemade, Kinds
<1>2. ASSUME NEW t, ResetAsk(t) PROVE \A s \in Subjects : ~restarted'[s]
  BY <1>0, <1>2 DEF ResetAsk
<1>3. UNCHANGED restarted \/ \E t \in Threads : ResetAsk(t)
  BY <1>1
  DEF Next, vars, history, Request, Save, Switch, Reset, Delete, View, Remove, Tick,
      SampleTraffic, World, Login, Logout, Traffic, Edit, Recreate, Create, Toggle, Crash,
      Continue, SwitchWrite, Refresh, Observe, ObserveWrite, Enforce, ReleaseGet,
      ReleaseSet, ReleaseWrite, BlockGet, BlockSet, BlockEnum, BlockWrite, BlockCut, Pick,
      PassDone, ResetSave, ResetRow, ResetWrite, DeleteWrite, Forget, AskCounters, Feed
<1> QED BY <1>2, <1>3

LEMMA SteadyStep ==
  ASSUME IInv, FreshInv, Serial, NothingRemade, SteadyInv, [Next]_vars
  PROVE  SteadyInv'
<1>1. MeterInv /\ \A s \in Subjects : ~restarted[s] /\ ~restarted'[s]
  BY NothingRestarts DEF SteadyInv
<1>2. CASE Crash
  <2>1. /\ row' = row /\ counter' = counter /\ restarted' = restarted
        /\ \A t \in Threads : pc'[t] = "idle" /\ local'[t] = Rest
    BY <1>2 DEF Crash, table, server, history
  <2>2. \A t \in Threads, s \in Subjects : InBetween(t, s)'
    BY <2>1 DEF InBetween, Rest, Asking
  <2>3. \A s \in Subjects : row'[s] # None => Below(row'[s].last, counter'[s])
    BY <2>1 DEF SteadyInv, Below
  <2> QED BY <1>1, <2>2, <2>3 DEF SteadyInv, MeterInv, NotAhead, Below
<1>3. CASE ~Crash
  <2>1. MeterInv'
    BY <1>1, <1>3, NotAheadStep, InBetweenStep DEF MeterInv
  <2>2. ASSUME NEW s \in Subjects, row'[s] # None PROVE Below(row'[s].last, counter'[s])
    <3>1. CASE ~Resetting(s)'
      BY <1>1, <2>1, <2>2, <3>1 DEF MeterInv, NotAhead, Below
    <3>2. CASE Resetting(s)'
      <4>1. PICK t \in Threads : local'[t].back = "reset_write" /\ local'[t].row.subj = s
        BY <3>2 DEF Resetting
      <4>2. ASSUME NEW o \in Threads, ObserveWrite(o) \/ ResetWrite(o) PROVE FALSE
        <5>1. Acts(o)
          BY <4>2 DEF Acts, Continue
        <5>2. o = t
          BY <4>1, <5>1, ActorAlone DEF Alone, Rest
        <5>3. ~ResetAsk(o)
          BY <4>2 DEF ObserveWrite, ResetWrite, ResetAsk, At
        <5> QED BY <4>1, <4>2, <5>1, <5>2, <5>3, ResettingComesFrom
      <4>3. FiguresKept(s)
        BY <4>2, ContinueKeeps, OthersKeep
      <4>4. IInv'
        BY StepKeeps
      <4>5. /\ counter[s] \in Bytes /\ counter'[s] \in Bytes /\ row'[s].last \in Bytes
            /\ Below(counter[s], counter'[s])
        BY <1>1, <2>2, <4>4, CounterGrows DEF IInv, ServerInv, TableInv, Row
      <4>6. Below(row'[s].last, counter[s])
        <5>1. CASE row[s] = None
          <6>1. row'[s].last = Zero
            BY <2>2, <4>3, <5>1 DEF FiguresKept
          <6> QED BY <4>5, <6>1, BelowOrders
        <5>2. CASE row[s] # None
          <6>1. row'[s].last = row[s].last
            BY <2>2, <4>3, <5>2 DEF FiguresKept
          <6>2. Below(row[s].last, counter[s])
            BY <5>2 DEF SteadyInv
          <6> QED BY <6>1, <6>2
        <5> QED BY <5>1, <5>2
      <4> QED BY <4>5, <4>6, BelowOrders
    <3> QED BY <3>1, <3>2
  <2> QED BY <1>1, <2>1, <2>2 DEF SteadyInv, Below
<1> QED BY <1>2, <1>3

LEMMA Steady ==
  ASSUME Serial, NothingRemade
  PROVE  Spec => []SteadyInv
<1>1. Init => SteadyInv
  <2> SUFFICES ASSUME Init PROVE SteadyInv
    OBVIOUS
  <2> QED BY DEF Init, SteadyInv, MeterInv, NotAhead, InBetween, Rest, Asking
<1>2. IInv /\ FreshInv /\ SteadyInv /\ [Next]_vars => SteadyInv'
  BY SteadyStep
<1> QED BY <1>1, <1>2, Invariance, Freshness, PTL DEF Spec

\* What one step may do to the figures of a row.
FiguresStep ==
  \A s \in Subjects : \A d \in Dirs :
    (/\ row[s] # None /\ row'[s] # None /\ row'[s].id = row[s].id
     /\ \/ row'[s].base[d] < row[s].base[d]
        \/ NetBytes(row'[s], d) < NetBytes(row[s], d))
      => restarted[s] \/ \E t \in Threads : ResetWrite(t)

LEMMA FiguresRise ==
  ASSUME IInv, MeterInv, [Next]_vars
  PROVE  FiguresStep
<1> SUFFICES ASSUME NEW s \in Subjects, NEW d \in Dirs,
                    row[s] # None, row'[s] # None, ~restarted[s],
                    ~\E t \in Threads : ResetWrite(t)
             PROVE  ~(row'[s].base[d] < row[s].base[d])
                    /\ ~(NetBytes(row'[s], d) < NetBytes(row[s], d))
  BY DEF FiguresStep
<1>1. /\ row[s].base[d] \in Nat /\ row[s].last[d] \in Nat
      /\ row'[s].base[d] \in Nat /\ row'[s].last[d] \in Nat
  <2>1. IInv'
    BY StepKeeps
  <2>2. row[s] \in Row /\ row'[s] \in Row
    BY <2>1 DEF IInv, TableInv
  <2> QED BY <2>2 DEF Row, Bytes
<1>2. row'[s].base = row[s].base /\ row[s].last[d] <= row'[s].last[d]
  <2>1. ASSUME NEW t \in Threads, ObserveWrite(t)
        PROVE  row'[s].base = row[s].base /\ row[s].last[d] <= row'[s].last[d]
    <3>1. CASE UpdateOf(t, s) = {}
      <4>1. row'[s] = row[s]
        BY <2>1, <3>1 DEF ObserveWrite
      <4> QED BY <1>1, <4>1
    <3>2. CASE UpdateOf(t, s) # {}
      <4>1. PICK u \in UpdateOf(t, s) :
               row'[s] = [row[s] EXCEPT !.base = u.base, !.last = u.last]
        BY <2>1, <3>2 DEF ObserveWrite
      <4>2. row[s] \in Row
        BY DEF IInv, TableInv
      <4> DEFINE new == [row[s] EXCEPT !.base = u.base, !.last = u.last]
      <4>3. new.last = u.last /\ new.base = u.base
        BY <4>2 DEF Row
      <4> HIDE DEF new
      <4>4. u.base = row[s].base /\ Below(row[s].last, u.last)
        <5>1. InBetween(t, s)
          BY DEF MeterInv
        <5>2. pc[t] = "observe_write"
          BY <2>1 DEF ObserveWrite, At
        <5>3. u \in local[t].updates /\ u.subj = s /\ StillThere(u)
          BY DEF UpdateOf
        <5> QED BY <5>1, <5>2, <5>3 DEF InBetween
      <4>5. row'[s] = new
        BY <4>1 DEF new
      <4> QED BY <4>3, <4>4, <4>5 DEF Below
    <3> QED BY <3>1, <3>2
  <2>2. CASE ~\E t \in Threads : ObserveWrite(t)
    <3>1. FiguresKept(s)
      BY <2>2, ContinueKeeps, OthersKeep
    <3> QED BY <1>1, <3>1 DEF FiguresKept
  <2> QED BY <2>1, <2>2
<1> QED BY <1>1, <1>2 DEF NetBytes

\* When passes and requests follow one another, neither the baseline of a row
\* nor its meter runs backwards outside a reset while the counter keeps counting,
\* whichever calls fail. Where no account or hub is deleted or made again this
\* survives crashes of the panel at any point; where one is, it holds as long as
\* the panel does not crash.
THEOREM MetersOnlyGrow ==
  ASSUME Serial, Uncrashed \/ NothingRemade
  PROVE  Spec => MeterNeverRunsBack
<1>1. Spec => []MeterInv
  <2>1. CASE Uncrashed
    BY <2>1, Meters
  <2>2. CASE NothingRemade
    <3>1. SteadyInv => MeterInv
      BY DEF SteadyInv
    <3> QED BY <2>2, <3>1, Steady, PTL
  <2> QED BY <2>1, <2>2
<1>2. IInv /\ MeterInv /\ [Next]_vars => FiguresStep
  BY FiguresRise
<1>3. Spec => [][FiguresStep]_vars
  BY <1>1, <1>2, Invariance, PTL DEF Spec
<1> QED BY <1>3 DEF MeterNeverRunsBack, FiguresStep

-----------------------------------------------------------------------------
(* A gate that nobody chose has a block to explain it *)

\* The gate of subject s is one an operator gave it.
Given(s) == gate[s] # None => gate[s] \in configured[s]

Blocked(s) == row[s] # None /\ row[s].enforced

\* A block of s has denied access and not yet marked the row.
Midway(s) == \E t \in Threads : pc[t] \in Isolating /\ local[t].row.subj = s

Explained(s)  == ~Blocked(s) /\ ~Midway(s) => Given(s)
Remembered(s) == Blocked(s) => row[s].restore \in configured[s]

\* What thread t is about to put on record, or to drop from it, is no denial
\* that somebody else had put there.
GivenAt(t, s) ==
  /\ pc[t] \in Blocking \ {"block_get"} /\ local[t].row.subj = s
       => local[t].found \in configured[s]
  /\ pc[t] = "release_write" /\ local[t].row.subj = s => Given(s)
  /\ pc[t] = "forget" /\ s \in Contains(local[t].subj) => Given(s)

ExplainedInv ==
  /\ \A s \in Subjects : configured[s] \subseteq Choices(s)
  /\ \A s \in Subjects : Explained(s) /\ Remembered(s)
  /\ \A t \in Threads, s \in Subjects : GivenAt(t, s)

\* What an operator gave a subject stays on record.
LEMMA ConfiguredGrows ==
  ASSUME IInv, [Next]_vars, NEW s \in Subjects
  PROVE  /\ configured[s] \subseteq configured'[s]
         /\ configured[s] \subseteq Choices(s) => configured'[s] \subseteq Choices(s)
<1>0. configured \in [Subjects -> SUBSET Gates]
  BY DEF IInv, BookInv
<1>1. ASSUME NEW x \in Subjects, NEW g \in OperatorGates,
             Edit(x, g) \/ Recreate(x, g) \/ Create(x, g)
      PROVE  /\ configured[s] \subseteq configured'[s]
             /\ configured[s] \subseteq Choices(s) => configured'[s] \subseteq Choices(s)
  <2>1. configured' = [configured EXCEPT ![x] = @ \cup {g}] /\ g \in Choices(x)
    BY <1>1 DEF Edit, Recreate, Create
  <2> QED BY <1>0, <2>1
<1>2. CASE UNCHANGED configured
  BY <1>2
<1>3. (\E x \in Subjects, g \in OperatorGates : Edit(x, g) \/ Recreate(x, g) \/ Create(x, g))
      \/ UNCHANGED configured
  BY SubjectsAssumption
  DEF Next, vars, history, Request, Save, Switch, Reset, Delete, View, Remove, Tick,
      SampleTraffic, World, Login, Logout, Traffic, Toggle, Crash,
      Continue, SwitchWrite, Refresh, Observe, ObserveWrite, Enforce, ReleaseGet,
      ReleaseSet, ReleaseWrite, BlockGet, BlockSet, BlockEnum, BlockWrite, BlockCut, Pick,
      PassDone, ResetSave, ResetRow, ResetAsk, ResetWrite, DeleteWrite, Forget,
      AskCounters, Feed
<1> QED BY <1>1, <1>2, <1>3

\* Only block puts a subject where nobody had put it.
LEMMA GivenStays ==
  ASSUME IInv, FreshInv, ExplainedInv, [Next]_vars, NEW s \in Subjects, Given(s),
         ~\E t \in Threads : BlockSet(t) /\ local[t].row.subj = s
  PROVE  Given(s)'
<1>0. /\ gate \in [Subjects -> Gates \cup {None}]
      /\ configured \in [Subjects -> SUBSET Gates]
      /\ configured[s] \subseteq configured'[s]
  BY ConfiguredGrows DEF IInv, ServerInv, BookInv
<1>1. CASE gate'[s] = gate[s]
  BY <1>0, <1>1 DEF Given
<1>2. ASSUME NEW t \in Threads, BlockSet(t) \/ ReleaseSet(t) PROVE Given(s)'
  <2> DEFINE r == local[t].row
  <2>1. pc[t] \in Releasing \cup Blocking /\ r.subj \in Subjects /\ row[r.subj] = r
    BY <1>2, RowInHand DEF BlockSet, ReleaseSet, At, Releasing, Blocking
  <2>2. CASE s = r.subj
    <3>1. ReleaseSet(t)
      BY <1>2, <2>2
    <3>2. Blocked(s)
      BY <2>1, <2>2, <3>1, RestoreAtHand, NoneAssumption DEF ReleaseSet, At, Releasing, Blocked
    <3>3. r.restore \in configured[s]
      BY <2>1, <2>2, <3>2 DEF ExplainedInv, Remembered
    <3>4. gate'[s] \in {gate[s], r.restore}
      BY <1>0, <2>2, <3>1 DEF ReleaseSet, SetGate
    <3> QED BY <1>0, <1>1, <3>3, <3>4 DEF Given
  <2>3. CASE s # r.subj
    <3>1. gate'[s] = gate[s]
      BY <1>0, <1>2, <2>1, <2>3 DEF BlockSet, ReleaseSet, SetGate
    <3> QED BY <1>1, <3>1
  <2> QED BY <2>2, <2>3
<1>3. ASSUME NEW t \in Threads, NEW x \in Subjects, Remove(t, x) PROVE Given(s)'
  <2>1. gate'[s] \in {gate[s], None}
    BY <1>3 DEF Remove
  <2> QED BY <1>1, <2>1 DEF Given
<1>4. ASSUME NEW x \in Subjects, NEW g \in OperatorGates,
             Edit(x, g) \/ Recreate(x, g) \/ Create(x, g)
      PROVE  Given(s)'
  <2>1. configured' = [configured EXCEPT ![x] = @ \cup {g}]
    BY <1>4 DEF Edit, Recreate, Create
  <2>2. gate'[s] \in {gate[s], None} \/ (x = s /\ gate'[s] = g)
    BY <1>0, <1>4 DEF Edit, Recreate, Create, SetGate
  <2> QED BY <1>0, <1>1, <2>1, <2>2 DEF Given
<1>5. ASSUME NEW t \in Threads, Continue(t), ~BlockSet(t), ~ReleaseSet(t) PROVE Given(s)'
  <2>1. UNCHANGED gate
    BY <1>5
    DEF Continue, SwitchWrite, Refresh, Observe, ObserveWrite, Enforce, ReleaseGet,
        ReleaseWrite, BlockGet, BlockEnum, BlockWrite, BlockCut, Pick, PassDone,
        ResetSave, ResetRow, ResetAsk, ResetWrite, DeleteWrite, Forget, AskCounters,
        Feed, server
  <2> QED BY <1>1, <2>1
<1>6. CASE UNCHANGED gate
  BY <1>1, <1>6
<1>7. ASSUME NEW t \in Handlers, Request(t) PROVE Given(s)'
  BY <1>3, <1>6, <1>7, SubjectsAssumption
  DEF Request, Save, Switch, Reset, Delete, View, Threads, server
<1>8. CASE World
  BY <1>4, <1>6, <1>8 DEF World, Login, Logout, Traffic, Toggle, Crash, server
<1> QED
  BY <1>2, <1>5, <1>6, <1>7, <1>8 DEF Next, Tick, SampleTraffic, vars, server

\* Where a block that has read the gate comes from, and what it holds.
LEMMA BlockingComesFrom ==
  ASSUME IInv, FreshInv, NEW t \in Threads, Acts(t), pc'[t] \in Blocking \ {"block_get"}
  PROVE  /\ pc[t] \in Blocking /\ local'[t].row = local[t].row
         /\ \/ /\ BlockGet(t) /\ UNCHANGED <<gate, configured>>
               /\ gate[local[t].row.subj] # None
               /\ local'[t].found = gate[local[t].row.subj]
            \/ /\ pc[t] # "block_get" /\ UNCHANGED configured
               /\ local'[t].found = local[t].found
<1>1. local[t] \in Local /\ Fresh(t)
  BY ThreadFacts DEF IInv, FreshInv
<1>2. pc \in [Threads -> Labels] /\ local \in [Threads -> Local]
  BY DEF IInv, ThreadInv
<1>3. InThePass(t)' /\ ~Enforce(t)
  BY <1>2 DEF InThePass, InPass, Releasing, Blocking, Enforce, Goto
<1>4. InThePass(t) /\ Continue(t)
  BY <1>3, PassBegins
<1>5. pc[t] \in Blocking
  <2>1. CASE pc[t] = "pick"
    <3>1. Pick(t) \/ PassDone(t)
      BY <1>4, <2>1
      DEF Continue, SwitchWrite, Refresh, Observe, ObserveWrite, Enforce, BlockGet,
          BlockSet, BlockEnum, BlockWrite, BlockCut, ReleaseGet, ReleaseSet,
          ReleaseWrite, ResetSave, ResetRow, ResetAsk, ResetWrite, DeleteWrite, Forget,
          AskCounters, Feed, At
    <3>2. pc'[t] \notin Blocking \ {"block_get"}
      BY <1>2, <3>1
      DEF Pick, PassDone, PickBlock, PickRelease, PickKeep, Release, ReleaseLabel, Finish,
          Goto, Blocking
    <3> QED BY <3>2
  <2>2. CASE pc[t] \in Releasing
    <3>1. ReleaseGet(t) \/ ReleaseSet(t) \/ ReleaseWrite(t)
      BY <1>4, <2>2
      DEF Continue, SwitchWrite, Refresh, Observe, ObserveWrite, Enforce, BlockGet,
          BlockSet, BlockEnum, BlockWrite, BlockCut, Pick, PassDone, ResetSave, ResetRow,
          ResetAsk, ResetWrite, DeleteWrite, Forget, AskCounters, Feed, At, Releasing
    <3>2. pc'[t] \notin Blocking
      BY <1>1, <1>2, <3>1
      DEF ReleaseGet, ReleaseSet, ReleaseWrite, Goto, Blocking, Local, Returns
    <3> QED BY <3>2
  <2> QED BY <1>4, <2>1, <2>2 DEF InThePass, InPass
<1>6. \/ BlockGet(t) \/ BlockSet(t) \/ BlockEnum(t) \/ BlockWrite(t)
      \/ \E n \in SessionNames : BlockCut(t, n)
  BY <1>4, <1>5
  DEF Continue, SwitchWrite, Refresh, Observe, ObserveWrite, Enforce, ReleaseGet,
      ReleaseSet, ReleaseWrite, Pick, PassDone, ResetSave, ResetRow, ResetAsk,
      ResetWrite, DeleteWrite, Forget, AskCounters, Feed, At, Blocking
<1>7. ~GiveUp(t) /\ ~BlockWrite(t)
  BY <1>2 DEF BlockWrite, GiveUp, Goto, Blocking
<1>8. CASE BlockGet(t)
  <2> DEFINE l == [local[t] EXCEPT !.found = gate[local[t].row.subj]]
  <2>1. Goto(t, "block_set", l) /\ gate[local[t].row.subj] # None
    BY <1>7, <1>8 DEF BlockGet, Answers
  <2>2. l.row = local[t].row /\ l.found = gate[local[t].row.subj]
    BY <1>1 DEF Local
  <2> HIDE DEF l
  <2>3. local'[t] = l
    BY <1>2, <2>1 DEF Goto
  <2> QED BY <1>5, <1>8, <2>1, <2>2, <2>3 DEF BlockGet, server, history
<1>9. CASE ~BlockGet(t)
  <2>1. PICK l : /\ l = local[t] \/ (\E c : l = [local[t] EXCEPT !.cut = c])
                 /\ \E label : Goto(t, label, l)
    BY <1>6, <1>7, <1>9 DEF BlockSet, BlockEnum, BlockCut
  <2>2. l.row = local[t].row /\ l.found = local[t].found
    BY <1>1, <2>1 DEF Local
  <2>3. local'[t] = l
    BY <1>2, <2>1 DEF Goto
  <2>4. pc[t] # "block_get" /\ UNCHANGED configured
    BY <1>6, <1>7, <1>9 DEF BlockSet, BlockEnum, BlockCut, At, history
  <2> QED BY <1>5, <2>2, <2>3, <2>4
<1> QED BY <1>8, <1>9

\* Where a release that is about to drop the block from its row comes from:
\* its call, or a hub that was offline before it was blocked.
LEMMA DroppingComesFrom ==
  ASSUME IInv, FreshInv, NEW t \in Threads, Acts(t), pc'[t] = "release_write"
  PROVE  \/ ReleaseGet(t) /\ local'[t] = local[t]
         \/ ReleaseSet(t) /\ local'[t] = local[t]
         \/ LET r == local'[t].row IN
            /\ UNCHANGED <<gate, configured>>
            /\ r \in Row /\ row[r.subj] = r /\ r.enforced
            /\ r.subj \in Hubs /\ ~r.restore.online
<1>0. /\ local[t] \in Local /\ Fresh(t)
      /\ pc \in [Threads -> Labels] /\ local \in [Threads -> Local]
      /\ row \in [Subjects -> Row \cup {None}]
  BY ThreadFacts DEF IInv, ThreadInv, FreshInv, TableInv
<1>1. ASSUME NEW label, NEW l, Goto(t, label, l)
      PROVE  pc'[t] = label /\ local'[t] = l
  BY <1>0, <1>1 DEF Goto
<1>2. ASSUME NEW label, label # "release_write", NEW l, Goto(t, label, l) PROVE FALSE
  BY <1>1, <1>2
<1>3. ASSUME NEW l \in Local, NEW back \in {"pick", "reset_write", "delete_write"},
             Release(t, l, back), l.row \in Row, row[l.row.subj] = l.row,
             UNCHANGED <<gate, configured>>
      PROVE  LET r == local'[t].row IN
             /\ UNCHANGED <<gate, configured>>
             /\ r \in Row /\ row[r.subj] = r /\ r.enforced
             /\ r.subj \in Hubs /\ ~r.restore.online
  <2>1. local'[t].row = l.row
    BY <1>3, ReleaseLeads DEF IInv
  <2>2. ReleaseLabel(l.row, back) = "release_write"
    BY <1>1, <1>3 DEF Release
  <2>3. l.row.enforced /\ l.row.subj \notin Users /\ ~l.row.restore.online
    BY <2>2 DEF ReleaseLabel
  <2>4. l.row.subj \in Hubs
    BY <1>3, <2>3 DEF Row, Subjects
  <2> QED BY <1>3, <2>1, <2>3, <2>4
<1>4. CASE ReleaseGet(t) \/ ReleaseSet(t)
  BY <1>1, <1>4 DEF ReleaseGet, ReleaseSet
<1>5. CASE Pick(t)
  <2>1. PICK r \in local[t].todo : PickBlock(t, r) \/ PickRelease(t, r) \/ PickKeep(t, r)
    BY <1>5 DEF Pick
  <2> DEFINE l == [local[t] EXCEPT !.todo = @ \ {r}, !.row = r]
  <2>2. /\ l \in Local /\ l.row = r /\ r \in Row /\ row[r.subj] = r
    BY <1>0 DEF Local, Fresh
  <2>3. PickRelease(t, r)
    BY <1>2, <2>1 DEF PickBlock, PickKeep
  <2>4. Release(t, l, "pick") /\ UNCHANGED <<gate, configured>>
    BY <1>5, <2>3 DEF PickRelease, Pick, server, history
  <2> HIDE DEF l
  <2> QED BY <1>3, <2>2, <2>4
<1>6. CASE ResetAsk(t)
  <2>1. /\ local[t].row \in Row /\ row[local[t].row.subj] = local[t].row
        /\ local[t].row.subj \in Subjects
    BY <1>6, ResetAskReads
  <2>2. PICK bytes \in Bytes :
          Release(t, [local[t] EXCEPT !.readings =
                        {[subj |-> local[t].row.subj, bytes |-> bytes]}], "reset_write")
    BY <1>6, <2>1 DEF ResetAsk, IInv, ServerInv, Row
  <2> DEFINE l == [local[t] EXCEPT !.readings =
                        {[subj |-> local[t].row.subj, bytes |-> bytes]}]
  <2>3. l \in Local /\ l.row = local[t].row
    BY <1>0, <2>1 DEF Local, Reading
  <2> HIDE DEF l
  <2>4. Release(t, l, "reset_write")
    BY <2>2 DEF l
  <2>5. UNCHANGED <<gate, configured>>
    BY <1>6 DEF ResetAsk, server
  <2> QED BY <1>3, <2>1, <2>3, <2>4, <2>5
<1>7. ASSUME NEW s \in Watched, Delete(t, s)
      PROVE  LET r == local'[t].row IN
             /\ UNCHANGED <<gate, configured>>
             /\ r \in Row /\ row[r.subj] = r /\ r.enforced
             /\ r.subj \in Hubs /\ ~r.restore.online
  <2> DEFINE l == [Rest EXCEPT !.subj = s, !.row = row[s]]
  <2>1. /\ s \in Subjects /\ row[s] \in Row /\ row[row[s].subj] = row[s]
    BY <1>0, <1>7, SubjectsAssumption DEF Delete, IInv, TableInv
  <2>2. l \in Local /\ l.row = row[s]
    BY <2>1 DEF Rest, Local, Returns
  <2>3. Release(t, l, "delete_write") /\ UNCHANGED <<gate, configured>>
    BY <1>7 DEF Delete, server, history
  <2> HIDE DEF l
  <2> QED BY <1>3, <2>1, <2>2, <2>3
<1>8. ASSUME Continue(t), ~ReleaseGet(t), ~ReleaseSet(t), ~Pick(t), ~ResetAsk(t) PROVE FALSE
  <2>1. local[t].back # "release_write"
    BY <1>0 DEF Local, Returns
  <2> QED
    BY <1>2, <1>8, <2>1
    DEF Continue, SwitchWrite, Refresh, Observe, ObserveWrite, Enforce, ReleaseWrite,
        BlockGet, BlockSet, BlockEnum, BlockWrite, BlockCut, PassDone, ResetSave,
        ResetRow, ResetWrite, DeleteWrite, Forget, AskCounters, Feed, Finish,
        AfterRefresh, GiveUp, Collect
<1>9. ASSUME Request(t) \/ Tick(t) \/ SampleTraffic(t), ~\E s \in Watched : Delete(t, s)
      PROVE  FALSE
  BY <1>2, <1>9
  DEF Request, Save, Switch, Reset, View, Remove, Tick, SampleTraffic, Collect
<1> QED BY <1>4, <1>5, <1>6, <1>7, <1>8, <1>9 DEF Acts

\* Rows are about to go because their objects just went.
LEMMA ForgettingComesFrom ==
  ASSUME IInv, FreshInv, NEW t \in Threads, Acts(t), pc'[t] = "forget"
  PROVE  \A s \in Contains(local'[t].subj) : gate'[s] = None
<1>0. /\ local[t] \in Local
      /\ pc \in [Threads -> Labels] /\ local \in [Threads -> Local]
  BY ThreadFacts DEF IInv, ThreadInv
<1>1. ASSUME NEW label, NEW l, Goto(t, label, l)
      PROVE  pc'[t] = label /\ local'[t] = l
  BY <1>0, <1>1 DEF Goto
<1>2. ASSUME NEW label, label # "forget", NEW l, Goto(t, label, l) PROVE FALSE
  BY <1>1, <1>2
<1>3. ASSUME Continue(t) PROVE FALSE
  <2>1. local[t].back # "forget"
    BY <1>0 DEF Local, Returns
  <2>2. ASSUME NEW l, Release(t, l, "reset_write") \/ Release(t, l, "pick") PROVE FALSE
    BY <1>2, <2>2 DEF Release, ReleaseLabel
  <2> QED
    BY <1>2, <1>3, <2>1, <2>2
    DEF Continue, SwitchWrite, Refresh, Observe, ObserveWrite, Enforce, ReleaseGet,
        ReleaseSet, ReleaseWrite, BlockGet, BlockSet, BlockEnum, BlockWrite, BlockCut,
        Pick, PickBlock, PickRelease, PickKeep, PassDone, ResetSave, ResetRow, ResetAsk,
        ResetWrite, DeleteWrite, Forget, AskCounters, Feed, Finish, AfterRefresh, GiveUp,
        Collect
<1>4. PICK x \in Watched : Remove(t, x)
  BY <1>2, <1>3
  DEF Acts, Request, Save, Switch, Reset, Delete, View, Release, ReleaseLabel, Tick,
      SampleTraffic, Collect
<1>5. local'[t] = [Rest EXCEPT !.subj = x]
  BY <1>1, <1>4 DEF Remove
<1>6. local'[t].subj = x
  BY <1>5 DEF Rest
<1>7. Contains(x) \subseteq Subjects
  BY SubjectsAssumption DEF Contains, Subjects
<1> QED BY <1>4, <1>6, <1>7 DEF Remove

\* A block that has denied access goes on until it has marked the row.
LEMMA MidwayEnds ==
  ASSUME IInv, FreshInv, Serial, ObjectsInv, Uncrashed, CutsAndLiftsAnswer, [Next]_vars,
         NEW s \in Subjects, Midway(s), ~Midway(s)'
  PROVE  Blocked(s)'
<1>1. PICK t \in Threads : pc[t] \in Isolating /\ local[t].row.subj = s
  BY DEF Midway
<1>2. pc \in [Threads -> Labels] /\ local \in [Threads -> Local]
  BY DEF IInv, ThreadInv
<1>3. /\ local[t] \in Local /\ row[s] \in Row /\ StillThere(local[t].row)
  BY <1>1, RowInHand DEF Isolating, Blocking
<1>4. ASSUME pc'[t] \in Isolating, local'[t].row = local[t].row PROVE FALSE
  BY <1>1, <1>4 DEF Midway
<1>5. Acts(t)
  <2>1. ~(World \/ UNCHANGED vars)
    BY <1>1, <1>4, NoCrash, WorldLeavesThreads
  <2>2. PICK o \in Threads : Acts(o)
    BY <2>1, StepActors
  <2>3. o = t
    BY <1>1, <2>2, ActorAlone DEF Alone, Isolating
  <2> QED BY <2>2, <2>3
<1>6. Continue(t)
  BY <1>1, <1>5
  DEF Acts, Request, Save, Switch, Reset, Delete, View, Remove, Tick, SampleTraffic,
      MayStart, At, Isolating
<1>7. BlockEnum(t) \/ (\E n \in SessionNames : BlockCut(t, n)) \/ BlockWrite(t)
  BY <1>1, <1>6
  DEF Continue, SwitchWrite, Refresh, Observe, ObserveWrite, Enforce, BlockGet,
      BlockSet, ReleaseGet, ReleaseSet, ReleaseWrite, Pick, PassDone, ResetSave, ResetRow,
      ResetAsk, ResetWrite, DeleteWrite, Forget, AskCounters, Feed, At, Isolating
<1>8. CASE BlockEnum(t) \/ \E n \in SessionNames : BlockCut(t, n)
  <2>1. ASSUME BlockEnum(t) PROVE ~Raises(t, HubOf[s])
    <3>1. gate[HubOf[s]] # None
      BY <1>1, <2>1 DEF ObjectsInv, HubAtHand, BlockEnum, At
    <3>2. ~Fault(t)
      BY <2>1 DEF BlockEnum, At, Fault, CutsAndLiftsAnswer
    <3> QED BY <3>1, <3>2 DEF Raises
  <2>2. PICK c, label : label \in Isolating /\ Goto(t, label, [local[t] EXCEPT !.cut = c])
    <3>1. ASSUME BlockEnum(t)
          PROVE  \E c, label : /\ label \in Isolating
                              /\ Goto(t, label, [local[t] EXCEPT !.cut = c])
      <4> DEFINE label == IF sessions[s] = {} THEN "block_write" ELSE "block_cut"
      <4>1. label \in Isolating
        BY DEF Isolating
      <4>2. Goto(t, label, [local[t] EXCEPT !.cut = sessions[s]])
        BY <1>1, <2>1, <3>1 DEF BlockEnum
      <4> QED BY <4>1, <4>2
    <3>2. ASSUME NEW n \in SessionNames, BlockCut(t, n)
          PROVE  \E c, label : /\ label \in Isolating
                              /\ Goto(t, label, [local[t] EXCEPT !.cut = c])
      <4> DEFINE left == local[t].cut \ {n}
                 label == IF left = {} THEN "block_write" ELSE "block_cut"
      <4>1. label \in Isolating
        BY DEF Isolating
      <4>2. Goto(t, label, [local[t] EXCEPT !.cut = left])
        BY <3>2 DEF BlockCut
      <4> QED BY <4>1, <4>2
    <3> QED BY <1>8, <3>1, <3>2
  <2> DEFINE l == [local[t] EXCEPT !.cut = c]
  <2>3. l.row = local[t].row
    BY <1>3 DEF Local
  <2> HIDE DEF l
  <2>4. pc'[t] = label /\ local'[t] = l
    BY <1>2, <2>2 DEF Goto, l
  <2> QED BY <1>4, <2>2, <2>3, <2>4
<1>9. CASE BlockWrite(t)
  <2> DEFINE new == [row[s] EXCEPT !.enforced = TRUE, !.exceeded = TRUE,
                                   !.restore = local[t].found]
  <2>1. new \in Row /\ new.enforced
    <3>1. local[t].found \in Gates \cup {None}
      BY <1>3 DEF Local
    <3> QED BY <1>3, <3>1 DEF Row
  <2>2. row'[s] = new
    BY <1>1, <1>3, <1>9 DEF BlockWrite, IInv, TableInv
  <2> HIDE DEF new
  <2> QED BY <2>1, <2>2, NoneAssumption DEF Blocked
<1> QED BY <1>7, <1>8, <1>9

\* Rows disappear by delete_write and forget alone.
LEMMA RowGone ==
  ASSUME IInv, [Next]_vars, NEW s \in Subjects, row[s] # None, row'[s] = None
  PROVE  \E t \in Threads : \/ DeleteWrite(t) /\ local[t].row.subj = s
                            \/ Forget(t) /\ s \in Contains(local[t].subj)
<1>0. /\ row \in [Subjects -> Row \cup {None}] /\ row[s] \in Row
      /\ ~(row'[s] \in Row) /\ ~UNCHANGED row
  BY NoneAssumption DEF IInv, TableInv
\* A row that is written stays a row.
<1>1. ASSUME NEW x, NEW new, new \in Row,
             row' = [row EXCEPT ![x] = new] \/ row'[s] = new
      PROVE  FALSE
  BY <1>0, <1>1
<1>2. /\ \A b \in BOOLEAN : \A r \in Row : [r EXCEPT !.isEnabled = b] \in Row
      /\ \A r \in Row : [r EXCEPT !.exceeded = TRUE] \in Row
      /\ \A r \in Row : [r EXCEPT !.enforced = FALSE, !.restore = None] \in Row
      /\ \A r \in Row : \A g \in Gates \cup {None} :
           [r EXCEPT !.enforced = TRUE, !.exceeded = TRUE, !.restore = g] \in Row
      /\ \A r \in Row : \A b \in Bytes :
           [r EXCEPT !.base = b, !.last = b, !.exceeded = FALSE] \in Row
      /\ \A r \in Row : \A b, c \in Bytes : [r EXCEPT !.base = b, !.last = c] \in Row
      /\ \A r \in Row : [r EXCEPT !.limit = 0, !.exceeded = FALSE] \in Row
  BY DEF Row
<1>3. ASSUME NEW t \in Threads, NEW isEnabled \in BOOLEAN, SwitchWrite(t, isEnabled)
      PROVE  FALSE
  <2> DEFINE r == local[t].row
  <2>1. r.subj \in Subjects /\ StillThere(r)
    BY <1>0, <1>3, RowAtHand DEF IInv, SwitchWrite, At, OnARow
  <2>2. [row[r.subj] EXCEPT !.isEnabled = isEnabled] \in Row
    BY <1>2, <2>1, StillThereIsRow DEF IInv
  <2>3. row' = [row EXCEPT ![r.subj] = [row[r.subj] EXCEPT !.isEnabled = isEnabled]]
    BY <1>0, <1>3, <2>1 DEF SwitchWrite
  <2> QED BY <1>1, <2>2, <2>3
<1>4. ASSUME NEW t \in Threads, ReleaseWrite(t) PROVE FALSE
  <2> DEFINE r == local[t].row
  <2>1. r.subj \in Subjects /\ StillThere(r)
    BY <1>0, <1>4, RowAtHand DEF IInv, ReleaseWrite, At, OnARow
  <2>2. [row[r.subj] EXCEPT !.enforced = FALSE, !.restore = None] \in Row
    BY <1>2, <2>1, StillThereIsRow DEF IInv
  <2>3. row' = [row EXCEPT ![r.subj] = [row[r.subj] EXCEPT !.enforced = FALSE, !.restore = None]]
    BY <1>0, <1>4, <2>1 DEF ReleaseWrite
  <2> QED BY <1>1, <2>2, <2>3
<1>5. ASSUME NEW t \in Threads, BlockWrite(t) PROVE FALSE
  <2> DEFINE r   == local[t].row
             new == [row[r.subj] EXCEPT !.enforced = TRUE, !.exceeded = TRUE,
                                        !.restore = local[t].found]
  <2>1. /\ r.subj \in Subjects /\ StillThere(r) /\ local[t].found \in Gates \cup {None}
    BY <1>0, <1>5, RowAtHand, ThreadFacts DEF IInv, BlockWrite, At, OnARow, Local
  <2>2. new \in Row
    BY <1>2, <2>1, StillThereIsRow DEF IInv
  <2>3. row' = [row EXCEPT ![r.subj] = new]
    BY <1>0, <1>5, <2>1 DEF BlockWrite
  <2> QED BY <1>1, <2>2, <2>3
<1>6. ASSUME NEW t \in Threads, ResetWrite(t) PROVE FALSE
  <2> DEFINE r == local[t].row
  <2>1. r.subj \in Subjects /\ StillThere(r) /\ local[t] \in Local
    BY <1>0, <1>6, RowAtHand, ThreadFacts DEF IInv, ResetWrite, At, OnARow
  <2>2. PICK g \in local[t].readings :
          row' = [row EXCEPT ![r.subj] = [row[r.subj] EXCEPT !.base = g.bytes,
                                            !.last = g.bytes, !.exceeded = FALSE]]
    BY <1>0, <1>6, <2>1 DEF ResetWrite
  <2>3. g.bytes \in Bytes
    BY <2>1, <2>2 DEF Local, Reading
  <2>4. [row[r.subj] EXCEPT !.base = g.bytes, !.last = g.bytes, !.exceeded = FALSE] \in Row
    BY <1>2, <2>1, <2>3, StillThereIsRow DEF IInv
  <2> QED BY <1>1, <2>2, <2>4
<1>7. ASSUME NEW t \in Threads, Pick(t) PROVE FALSE
  <2>1. PICK p \in local[t].todo : PickBlock(t, p) \/ PickRelease(t, p) \/ PickKeep(t, p)
    BY <1>7 DEF Pick
  <2>2. p.subj \in Subjects
    BY ThreadFacts DEF IInv, Local, Row
  <2>3. StillThere(p) /\ row' = [row EXCEPT ![p.subj].exceeded = TRUE]
    BY <1>0, <2>1 DEF PickBlock, PickRelease, PickKeep
  <2>4. [row[p.subj] EXCEPT !.exceeded = TRUE] \in Row
    BY <1>2, <2>2, <2>3, StillThereIsRow DEF IInv
  <2>5. row' = [row EXCEPT ![p.subj] = [row[p.subj] EXCEPT !.exceeded = TRUE]]
    BY <2>3
  <2> QED BY <1>1, <2>4, <2>5
<1>8. ASSUME NEW t \in Threads, ObserveWrite(t) PROVE FALSE
  <2>1. PICK u \in UpdateOf(t, s) : row'[s] = [row[s] EXCEPT !.base = u.base, !.last = u.last]
    BY <1>0, <1>8 DEF ObserveWrite
  <2>2. u.base \in Bytes /\ u.last \in Bytes
    BY ThreadFacts DEF IInv, UpdateOf, Local, Update
  <2>3. [row[s] EXCEPT !.base = u.base, !.last = u.last] \in Row
    BY <1>0, <1>2, <2>2
  <2> QED BY <1>1, <2>1, <2>3
<1>9. ASSUME NEW x \in Subjects, NEW limit \in Nat, NEW metric \in Metrics,
             NEW isEnabled \in BOOLEAN, Upsert(x, limit, metric, isEnabled)
      PROVE  FALSE
  <2>1. CASE row[x] = None
    <3>1. x # s /\ row'[s] = row[s]
      BY <1>0, <1>9, <2>1 DEF Upsert
    <3> QED BY <1>0, <3>1
  <2>2. CASE row[x] # None
    <3>1. [row[x] EXCEPT !.limit = limit, !.metric = metric, !.isEnabled = isEnabled] \in Row
      BY <1>0, <2>2 DEF Row
    <3>2. row' = [row EXCEPT ![x] = [row[x] EXCEPT !.limit = limit, !.metric = metric,
                                                  !.isEnabled = isEnabled]]
      BY <1>9, <2>2 DEF Upsert
    <3> QED BY <1>1, <3>1, <3>2
  <2> QED BY <2>1, <2>2
<1>10. ASSUME NEW t \in Threads, ResetSave(t) PROVE FALSE
  BY <1>9, <1>10, SubjectAtHand DEF ResetSave, At, OnSubject, IInv, Metrics
<1>11. ASSUME NEW t \in Threads, DeleteWrite(t) PROVE local[t].row.subj = s
  <2> DEFINE r == local[t].row
  <2>1. r.subj \in Subjects /\ StillThere(r)
    BY <1>0, <1>11, RowAtHand DEF IInv, DeleteWrite, At, OnARow
  <2>2. PICK new : row' = [row EXCEPT ![r.subj] = new]
    BY <1>0, <1>11, <2>1 DEF DeleteWrite
  <2> QED BY <1>0, <2>2
<1>12. ASSUME NEW t \in Threads, Forget(t) PROVE s \in Contains(local[t].subj)
  BY <1>0, <1>12 DEF Forget
<1>13. ASSUME NEW t \in Threads, Continue(t)
       PROVE  DeleteWrite(t) \/ Forget(t)
  BY <1>0, <1>3, <1>4, <1>5, <1>6, <1>7, <1>8, <1>10, <1>13
  DEF Continue, Refresh, Observe, Enforce, ReleaseGet, ReleaseSet, BlockGet, BlockSet,
      BlockEnum, BlockCut, PassDone, ResetRow, ResetAsk, AskCounters, Feed, table
<1>14. ASSUME NEW t \in Handlers, NEW x \in Watched, NEW c \in Ceilings,
              NEW isEnabled \in BOOLEAN, Save(t, x, c[1], c[2], isEnabled)
       PROVE  FALSE
  <2>1. c[1] \in Nat /\ c[2] \in Metrics /\ x \in Subjects
    BY SubjectsAssumption, BoundsAssumption
  <2> QED BY <1>9, <1>14, <2>1 DEF Save
<1>15. \E t \in Threads : Continue(t)
  BY <1>0, <1>14
  DEF Next, Request, Switch, Reset, Delete, View, Remove, Tick, SampleTraffic, World,
      Login, Logout, Traffic, Edit, Recreate, Create, Toggle, Crash, vars, table
<1> QED BY <1>11, <1>12, <1>13, <1>15

\* A block ends by its release, or with the subject.
LEMMA BlockEnds ==
  ASSUME IInv, FreshInv, [Next]_vars, NEW s \in Subjects, Blocked(s), ~Blocked(s)'
  PROVE  \E t \in Threads : \/ ReleaseWrite(t) /\ local[t].row.subj = s
                            \/ Forget(t) /\ s \in Contains(local[t].subj)
<1>0. row \in [Subjects -> Row \cup {None}] /\ row[s] # None
  BY DEF IInv, TableInv, Blocked
<1>1. CASE row'[s] = None
  <2>1. ASSUME NEW t \in Threads, DeleteWrite(t), local[t].row.subj = s PROVE FALSE
    BY <2>1 DEF FreshInv, Fresh, DeleteWrite, At, Blocked
  <2> QED BY <1>0, <1>1, <2>1, RowGone
<1>2. CASE row'[s] # None
  <2>1. ~BlockKept(s)
    BY <1>0, <1>2 DEF BlockKept, Blocked
  <2>2. PICK t \in Threads : BlockWrite(t) \/ ReleaseWrite(t)
    BY <2>1, ContinueKeeps, OthersKeep
  <2> DEFINE r == local[t].row
  <2>3. r.subj \in Subjects
    BY <2>2, RowAtHand DEF IInv, BlockWrite, ReleaseWrite, At, OnARow
  <2>4. row'[s] # row[s]
    BY <2>1, <1>0 DEF BlockKept
  <2>5. s = r.subj /\ StillThere(r)
    BY <1>0, <2>2, <2>3, <2>4 DEF BlockWrite, ReleaseWrite
  <2>6. ASSUME BlockWrite(t) PROVE FALSE
    BY <2>5, <2>6, <1>0 DEF FreshInv, Fresh, BlockWrite, At, Blocking, Blocked
  <2> QED BY <2>2, <2>5, <2>6
<1> QED BY <1>1, <1>2

LEMMA ExplainedStep ==
  ASSUME IInv, FreshInv, Serial, ObjectsInv, ExplainedInv, Uncrashed, CutsAndLiftsAnswer,
         [Next]_vars, NEW s \in Subjects
  PROVE  Explained(s)'
<1> SUFFICES ASSUME ~Blocked(s)', ~Midway(s)' PROVE Given(s)'
  BY DEF Explained
<1>1. ~Midway(s)
  BY MidwayEnds
<1>2. CASE Blocked(s)
  <2>1. PICK t \in Threads : \/ ReleaseWrite(t) /\ local[t].row.subj = s
                             \/ Forget(t) /\ s \in Contains(local[t].subj)
    BY <1>2, BlockEnds
  <2>2. Given(s)
    BY <2>1 DEF ExplainedInv, GivenAt, ReleaseWrite, Forget, At
  <2>3. UNCHANGED <<gate, configured>>
    BY <2>1 DEF ReleaseWrite, Forget, server, history
  <2> QED BY <2>2, <2>3 DEF Given
<1>3. CASE ~Blocked(s)
  <2>1. Given(s)
    BY <1>1, <1>3 DEF ExplainedInv, Explained
  <2>2. CASE \E t \in Threads : BlockSet(t) /\ local[t].row.subj = s
    <3>1. PICK t \in Threads : BlockSet(t) /\ local[t].row.subj = s
      BY <2>2
    <3>2. pc \in [Threads -> Labels] /\ local \in [Threads -> Local]
      BY DEF IInv, ThreadInv
    <3>3. ~Fault(t)
      BY <3>1 DEF BlockSet, At, Fault, CutsAndLiftsAnswer
    <3>4. ASSUME Goto(t, IF s \in Users THEN "block_enum" ELSE "block_write", local[t])
          PROVE  FALSE
      <4>1. pc'[t] \in Isolating /\ local'[t] = local[t]
        BY <3>2, <3>4 DEF Goto, Isolating
      <4> QED BY <3>1, <4>1 DEF Midway
    <3>5. UNCHANGED <<gate, configured>>
      BY <3>1, <3>3, <3>4 DEF BlockSet, history
    <3> QED BY <2>1, <3>5 DEF Given
  <2>3. CASE ~\E t \in Threads : BlockSet(t) /\ local[t].row.subj = s
    BY <2>1, <2>3, GivenStays
  <2> QED BY <2>2, <2>3
<1> QED BY <1>2, <1>3

LEMMA RememberedStep ==
  ASSUME IInv, FreshInv, ExplainedInv, [Next]_vars, NEW s \in Subjects
  PROVE  Remembered(s)'
<1> SUFFICES ASSUME Blocked(s)' PROVE row'[s].restore \in configured'[s]
  BY DEF Remembered
<1>0. /\ row \in [Subjects -> Row \cup {None}] /\ row'[s] # None /\ row'[s].enforced
      /\ configured[s] \subseteq configured'[s]
  BY ConfiguredGrows DEF IInv, TableInv, Blocked
<1>1. ASSUME Blocked(s), row'[s].restore = row[s].restore
      PROVE  row'[s].restore \in configured'[s]
  BY <1>0, <1>1 DEF ExplainedInv, Remembered
<1>2. CASE BlockKept(s)
  BY <1>0, <1>1, <1>2 DEF BlockKept, Blocked
<1>3. CASE ~BlockKept(s)
  <2>1. PICK t \in Threads : BlockWrite(t) \/ ReleaseWrite(t)
    BY <1>3, ContinueKeeps, OthersKeep
  <2> DEFINE r == local[t].row
  <2>2. r.subj \in Subjects /\ local[t] \in Local
    BY <2>1, RowAtHand, ThreadFacts DEF IInv, BlockWrite, ReleaseWrite, At, OnARow
  <2>3. row'[s] # row[s]
    BY <1>0, <1>3 DEF BlockKept
  <2>4. s = r.subj /\ StillThere(r)
    BY <1>0, <2>1, <2>2, <2>3 DEF BlockWrite, ReleaseWrite
  <2>5. row[s] \in Row
    BY <2>4, StillThereIsRow DEF IInv
  <2>6. CASE BlockWrite(t)
    <3> DEFINE new == [row[s] EXCEPT !.enforced = TRUE, !.exceeded = TRUE,
                                     !.restore = local[t].found]
    <3>1. row'[s] = new
      BY <1>0, <2>4, <2>6 DEF BlockWrite
    <3>2. new.restore = local[t].found
      BY <2>5 DEF Row
    <3> HIDE DEF new
    <3>3. local[t].found \in configured[s]
      BY <2>4, <2>6 DEF ExplainedInv, GivenAt, BlockWrite, At, Blocking
    <3> QED BY <1>0, <3>1, <3>2, <3>3
  <2>7. CASE ReleaseWrite(t)
    <3> DEFINE new == [row[s] EXCEPT !.enforced = FALSE, !.restore = None]
    <3>1. row'[s] = new
      BY <1>0, <2>4, <2>7 DEF ReleaseWrite
    <3>2. ~new.enforced
      BY <2>5 DEF Row
    <3> HIDE DEF new
    <3> QED BY <1>0, <3>1, <3>2
  <2> QED BY <2>1, <2>6, <2>7
<1> QED BY <1>2, <1>3

\* A hub that was offline when it was blocked is as its operator left it.
LEMMA OfflineIsGiven ==
  ASSUME IInv, ExplainedInv, NEW h \in Hubs, Blocked(h), ~row[h].restore.online
  PROVE  Given(h)
<1>1. h \in Subjects
  BY DEF Subjects
<1>2. row[h].restore \in configured[h] /\ configured[h] \subseteq Choices(h)
  BY <1>1 DEF ExplainedInv, Remembered
<1>3. row[h].restore \in HubGate
  BY <1>2 DEF Choices
<1>4. row[h].restore = [online |-> FALSE]
  BY <1>3 DEF HubGate
<1>5. Deny(h) = [online |-> FALSE]
  BY DEF Deny
<1>6. gate[h] # None => gate[h] \in configured[h] \cup {Deny(h)}
  BY <1>1 DEF IInv, ServerInv, NeverInventsAccess, Known
<1> QED BY <1>2, <1>4, <1>5, <1>6 DEF Given

LEMMA GivenAtStep ==
  ASSUME IInv, FreshInv, Serial, ObjectsInv, ExplainedInv, Uncrashed, CutsAndLiftsAnswer,
         [Next]_vars, NEW o \in Threads, NEW s \in Subjects
  PROVE  GivenAt(o, s)'
<1>0. GivenAt(o, s) /\ Explained(s) /\ configured[s] \subseteq configured'[s]
  BY ConfiguredGrows DEF ExplainedInv
<1>1. CASE World \/ UNCHANGED vars
  <2>1. pc' = pc /\ local' = local
    BY <1>1, NoCrash, WorldLeavesThreads
  <2>2. ASSUME NEW t \in Threads, BlockSet(t) PROVE FALSE
    <3>1. Acts(t)
      BY <2>2 DEF Acts, Continue
    <3>2. pc'[t] # pc[t]
      BY <2>2 DEF BlockSet, At, Goto, GiveUp, IInv, ThreadInv
    <3> QED BY <2>1, <3>2
  <2>3. Given(s) => Given(s)'
    BY <2>2, GivenStays
  <2>4. /\ pc'[o] = pc[o] /\ local'[o] = local[o]
    BY <2>1
  <2> QED BY <1>0, <2>3, <2>4 DEF GivenAt
<1>2. ASSUME NEW t \in Threads, Acts(t), o # t PROVE GivenAt(o, s)'
  <2>1. pc'[o] = "idle"
    BY <1>2, ActorAlone DEF Alone
  <2> QED BY <2>1 DEF GivenAt, Blocking
<1>3. CASE Acts(o)
  <2>1. ASSUME pc'[o] \in Blocking \ {"block_get"}, local'[o].row.subj = s
        PROVE  local'[o].found \in configured'[s]
    <3>1. /\ pc[o] \in Blocking /\ local'[o].row = local[o].row
          /\ \/ /\ BlockGet(o) /\ UNCHANGED <<gate, configured>>
                /\ gate[local[o].row.subj] # None
                /\ local'[o].found = gate[local[o].row.subj]
             \/ /\ pc[o] # "block_get" /\ UNCHANGED configured
                /\ local'[o].found = local[o].found
      BY <1>3, <2>1, BlockingComesFrom
    <3>2. CASE pc[o] # "block_get"
      BY <1>0, <2>1, <3>1, <3>2 DEF GivenAt, BlockGet, At
    <3>3. CASE pc[o] = "block_get"
      <4>1. gate[s] # None /\ local'[o].found = gate[s]
        BY <2>1, <3>1, <3>3
      <4>2. ~Blocked(s)
        <5>1. row[s] = local[o].row /\ ~local[o].row.enforced
          BY <2>1, <3>1, RowInHand DEF Fresh
        <5> QED BY <5>1 DEF Blocked
      <4>3. ~Midway(s)
        <5>1. Alone(o)
          BY <1>3, ActorAlone
        <5> QED BY <3>3, <5>1 DEF Midway, Alone, Isolating
      <4> QED BY <1>0, <4>1, <4>2, <4>3 DEF Explained, Given
    <3> QED BY <3>2, <3>3
  <2>2. ASSUME pc'[o] = "release_write", local'[o].row.subj = s
        PROVE  Given(s)'
    <3>1. \/ ReleaseGet(o) /\ local'[o] = local[o]
          \/ ReleaseSet(o) /\ local'[o] = local[o]
          \/ LET r == local'[o].row IN
             /\ UNCHANGED <<gate, configured>>
             /\ r \in Row /\ row[r.subj] = r /\ r.enforced
             /\ r.subj \in Hubs /\ ~r.restore.online
      BY <1>3, <2>2, DroppingComesFrom
    <3>2. CASE ReleaseGet(o) /\ local'[o] = local[o]
      <4>1. ~Fault(o)
        BY <3>2 DEF ReleaseGet, At, Fault, CutsAndLiftsAnswer
      <4>2. pc'[o] # "release_set"
        BY <2>2
      <4>3. Raises(o, s) /\ UNCHANGED gate
        BY <2>2, <3>2, <4>2 DEF ReleaseGet, Goto, IInv, ThreadInv, server
      <4> QED BY <4>1, <4>3 DEF Raises, Given
    <3>3. CASE ReleaseSet(o) /\ local'[o] = local[o]
      <4> DEFINE r == local[o].row
      <4>1. ~Fault(o)
        BY <3>3 DEF ReleaseSet, At, Fault, CutsAndLiftsAnswer
      <4>2. /\ row[s] = r /\ r \in Row /\ r.enforced /\ r.subj = s
        BY <2>2, <3>3, RowInHand, RestoreAtHand DEF ReleaseSet, At, Releasing
      <4>3. r.restore \in configured[s]
        BY <4>2, NoneAssumption DEF ExplainedInv, Remembered, Blocked
      <4>4. \/ gate[s] = None /\ UNCHANGED gate
            \/ SetGate(s, r.restore)
        BY <3>3, <4>1, <4>2 DEF ReleaseSet, Raises
      <4>5. gate'[s] # None => gate'[s] = r.restore
        BY <4>4 DEF SetGate, IInv, ServerInv
      <4> QED BY <1>0, <4>3, <4>5 DEF Given
    <3>4. CASE LET r == local'[o].row IN
               /\ UNCHANGED <<gate, configured>>
               /\ r \in Row /\ row[r.subj] = r /\ r.enforced
               /\ r.subj \in Hubs /\ ~r.restore.online
      <4>1. s \in Hubs /\ Blocked(s) /\ ~row[s].restore.online
        BY <2>2, <3>4, NoneAssumption DEF Blocked
      <4>2. Given(s)
        BY <4>1, OfflineIsGiven
      <4> QED BY <3>4, <4>2 DEF Given
    <3> QED BY <3>1, <3>2, <3>3, <3>4
  <2>3. ASSUME pc'[o] = "forget", s \in Contains(local'[o].subj) PROVE Given(s)'
    BY <1>3, <2>3, ForgettingComesFrom DEF Given
  <2> QED BY <2>1, <2>2, <2>3 DEF GivenAt, Contains
<1> QED BY <1>1, <1>2, <1>3, StepActors

LEMMA Explanations ==
  ASSUME Serial, Uncrashed, CutsAndLiftsAnswer
  PROVE  Spec => []ExplainedInv
<1>1. Init => ExplainedInv
  <2> SUFFICES ASSUME Init PROVE ExplainedInv
    OBVIOUS
  <2>1. \A s \in Subjects : configured[s] = {gate[s]} /\ gate[s] \in Choices(s) /\ row[s] = None
    BY DEF Init
  <2>2. \A t \in Threads : pc[t] = "idle"
    BY DEF Init
  <2> QED BY <2>1, <2>2 DEF ExplainedInv, Explained, Remembered, GivenAt, Given, Blocked, Blocking
<1>2. IInv /\ FreshInv /\ ObjectsInv /\ ExplainedInv /\ [Next]_vars => ExplainedInv'
  <2> SUFFICES ASSUME IInv, FreshInv, ObjectsInv, ExplainedInv, [Next]_vars
               PROVE  ExplainedInv'
    OBVIOUS
  <2>1. ASSUME NEW s \in Subjects
        PROVE  configured'[s] \subseteq Choices(s) /\ Explained(s)' /\ Remembered(s)'
    BY ConfiguredGrows, ExplainedStep, RememberedStep DEF ExplainedInv
  <2>2. ASSUME NEW t \in Threads, NEW s \in Subjects PROVE GivenAt(t, s)'
    BY GivenAtStep
  <2> QED BY <2>1, <2>2 DEF ExplainedInv, Choices
<1> QED BY <1>1, <1>2, Invariance, Objects, PTL DEF Spec

\* Between passes nobody is left cut off without a blocked row that explains
\* it: for passes and requests that follow one another, no crash of the panel,
\* and calls of a block and of a release that fail only when their object is
\* gone; readings, cuts and every other call may fail.
THEOREM CutsAreExplained ==
  ASSUME Serial, Uncrashed, CutsAndLiftsAnswer
  PROVE  Spec => []CutOffIsExplained
<1>1. ExplainedInv => CutOffIsExplained
  BY DEF ExplainedInv, Explained, CutOffIsExplained, Quiet, At, Midway, Isolating, Blocked, Given
<1> QED BY <1>1, Explanations, PTL

\* Under the same conditions a blocked row remembers what an operator gave its
\* subject, never the denial another block had put there.
THEOREM RestoresAreOriginal ==
  ASSUME Serial, Uncrashed, CutsAndLiftsAnswer
  PROVE  Spec => []RestoreIsOriginal
<1>1. ExplainedInv => RestoreIsOriginal
  BY DEF ExplainedInv, Remembered, Blocked, RestoreIsOriginal
<1> QED BY <1>1, Explanations, PTL
=============================================================================
