-------------------------- MODULE SeConnectionProofs --------------------------
(***************************************************************************)
(* SeConnection keeps its types under every overlap; and when requests do  *)
(* not overlap, the shared client follows the stored facts and a vouched   *)
(* save is one the server accepts, for every set of threads, hosts, ports, *)
(* passwords and servers and any budget of events.                         *)
(***************************************************************************)
EXTENDS SeConnection, TLAPS

Saving == {"write_host", "write_port", "write_password", "drop"}
Called == {"get", "read_host", "read_port", "read_configured", "read_password",
           "install", "use"}

-----------------------------------------------------------------------------
(* Types: what a thread has read by the time it reaches a label *)

HasRead(t) ==
  /\ pc[t] \in {"read_port", "read_configured", "read_password", "install"}
       => local[t].mine.host \in Hosts
  /\ pc[t] \in {"read_configured", "read_password", "install"}
       => local[t].mine.port \in Ports
  /\ pc[t] \in {"keep_port", "own_password", "test"} \cup Saving
       => local[t].new.host \in Hosts
  /\ pc[t] \in {"own_password", "test"} \cup Saving => local[t].new.port \in Ports
  /\ local[t].job = "admin" => local[t].new.password \in Passwords
  /\ pc[t] = "own_password" => local[t].job # "admin"

TInv == TypeOK /\ \A t \in Threads : HasRead(t)

LEMMA RestTyped == Rest \in Local /\ Blank \in Draft
BY DEF Rest, Local, Blank, Draft, Trust

\* A step of one thread that keeps the shared state well typed.
LEMMA GotoTyped ==
  ASSUME TInv, NEW t \in Threads, NEW label \in Labels, NEW l \in Local,
         Goto(t, label, l), HasRead(t)'
  PROVE  pc' \in [Threads -> Labels] /\ local' \in [Threads -> Local]
         /\ \A u \in Threads : HasRead(u)'
BY DEF TInv, TypeOK, Goto, HasRead

LEMMA TypeInit == Init => TInv
<1> SUFFICES ASSUME Init PROVE TInv
  OBVIOUS
<1> USE ConnectionAssumption DEF Init
<1>1. stored \in Facts
  BY DEF Facts
<1>2. spent \in [Kinds -> Nat] /\ late \subseteq Servers \X Passwords
  OBVIOUS
<1>3. pc \in [Threads -> Labels] /\ local \in [Threads -> Local]
  BY RestTyped DEF Labels
<1>4. \A t \in Threads : HasRead(t)
  BY DEF HasRead, Saving, Rest
<1>5. vouched \in Trust
  BY DEF Trust
<1> QED
  BY <1>1, <1>2, <1>3, <1>4, <1>5 DEF TInv, TypeOK

LEMMA SpendTyped ==
  ASSUME NEW k \in Kinds, spent \in [Kinds -> Nat], Spend(k)
  PROVE  spent' \in [Kinds -> Nat]
BY DEF Spend

\* A request that begins.
LEMMA StartTyped ==
  ASSUME TInv, NEW t \in Threads, NEW k \in Kinds, NEW label \in Labels, NEW l \in Local,
         Start(t, k, label, l),
         label \in {"idle", "get", "own_password", "test", "write_host"},
         label \notin {"idle", "get"} => /\ l.new.host \in Hosts /\ l.new.port \in Ports
                                         /\ l.job # "admin",
         l.job = "admin" => l.new.password \in Passwords
  PROVE  TInv'
<1>1. Goto(t, label, l) /\ spent' \in [Kinds -> Nat]
  BY SpendTyped DEF Start, TInv, TypeOK
<1>2. pc'[t] = label /\ local'[t] = l
  BY <1>1 DEF Goto, TInv, TypeOK
<1>3. HasRead(t)'
  BY <1>2 DEF HasRead, Saving
<1>4. UNCHANGED <<stored, cached, adminPw, late, vouched>>
  BY DEF Start
<1> QED
  BY <1>1, <1>3, <1>4, GotoTyped DEF TInv, TypeOK

LEMMA RequestTyped ==
  ASSUME TInv, NEW t \in Threads, Request(t)
  PROVE  TInv'
<1> USE RestTyped DEF Kinds, Labels
<1>1. CASE Call(t)
  <2> DEFINE l == [Rest EXCEPT !.job = "call"]
  <2>1. l \in Local /\ l.job = "call"
    BY DEF Local, Rest
  <2> QED
    BY <1>1, <2>1, StartTyped DEF Call
<1>2. ASSUME NEW password \in Passwords, SetAdminPassword(t, password)
      PROVE  TInv'
  <2> DEFINE l == [Rest EXCEPT !.job = "admin", !.new.password = password]
  <2>1. l \in Local /\ l.new.password = password
    BY DEF Local, Rest, Draft, Blank
  <2>2. l.job = "admin"
    BY DEF Rest
  <2> HIDE DEF l
  <2>3. Start(t, "change", "get", l)
    BY <1>2 DEF SetAdminPassword, l
  <2> QED
    BY <2>1, <2>2, <2>3, StartTyped
<1>3. ASSUME NEW address \in Hosts \X Ports, NEW password \in Passwords \cup {None},
             NEW keep \in BOOLEAN, NEW tested \in BOOLEAN,
             Put(t, address, password, keep, tested)
      PROVE  TInv'
  <2> DEFINE label == PutLabel(keep, tested, password)
             new == [host |-> address[1], port |-> address[2], password |-> password]
             l == [Rest EXCEPT !.job = "put", !.keep = keep, !.tested = tested, !.new = new]
  <2>1. label \in {"idle", "own_password", "test", "write_host"}
    BY DEF PutLabel
  <2>2. new \in Draft /\ new.host \in Hosts /\ new.port \in Ports
    BY DEF Draft
  <2>3. l \in Local /\ l.new = new /\ l.job = "put"
    BY <2>2 DEF Local, Rest
  <2>4. Rest.job = "none"
    BY DEF Rest
  <2>5. CASE label = "idle"
    BY <1>3, <2>4, <2>5, StartTyped DEF Put
  <2>6. CASE label # "idle"
    <3> HIDE DEF l, new, label
    <3>1. Start(t, "change", label, l)
      BY <1>3, <2>6 DEF Put, l, new, label
    <3> QED
      BY <2>1, <2>2, <2>3, <2>6, <3>1, StartTyped
  <2> QED
    BY <2>5, <2>6
<1>4. ASSUME NEW address \in Hosts \X Ports, NEW password \in Passwords,
             CliConnect(t, address, password)
      PROVE  TInv'
  <2> DEFINE new == [host |-> address[1], port |-> address[2], password |-> password]
             l == [Rest EXCEPT !.job = "cli", !.new = new]
  <2>1. new \in Draft /\ new.host \in Hosts /\ new.port \in Ports
    BY DEF Draft
  <2>2. l \in Local /\ l.new = new /\ l.job = "cli"
    BY <2>1 DEF Local, Rest
  <2> HIDE DEF l, new
  <2>3. Start(t, "change", "write_host", l)
    BY <1>4 DEF CliConnect, l, new
  <2> QED
    BY <2>1, <2>2, <2>3, StartTyped
<1> QED
  <2>1. \A address \in Hosts \X Ports, tested \in BOOLEAN :
          Put(t, address, None, TRUE, tested) => TInv'
    BY <1>3
  <2> QED
    BY <1>1, <1>2, <1>3, <1>4, <2>1 DEF Request

\* A step of a request, one case per action.
LEMMA ContinueTyped ==
  ASSUME TInv, NEW t \in Threads, Continue(t)
  PROVE  TInv'
<1> DEFINE l == local[t]
<1>l. l \in Local /\ l.mine \in Draft /\ l.new \in Draft
  BY DEF TInv, TypeOK, Local
<1>h. HasRead(t)
  BY DEF TInv
<1>s. stored \in Facts /\ cached \in Facts \cup {None} /\ adminPw \in [Servers -> Passwords]
      /\ late \subseteq Servers \X Passwords /\ spent \in [Kinds -> Nat] /\ vouched \in Trust
  BY DEF TInv, TypeOK
<1>f. Facts \subseteq Draft
  BY DEF Facts, Draft
<1> USE DEF Labels, Saving
\* Whatever a step leaves its thread with, the rest follows.
<1>g. ASSUME NEW label \in Labels, NEW m \in Local, Goto(t, label, m),
             stored' \in Facts, cached' \in Facts \cup {None},
             adminPw' \in [Servers -> Passwords], late' \subseteq Servers \X Passwords,
             spent' \in [Kinds -> Nat], vouched' \in Trust,
             (pc'[t] = label /\ local'[t] = m) => HasRead(t)'
      PROVE  TInv'
  <2>1. pc'[t] = label /\ local'[t] = m
    BY <1>g DEF Goto, TInv, TypeOK
  <2> QED
    BY <1>g, <2>1, GotoTyped DEF TInv, TypeOK
<1>e. ASSUME Finish(t), stored' \in Facts, cached' \in Facts \cup {None},
             adminPw' \in [Servers -> Passwords], late' \subseteq Servers \X Passwords,
             spent' \in [Kinds -> Nat], vouched' \in Trust
      PROVE  TInv'
  <2>1. Rest.job = "none"
    BY DEF Rest
  <2> QED
    BY <1>e, <1>g, <2>1, RestTyped DEF Finish, HasRead
<1>1. CASE Get(t)
  <2>1. CASE cached = None
    BY <1>1, <1>l, <1>h, <1>s, <1>g, <2>1 DEF Get, HasRead
  <2>2. CASE cached # None
    <3> DEFINE m == [l EXCEPT !.mine = cached, !.used = TRUE]
    <3>1. m \in Local /\ m.new = l.new /\ m.job = l.job
      BY <1>l, <1>s, <1>f, <2>2 DEF Local
    <3> QED
      BY <1>1, <1>h, <1>s, <1>g, <2>2, <3>1 DEF Get, HasRead
  <2> QED
    BY <2>1, <2>2
<1>2. CASE ReadHost(t)
  <2> DEFINE m == [l EXCEPT !.mine.host = stored.host]
  <2>1. m \in Local /\ m.new = l.new /\ m.job = l.job /\ m.mine.host \in Hosts
    BY <1>l, <1>s DEF Local, Draft, Facts
  <2> QED
    BY <1>2, <1>h, <1>s, <1>g, <2>1 DEF ReadHost, HasRead
<1>3. CASE ReadPort(t)
  <2> DEFINE m == [l EXCEPT !.mine.port = stored.port]
  <2>1. /\ m \in Local /\ m.new = l.new /\ m.job = l.job
        /\ m.mine.host = l.mine.host /\ m.mine.port \in Ports
    BY <1>l, <1>s DEF Local, Draft, Facts
  <2> QED
    BY <1>3, <1>h, <1>s, <1>g, <2>1 DEF ReadPort, HasRead, At
<1>4. CASE ReadConfigured(t)
  <2>1. CASE stored.password = None
    BY <1>4, <1>s, <1>e, <2>1 DEF ReadConfigured
  <2>2. CASE stored.password # None
    BY <1>4, <1>l, <1>h, <1>s, <1>g, <2>2 DEF ReadConfigured, HasRead, At
  <2> QED
    BY <2>1, <2>2
<1>5. CASE ReadPassword(t)
  <2> DEFINE m == [l EXCEPT !.mine.password = stored.password]
  <2>1. /\ m \in Local /\ m.new = l.new /\ m.job = l.job
        /\ m.mine.host = l.mine.host /\ m.mine.port = l.mine.port
    BY <1>l, <1>s DEF Local, Draft, Facts
  <2> QED
    BY <1>5, <1>h, <1>s, <1>g, <2>1 DEF ReadPassword, HasRead, At
<1>6. CASE Install(t)
  <2>1. l.mine \in Facts
    BY <1>6, <1>l, <1>h DEF Install, HasRead, At, Facts, Draft
  <2>2. cached' \in Facts
    BY <1>6, <1>s, <2>1 DEF Install
  <2> DEFINE m == [l EXCEPT !.mine = cached', !.used = (cached # None)]
  <2>3. m \in Local /\ m.new = l.new /\ m.job = l.job
    BY <1>l, <1>f, <2>2 DEF Local
  <2> HIDE DEF m
  <2>4. Goto(t, "use", m)
    BY <1>6 DEF Install, m
  <2>5. (pc'[t] = "use" /\ local'[t] = m) => HasRead(t)'
    BY <1>h, <2>3 DEF HasRead
  <2>6. UNCHANGED <<stored, adminPw, late, spent, vouched>>
    BY <1>6 DEF Install
  <2> QED
    BY <1>s, <1>g, <2>2, <2>3, <2>4, <2>5, <2>6
<1>7. CASE Use(t)
  <2> DEFINE m == [l EXCEPT !.sure = Answer(Change(t)[1], Change(t)[2])]
  <2>1. m \in Local /\ m.new = l.new /\ m.mine = l.mine /\ m.job = l.job
    BY <1>l DEF Local, Answer, Trust
  <2>2. stored' = stored /\ cached' = cached
    BY <1>7 DEF Use
  <2>3. (l.job = "admin" /\ Works(l.mine)) => /\ Change(t) \in Servers \X Passwords
                                            /\ Change(t)[1] \in Servers
                                             /\ Change(t)[2] \in Passwords
    BY <1>h DEF HasRead, Works, Change
  <2>4. CASE Works(l.mine) /\ Answered(t)
    <3>1. CASE l.job = "admin"
      <4>1. adminPw' \in [Servers -> Passwords] /\ late' \subseteq Servers \X Passwords
            /\ vouched' = vouched
        BY <1>s, <2>3, <2>4, <3>1 DEF Answered
      <4>2. Goto(t, "keep_host", m)
        BY <2>4, <3>1 DEF Answered
      <4>3. (pc'[t] = "keep_host" /\ local'[t] = m) => HasRead(t)'
        BY <1>h, <2>1 DEF HasRead
      <4>4. spent' \in [Kinds -> Nat]
        BY <1>s, <2>4, <3>1, SpendTyped DEF Answered, Kinds
      <4> HIDE DEF m
      <4> QED
        BY <1>s, <1>g, <2>1, <2>2, <4>1, <4>2, <4>3, <4>4
    <3>2. CASE l.job # "admin"
      BY <1>s, <1>e, <2>2, <2>4, <3>2 DEF Answered
    <3> QED
      BY <3>1, <3>2
  <2>5. CASE Works(l.mine) /\ Lost(t)
    <3>1. Finish(t) /\ spent' \in [Kinds -> Nat]
      BY <1>s, <2>5, SpendTyped DEF Lost, Kinds
    <3>2. adminPw' \in [Servers -> Passwords] /\ late' \subseteq Servers \X Passwords
          /\ vouched' \in Trust
      <4>1. CASE l.job = "admin"
        <5>1. adminPw' \in {adminPw, [adminPw EXCEPT ![Change(t)[1]] = Change(t)[2]]}
              /\ late' \in {late, late \cup {Change(t)}} /\ vouched' = "no"
          BY <2>5, <4>1 DEF Lost
        <5> QED
          BY <1>s, <2>3, <2>5, <4>1, <5>1 DEF Trust
      <4>2. CASE l.job # "admin"
        BY <1>s, <2>5, <4>2 DEF Lost
      <4> QED
        BY <4>1, <4>2
    <3> QED
      BY <1>s, <1>e, <2>2, <3>1, <3>2
  <2>6. CASE ~Works(l.mine) /\ Finish(t) /\ UNCHANGED <<adminPw, late, spent, vouched>>
    BY <1>s, <1>e, <2>2, <2>6
  <2> QED
    BY <1>7, <2>4, <2>5, <2>6 DEF Use
<1>8. CASE KeepHost(t)
  <2> DEFINE m == [l EXCEPT !.new.host = stored.host]
  <2>1. /\ m \in Local /\ m.job = l.job
        /\ m.new.host \in Hosts /\ m.new.password = l.new.password
    BY <1>l, <1>s DEF Local, Draft, Facts
  <2> QED
    BY <1>8, <1>h, <1>s, <1>g, <2>1 DEF KeepHost, HasRead
<1>9. CASE KeepPort(t)
  <2> DEFINE m == [l EXCEPT !.new.port = stored.port]
  <2>1. /\ m \in Local /\ m.job = l.job
        /\ m.new.host = l.new.host /\ m.new.port \in Ports /\ m.new.password = l.new.password
    BY <1>l, <1>s DEF Local, Draft, Facts
  <2> QED
    BY <1>9, <1>h, <1>s, <1>g, <2>1 DEF KeepPort, HasRead, At
<1>10. CASE OwnPassword(t)
  <2> DEFINE m == [l EXCEPT !.new.password = stored.password]
  <2>1. /\ m \in Local /\ m.job = l.job
        /\ m.new.host = l.new.host /\ m.new.port = l.new.port
    BY <1>l, <1>s DEF Local, Draft, Facts
  <2>2. /\ pc[t] = "own_password"
        /\ UNCHANGED <<stored, cached, adminPw, late, spent, vouched>>
        /\ Finish(t) \/ Goto(t, "test", m) \/ Goto(t, "write_host", m)
    BY <1>10 DEF OwnPassword, At
  <2> HIDE DEF m
  <2>3. CASE Finish(t)
    BY <1>s, <1>e, <2>2, <2>3
  <2>4. ASSUME NEW label \in {"test", "write_host"}, Goto(t, label, m)
        PROVE  TInv'
    <3>1. (pc'[t] = label /\ local'[t] = m) => HasRead(t)'
      BY <1>h, <2>1, <2>2 DEF HasRead
    <3> QED
      BY <1>s, <1>g, <2>1, <2>2, <2>4, <3>1
  <2> QED
    BY <2>2, <2>3, <2>4
<1>11. CASE Test(t)
  <2> DEFINE m == [l EXCEPT !.sure = Answer(Address(l.new), l.new.password)]
  <2>1. m \in Local /\ m.new = l.new /\ m.mine = l.mine /\ m.job = l.job
    BY <1>l DEF Local, Answer, Trust
  <2>2. pc[t] = "test" /\ UNCHANGED <<stored, cached, adminPw, late, vouched>>
        /\ \/ Goto(t, "write_host", m) /\ UNCHANGED spent
           \/ Finish(t) /\ (UNCHANGED spent \/ Spend("fault"))
    BY <1>11 DEF Test, At
  <2>3. spent' \in [Kinds -> Nat]
    BY <1>s, <2>2, SpendTyped DEF Kinds
  <2>4. CASE Finish(t)
    BY <1>s, <1>e, <2>2, <2>3, <2>4
  <2>5. CASE Goto(t, "write_host", m)
    <3>1. (pc'[t] = "write_host" /\ local'[t] = m) => HasRead(t)'
      BY <1>h, <2>1, <2>2 DEF HasRead
    <3> QED
      BY <1>s, <1>g, <2>1, <2>2, <2>3, <2>5, <3>1
  <2> QED
    BY <2>2, <2>4, <2>5
<1>12. CASE WriteHost(t)
  <2>1. stored' \in Facts
    BY <1>12, <1>h, <1>s DEF WriteHost, At, HasRead, Facts
  <2> QED
    BY <1>12, <1>l, <1>h, <1>s, <1>g, <2>1 DEF WriteHost, HasRead, At
<1>13. CASE WritePort(t)
  <2>1. stored' \in Facts
    BY <1>13, <1>h, <1>s DEF WritePort, At, HasRead, Facts
  <2>2. PICK label \in {"drop", "write_password"} : Goto(t, label, l)
    BY <1>13 DEF WritePort
  <2>3. (pc'[t] = label /\ local'[t] = l) => HasRead(t)'
    BY <1>13, <1>h DEF WritePort, HasRead, At
  <2> QED
    BY <1>13, <1>l, <1>s, <1>g, <2>1, <2>2, <2>3 DEF WritePort
<1>14. CASE WritePassword(t)
  <2>1. stored' \in Facts
    BY <1>14, <1>l, <1>s DEF WritePassword, Draft, Facts
  <2> QED
    BY <1>14, <1>l, <1>h, <1>s, <1>g, <2>1 DEF WritePassword, HasRead, At
<1>15. CASE Drop(t)
  <2>1. vouched' \in Trust /\ cached' \in Facts \cup {None}
    BY <1>15, <1>l, <1>s DEF Drop, Local
  <2> QED
    BY <1>15, <1>s, <1>e, <2>1 DEF Drop
<1> QED
  BY <1>1, <1>2, <1>3, <1>4, <1>5, <1>6, <1>7, <1>8, <1>9, <1>10, <1>11, <1>12, <1>13,
     <1>14, <1>15 DEF Continue

LEMMA OthersTyped ==
  ASSUME TInv, Crash \/ (\E change \in late : CarryOutLate(change)) \/ UNCHANGED vars
  PROVE  TInv'
<1>1. CASE Crash
  <2>1. /\ pc' = [t \in Threads |-> "idle"] /\ local' = [t \in Threads |-> Rest]
        /\ cached' = None /\ vouched' \in Trust /\ UNCHANGED <<stored, adminPw, late>>
    BY <1>1 DEF Crash, TInv, TypeOK, Trust
  <2>2. spent' \in [Kinds -> Nat]
    BY <1>1, SpendTyped DEF Crash, TInv, TypeOK, Kinds
  <2>3. \A t \in Threads : HasRead(t)'
    <3>1. Rest.job = "none"
      BY DEF Rest
    <3> QED
      BY <2>1, <3>1 DEF HasRead, Saving
  <2> QED
    BY <2>1, <2>2, <2>3, RestTyped DEF TInv, TypeOK, Labels
<1>2. ASSUME NEW change \in late, CarryOutLate(change)
      PROVE  TInv'
  <2>1. change \in Servers \X Passwords /\ late' \subseteq late
    BY <1>2 DEF TInv, TypeOK, CarryOutLate
  <2>2. adminPw' \in [Servers -> Passwords]
    BY <1>2, <2>1 DEF TInv, TypeOK, CarryOutLate
  <2> QED
    BY <1>2, <2>1, <2>2 DEF TInv, TypeOK, HasRead, CarryOutLate, threads
<1>3. CASE UNCHANGED vars
  BY <1>3 DEF TInv, TypeOK, HasRead, vars, threads
<1> QED
  BY <1>1, <1>2, <1>3

LEMMA TypeStep ==
  ASSUME TInv, [Next]_vars
  PROVE  TInv'
BY RequestTyped, ContinueTyped, OthersTyped DEF Next

\* The settings, the shared client and every thread stay well typed whatever
\* overlaps: in particular no half-read client is ever shared, and a change of
\* the administrator password stores an address with it.
THEOREM TypeCorrect == Spec => []TypeOK
<1>1. Spec => []TInv
  BY TypeInit, TypeStep, PTL DEF Spec
<1>2. TInv => TypeOK
  BY DEF TInv
<1> QED
  BY <1>1, <1>2, PTL

-----------------------------------------------------------------------------
(* Requests that do not overlap: what the one that runs holds agrees with  *)
(* what is stored                                                          *)

Written  == {"write_port", "write_password", "drop"}
Changing == {"keep_host", "keep_port"} \cup Saving

Solo == \A t, u \in Threads : t = u \/ At(t, "idle") \/ At(u, "idle")

\* The facts a call goes by are the stored ones.
Reads(t) ==
  /\ pc[t] \in Called => local[t].job \in {"call", "admin"}
  /\ pc[t] \in {"read_port", "read_configured", "read_password", "install"}
       => local[t].mine.host = stored.host
  /\ pc[t] \in {"read_configured", "read_password", "install"}
       => local[t].mine.port = stored.port
  /\ At(t, "install") => local[t].mine.password = stored.password
  /\ At(t, "use") => local[t].mine = stored

\* What a save has written so far is what it means to store.
Saves(t) ==
  /\ pc[t] \in Saving => local[t].job \in {"admin", "put", "cli"}
  /\ pc[t] \in {"own_password", "test"} => local[t].job = "put"
  /\ pc[t] \in {"keep_host", "keep_port"} => local[t].job = "admin"
  /\ local[t].job = "admin" => ~local[t].keep
  /\ local[t].job = "cli" => cached = None
  /\ pc[t] \in {"test"} \cup Saving /\ local[t].keep
       => local[t].new.password = stored.password
  /\ pc[t] \in {"keep_port"} \cup Written => local[t].new.host = stored.host
  /\ pc[t] \in {"write_password", "drop"} => local[t].new.port = stored.port
  /\ At(t, "drop") => local[t].new.password = stored.password

\* The server accepts the password at the address, and nothing it holds will
\* change that.
Settled(address, password) ==
  address \in Servers /\ adminPw[address] = password /\ Calm(address, password)

\* What the server has answered to is still so.
IsSure(t) ==
  local[t].sure = "settled" =>
    /\ pc[t] \in Changing
    /\ pc[t] \in {"keep_host", "keep_port"} => Settled(Address(stored), local[t].new.password)
    /\ pc[t] \in Saving => Settled(Address(local[t].new), local[t].new.password)

Knows(t) == /\ At(t, "idle") => local[t] = Rest
            /\ Reads(t) /\ Saves(t) /\ IsSure(t)

CacheInv == (\A t \in Threads : pc[t] \notin Written) => cached \in {None, stored}
\* The stored facts, so.
Holds == Settled(Address(stored), stored.password)

VouchInv == vouched = "settled" /\ (\A t \in Threads : pc[t] \notin Changing) => Holds

SInv == TInv /\ Solo /\ (\A t \in Threads : Knows(t)) /\ CacheInv /\ VouchInv

LEMMA IdleKnows ==
  ASSUME NEW t \in Threads, At(t, "idle"), local[t] = Rest
  PROVE  Knows(t)
BY DEF Knows, Reads, Saves, IsSure, At, Called, Saving, Written, Rest

\* A step of the only thread that runs.
LEMMA SerialStep ==
  ASSUME SInv, NEW t \in Threads, NEW label \in Labels, NEW m, Goto(t, label, m), TInv',
         \A u \in Threads : u # t => At(u, "idle"),
         Knows(t)',
         label \notin Written => cached' \in {None, stored'},
         vouched' = "settled" /\ label \notin Changing => Holds'
  PROVE  SInv'
<1>1. pc'[t] = label /\ local'[t] = m
  BY DEF Goto, SInv, TInv, TypeOK
<1>2. \A u \in Threads : u # t => At(u, "idle")' /\ local'[u] = Rest
  BY DEF Goto, SInv, TInv, TypeOK, At, Knows
<1>3. Solo'
  BY <1>2 DEF Solo
<1>4. \A u \in Threads : Knows(u)'
  <2> SUFFICES ASSUME NEW u \in Threads, u # t PROVE Knows(u)'
    OBVIOUS
  <2>1. pc'[u] = "idle" /\ local'[u] = Rest
    BY <1>2 DEF At
  <2>2. Rest.job = "none" /\ Rest.sure = "no"
    BY DEF Rest
  <2>3. Reads(u)'
    BY <2>1 DEF Reads, At, Called
  <2>4. Saves(u)'
    BY <2>1, <2>2 DEF Saves, At, Saving, Written
  <2>5. IsSure(u)'
    BY <2>1, <2>2 DEF IsSure
  <2> QED
    BY <2>1, <2>3, <2>4, <2>5 DEF Knows
<1>5. CacheInv' /\ VouchInv'
  BY <1>1 DEF CacheInv, VouchInv
<1> QED
  BY <1>3, <1>4, <1>5 DEF SInv

LEMMA SerialInit == Init => SInv
<1> SUFFICES ASSUME Init PROVE SInv
  OBVIOUS
<1>1. TInv
  BY TypeInit
<1>2. \A t \in Threads : At(t, "idle") /\ local[t] = Rest
  BY DEF Init, At
<1>3. (\A t \in Threads : Knows(t)) /\ Solo
  BY <1>2, IdleKnows DEF Solo
<1>4. CacheInv /\ VouchInv
  BY DEF CacheInv, VouchInv, Init
<1> QED
  BY <1>1, <1>3, <1>4 DEF SInv

\* A request that begins when no other runs.
LEMMA StartSerial ==
  ASSUME SInv, NEW t \in Threads, NEW k, NEW label \in Labels, NEW l,
         (\A u \in Threads : At(u, "idle")), Start(t, k, label, l), TInv',
         label \in {"idle", "get", "own_password", "test", "write_host"},
         label = "idle" => l = Rest,
         label = "get" => l.job \in {"call", "admin"},
         label \in {"own_password", "test"} => l.job = "put",
         label = "write_host" => l.job \in {"put", "cli"},
         l.sure = "no", l.job = "admin" => ~l.keep, l.job = "cli" => cached = None,
         label \in {"test", "write_host"} => ~l.keep
  PROVE  SInv'
<1>1. Goto(t, label, l) /\ UNCHANGED <<stored, cached, adminPw, late, vouched>>
  BY DEF Start
<1>2. pc'[t] = label /\ local'[t] = l
  BY <1>1 DEF Goto, SInv, TInv, TypeOK
<1>3. Knows(t)'
  BY <1>1, <1>2 DEF Knows, Reads, Saves, IsSure, At, Called, Saving, Written
<1>4. \A u \in Threads : pc[u] \notin Changing /\ pc[u] \notin Written
  BY DEF At, Changing, Saving, Written
<1>5. cached \in {None, stored} /\ (vouched = "settled" => Holds)
  BY <1>4 DEF SInv, CacheInv, VouchInv
<1> QED
  BY <1>1, <1>3, <1>5, SerialStep DEF Holds, Settled, Calm, Address

LEMMA RequestSerial ==
  ASSUME SInv, MayOverlap = FALSE, NEW t \in Threads, Request(t)
  PROVE  SInv'
<1>t. TInv'
  BY RequestTyped DEF SInv
<1>r. Rest.sure = "no" /\ ~Rest.keep /\ Rest.job = "none"
  BY DEF Rest
<1>q. ASSUME NEW k, NEW label, NEW l, Start(t, k, label, l)
      PROVE  \A u \in Threads : At(u, "idle")
  BY <1>q DEF Start
<1> USE DEF Labels
<1>1. CASE Call(t)
  <2> DEFINE l == [Rest EXCEPT !.job = "call"]
  <2>1. l.job = "call" /\ l.sure = "no" /\ ~l.keep
    BY DEF Rest
  <2> HIDE DEF l
  <2>2. Start(t, "call", "get", l)
    BY <1>1 DEF Call, l
  <2> QED
    BY <1>t, <1>q, <2>1, <2>2, StartSerial
<1>2. ASSUME NEW password \in Passwords, SetAdminPassword(t, password)
      PROVE  SInv'
  <2> DEFINE l == [Rest EXCEPT !.job = "admin", !.new.password = password]
  <2>1. l.job = "admin" /\ l.sure = "no" /\ ~l.keep
    BY DEF Rest
  <2> HIDE DEF l
  <2>2. Start(t, "change", "get", l)
    BY <1>2 DEF SetAdminPassword, l
  <2> QED
    BY <1>t, <1>q, <2>1, <2>2, StartSerial
<1>3. ASSUME NEW address \in Hosts \X Ports, NEW password \in Passwords \cup {None},
             NEW keep \in BOOLEAN, NEW tested \in BOOLEAN,
             Put(t, address, password, keep, tested)
      PROVE  SInv'
  <2> DEFINE label == PutLabel(keep, tested, password)
             new == [host |-> address[1], port |-> address[2], password |-> password]
             l == [Rest EXCEPT !.job = "put", !.keep = keep, !.tested = tested, !.new = new]
  <2>1. label \in {"idle", "own_password", "test", "write_host"}
        /\ (label \in {"test", "write_host"} => ~keep)
    BY DEF PutLabel
  <2>2. l.job = "put" /\ l.sure = "no" /\ l.keep = keep
    BY DEF Rest
  <2>3. CASE label = "idle"
    <3>1. Start(t, "change", "idle", Rest)
      BY <1>3, <2>3 DEF Put
    <3> QED
      BY <1>t, <1>r, <1>q, <3>1, StartSerial
  <2>4. CASE label # "idle"
    <3> HIDE DEF l, new, label
    <3>1. Start(t, "change", label, l)
      BY <1>3, <2>4 DEF Put, l, new, label
    <3> QED
      BY <1>t, <1>q, <2>1, <2>2, <2>4, <3>1, StartSerial
  <2> QED
    BY <2>3, <2>4
<1>4. ASSUME NEW address \in Hosts \X Ports, NEW password \in Passwords,
             CliConnect(t, address, password)
      PROVE  SInv'
  <2> DEFINE new == [host |-> address[1], port |-> address[2], password |-> password]
             l == [Rest EXCEPT !.job = "cli", !.new = new]
  <2>1. l.job = "cli" /\ l.sure = "no" /\ ~l.keep
    BY DEF Rest
  <2> HIDE DEF l, new
  <2>2. Start(t, "change", "write_host", l) /\ cached = None
    BY <1>4 DEF CliConnect, l, new
  <2> QED
    BY <1>t, <1>q, <2>1, <2>2, StartSerial
<1> QED
  <2>1. \A address \in Hosts \X Ports, tested \in BOOLEAN :
          Put(t, address, None, TRUE, tested) => SInv'
    BY <1>3
  <2> QED
    BY <1>1, <1>2, <1>3, <1>4, <2>1 DEF Request

\* A step of the request that runs, one case per action.
LEMMA ContinueSerial ==
  ASSUME SInv, NEW t \in Threads, Continue(t)
  PROVE  SInv'
<1> DEFINE l == local[t]
<1>t. TInv'
  BY ContinueTyped DEF SInv
<1>l. l \in Local /\ l.mine \in Draft /\ l.new \in Draft
  BY DEF SInv, TInv, TypeOK, Local
<1>s. stored \in Facts /\ cached \in Facts \cup {None} /\ adminPw \in [Servers -> Passwords]
  BY DEF SInv, TInv, TypeOK
<1>k. Reads(t) /\ Saves(t) /\ IsSure(t)
  BY DEF SInv, Knows
<1>b. pc[t] # "idle"
  BY DEF Continue, Get, ReadHost, ReadPort, ReadConfigured, ReadPassword, Install, Use,
         KeepHost, KeepPort, OwnPassword, Test, WriteHost, WritePort, WritePassword, Drop, At
<1>o. \A u \in Threads : u # t => At(u, "idle")
  BY <1>b DEF SInv, Solo, At
<1>c. pc[t] \notin Written => cached \in {None, stored}
  BY <1>o DEF SInv, CacheInv, At, Written
<1>v. vouched = "settled" /\ pc[t] \notin Changing => Holds
  BY <1>o DEF SInv, VouchInv, At, Changing, Saving
<1> USE DEF Labels
\* Whatever a step leaves its thread with, the rest follows.
<1>g. ASSUME NEW label \in Labels \ {"idle"}, NEW m, Goto(t, label, m),
             (pc'[t] = label /\ local'[t] = m) => Reads(t)' /\ Saves(t)' /\ IsSure(t)',
             label \notin Written => cached' \in {None, stored'},
             vouched' = "settled" /\ label \notin Changing => Holds'
      PROVE  SInv'
  <2>1. pc'[t] = label /\ local'[t] = m
    BY <1>g DEF Goto, SInv, TInv, TypeOK
  <2>2. Knows(t)'
    BY <1>g, <2>1 DEF Knows, At
  <2> QED
    BY <1>g, <1>t, <1>o, <2>2, SerialStep
<1>e. ASSUME Finish(t), cached' \in {None, stored'},
             vouched' = "settled" => Holds'
      PROVE  SInv'
  <2>1. Goto(t, "idle", Rest)
    BY <1>e DEF Finish
  <2>2. At(t, "idle")' /\ local'[t] = Rest
    BY <2>1 DEF Goto, At, SInv, TInv, TypeOK
  <2>3. Knows(t)'
    <3>1. Rest.job = "none" /\ Rest.sure = "no"
      BY DEF Rest
    <3>2. Reads(t)' /\ Saves(t)' /\ IsSure(t)'
      BY <2>2, <3>1 DEF Reads, Saves, IsSure, At, Called, Saving, Written
    <3> QED
      BY <2>2, <3>2 DEF Knows
  <2> QED
    BY <1>e, <1>t, <1>o, <2>1, <2>3, SerialStep
<1> USE DEF Changing, Written, Saving, Called
<1>n. pc[t] \notin Changing => l.sure # "settled"
  BY <1>k DEF IsSure
<1>1. CASE Get(t)
  <2>1. pc[t] = "get" /\ UNCHANGED <<stored, cached, adminPw, late, spent, vouched>>
    BY <1>1 DEF Get, At
  <2>2. CASE cached = None
    BY <1>1, <1>k, <1>n, <1>c, <1>v, <1>g, <2>1, <2>2
       DEF Get, Reads, Saves, IsSure, At, Holds, Settled, Calm, Address
  <2>3. CASE cached # None
    <3> DEFINE m == [l EXCEPT !.mine = cached, !.used = TRUE]
    <3>1. /\ m.job = l.job /\ m.sure = l.sure /\ m.keep = l.keep /\ m.mine = stored
      BY <1>l, <1>c, <2>1, <2>3 DEF Local
    <3> HIDE DEF m
    <3>2. Goto(t, "use", m)
      BY <1>1, <2>3 DEF Get, m
    <3>3. (pc'[t] = "use" /\ local'[t] = m) => Reads(t)' /\ Saves(t)' /\ IsSure(t)'
      BY <1>k, <1>n, <2>1, <3>1 DEF Reads, Saves, IsSure, At
    <3> QED
      BY <1>c, <1>v, <1>g, <2>1, <3>2, <3>3 DEF Holds, Settled, Calm, Address
  <2> QED
    BY <2>2, <2>3
<1>2. CASE ReadHost(t)
  <2> DEFINE m == [l EXCEPT !.mine.host = stored.host]
  <2>1. pc[t] = "read_host" /\ UNCHANGED <<stored, cached, adminPw, late, spent, vouched>>
    BY <1>2 DEF ReadHost, At
  <2>2. m.job = l.job /\ m.sure = l.sure /\ m.keep = l.keep /\ m.mine.host = stored.host
    BY <1>l DEF Local, Draft
  <2> HIDE DEF m
  <2>3. Goto(t, "read_port", m)
    BY <1>2 DEF ReadHost, m
  <2>4. (pc'[t] = "read_port" /\ local'[t] = m) => Reads(t)' /\ Saves(t)' /\ IsSure(t)'
    BY <1>k, <1>n, <2>1, <2>2 DEF Reads, Saves, IsSure, At
  <2> QED
    BY <1>c, <1>v, <1>g, <2>1, <2>3, <2>4 DEF Holds, Settled, Calm, Address
<1>3. CASE ReadPort(t)
  <2> DEFINE m == [l EXCEPT !.mine.port = stored.port]
  <2>1. pc[t] = "read_port" /\ UNCHANGED <<stored, cached, adminPw, late, spent, vouched>>
    BY <1>3 DEF ReadPort, At
  <2>2. /\ m.job = l.job /\ m.sure = l.sure /\ m.keep = l.keep
        /\ m.mine.host = l.mine.host /\ m.mine.port = stored.port
    BY <1>l DEF Local, Draft
  <2> HIDE DEF m
  <2>3. Goto(t, "read_configured", m)
    BY <1>3 DEF ReadPort, m
  <2>4. (pc'[t] = "read_configured" /\ local'[t] = m)
          => Reads(t)' /\ Saves(t)' /\ IsSure(t)'
    BY <1>k, <1>n, <2>1, <2>2 DEF Reads, Saves, IsSure, At
  <2> QED
    BY <1>c, <1>v, <1>g, <2>1, <2>3, <2>4 DEF Holds, Settled, Calm, Address
<1>4. CASE ReadConfigured(t)
  <2>1. pc[t] = "read_configured" /\ UNCHANGED <<stored, cached, adminPw, late, spent, vouched>>
    BY <1>4 DEF ReadConfigured, At
  <2>2. CASE Finish(t)
    BY <1>c, <1>v, <1>e, <2>1, <2>2 DEF Holds, Settled, Calm, Address
  <2>3. CASE Goto(t, "read_password", l)
    <3>1. (pc'[t] = "read_password" /\ local'[t] = l)
            => Reads(t)' /\ Saves(t)' /\ IsSure(t)'
      BY <1>k, <1>n, <2>1 DEF Reads, Saves, IsSure, At
    <3> QED
      BY <1>c, <1>v, <1>g, <2>1, <2>3, <3>1 DEF Holds, Settled, Calm, Address
  <2> QED
    BY <1>4, <2>2, <2>3 DEF ReadConfigured
<1>5. CASE ReadPassword(t)
  <2> DEFINE m == [l EXCEPT !.mine.password = stored.password]
  <2>1. pc[t] = "read_password" /\ UNCHANGED <<stored, cached, adminPw, late, spent, vouched>>
    BY <1>5 DEF ReadPassword, At
  <2>2. /\ m.job = l.job /\ m.sure = l.sure /\ m.keep = l.keep
        /\ m.mine.host = l.mine.host /\ m.mine.port = l.mine.port
        /\ m.mine.password = stored.password
    BY <1>l DEF Local, Draft
  <2> HIDE DEF m
  <2>3. Goto(t, "install", m)
    BY <1>5 DEF ReadPassword, m
  <2>4. (pc'[t] = "install" /\ local'[t] = m) => Reads(t)' /\ Saves(t)' /\ IsSure(t)'
    BY <1>k, <1>n, <2>1, <2>2 DEF Reads, Saves, IsSure, At
  <2> QED
    BY <1>c, <1>v, <1>g, <2>1, <2>3, <2>4 DEF Holds, Settled, Calm, Address
<1>6. CASE Install(t)
  <2>1. pc[t] = "install" /\ UNCHANGED <<stored, adminPw, late, spent, vouched>>
    BY <1>6 DEF Install, At
  <2>2. l.mine = stored
    BY <1>k, <1>l, <1>s, <2>1 DEF Reads, At, Draft, Facts
  <2>3. cached' = stored
    BY <1>6, <1>c, <2>1, <2>2 DEF Install
  <2> DEFINE m == [l EXCEPT !.mine = cached', !.used = (cached # None)]
  <2>4. m.job = l.job /\ m.sure = l.sure /\ m.keep = l.keep /\ m.mine = stored
    BY <1>l, <2>3 DEF Local
  <2> HIDE DEF m
  <2>5. Goto(t, "use", m)
    BY <1>6 DEF Install, m
  <2>6. (pc'[t] = "use" /\ local'[t] = m) => Reads(t)' /\ Saves(t)' /\ IsSure(t)'
    BY <1>k, <1>n, <2>1, <2>4 DEF Reads, Saves, IsSure, At
  <2> QED
    BY <1>v, <1>g, <2>1, <2>3, <2>5, <2>6 DEF Holds, Settled, Calm, Address
<1>7. CASE Use(t)
  <2>1. pc[t] = "use" /\ stored' = stored /\ cached' = cached /\ l.mine = stored
    BY <1>7, <1>k DEF Use, Reads, At
  <2>2. CASE Works(stored) /\ Answered(t)
    <3>1. CASE l.job = "admin"
      <4> DEFINE m == [l EXCEPT !.sure = Answer(Change(t)[1], Change(t)[2])]
      <4>0. Change(t)[1] = Address(stored) /\ Change(t)[2] = l.new.password
        BY <2>1 DEF Change
      <4>1. /\ m.job = "admin" /\ m.keep = l.keep /\ m.new = l.new
            /\ m.sure = Answer(Address(stored), l.new.password)
        BY <1>l, <3>1, <4>0 DEF Local
      <4> HIDE DEF m
      <4>2. Goto(t, "keep_host", m) /\ vouched' = vouched
        BY <2>2, <3>1 DEF Answered, m
      <4>3. Address(stored) \in Servers /\ adminPw'[Address(stored)] = l.new.password
        BY <1>s, <2>1, <2>2, <3>1, <4>0 DEF Answered, Works
      <4>4. (pc'[t] = "keep_host" /\ local'[t] = m) => Reads(t)' /\ Saves(t)'
        BY <1>k, <3>1, <4>1 DEF Reads, Saves, At
      <4>5. late' = late \/ late' = late \cup {Change(t)}
        BY <2>2, <3>1 DEF Answered
      <4>6. ASSUME Calm(Address(stored), l.new.password)
            PROVE  \A c \in late' : c[1] = Address(stored) => c[2] = l.new.password
        BY <4>0, <4>5, <4>6 DEF Calm
      <4>7. (pc'[t] = "keep_host" /\ local'[t] = m) => IsSure(t)'
        BY <2>1, <4>1, <4>3, <4>6 DEF IsSure, Settled, Address, Answer, Calm
      <4> QED
        BY <1>c, <1>v, <1>g, <2>1, <4>2, <4>4, <4>7
    <3>2. CASE l.job # "admin"
      BY <1>c, <1>v, <1>e, <2>1, <2>2, <3>2 DEF Answered, Holds, Settled, Calm, Address
    <3> QED
      BY <3>1, <3>2
  <2>3. CASE Lost(t)
    <3>1. Finish(t) /\ (vouched' = "settled" => vouched' = vouched /\ UNCHANGED <<adminPw, late>>)
      BY <2>3 DEF Lost
    <3> QED
      BY <1>c, <1>v, <1>e, <2>1, <3>1 DEF Holds, Settled, Calm, Address
  <2>4. CASE Finish(t) /\ UNCHANGED <<adminPw, late, spent, vouched>>
    BY <1>c, <1>v, <1>e, <2>1, <2>4 DEF Holds, Settled, Calm, Address
  <2> QED
    BY <1>7, <2>1, <2>2, <2>3, <2>4 DEF Use
<1>8. CASE KeepHost(t)
  <2> DEFINE m == [l EXCEPT !.new.host = stored.host]
  <2>1. pc[t] = "keep_host" /\ UNCHANGED <<stored, cached, adminPw, late, spent, vouched>>
    BY <1>8 DEF KeepHost, At
  <2>2. /\ m.job = l.job /\ m.sure = l.sure /\ m.keep = l.keep
        /\ m.new.host = stored.host /\ m.new.password = l.new.password
    BY <1>l DEF Local, Draft
  <2> HIDE DEF m
  <2>3. Goto(t, "keep_port", m)
    BY <1>8 DEF KeepHost, m
  <2>4. (pc'[t] = "keep_port" /\ local'[t] = m) => Reads(t)' /\ Saves(t)'
    BY <1>k, <2>1, <2>2 DEF Reads, Saves, At
  <2>5. (pc'[t] = "keep_port" /\ local'[t] = m) => IsSure(t)'
    BY <1>k, <2>1, <2>2 DEF IsSure, Settled, Calm, Address
  <2> QED
    BY <1>c, <1>v, <1>g, <2>1, <2>3, <2>4, <2>5
<1>9. CASE KeepPort(t)
  <2> DEFINE m == [l EXCEPT !.new.port = stored.port]
  <2>1. pc[t] = "keep_port" /\ UNCHANGED <<stored, cached, adminPw, late, spent, vouched>>
    BY <1>9 DEF KeepPort, At
  <2>2. /\ m.job = l.job /\ m.sure = l.sure /\ m.keep = l.keep
        /\ m.new.host = l.new.host /\ m.new.port = stored.port
        /\ m.new.password = l.new.password
    BY <1>l DEF Local, Draft
  <2>3. m.new.host = stored.host
    BY <1>k, <2>1, <2>2 DEF Saves
  <2> HIDE DEF m
  <2>4. Goto(t, "write_host", m)
    BY <1>9 DEF KeepPort, m
  <2>5. (pc'[t] = "write_host" /\ local'[t] = m) => Reads(t)' /\ Saves(t)'
    BY <1>k, <2>1, <2>2 DEF Reads, Saves, At
  <2>6. (pc'[t] = "write_host" /\ local'[t] = m) => IsSure(t)'
    BY <1>k, <2>1, <2>2, <2>3 DEF IsSure, Settled, Calm, Address
  <2> QED
    BY <1>c, <1>v, <1>g, <2>1, <2>4, <2>5, <2>6
<1>10. CASE OwnPassword(t)
  <2> DEFINE m == [l EXCEPT !.new.password = stored.password]
  <2>1. /\ pc[t] = "own_password"
        /\ UNCHANGED <<stored, cached, adminPw, late, spent, vouched>>
        /\ Finish(t) \/ Goto(t, "test", m) \/ Goto(t, "write_host", m)
    BY <1>10 DEF OwnPassword, At
  <2>2. /\ m.job = l.job /\ m.sure = l.sure /\ m.keep = l.keep
        /\ m.new.password = stored.password
    BY <1>l DEF Local, Draft
  <2> HIDE DEF m
  <2>3. CASE Finish(t)
    BY <1>c, <1>v, <1>e, <2>1, <2>3 DEF Holds, Settled, Calm, Address
  <2>4. ASSUME NEW label \in {"test", "write_host"}, Goto(t, label, m)
        PROVE  SInv'
    <3>1. (pc'[t] = label /\ local'[t] = m) => Reads(t)' /\ Saves(t)' /\ IsSure(t)'
      BY <1>k, <1>n, <2>1, <2>2 DEF Reads, Saves, IsSure, At
    <3> QED
      BY <1>c, <1>v, <1>g, <2>1, <2>4, <3>1 DEF Holds, Settled, Calm, Address
  <2> QED
    BY <2>1, <2>3, <2>4
<1>11. CASE Test(t)
  <2> DEFINE sure == Answer(Address(l.new), l.new.password)
             m == [l EXCEPT !.sure = sure]
  <2>1. /\ pc[t] = "test" /\ stored' = stored /\ cached' = cached /\ adminPw' = adminPw
        /\ late' = late /\ vouched' = vouched
        /\ (Works(l.new) /\ Goto(t, "write_host", m)) \/ Finish(t)
    BY <1>11 DEF Test, At
  <2>2. m.job = l.job /\ m.keep = l.keep /\ m.new = l.new /\ m.sure = sure
    BY <1>l DEF Local
  <2> HIDE DEF m
  <2>3. CASE Finish(t)
    BY <1>c, <1>v, <1>e, <2>1, <2>3 DEF Holds, Settled, Calm, Address
  <2>4. CASE Works(l.new) /\ Goto(t, "write_host", m)
    <3>1. (pc'[t] = "write_host" /\ local'[t] = m) => Reads(t)' /\ Saves(t)'
      BY <1>k, <2>1, <2>2 DEF Reads, Saves, At
    <3>2. (pc'[t] = "write_host" /\ local'[t] = m) => IsSure(t)'
      BY <2>1, <2>2, <2>4 DEF IsSure, Works, Settled, Answer, Calm, Address
    <3> QED
      BY <1>c, <1>v, <1>g, <2>1, <2>4, <3>1, <3>2
  <2> QED
    BY <2>1, <2>3, <2>4
<1>12. CASE WriteHost(t)
  <2>1. /\ pc[t] = "write_host" /\ UNCHANGED <<cached, adminPw, late, spent, vouched>>
        /\ Goto(t, "write_port", l) /\ stored' = [stored EXCEPT !.host = l.new.host]
    BY <1>12 DEF WriteHost, At
  <2>2. stored'.host = l.new.host /\ stored'.password = stored.password
    BY <1>s, <2>1 DEF Facts
  <2>3. (pc'[t] = "write_port" /\ local'[t] = l) => Reads(t)' /\ Saves(t)'
    BY <1>k, <2>1, <2>2 DEF Reads, Saves, At
  <2>4. (pc'[t] = "write_port" /\ local'[t] = l) => IsSure(t)'
    BY <1>k, <2>1 DEF IsSure, Settled, Calm, Address
  <2> QED
    BY <1>v, <1>g, <2>1, <2>3, <2>4
<1>13. CASE WritePort(t)
  <2>1. /\ pc[t] = "write_port" /\ UNCHANGED <<cached, adminPw, late, spent, vouched>>
        /\ Goto(t, IF l.keep THEN "drop" ELSE "write_password", l)
        /\ stored' = [stored EXCEPT !.port = l.new.port]
    BY <1>13 DEF WritePort, At
  <2>2. /\ stored'.host = stored.host /\ stored'.port = l.new.port
        /\ stored'.password = stored.password
    BY <1>s, <2>1 DEF Facts
  <2> DEFINE label == IF l.keep THEN "drop" ELSE "write_password"
  <2>3. (pc'[t] = label /\ local'[t] = l) => Reads(t)' /\ Saves(t)'
    BY <1>k, <2>1, <2>2 DEF Reads, Saves, At
  <2>4. (pc'[t] = label /\ local'[t] = l) => IsSure(t)'
    BY <1>k, <2>1 DEF IsSure, Settled, Calm, Address
  <2> QED
    BY <1>v, <1>g, <2>1, <2>3, <2>4
<1>14. CASE WritePassword(t)
  <2>1. /\ pc[t] = "write_password" /\ UNCHANGED <<cached, adminPw, late, spent, vouched>>
        /\ Goto(t, "drop", l) /\ stored' = [stored EXCEPT !.password = l.new.password]
    BY <1>14 DEF WritePassword, At
  <2>2. /\ stored'.host = stored.host /\ stored'.port = stored.port
        /\ stored'.password = l.new.password
    BY <1>s, <2>1 DEF Facts
  <2>3. (pc'[t] = "drop" /\ local'[t] = l) => Reads(t)' /\ Saves(t)'
    BY <1>k, <2>1, <2>2 DEF Reads, Saves, At
  <2>4. (pc'[t] = "drop" /\ local'[t] = l) => IsSure(t)'
    BY <1>k, <2>1 DEF IsSure, Settled, Calm, Address
  <2> QED
    BY <1>v, <1>g, <2>1, <2>3, <2>4
<1>15. CASE Drop(t)
  <2>1. /\ pc[t] = "drop" /\ UNCHANGED <<stored, adminPw, late, spent>>
        /\ Finish(t) /\ vouched' = l.sure
        /\ cached' = IF l.job = "cli" THEN cached ELSE None
    BY <1>15 DEF Drop, At
  <2>2. cached' = None
    BY <1>k, <2>1 DEF Saves
  <2>3. l.sure = "settled" => Holds
    BY <1>k, <2>1 DEF IsSure, Saves, At, Holds, Address
  <2> QED
    BY <1>e, <2>1, <2>2, <2>3 DEF Holds, Settled, Calm, Address
<1> QED
  BY <1>1, <1>2, <1>3, <1>4, <1>5, <1>6, <1>7, <1>8, <1>9, <1>10, <1>11, <1>12, <1>13,
     <1>14, <1>15 DEF Continue

LEMMA OthersSerial ==
  ASSUME SInv, Crash \/ (\E change \in late : CarryOutLate(change)) \/ UNCHANGED vars
  PROVE  SInv'
<1>t. TInv'
  BY OthersTyped DEF SInv
<1>1. CASE Crash
  <2>1. /\ pc' = [t \in Threads |-> "idle"] /\ local' = [t \in Threads |-> Rest]
        /\ cached' = None /\ stored' = stored /\ adminPw' = adminPw /\ late' = late
        /\ vouched' = IF \A t \in Threads : local[t].job \in {"none", "call"}
                      THEN vouched ELSE "no"
    BY <1>1 DEF Crash
  <2>2. \A t \in Threads : Knows(t)'
    <3>1. Rest.job = "none" /\ Rest.sure = "no"
      BY DEF Rest
    <3> TAKE t \in Threads
    <3>2. pc'[t] = "idle" /\ local'[t] = Rest
      BY <2>1
    <3>3. Reads(t)' /\ Saves(t)' /\ IsSure(t)'
      BY <3>1, <3>2 DEF Reads, Saves, IsSure, At, Called, Saving, Written
    <3> QED
      BY <3>2, <3>3 DEF Knows
  <2>3. Solo' /\ CacheInv'
    BY <2>1 DEF Solo, CacheInv, At
  <2>4. ASSUME vouched' = "settled" PROVE Holds'
    <3>1. vouched = "settled" /\ \A t \in Threads : local[t].job \in {"none", "call"}
      BY <2>1, <2>4
    <3>2. \A t \in Threads : pc[t] \notin Changing
      BY <3>1 DEF SInv, Knows, Saves, Changing, Saving
    <3> QED
      BY <2>1, <3>1, <3>2 DEF SInv, VouchInv, Holds, Settled, Calm, Address
  <2> QED
    BY <1>t, <2>2, <2>3, <2>4 DEF SInv, VouchInv
<1>2. ASSUME NEW change \in late, CarryOutLate(change)
      PROVE  SInv'
  <2>1. stored' = stored /\ cached' = cached /\ pc' = pc /\ local' = local
        /\ vouched' = vouched
    BY <1>2 DEF CarryOutLate, threads
  <2>2. ASSUME NEW address, NEW password, Settled(address, password)
        PROVE  /\ address \in Servers /\ adminPw'[address] = password
               /\ \A c \in late' : c[1] = address => c[2] = password
    <3>1. change \in Servers \X Passwords /\ late' \subseteq late
      BY <1>2 DEF SInv, TInv, TypeOK, CarryOutLate
    <3>2. adminPw' = [adminPw EXCEPT ![change[1]] = change[2]] /\ change \in late
      BY <1>2 DEF CarryOutLate
    <3> QED
      BY <2>2, <3>1, <3>2 DEF Settled, Calm, SInv, TInv, TypeOK
  <2>3. \A t \in Threads : Knows(t)'
    <3> TAKE t \in Threads
    <3>1. Reads(t) /\ Saves(t) /\ IsSure(t)
      BY DEF SInv, Knows
    <3>2. Reads(t)' /\ Saves(t)'
      BY <2>1, <3>1 DEF Reads, Saves, At
    <3>3. IsSure(t)'
      BY <2>1, <2>2, <3>1 DEF IsSure, Settled, Calm, Address
    <3> QED
      BY <2>1, <3>2, <3>3 DEF SInv, Knows, At
  <2>4. VouchInv'
    BY <2>1, <2>2 DEF SInv, VouchInv, Holds, Settled, Calm, Address
  <2> QED
    BY <1>t, <2>1, <2>3, <2>4 DEF SInv, Solo, CacheInv, At
<1>3. CASE UNCHANGED vars
  <2>1. /\ stored' = stored /\ cached' = cached /\ adminPw' = adminPw /\ late' = late
        /\ pc' = pc /\ local' = local /\ vouched' = vouched
    BY <1>3 DEF vars, threads
  <2>2. \A t \in Threads : Knows(t)'
    BY <2>1 DEF SInv, Knows, Reads, Saves, IsSure, At, Settled, Calm, Address
  <2> QED
    BY <1>t, <2>1, <2>2 DEF SInv, Solo, CacheInv, VouchInv, At, Holds, Settled, Calm, Address
<1> QED
  BY <1>1, <1>2, <1>3

LEMMA SerialStepAny ==
  ASSUME SInv, MayOverlap = FALSE, [Next]_vars
  PROVE  SInv'
BY RequestSerial, ContinueSerial, OthersSerial DEF Next

LEMMA SerialInvariance ==
  ASSUME MayOverlap = FALSE
  PROVE  Spec => []SInv
<1>1. SInv /\ [Next]_vars => SInv'
  BY SerialStepAny
<1> QED
  BY <1>1, SerialInit, PTL DEF Spec

\* When requests do not overlap, the client every call shares is one of the
\* stored facts between them: drop_client is called after every change of the
\* facts, and get_client builds from all three.
THEOREM SerialCacheFollows ==
  ASSUME MayOverlap = FALSE
  PROVE  Spec => []CacheFollowsStore
<1>1. SInv => CacheFollowsStore
  BY DEF SInv, CacheInv, CacheFollowsStore, Quiet, At, Written
<1> QED
  BY <1>1, SerialInvariance, PTL

\* When requests do not overlap, a save that was tested, or that follows a
\* change of the administrator password, leaves facts the server accepts, unless
\* the server holds a change to another password when it answers.
THEOREM SerialStoredWorks ==
  ASSUME MayOverlap = FALSE
  PROVE  Spec => []StoredWorks
<1>1. SInv => StoredWorks
  BY DEF SInv, VouchInv, StoredWorks, Quiet, At, Changing, Saving, Holds, Settled, Works
<1> QED
  BY <1>1, SerialInvariance, PTL
=============================================================================
