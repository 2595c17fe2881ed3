----------------------------- MODULE ServerProofs -----------------------------
(***************************************************************************)
(* The parts around the VPN server, for any sessions, ages, requests,      *)
(* clerks and hashes: the session history agrees with the passes that      *)
(* wrote it, the files that are handed out sign in, the audit trail keeps  *)
(* up with the changes, and an edit of one field leaves the others alone.  *)
(***************************************************************************)
EXTENDS MCServer, WellFoundedInduction, TLAPS

(************************* the session history ***************************)

Scans == [at : {"idle", "ask", "close"}, live : SUBSET Keys, open : SUBSET Keys,
          asked : SUBSET (Keys \cup {"done"}), wants : BOOLEAN,
          read : [Keys -> 0 .. MaxMoved]]

-----------------------------------------------------------------------------
(* Types *)

TInv ==
  /\ session \in [Keys -> {"new", "live", "gone"}]
  /\ moved \in [Keys -> 0 .. MaxMoved] /\ download \in [Keys -> 0 .. MaxMoved]
  /\ monitor \in [sessions : BOOLEAN, series : BOOLEAN]
  /\ rows \in [Keys -> {"none", "open", "ended"}]
  /\ unseen \in [Keys -> 0 .. Oldest]
  /\ scan \in Scans
  /\ series \in [Keys -> Seq(0 .. MaxMoved)]
  /\ \A k \in Keys : /\ Len(series[k]) <= MaxPoints
                     /\ scan.at = "ask" => Len(series[k]) < MaxPoints
                     /\ rows[k] = "none" => series[k] = <<>>

LEMMA TypesHold == TInv => SessionsTypeOK
BY DEF TInv, SessionsTypeOK

LEMMA OldestTyped == Oldest \in Nat \ {0}
BY SessionAssumption DEF Oldest

LEMMA IdleTyped == Idle \in Scans
BY SessionAssumption DEF Idle, Scans

LEMMA TypeInit == SessionsInit => TInv
<1> SUFFICES ASSUME SessionsInit PROVE TInv
  OBVIOUS
<1> USE SessionAssumption, OldestTyped, IdleTyped DEF SessionsInit
<1>1. series \in [Keys -> Seq(0 .. MaxMoved)] /\ \A k \in Keys : series[k] = <<>>
  OBVIOUS
<1>2. \A k \in Keys : Len(series[k]) <= MaxPoints /\ scan.at # "ask"
  BY <1>1 DEF Idle
<1>3. /\ session \in [Keys -> {"new", "live", "gone"}]
      /\ moved \in [Keys -> 0 .. MaxMoved] /\ download \in [Keys -> 0 .. MaxMoved]
      /\ rows \in [Keys -> {"none", "open", "ended"}]
      /\ unseen \in [Keys -> 0 .. Oldest]
  OBVIOUS
<1>4. monitor \in [sessions : BOOLEAN, series : BOOLEAN]
  OBVIOUS
<1> QED
  BY <1>1, <1>2, <1>3, <1>4 DEF TInv

\* The server's side and the settings: no row is touched.
World == \/ \E k \in Keys : Connect(k) \/ Move(k) \/ Disconnect(k)
         \/ DropHub \/ SwitchMonitor

LEMMA WorldTyped == TInv /\ World => TInv'
<1> SUFFICES ASSUME TInv, World PROVE TInv'
  OBVIOUS
<1>1. UNCHANGED <<rows, unseen, download, series, scan>>
  BY DEF World, Connect, Move, Disconnect, DropHub, SwitchMonitor, rowVars
<1>2. session' \in [Keys -> {"new", "live", "gone"}]
  BY DEF World, Connect, Move, Disconnect, DropHub, SwitchMonitor, TInv
<1>3. moved' \in [Keys -> 0 .. MaxMoved]
  <2>1. \/ UNCHANGED moved
        \/ \E k \in Keys : moved[k] < MaxMoved /\ moved' = [moved EXCEPT ![k] = @ + 1]
    BY DEF World, Connect, Move, Disconnect, DropHub, SwitchMonitor
  <2>2. ASSUME NEW k \in Keys, moved[k] < MaxMoved, moved' = [moved EXCEPT ![k] = @ + 1]
        PROVE  moved' \in [Keys -> 0 .. MaxMoved]
    <3>1. moved \in [Keys -> 0 .. MaxMoved] /\ moved[k] + 1 \in 0 .. MaxMoved
      BY <2>2, SessionAssumption DEF TInv
    <3> QED
      BY <2>2, <3>1
  <2> QED
    BY <2>1, <2>2 DEF TInv
<1>4. monitor' \in [sessions : BOOLEAN, series : BOOLEAN]
  BY DEF World, Connect, Move, Disconnect, DropHub, SwitchMonitor, TInv
<1> QED
  BY <1>1, <1>2, <1>3, <1>4 DEF TInv

LEMMA PassTyped == TInv /\ (ScanBegin \/ ScanRest \/ ScanBreaks) => TInv'
<1> SUFFICES ASSUME TInv, ScanBegin \/ ScanRest \/ ScanBreaks PROVE TInv'
  OBVIOUS
<1>1. CASE ScanBegin
  <2>1. scan' \in Scans
    <3>1. Live \in SUBSET Keys /\ Open \in SUBSET Keys /\ monitor.series \in BOOLEAN
      BY DEF Live, Open, TInv
    <3> QED
      BY <1>1, <3>1, IdleTyped DEF ScanBegin, Scans
  <2> QED
    BY <1>1, <2>1 DEF ScanBegin, rowVars, TInv
<1>2. ASSUME NEW k \in Keys, NEW n \in 0 .. MaxMoved, ScanOne(k, n) PROVE TInv'
  <2>1. /\ scan.at = "ask" /\ scan'.at = "ask"
        /\ scan' = [scan EXCEPT !.asked = @ \cup {k}, !.read[k] = n]
        /\ UNCHANGED <<session, moved, monitor, series>>
    BY <1>2 DEF ScanOne, TInv, Scans
  <2>2. scan' \in Scans
    BY <2>1 DEF TInv, Scans
  <2>3. /\ rows' = rows \/ rows' = [rows EXCEPT ![k] = "open"]
        /\ unseen' = unseen \/ unseen' = [unseen EXCEPT ![k] = 0]
        /\ download' = download \/ download' = [download EXCEPT ![k] = n]
    BY <1>2 DEF ScanOne
  <2>4. rows' \in [Keys -> {"none", "open", "ended"}]
        /\ \A j \in Keys : rows'[j] = "none" => rows[j] = "none"
    BY <2>3 DEF TInv
  <2>5. unseen' \in [Keys -> 0 .. Oldest]
    <3>1. 0 \in 0 .. Oldest /\ unseen \in [Keys -> 0 .. Oldest]
      BY OldestTyped DEF TInv
    <3> QED
      BY <2>3, <3>1
  <2>6. download' \in [Keys -> 0 .. MaxMoved]
    BY <2>3 DEF TInv
  <2> QED
    BY <2>1, <2>2, <2>4, <2>5, <2>6 DEF TInv
<1>3. CASE ScanPoints
  <2>1. /\ scan.at = "ask" /\ scan' = [scan EXCEPT !.at = "close"]
        /\ UNCHANGED <<session, moved, monitor, rows, unseen, download>>
    BY <1>3 DEF ScanPoints
  <2>2. scan' \in Scans /\ scan'.at = "close"
    BY <2>1 DEF TInv, Scans
  <2>3. ASSUME NEW k \in Keys
        PROVE  /\ series'[k] \in Seq(0 .. MaxMoved) /\ Len(series'[k]) <= MaxPoints
               /\ rows[k] = "none" => series'[k] = series[k]
    <3>1. scan.read[k] \in 0 .. MaxMoved /\ series[k] \in Seq(0 .. MaxMoved)
          /\ Len(series[k]) < MaxPoints /\ MaxPoints \in Nat
      BY <2>1, SessionAssumption DEF TInv, Scans
    <3>2. \/ series'[k] = series[k]
          \/ rows[k] # "none" /\ series'[k] = Append(series[k], scan.read[k])
      BY <1>3 DEF ScanPoints, Open
    <3>3. ASSUME NEW q \in Seq(0 .. MaxMoved), NEW x \in 0 .. MaxMoved
          PROVE  Append(q, x) \in Seq(0 .. MaxMoved) /\ Len(Append(q, x)) = Len(q) + 1
      OBVIOUS
    <3>4. Len(series[k]) \in Nat
      BY <3>1
    <3>5. CASE series'[k] = series[k]
      BY <3>1, <3>4, <3>5
    <3>6. CASE rows[k] # "none" /\ series'[k] = Append(series[k], scan.read[k])
      <4>1. series'[k] \in Seq(0 .. MaxMoved) /\ Len(series'[k]) = Len(series[k]) + 1
        BY <3>1, <3>3, <3>6
      <4> QED
        BY <3>1, <3>4, <3>6, <4>1
    <3> QED
      BY <3>2, <3>5, <3>6
  <2>4. series' \in [Keys -> Seq(0 .. MaxMoved)]
    <3>1. DOMAIN series' = Keys /\ series' = [k \in Keys |-> series'[k]]
      BY <1>3 DEF ScanPoints
    <3> QED
      BY <2>3, <3>1
  <2> QED
    BY <2>1, <2>2, <2>3, <2>4 DEF TInv
<1>4. CASE ScanClose
  <2>1. /\ scan' = [Idle EXCEPT !.live = scan.live, !.asked = {"done"}]
        /\ UNCHANGED <<session, moved, monitor, unseen, download, series>>
        /\ rows' = [k \in Keys |-> IF k \in Vanished /\ rows[k] = "open"
                                   THEN "ended" ELSE rows[k]]
    BY <1>4 DEF ScanClose
  <2>2. scan' \in Scans /\ scan'.at = "idle"
    <3>1. scan.live \in SUBSET Keys /\ {"done"} \in SUBSET (Keys \cup {"done"})
      BY DEF TInv, Scans
    <3> QED
      BY <2>1, <3>1, IdleTyped DEF Scans, Idle
  <2>3. rows' \in [Keys -> {"none", "open", "ended"}]
        /\ \A j \in Keys : rows'[j] = "none" => rows[j] = "none"
    BY <2>1 DEF TInv
  <2> QED
    BY <2>1, <2>2, <2>3 DEF TInv
<1>5. CASE ScanBreaks
  BY <1>5, IdleTyped DEF ScanBreaks, rowVars, TInv, Idle
<1> QED
  BY <1>1, <1>2, <1>3, <1>4, <1>5 DEF ScanRest

LEMMA AgeTyped == TInv /\ (Day \/ Prune) => TInv'
<1> SUFFICES ASSUME TInv, Day \/ Prune PROVE TInv'
  OBVIOUS
<1>0. scan' = Idle /\ scan' \in Scans /\ scan'.at # "ask" /\ UNCHANGED <<session, moved, monitor>>
  <2>1. scan' = Idle /\ UNCHANGED <<session, moved, monitor>>
    BY DEF Day, Prune
  <2>2. Idle.at # "ask"
    BY DEF Idle
  <2> QED
    BY <2>1, <2>2, IdleTyped
<1>1. CASE Day
  <2>1. UNCHANGED <<rows, download, series>>
    BY <1>1 DEF Day
  <2>2. unseen' \in [Keys -> 0 .. Oldest]
    BY <1>1, OldestTyped DEF Day, TInv
  <2> QED
    BY <1>0, <2>1, <2>2 DEF TInv
<1>2. CASE Prune
  <2>1. rows' \in [Keys -> {"none", "open", "ended"}]
    BY <1>2 DEF Prune, TInv
  <2>2. unseen' \in [Keys -> 0 .. Oldest] /\ download' \in [Keys -> 0 .. MaxMoved]
    BY <1>2, OldestTyped, SessionAssumption DEF Prune, TInv
  <2>3. ASSUME NEW k \in Keys
        PROVE  /\ series'[k] \in Seq(0 .. MaxMoved) /\ Len(series'[k]) <= MaxPoints
               /\ rows'[k] = "none" => series'[k] = <<>>
    <3>1. series'[k] = <<>> \/ (series'[k] = series[k] /\ k \notin Expired)
      BY <1>2 DEF Prune
    <3>2. k \notin Expired /\ rows'[k] = "none" => rows[k] = "none"
      BY <1>2 DEF Prune
    <3>3. <<>> \in Seq(0 .. MaxMoved) /\ Len(<<>>) <= MaxPoints
      BY SessionAssumption
    <3> QED
      BY <1>2, <3>1, <3>2, <3>3 DEF Prune, TInv
  <2>4. series' \in [Keys -> Seq(0 .. MaxMoved)]
    <3>1. series' = [k \in Keys |-> series'[k]]
      BY <1>2 DEF Prune
    <3> QED
      BY <2>3, <3>1
  <2> QED
    BY <1>0, <2>1, <2>2, <2>3, <2>4 DEF TInv
<1> QED
  BY <1>1, <1>2

LEMMA TypeStep == TInv /\ [SessionsNext]_sessionVars => TInv'
<1> SUFFICES ASSUME TInv, [SessionsNext]_sessionVars PROVE TInv'
  OBVIOUS
<1>1. CASE UNCHANGED sessionVars
  BY <1>1 DEF sessionVars, TInv
<1> QED
  BY <1>1, WorldTyped, PassTyped, AgeTyped DEF SessionsNext, World

\* Rows, series and the pass under way stay well typed; a session without a
\* row has no series.
THEOREM SessionsTyped == SessionsSpec => []SessionsTypeOK
<1>1. SessionsSpec => []TInv
  BY TypeInit, TypeStep, PTL DEF SessionsSpec
<1> QED
  BY <1>1, TypesHold, PTL

-----------------------------------------------------------------------------
(* Reconciliation *)

\* A session that has a row has been live; one whose row has ended is gone, or
\* lost its row to the retention.
HistoryInv ==
  \A k \in Keys :
    /\ rows[k] # "none" => session[k] # "new"
    /\ rows[k] = "ended" => session[k] = "gone" \/ k \in closedStale

\* Within a pass: what it lists has been live, and has ended only as stale;
\* the open rows are those that were open before and those it has asked for.
PassInv ==
  scan.at # "idle" =>
    /\ scan.asked \subseteq scan.live
    /\ Open \subseteq scan.open \cup scan.asked
    /\ scan.at = "close" => scan.asked = scan.live
    /\ \A k \in scan.live : /\ session[k] # "new"
                            /\ rows[k] = "ended" => k \in closedStale
    /\ \A k \in scan.open : session[k] # "new"
    /\ \A k \in scan.asked : rows[k] # "none"
    /\ \A k \in scan.open : rows[k] # "none"

\* A pass that lists a session after it had gone, or closes a live one, is
\* out: what is closed was not listed, and what had gone was not either.
GoneInv ==
  scan.at # "idle" => \A k \in scan.open \ scan.live : session[k] = "gone"

RInv == HistoryInv /\ PassInv /\ GoneInv /\ SessionsReconciled

LEMMA ReconInit == SessionsInit => RInv
BY DEF SessionsInit, Idle, RInv, HistoryInv, PassInv, GoneInv, SessionsReconciled

\* What the world does moves sessions forward and touches nothing else.
LEMMA WorldRecon == TInv /\ RInv /\ World => RInv'
<1> SUFFICES ASSUME TInv, RInv, World PROVE RInv'
  OBVIOUS
<1>1. UNCHANGED <<rows, scan, closedStale>>
  BY DEF World, Connect, Move, Disconnect, DropHub, SwitchMonitor, rowVars
<1>2. \A k \in Keys : /\ session[k] # "new" => session'[k] # "new"
                      /\ session[k] = "gone" => session'[k] = "gone"
  BY DEF World, Connect, Move, Disconnect, DropHub, SwitchMonitor, TInv
<1>3. scan.live \subseteq Keys /\ scan.open \subseteq Keys /\ Open' = Open
  BY <1>1 DEF TInv, Scans, Open
<1>4. HistoryInv'
  BY <1>1, <1>2 DEF RInv, HistoryInv
<1>5. PassInv' /\ GoneInv'
  BY <1>1, <1>2, <1>3 DEF RInv, PassInv, GoneInv
<1>6. SessionsReconciled'
  BY <1>1, <1>3 DEF RInv, SessionsReconciled
<1> QED
  BY <1>4, <1>5, <1>6 DEF RInv

LEMMA BeginRecon == TInv /\ RInv /\ ScanBegin => RInv'
<1> SUFFICES ASSUME TInv, RInv, ScanBegin PROVE RInv'
  OBVIOUS
<1>1. /\ scan'.at = "ask" /\ scan'.live = Live /\ scan'.open = Open /\ scan'.asked = {}
      /\ UNCHANGED <<session, rows, closedStale>>
  BY DEF ScanBegin, Idle, rowVars
<1>2. HistoryInv'
  BY <1>1 DEF RInv, HistoryInv
<1>3. PassInv'
  BY <1>1 DEF PassInv, RInv, HistoryInv, Live, Open
<1>4. GoneInv'
  BY <1>1 DEF GoneInv, RInv, HistoryInv, Live, Open, TInv
<1>5. SessionsReconciled'
  BY <1>1 DEF SessionsReconciled
<1> QED
  BY <1>2, <1>3, <1>4, <1>5 DEF RInv

LEMMA OneRecon ==
  ASSUME TInv, RInv, NEW k \in Keys, NEW n \in 0 .. MaxMoved, ScanOne(k, n)
  PROVE  RInv'
<1>1. /\ scan.at = "ask" /\ scan'.at = "ask" /\ scan'.live = scan.live
      /\ scan'.open = scan.open /\ scan'.asked = scan.asked \cup {k} /\ k \in scan.live
      /\ UNCHANGED <<session, closedStale>>
  BY DEF ScanOne, TInv, Scans
<1>2. /\ \A j \in Keys \ {k} : rows'[j] = rows[j]
      /\ rows'[k] = IF k \in scan.open \/ rows[k] = "none" THEN "open" ELSE rows[k]
  BY DEF ScanOne, TInv
<1>3. PassInv /\ session[k] # "new" /\ (rows[k] = "ended" => k \in closedStale)
  BY <1>1 DEF RInv, PassInv
<1>4. HistoryInv'
  BY <1>1, <1>2, <1>3 DEF RInv, HistoryInv
<1>5. PassInv'
  BY <1>1, <1>2, <1>3 DEF PassInv, Open, TInv, Scans
<1>6. GoneInv'
  BY <1>1 DEF RInv, GoneInv
<1>7. SessionsReconciled'
  BY <1>1, SessionAssumption DEF SessionsReconciled, TInv, Scans, RInv, PassInv
<1> QED
  BY <1>4, <1>5, <1>6, <1>7 DEF RInv

LEMMA CloseRecon == TInv /\ RInv /\ ScanClose => RInv'
<1> SUFFICES ASSUME TInv, RInv, ScanClose PROVE RInv'
  OBVIOUS
<1>1. /\ scan.at = "close" /\ scan'.at = "idle" /\ scan'.live = scan.live
      /\ UNCHANGED <<session, closedStale>>
  BY DEF ScanClose, Idle
<1>2. \A k \in Keys : rows'[k] = IF k \in scan.open \ scan.live /\ rows[k] = "open"
                                 THEN "ended" ELSE rows[k]
  BY DEF ScanClose, Vanished
<1>3. /\ scan.asked = scan.live /\ Open \subseteq scan.open \cup scan.live
      /\ scan.live \subseteq Keys /\ scan.open \subseteq Keys
      /\ \A k \in scan.live : rows[k] # "none" /\ (rows[k] = "ended" => k \in closedStale)
      /\ \A k \in scan.open \ scan.live : session[k] = "gone"
  BY <1>1 DEF RInv, PassInv, GoneInv, TInv, Scans
<1>4. HistoryInv'
  BY <1>1, <1>2, <1>3 DEF RInv, HistoryInv
<1>5. Open' \subseteq scan.live /\ scan.live \ closedStale \subseteq Open'
  BY <1>2, <1>3 DEF Open, TInv
<1>6. SessionsReconciled' /\ PassInv' /\ GoneInv'
  BY <1>1, <1>5 DEF SessionsReconciled, PassInv, GoneInv
<1> QED
  BY <1>4, <1>6 DEF RInv

LEMMA PruneRecon == TInv /\ RInv /\ Prune => RInv'
<1> SUFFICES ASSUME TInv, RInv, Prune PROVE RInv'
  OBVIOUS
<1>1. /\ scan'.at = "idle" /\ scan'.asked = {} /\ UNCHANGED session
      /\ closedStale' = (closedStale \cup (Overdue \cap Live)) \ Expired
  BY DEF Prune, Idle
<1>2. \A k \in Keys : rows'[k] = IF k \in Expired THEN "none"
                                 ELSE IF k \in Overdue THEN "ended" ELSE rows[k]
  BY DEF Prune
<1>3. \A k \in Overdue : k \in Keys /\ rows[k] = "open"
  BY DEF Overdue, Open
<1>4. ASSUME NEW k \in Keys
      PROVE  /\ rows'[k] # "none" => session'[k] # "new"
             /\ rows'[k] = "ended" => session'[k] = "gone" \/ k \in closedStale'
  <2>1. CASE k \in Expired
    BY <1>2, <2>1
  <2>2. CASE k \in Overdue /\ k \notin Expired
    <3>1. session[k] # "new" /\ session[k] \in {"new", "live", "gone"}
      BY <1>3, <2>2 DEF RInv, HistoryInv, TInv
    <3> QED
      BY <1>1, <2>2, <3>1 DEF Live
  <2>3. CASE k \notin Overdue /\ k \notin Expired
    BY <1>1, <1>2, <2>3 DEF RInv, HistoryInv
  <2> QED
    BY <2>1, <2>2, <2>3
<1> QED
  BY <1>1, <1>4 DEF RInv, HistoryInv, PassInv, GoneInv, SessionsReconciled

LEMMA ReconStep == TInv /\ RInv /\ [SessionsNext]_sessionVars => RInv'
<1> SUFFICES ASSUME TInv, RInv, [SessionsNext]_sessionVars PROVE RInv'
  OBVIOUS
<1>1. CASE ScanPoints
  <2>1. /\ scan.at = "ask" /\ scan.asked = scan.live /\ scan'.at = "close"
        /\ scan'.live = scan.live /\ scan'.open = scan.open /\ scan'.asked = scan.asked
        /\ UNCHANGED <<session, rows, closedStale>>
    BY <1>1 DEF ScanPoints, TInv, Scans
  <2>2. HistoryInv' /\ PassInv' /\ GoneInv'
    BY <2>1 DEF RInv, HistoryInv, PassInv, GoneInv, Open
  <2>3. SessionsReconciled'
    BY <2>1, SessionAssumption DEF SessionsReconciled, TInv, Scans, RInv, PassInv
  <2> QED
    BY <2>2, <2>3 DEF RInv
<1>2. CASE ScanBreaks \/ Day
  <2>1. scan'.at = "idle" /\ scan'.asked = {} /\ UNCHANGED <<session, rows, closedStale>>
    BY <1>2 DEF ScanBreaks, Day, Idle, rowVars
  <2> QED
    BY <2>1 DEF RInv, HistoryInv, PassInv, GoneInv, SessionsReconciled
<1>3. CASE UNCHANGED sessionVars
  BY <1>3 DEF sessionVars, RInv, HistoryInv, PassInv, GoneInv, SessionsReconciled, Open
<1> QED
  BY <1>1, <1>2, <1>3, WorldRecon, BeginRecon, OneRecon, CloseRecon, PruneRecon
     DEF SessionsNext, World, ScanRest

\* When a pass is through, the open rows are the sessions it listed, but for
\* those whose row had been closed as stale while they lived.
THEOREM Reconciled == SessionsSpec => []SessionsReconciled
<1>1. SessionsSpec => []TInv
  BY TypeInit, TypeStep, PTL DEF SessionsSpec
<1>2. SessionsSpec => []RInv
  BY <1>1, ReconInit, ReconStep, PTL DEF SessionsSpec
<1>3. RInv => SessionsReconciled
  BY DEF RInv
<1> QED
  BY <1>2, <1>3, PTL

-----------------------------------------------------------------------------
(* Usage *)

\* Every set of numbers has a least one: what an induction needs to know.
LEMMA LeastNumber ==
  ASSUME NEW T \in SUBSET Nat, T # {}
  PROVE  \E m \in T : \A n \in T : m <= n
<1> DEFINE R == OpToRel(<, Nat)
<1>1. PICK m \in T : \A n \in T : ~(<<n, m>> \in R)
  <2>1. IsWellFoundedOn(R, Nat)
    BY NatLessThanWellFounded
  <2> HIDE DEF R
  <2> QED BY <2>1, WFMin
<1>2. \A n \in T : ~(n < m)
  BY <1>1 DEF OpToRel
<1> QED BY <1>2

\* What holds at 0 and goes on from each number to the next holds up to n.
LEMMA UpTo ==
  ASSUME NEW n \in Nat, NEW T \in SUBSET Nat, 0 \in T,
         \A i \in 1 .. n : i - 1 \in T => i \in T
  PROVE  0 .. n \subseteq T
<1> SUFFICES ASSUME (0 .. n) \ T # {} PROVE FALSE
  OBVIOUS
<1> DEFINE Missed == (0 .. n) \ T
<1>1. Missed \in SUBSET Nat /\ Missed # {}
  OBVIOUS
<1>2. PICK m \in Missed : \A i \in Missed : m <= i
  <2> HIDE DEF Missed
  <2> QED BY <1>1, LeastNumber
<1>3. m \in 1 .. n /\ m - 1 \in T
  BY <1>2
<1> QED BY <1>2, <1>3

\* f adds up the movements of a series as far as position n.
AddsUp(f, points, n) ==
  \A i \in 0 .. n :
    f[i] = IF i < 2 THEN 0 ELSE f[i - 1] + Delta(points[i], points[i - 1])

\* Sums that start the same are the same.
LEMMA SumsAgree ==
  ASSUME NEW points, NEW n \in Nat, NEW f, NEW g,
         AddsUp(f, points, n), AddsUp(g, points, n)
  PROVE  \A i \in 0 .. n : f[i] = g[i]
<1> DEFINE Alike == {i \in Nat : i <= n => f[i] = g[i]}
<1>1. 0 \in Alike
  BY DEF AddsUp
<1>2. \A i \in 1 .. n : i - 1 \in Alike => i \in Alike
  BY DEF AddsUp
<1>3. 0 .. n \subseteq Alike
  <2>1. Alike \in SUBSET Nat
    OBVIOUS
  <2> HIDE DEF Alike
  <2> QED BY <1>1, <1>2, <2>1, UpTo
<1> QED BY <1>3

\* What Sums is defined by is there: its equation has one solution, built up
\* position by position, and its values are numbers.
LEMMA SumsThere ==
  ASSUME NEW points \in Seq(Nat)
  PROVE  /\ Sums(points) \in [0 .. Len(points) -> Nat]
         /\ AddsUp(Sums(points), points, Len(points))
<1> DEFINE N == Len(points)
           Summed == {n \in Nat : n <= N => \E f \in [0 .. n -> Nat] : AddsUp(f, points, n)}
<1>0. N \in Nat
  OBVIOUS
<1>1. 0 \in Summed
  <2>1. [i \in 0 .. 0 |-> 0] \in [0 .. 0 -> Nat] /\ AddsUp([i \in 0 .. 0 |-> 0], points, 0)
    BY DEF AddsUp
  <2> QED BY <2>1
<1>2. ASSUME NEW n \in 1 .. N, n - 1 \in Summed PROVE n \in Summed
  <2>1. PICK f \in [0 .. n - 1 -> Nat] : AddsUp(f, points, n - 1)
    BY <1>2
  <2> DEFINE more == IF n < 2 THEN 0 ELSE f[n - 1] + Delta(points[n], points[n - 1])
             g    == [i \in 0 .. n |-> IF i = n THEN more ELSE f[i]]
  <2>2. more \in Nat
    <3>1. CASE n >= 2
      <4>1. points[n] \in Nat /\ points[n - 1] \in Nat /\ f[n - 1] \in Nat
        BY <3>1
      <4>2. Delta(points[n], points[n - 1]) \in Nat
        BY <4>1 DEF Delta
      <4> QED BY <3>1, <4>1, <4>2
    <3> QED BY <3>1
  <2> HIDE DEF more
  <2>3. g \in [0 .. n -> Nat]
    BY <2>2
  <2>4. AddsUp(g, points, n)
    <3> SUFFICES ASSUME NEW i \in 0 .. n
                 PROVE  g[i] = IF i < 2 THEN 0 ELSE g[i - 1] + Delta(points[i], points[i - 1])
      BY DEF AddsUp
    <3>1. CASE i = n
      BY <3>1 DEF more
    <3>2. CASE i < n
      <4>1. g[i] = f[i] /\ (i > 0 => g[i - 1] = f[i - 1])
        BY <3>2
      <4>2. i \in 0 .. n - 1
        BY <3>2
      <4>3. f[i] = IF i < 2 THEN 0 ELSE f[i - 1] + Delta(points[i], points[i - 1])
        BY <2>1, <4>2 DEF AddsUp
      <4> QED BY <4>1, <4>3
    <3> QED BY <3>1, <3>2
  <2>5. \E h \in [0 .. n -> Nat] : AddsUp(h, points, n)
    <3> HIDE DEF g
    <3> QED BY <2>3, <2>4
  <2> QED BY <2>5
<1>3. PICK f \in [0 .. N -> Nat] : AddsUp(f, points, N)
  <2>1. Summed \in SUBSET Nat
    OBVIOUS
  <2>2. \A n \in 1 .. N : n - 1 \in Summed => n \in Summed
    <3> HIDE DEF Summed
    <3> QED BY <1>2
  <2>3. 0 .. N \subseteq Summed
    <3> HIDE DEF Summed, N
    <3> QED BY <1>0, <1>1, <2>1, <2>2, UpTo
  <2>4. N \in Summed
    BY <1>0, <2>3
  <2> QED BY <2>4
<1>4. f = [i \in 0 .. N |->
            IF i < 2 THEN 0 ELSE f[i - 1] + Delta(points[i], points[i - 1])]
  BY <1>3 DEF AddsUp
<1>5. Sums(points) = [i \in 0 .. N |->
            IF i < 2 THEN 0 ELSE Sums(points)[i - 1] + Delta(points[i], points[i - 1])]
  BY <1>4 DEF Sums
<1>6. AddsUp(Sums(points), points, N)
  BY <1>5 DEF AddsUp
<1>7. \A i \in 0 .. N : Sums(points)[i] = f[i]
  BY <1>0, <1>3, <1>6, SumsAgree
<1>8. Sums(points) = [i \in 0 .. N |-> f[i]]
  BY <1>5, <1>7
<1> QED BY <1>6, <1>8

\* A reading that is added to a series adds its movement to the usage.
LEMMA UsageOfAppend ==
  ASSUME NEW points \in Seq(Nat), NEW x \in Nat
  PROVE  /\ Usage(points) \in Nat
         /\ points = <<>> => Usage(points) = 0 /\ Usage(Append(points, x)) = 0
         /\ points # <<>> => Usage(Append(points, x))
                              = Usage(points) + Delta(x, points[Len(points)])
<1> DEFINE N    == Len(points)
           more == Append(points, x)
<1>1. /\ N \in Nat /\ more \in Seq(Nat) /\ Len(more) = N + 1 /\ more[N + 1] = x
      /\ \A i \in 1 .. N : more[i] = points[i]
  OBVIOUS
<1>2. /\ Sums(points) \in [0 .. N -> Nat] /\ AddsUp(Sums(points), points, N)
      /\ AddsUp(Sums(more), more, N + 1)
  BY <1>1, SumsThere
<1>3. AddsUp(Sums(more), points, N)
  <2> HIDE DEF more, N
  <2> SUFFICES ASSUME NEW i \in 0 .. N
               PROVE  Sums(more)[i] = IF i < 2 THEN 0
                        ELSE Sums(more)[i - 1] + Delta(points[i], points[i - 1])
    BY DEF AddsUp
  <2>1. i \in 0 .. N + 1
    BY <1>1
  <2>2. Sums(more)[i] = IF i < 2 THEN 0
                        ELSE Sums(more)[i - 1] + Delta(more[i], more[i - 1])
    BY <1>2, <2>1 DEF AddsUp
  <2>3. i >= 2 => more[i] = points[i] /\ more[i - 1] = points[i - 1]
    <3> SUFFICES ASSUME i >= 2 PROVE more[i] = points[i] /\ more[i - 1] = points[i - 1]
      OBVIOUS
    <3>1. i \in 1 .. N /\ i - 1 \in 1 .. N
      BY <1>1
    <3> QED BY <1>1, <3>1
  <2> QED BY <2>2, <2>3
<1>4. Sums(more)[N] = Sums(points)[N]
  BY <1>1, <1>2, <1>3, SumsAgree
<1>5. Sums(more)[N + 1] = IF N + 1 < 2 THEN 0
                          ELSE Sums(more)[N] + Delta(more[N + 1], more[N])
  <2> HIDE DEF more, N
  <2>1. N + 1 \in 0 .. N + 1 /\ N + 1 - 1 = N
    BY <1>1
  <2> QED BY <1>1, <1>2, <2>1 DEF AddsUp
<1>6. Usage(points) = Sums(points)[N] /\ Usage(more) = Sums(more)[N + 1]
  BY <1>1 DEF Usage
<1>7. Usage(points) \in Nat
  BY <1>1, <1>2, <1>6
<1>8. CASE points = <<>>
  <2>1. N = 0 /\ Sums(points)[N] = 0
    BY <1>2, <1>8 DEF AddsUp
  <2> QED BY <1>5, <1>6, <1>7, <1>8, <2>1
<1>9. CASE points # <<>>
  <2>1. N >= 1 /\ more[N] = points[N]
    BY <1>1, <1>9
  <2> QED BY <1>1, <1>4, <1>5, <1>6, <1>7, <1>9, <2>1
<1> QED BY <1>8, <1>9

\* The readings of a session whose status calls were all answered only rise:
\* what they add up to is at most the last one, and that is no news.
Rising(k) ==
  LET points == series[k] IN
  points # <<>> => /\ Usage(points) <= points[Len(points)]
                   /\ points[Len(points)] <= moved[k]

\* So is what the pass under way has read of it.
ReadWell(k) ==
  scan.at = "ask" /\ scan.wants /\ k \in scan.asked =>
    /\ scan.read[k] <= moved[k]
    /\ series[k] # <<>> => series[k][Len(series[k])] <= scan.read[k]

UsageInv == \A k \in Keys \ unread : Rising(k) /\ ReadWell(k)

LEMMA SeriesOfNumbers ==
  ASSUME NEW n \in Nat, NEW points \in Seq(0 .. n)
  PROVE  points \in Seq(Nat)
<1>1. /\ Len(points) \in Nat /\ points = [i \in 1 .. Len(points) |-> points[i]]
      /\ \A i \in 1 .. Len(points) : points[i] \in 0 .. n
  OBVIOUS
<1>2. points \in [1 .. Len(points) -> Nat]
  BY <1>1
<1> QED BY <1>1, <1>2

LEMMA PointsTyped ==
  ASSUME TInv, NEW k \in Keys
  PROVE  /\ series[k] \in Seq(Nat) /\ moved[k] \in Nat /\ Usage(series[k]) \in Nat
         /\ scan.read[k] \in Nat
         /\ series[k] = <<>> => Usage(series[k]) = 0
         /\ series[k] # <<>> => series[k][Len(series[k])] \in Nat
<1>1. series[k] \in Seq(0 .. MaxMoved) /\ moved[k] \in 0 .. MaxMoved
      /\ scan.read[k] \in 0 .. MaxMoved
  BY DEF TInv, Scans
<1>2. series[k] \in Seq(Nat)
  BY <1>1, SessionAssumption, SeriesOfNumbers
<1>3. Usage(series[k]) \in Nat /\ (series[k] = <<>> => Usage(series[k]) = 0)
  BY <1>2, UsageOfAppend
<1>4. series[k] # <<>> => series[k][Len(series[k])] \in Nat
  BY <1>2
<1> QED BY <1>1, <1>2, <1>3, <1>4

LEMMA UsageHolds == TInv /\ UsageInv => UsageWithinMoved
<1> SUFFICES ASSUME TInv, UsageInv, NEW k \in Keys \ unread PROVE Usage(series[k]) <= moved[k]
  BY DEF UsageWithinMoved
<1> QED BY PointsTyped DEF UsageInv, Rising

LEMMA UsageBegins == SessionsInit => UsageInv
BY DEF SessionsInit, UsageInv, Rising, ReadWell, Idle

\* What moves at the server only moves on, and no pass is touched by it.
LEMMA WorldKeepsUsage ==
  ASSUME TInv, UsageInv, World
  PROVE  UsageInv'
<1> SUFFICES ASSUME NEW k \in Keys \ unread PROVE (Rising(k) /\ ReadWell(k))'
  BY DEF World, Connect, Move, Disconnect, DropHub, SwitchMonitor, UsageInv
<1>1. /\ UNCHANGED <<series, scan>> /\ moved[k] <= moved'[k]
  <2>1. moved \in [Keys -> 0 .. MaxMoved]
    BY DEF TInv
  <2>2. CASE \E j \in Keys : Move(j)
    BY <2>1, <2>2, PointsTyped DEF Move, rowVars
  <2>3. CASE ~\E j \in Keys : Move(j)
    BY <2>3, PointsTyped DEF World, Connect, Disconnect, DropHub, SwitchMonitor, rowVars
  <2> QED BY <2>2, <2>3
<1>2. Rising(k) /\ ReadWell(k)
  BY DEF UsageInv
<1>3. moved'[k] \in Nat
  <2>1. moved' \in [Keys -> 0 .. MaxMoved]
    BY WorldTyped DEF TInv
  <2> QED BY <2>1
<1> QED
  BY <1>1, <1>2, <1>3, PointsTyped DEF Rising, ReadWell

\* A reading that was answered is the session's total of that moment, and one
\* that was not leaves the session out of the account.
LEMMA ReadingKeepsUsage ==
  ASSUME TInv, UsageInv, NEW j \in Keys, NEW n \in 0 .. MaxMoved, ScanOne(j, n)
  PROVE  UsageInv'
<1> SUFFICES ASSUME NEW k \in Keys \ unread' PROVE (Rising(k) /\ ReadWell(k))'
  BY DEF UsageInv
<1>1. /\ UNCHANGED <<series, moved>> /\ k \in Keys \ unread
      /\ scan' = [scan EXCEPT !.asked = @ \cup {j}, !.read[j] = n]
      /\ scan.wants /\ k = j => n = moved[k]
  BY DEF ScanOne
<1>2. Rising(k) /\ ReadWell(k)
  BY <1>1 DEF UsageInv
<1>3. scan \in Scans
  BY DEF TInv
<1>4. /\ scan'.at = scan.at /\ scan'.wants = scan.wants
      /\ scan'.asked = scan.asked \cup {j}
      /\ scan'.read[k] = IF k = j THEN n ELSE scan.read[k]
  BY <1>1, <1>3 DEF Scans
<1>5. CASE k = j
  <2>1. scan.wants => n = moved[k] /\ moved[k] \in Nat
    BY <1>1, <1>5, PointsTyped
  <2> QED BY <1>1, <1>2, <1>4, <1>5, <2>1, PointsTyped DEF Rising, ReadWell
<1>6. CASE k # j
  BY <1>1, <1>2, <1>4, <1>6 DEF Rising, ReadWell
<1> QED BY <1>5, <1>6

\* The readings of a pass are put behind those of the passes before it.
LEMMA PointsKeepUsage ==
  ASSUME TInv, UsageInv, ScanPoints
  PROVE  UsageInv'
<1> SUFFICES ASSUME NEW k \in Keys \ unread' PROVE (Rising(k) /\ ReadWell(k))'
  BY DEF UsageInv
<1>0. scan \in Scans
  BY DEF TInv
<1>1. k \in Keys \ unread /\ UNCHANGED moved /\ scan'.at = "close" /\ Rising(k) /\ ReadWell(k)
  BY <1>0 DEF ScanPoints, UsageInv, Scans
<1>2. CASE series'[k] = series[k]
  BY <1>1, <1>2 DEF Rising, ReadWell
<1>3. CASE series'[k] # series[k]
  <2>1. /\ series'[k] = Append(series[k], scan.read[k])
        /\ scan.at = "ask" /\ scan.wants /\ k \in scan.asked
    BY <1>3 DEF ScanPoints
  <2> DEFINE points == series[k]  n == scan.read[k]
  <2>2. /\ points \in Seq(Nat) /\ n \in Nat /\ moved[k] \in Nat /\ Usage(points) \in Nat
        /\ points # <<>> => points[Len(points)] \in Nat
    BY PointsTyped
  <2>3. n <= moved[k] /\ (points # <<>> => points[Len(points)] <= n
                             /\ Usage(points) <= points[Len(points)])
    BY <1>1, <2>1 DEF ReadWell, Rising
  <2> HIDE DEF points, n
  <2>4. Append(points, n)[Len(Append(points, n))] = n
    BY <2>2
  <2>5. Usage(Append(points, n)) <= n
    BY <2>2, <2>3, UsageOfAppend DEF Delta
  <2>6. series'[k] = Append(points, n)
    BY <2>1 DEF points, n
  <2> QED BY <1>1, <2>3, <2>4, <2>5, <2>6 DEF Rising, ReadWell
<1> QED BY <1>2, <1>3

LEMMA UsageStep == TInv /\ UsageInv /\ [SessionsNext]_sessionVars => UsageInv'
<1> SUFFICES ASSUME TInv, UsageInv, [SessionsNext]_sessionVars PROVE UsageInv'
  OBVIOUS
<1>1. ASSUME UNCHANGED <<moved, unread>>, scan'.at # "ask" \/ scan'.asked = {},
             \A k \in Keys : series'[k] \in {series[k], <<>>}
      PROVE  UsageInv'
  <2> SUFFICES ASSUME NEW k \in Keys \ unread PROVE (Rising(k) /\ ReadWell(k))'
    BY <1>1 DEF UsageInv
  <2>1. Rising(k) /\ series'[k] \in {series[k], <<>>}
    BY <1>1 DEF UsageInv
  <2> QED BY <1>1, <2>1 DEF Rising, ReadWell
<1>2. CASE World
  BY <1>2, WorldKeepsUsage
<1>3. CASE \E k \in Keys, n \in 0 .. MaxMoved : ScanOne(k, n)
  BY <1>3, ReadingKeepsUsage
<1>4. CASE ScanPoints
  BY <1>4, PointsKeepUsage
<1>5. CASE Day \/ ScanBegin \/ ScanClose \/ ScanBreaks
  <2>1. UNCHANGED <<moved, unread, series>>
    BY <1>5 DEF Day, ScanBegin, ScanClose, ScanBreaks, rowVars
  <2>2. CASE ScanBegin
    <3>1. scan'.asked = {}
      BY <2>2 DEF ScanBegin, Idle
    <3> QED BY <1>1, <2>1, <3>1
  <2>3. CASE ScanClose
    <3>1. scan'.at = "idle"
      BY <2>3 DEF ScanClose, Idle
    <3> QED BY <1>1, <2>1, <3>1
  <2>4. CASE Day \/ ScanBreaks
    <3>1. scan'.at = "idle"
      BY <2>4 DEF Day, ScanBreaks, Idle
    <3> QED BY <1>1, <2>1, <3>1
  <2> QED BY <1>5, <2>2, <2>3, <2>4
<1>6. CASE Prune
  <2>1. \A k \in Keys : series'[k] \in {series[k], <<>>}
    BY <1>6 DEF Prune
  <2>2. UNCHANGED <<moved, unread>> /\ scan'.at # "ask"
    BY <1>6 DEF Prune, Idle
  <2> QED BY <1>1, <2>1, <2>2
<1>7. CASE UNCHANGED sessionVars
  BY <1>7 DEF sessionVars, UsageInv, Rising, ReadWell
<1> QED
  BY <1>2, <1>3, <1>4, <1>5, <1>6, <1>7 DEF SessionsNext, ScanRest, World

\* For any number of sessions and readings, the usage a chart adds up is no
\* more than what the session moved, if its status calls were answered.
THEOREM UsageStaysWithin == SessionsSpec => []UsageWithinMoved
<1>1. SessionsSpec => []TInv
  BY TypeInit, TypeStep, PTL DEF SessionsSpec
<1>2. SessionsSpec => []UsageInv
  BY <1>1, UsageBegins, UsageStep, PTL DEF SessionsSpec
<1> QED
  BY <1>1, <1>2, UsageHolds, PTL

-----------------------------------------------------------------------------
(*********************** remembered passwords **************************)

Stages == {"remember", "forget", "obtain", "save", "look", "keep"}
Jobs   == {Free} \cup [at : Stages, hash : Hashes \cup {Nil}]

CredInv ==
  /\ account \in Hashes \cup {Nil} /\ cached \in Hashes \cup {Nil}
  /\ clerk \in [Clerks -> Jobs]
  /\ acts \in 0 .. MaxActs

\* One request at a time.
Solo == \A c, d \in Clerks : clerk[c] # Free /\ clerk[d] # Free => c = d

\* What is remembered is the account's, but while a request that changed the
\* account has yet to say so; what a request holds is the account's as well.
Matches == cached \in {Nil, account}
Holds(c) ==
  /\ clerk[c].at = "remember" => IF clerk[c].hash = Nil THEN Matches
                                 ELSE clerk[c].hash = account
  /\ clerk[c].at \in {"obtain", "save"} => account # Nil
  /\ clerk[c].at \in {"save", "keep"} => account # Nil /\ clerk[c].hash = account

Agrees ==
  /\ Solo
  /\ (\A c \in Clerks : clerk[c].at \notin {"remember", "forget"}) => Matches
  /\ \A c \in Clerks : Holds(c)
  /\ FileSignsIn

IInv == CredInv /\ Agrees

LEMMA CredBegins == CredInit => IInv
BY CredAssumption
   DEF CredInit, Free, IInv, CredInv, Jobs, Agrees, Solo, Holds, Matches, FileSignsIn

-----------------------------------------------------------------------------
(* What the steps of requests have in common *)

\* A request that is served is the only one; when it ends there is none.
Serves(c) == clerk[c] # Free /\ \A d \in Clerks \ {c} : clerk[d] = Free

LEMMA OnlyOne ==
  ASSUME IInv, NEW c \in Clerks, clerk[c].at # "free"
  PROVE  Serves(c)
BY DEF IInv, Agrees, Solo, Serves, Free

\* A request begins only when none is served.
LEMMA BeginsAlone ==
  ASSUME ~MayRace, IInv, NEW c \in Clerks, Accept(c)
  PROVE  /\ \A d \in Clerks : clerk[d] = Free
         /\ Matches /\ acts' \in 0 .. MaxActs
<1>1. \A d \in Clerks : clerk[d].at = "free"
  BY DEF Accept
<1>2. \A d \in Clerks : clerk[d] = Free
  BY <1>1 DEF IInv, CredInv, Jobs, Stages
<1>3. Matches
  BY <1>1 DEF IInv, Agrees
<1>4. acts' \in 0 .. MaxActs
  BY CredAssumption DEF Accept, Act, IInv, CredInv
<1> QED
  BY <1>2, <1>3, <1>4

\* The step of the only request, as far as the threads go.
LEMMA OneGoes ==
  ASSUME IInv, NEW c \in Clerks, \A d \in Clerks \ {c} : clerk[d] = Free,
         NEW to \in Stages, NEW h \in Hashes \cup {Nil}, Goes(c, to, h)
  PROVE  /\ clerk' \in [Clerks -> Jobs] /\ Solo'
         /\ clerk'[c] = [at |-> to, hash |-> h]
         /\ \A d \in Clerks \ {c} : clerk'[d] = Free
<1>1. [at |-> to, hash |-> h] \in Jobs
  BY DEF Jobs
<1>2. clerk \in [Clerks -> Jobs] /\ clerk' = [clerk EXCEPT ![c] = [at |-> to, hash |-> h]]
  BY DEF IInv, CredInv, Goes
<1> QED
  BY <1>1, <1>2 DEF Solo

LEMMA OneEnds ==
  ASSUME IInv, NEW c \in Clerks, \A d \in Clerks \ {c} : clerk[d] = Free, Ends1(c)
  PROVE  clerk' \in [Clerks -> Jobs] /\ Solo' /\ \A d \in Clerks : clerk'[d] = Free
<1>1. Free \in Jobs
  BY DEF Jobs
<1>2. clerk \in [Clerks -> Jobs] /\ clerk' = [clerk EXCEPT ![c] = Free]
  BY DEF IInv, CredInv, Ends1
<1> QED
  BY <1>1, <1>2 DEF Solo

\* What is left to show of a step after which one request is served, or none.
LEMMA OneIsServed ==
  ASSUME account' \in Hashes \cup {Nil}, cached' \in Hashes \cup {Nil},
         acts' \in 0 .. MaxActs, FileSignsIn',
         NEW c \in Clerks, NEW to \in Stages, NEW h \in Hashes \cup {Nil},
         clerk' \in [Clerks -> Jobs], Solo', clerk'[c] = [at |-> to, hash |-> h],
         \A d \in Clerks \ {c} : clerk'[d] = Free,
         to \notin {"remember", "forget"} => Matches', Holds(c)'
  PROVE  IInv'
<1>1. \A d \in Clerks : Holds(d)'
  BY DEF Holds, Free
<1>2. (\A d \in Clerks : clerk'[d].at \notin {"remember", "forget"}) => Matches'
  OBVIOUS
<1> QED
  BY <1>1, <1>2 DEF IInv, CredInv, Agrees

LEMMA NoneIsServed ==
  ASSUME account' \in Hashes \cup {Nil}, cached' \in Hashes \cup {Nil},
         acts' \in 0 .. MaxActs, FileSignsIn', Matches',
         clerk' \in [Clerks -> Jobs], Solo', \A d \in Clerks : clerk'[d] = Free
  PROVE  IInv'
<1>1. \A d \in Clerks : Holds(d)'
  BY DEF Holds, Free
<1> QED
  BY <1>1 DEF IInv, CredInv, Agrees

-----------------------------------------------------------------------------
(* The steps *)

LEMMA Begins ==
  ASSUME ~MayRace, IInv, NEW c \in Clerks,
         \/ \E h \in Hashes : CreateUser(c, h) \/ SetUser(c, h)
         \/ SetUser(c, Nil) \/ DeleteUser(c) \/ CredentialState(c)
         \/ \E typed \in Hashes \cup {Nil} : VpnFile(c, typed)
  PROVE  IInv'
<1>0. Accept(c)
  BY DEF CreateUser, SetUser, DeleteUser, CredentialState, VpnFile
<1>1. (\A d \in Clerks : clerk[d] = Free) /\ Matches /\ acts' \in 0 .. MaxActs
  BY <1>0, BeginsAlone
<1>2. UNCHANGED file /\ FileSignsIn'
  BY DEF CreateUser, SetUser, DeleteUser, CredentialState, VpnFile, IInv, Agrees, FileSignsIn
<1>3. UNCHANGED cached /\ account \in Hashes \cup {Nil} /\ cached \in Hashes \cup {Nil}
  BY DEF CreateUser, SetUser, DeleteUser, CredentialState, VpnFile, IInv, CredInv
<1>4. ASSUME NEW to \in Stages, NEW h \in Hashes \cup {Nil}, Goes(c, to, h),
             account' \in Hashes \cup {Nil},
             to \notin {"remember", "forget"} => Matches',
             to = "remember" => IF h = Nil THEN Matches' ELSE h = account',
             to \in {"obtain", "save"} => account' # Nil,
             to \in {"save", "keep"} => account' # Nil /\ h = account'
      PROVE  IInv'
  <2>1. /\ clerk' \in [Clerks -> Jobs] /\ Solo' /\ clerk'[c] = [at |-> to, hash |-> h]
        /\ \A d \in Clerks \ {c} : clerk'[d] = Free
    BY <1>1, <1>4, OneGoes
  <2>2. Holds(c)'
    BY <1>4, <2>1 DEF Holds
  <2> QED
    BY <1>1, <1>2, <1>3, <1>4, <2>1, <2>2, OneIsServed
<1>5. ASSUME NEW h \in Hashes, CreateUser(c, h) PROVE IInv'
  BY <1>1, <1>3, <1>4, <1>5 DEF CreateUser, Stages, Matches
<1>6. ASSUME NEW h \in Hashes \cup {Nil}, SetUser(c, h) PROVE IInv'
  <2>1. account' = (IF h = Nil THEN account ELSE h) /\ Goes(c, "remember", h)
    BY <1>6 DEF SetUser
  <2>2. h = Nil => Matches'
    BY <1>1, <1>3, <2>1 DEF Matches
  <2> QED
    BY <1>3, <1>4, <2>1, <2>2 DEF Stages
<1>7. CASE DeleteUser(c)
  BY <1>4, <1>7 DEF DeleteUser, Stages
<1>8. CASE CredentialState(c)
  BY <1>1, <1>3, <1>4, <1>8 DEF CredentialState, Stages, Matches
<1>9. ASSUME NEW typed \in Hashes \cup {Nil}, VpnFile(c, typed) PROVE IInv'
  BY <1>1, <1>3, <1>4, <1>9 DEF VpnFile, Stages, Matches
<1> QED
  BY <1>5, <1>6, <1>7, <1>8, <1>9

LEMMA GoesOn ==
  ASSUME IInv, NEW c \in Clerks,
         Remember(c) \/ ForgetUser(c) \/ SaveTyped(c) \/ Obtain(c) \/ Keep(c)
  PROVE  IInv'
<1>1. /\ clerk[c] \in [at : Stages, hash : Hashes \cup {Nil}]
      /\ \A d \in Clerks \ {c} : clerk[d] = Free
  <2>1. clerk[c].at # "free"
    BY DEF Remember, ForgetUser, SaveTyped, Obtain, Keep
  <2>2. Serves(c)
    BY <2>1, OnlyOne
  <2> QED
    BY <2>1, <2>2 DEF Serves, IInv, CredInv, Jobs
<1>2. UNCHANGED <<account, acts>> /\ account \in Hashes \cup {Nil}
      /\ cached \in Hashes \cup {Nil} /\ acts' \in 0 .. MaxActs
  BY DEF Remember, ForgetUser, SaveTyped, Obtain, Keep, IInv, CredInv
<1>3. Holds(c) /\ FileSignsIn
  BY DEF IInv, Agrees
<1>4. clerk[c].at \notin {"remember", "forget"} => Matches
  BY <1>1 DEF IInv, Agrees, Free
<1>5. ASSUME Ends1(c), FileSignsIn', Matches', cached' \in Hashes \cup {Nil} PROVE IInv'
  <2>1. clerk' \in [Clerks -> Jobs] /\ Solo' /\ \A d \in Clerks : clerk'[d] = Free
    BY <1>1, <1>5, OneEnds
  <2> QED
    BY <1>2, <1>5, <2>1, NoneIsServed
<1>6. CASE Remember(c)
  <2>1. Matches' /\ cached' \in Hashes \cup {Nil}
    BY <1>1, <1>2, <1>3, <1>6 DEF Remember, Holds, Matches
  <2> QED
    BY <1>3, <1>5, <1>6, <2>1 DEF Remember, FileSignsIn
<1>7. CASE ForgetUser(c)
  BY <1>3, <1>5, <1>7 DEF ForgetUser, Matches, FileSignsIn
<1>8. CASE SaveTyped(c)
  BY <1>1, <1>2, <1>3, <1>5, <1>8 DEF SaveTyped, Hand, Holds, Matches, FileSignsIn
<1>9. CASE Keep(c)
  BY <1>1, <1>2, <1>3, <1>5, <1>9 DEF Keep, Holds, Matches, FileSignsIn
<1>10. CASE Obtain(c)
  <2>1. clerk[c].at \in {"obtain", "look"} /\ Matches /\ UNCHANGED cached /\ Matches'
    BY <1>2, <1>4, <1>10 DEF Obtain, Matches
  <2>2. CASE cached # Nil /\ clerk[c].at = "obtain"
    BY <1>2, <1>5, <1>10, <2>1, <2>2 DEF Obtain, Hand, Matches, FileSignsIn
  <2>3. CASE (clerk[c].at # "obtain" /\ cached # Nil) \/ (cached = Nil /\ account = Nil)
    BY <1>2, <1>3, <1>5, <1>10, <2>1, <2>3 DEF Obtain, FileSignsIn
  <2>4. CASE cached = Nil /\ account # Nil
    <3> DEFINE to == IF clerk[c].at = "obtain" THEN "save" ELSE "keep"
    <3>1. to \in Stages /\ to \in {"save", "keep"} /\ Goes(c, to, account) /\ UNCHANGED file
      BY <1>10, <2>1, <2>4 DEF Obtain, Stages
    <3> HIDE DEF to
    <3>2. /\ clerk' \in [Clerks -> Jobs] /\ Solo' /\ clerk'[c] = [at |-> to, hash |-> account]
          /\ \A d \in Clerks \ {c} : clerk'[d] = Free
      BY <1>1, <1>2, <3>1, OneGoes
    <3>3. Holds(c)' /\ FileSignsIn'
      BY <1>2, <1>3, <2>4, <3>1, <3>2 DEF Holds, FileSignsIn
    <3> QED
      BY <1>2, <2>1, <3>1, <3>2, <3>3, OneIsServed
  <2> QED
    BY <2>1, <2>2, <2>3, <2>4
<1> QED
  BY <1>6, <1>7, <1>8, <1>9, <1>10

\* An account made by another tool while a request is served: there was none,
\* so the request held nothing of it.
LEMMA Elsewhere ==
  ASSUME IInv, NEW h \in Hashes, MadeElsewhere(h)
  PROVE  IInv'
<1>1. /\ account = Nil /\ account' = h /\ UNCHANGED <<cached, clerk, file>>
      /\ acts' \in 0 .. MaxActs
  BY CredAssumption DEF MadeElsewhere, Act, IInv, CredInv
<1>2. \A c \in Clerks : Holds(c)'
  BY <1>1 DEF Holds, IInv, Agrees, Matches
<1>3. (\A c \in Clerks : clerk'[c].at \notin {"remember", "forget"}) => Matches'
  BY <1>1 DEF IInv, Agrees, Matches
<1> QED
  BY <1>1, <1>2, <1>3 DEF IInv, CredInv, Agrees, Solo, FileSignsIn

LEMMA CredStep == ASSUME ~MayRace PROVE IInv /\ [CredNext]_credVars => IInv'
<1> SUFFICES ASSUME IInv, [CredNext]_credVars PROVE IInv'
  OBVIOUS
<1>1. CASE CredNext
  BY <1>1, Begins, GoesOn, Elsewhere DEF CredNext
<1>2. CASE UNCHANGED credVars
  BY <1>2 DEF credVars, IInv, CredInv, Agrees, Solo, Holds, Matches, FileSignsIn
<1> QED
  BY <1>1, <1>2

\* When requests follow one another, a file that is handed out carries the
\* hash the server has for the account at that moment.
THEOREM FilesSignIn ==
  ASSUME ~MayRace
  PROVE  CredSpec => []FileSignsIn
<1>1. CredSpec => []IInv
  BY CredBegins, CredStep, PTL DEF CredSpec
<1>2. IInv => FileSignsIn
  BY DEF IInv, Agrees
<1> QED
  BY <1>1, <1>2, PTL

-----------------------------------------------------------------------------
(**************************** the audit trail ******************************)

AdminSpec == AdminInit /\ [][AdminNext]_adminVars

\* The change that is made and has no row yet.
Due == Tally(request.stage = "record" /\ IsChange(request.route))

\* What is counted of a request is counted once: its change when the call
\* comes back, its fault when that ends it, its row in between.
TrailInv ==
  /\ request \in {Nobody} \cup [stage : {"call", "record", "show"}, route : Routes]
  /\ served \in 0 .. MaxRequests /\ changes \in Nat /\ faults \in Nat
  /\ trail \in [real : Nat, other : Nat]
  /\ changes + Tally(request.stage = "call") <= served
  /\ faults + Tally(request.stage # "idle") <= served
  /\ trail.other + Tally(request.stage \in {"call", "record"}) <= served
  /\ trail.real + Due <= changes
  /\ changes <= trail.real + faults + Due

LEMMA Counted == MaxRequests \in Nat /\ \A b : Tally(b) \in {0, 1}
BY AdminAssumption DEF Tally

LEMMA TrailHolds == TrailInv => AdminTypeOK /\ TrailKeepsUp
<1> SUFFICES ASSUME TrailInv PROVE AdminTypeOK /\ TrailKeepsUp
  OBVIOUS
<1>1. /\ request.stage \in {"idle", "call", "record", "show"}
      /\ request.stage # "idle" => request.route \in Routes
  BY DEF TrailInv, Nobody
<1>2. Due \in {0, 1} /\ (request.stage = "idle" => Due = 0)
  BY Counted DEF Due, Tally
<1>3. trail.real \in Nat /\ trail.other \in Nat
  BY DEF TrailInv
<1>4. changes \in 0 .. served /\ faults \in 0 .. served
  BY Counted DEF TrailInv
<1>5. trail.real \in 0 .. served /\ trail.other \in 0 .. served /\ trail.real <= changes
  BY <1>2, <1>3, <1>4, Counted DEF TrailInv
<1>6. trail \in [real : 0 .. served, other : 0 .. served]
  BY <1>5 DEF TrailInv
<1>7. request.stage = "idle" => changes <= trail.real + faults
  BY <1>2, <1>3 DEF TrailInv
<1> QED
  BY <1>1, <1>4, <1>5, <1>6, <1>7 DEF TrailInv, AdminTypeOK, TrailKeepsUp

LEMMA TrailBegins == AdminInit => TrailInv
<1> SUFFICES ASSUME AdminInit PROVE TrailInv
  OBVIOUS
<1>1. request = Nobody /\ request.stage = "idle"
  BY DEF AdminInit, Nobody
<1>2. trail \in [real : Nat, other : Nat] /\ trail.real = 0 /\ trail.other = 0
  BY DEF AdminInit
<1>3. /\ Due = 0 /\ Tally(request.stage = "call") = 0 /\ Tally(request.stage # "idle") = 0
      /\ Tally(request.stage \in {"call", "record"}) = 0
  BY <1>1 DEF Due, Tally
<1> QED
  BY <1>1, <1>2, <1>3, Counted DEF AdminInit, TrailInv

\* What a step has to show of the request and of the counters.
LEMMA TrailStays ==
  ASSUME request' \in {Nobody} \cup [stage : {"call", "record", "show"}, route : Routes],
         served' \in 0 .. MaxRequests, changes' \in Nat, faults' \in Nat,
         trail' \in [real : Nat, other : Nat],
         changes' + Tally(request'.stage = "call") <= served',
         faults' + Tally(request'.stage # "idle") <= served',
         trail'.other + Tally(request'.stage \in {"call", "record"}) <= served',
         NEW due \in {0, 1}, Due' = due,
         trail'.real + due <= changes', changes' <= trail'.real + faults' + due
  PROVE  TrailInv'
BY DEF TrailInv

\* A request that ends leaves nothing due.
LEMMA EndsRequest ==
  ASSUME TrailInv, request.stage # "idle", request' = Nobody,
         NEW made \in {0, 1}, made = 1 => request.stage = "call",
         NEW fault \in {0, 1}, made <= fault, Due <= fault,
         changes' = changes + made, faults' = faults + fault,
         UNCHANGED <<served, trail>>
  PROVE  TrailInv'
<1>1. request'.stage = "idle"
  BY DEF Nobody
<1>2. /\ Due' = 0 /\ Tally(request'.stage = "call") = 0 /\ Tally(request'.stage # "idle") = 0
      /\ Tally(request'.stage \in {"call", "record"}) = 0
  BY <1>1 DEF Due, Tally
<1>3. /\ Due \in {0, 1} /\ Tally(request.stage # "idle") = 1
      /\ Tally(request.stage = "call") \in {0, 1} /\ Tally(request.stage \in {"call", "record"}) \in {0, 1}
      /\ made = 1 => Tally(request.stage = "call") = 1 /\ Due = 0
  BY DEF Due, Tally
<1>4. trail.real \in Nat /\ trail.other \in Nat /\ served \in Nat
  BY Counted DEF TrailInv
<1>5. /\ changes' \in Nat /\ faults' \in Nat /\ changes' <= served /\ faults' <= served
      /\ trail.other <= served /\ trail.real <= changes' /\ changes' <= trail.real + faults'
  BY <1>3, <1>4 DEF TrailInv
<1> QED
  BY <1>2, <1>4, <1>5, TrailStays DEF TrailInv

LEMMA TrailStep == TrailInv /\ [AdminNext]_adminVars => TrailInv'
<1> SUFFICES ASSUME TrailInv, [AdminNext]_adminVars PROVE TrailInv'
  OBVIOUS
<1>0. /\ trail.real \in Nat /\ trail.other \in Nat /\ served \in Nat /\ MaxRequests \in Nat
      /\ Due \in {0, 1}
  BY Counted DEF TrailInv, Due
<1>1. ASSUME NEW r \in Routes, RequestBegin(r) PROVE TrailInv'
  <2>1. /\ request' = [stage |-> "call", route |-> r] /\ request'.stage = "call"
        /\ served < MaxRequests /\ served' = served + 1 /\ UNCHANGED <<changes, trail, faults>>
        /\ request.stage = "idle"
    BY <1>1 DEF RequestBegin
  <2>2. /\ Tally(request.stage = "call") = 0 /\ Tally(request.stage # "idle") = 0 /\ Due = 0
        /\ Tally(request.stage \in {"call", "record"}) = 0
        /\ Tally(request'.stage = "call") = 1 /\ Tally(request'.stage # "idle") = 1 /\ Due' = 0
        /\ Tally(request'.stage \in {"call", "record"}) = 1
    BY <2>1 DEF Tally, Due
  <2>3. request' \in {Nobody} \cup [stage : {"call", "record", "show"}, route : Routes]
    BY <2>1
  <2> QED
    BY <1>0, <2>1, <2>2, <2>3, TrailStays DEF TrailInv
<1>2. CASE Returned
  <2>1. /\ request \in [stage : {"call", "record", "show"}, route : Routes]
        /\ request.stage = "call" /\ request'.stage = "record" /\ request'.route = request.route
        /\ request' = [request EXCEPT !.stage = "record"] /\ UNCHANGED <<served, trail, faults>>
        /\ changes' = changes + Tally(IsChange(request.route))
    BY <1>2 DEF Returned, TrailInv, Nobody
  <2>2. /\ Tally(request.stage = "call") = 1 /\ Tally(request.stage # "idle") = 1 /\ Due = 0
        /\ Tally(request.stage \in {"call", "record"}) = 1
        /\ Tally(request'.stage = "call") = 0 /\ Tally(request'.stage # "idle") = 1
        /\ Tally(request'.stage \in {"call", "record"}) = 1
        /\ Due' = Tally(IsChange(request.route)) /\ Tally(IsChange(request.route)) \in {0, 1}
    BY <2>1 DEF Tally, Due
  <2>3. request' \in {Nobody} \cup [stage : {"call", "record", "show"}, route : Routes]
    BY <2>1
  <2> QED
    BY <1>0, <2>1, <2>2, <2>3, TrailStays DEF TrailInv
<1>3. CASE Refused \/ Answer \/ FollowUpFails \/ RecordFails \/ PanelDies
  <2>1. /\ request.stage # "idle" /\ request' = Nobody /\ UNCHANGED <<served, changes, trail>>
        /\ \/ faults' = faults + 1
           \/ faults' = faults /\ request.stage # "record"
    BY <1>3 DEF Refused, Answer, FollowUpFails, RecordFails, PanelDies
  <2>2. PICK fault \in {0, 1} : faults' = faults + fault /\ Due <= fault
    <3>1. request.stage # "record" => Due = 0
      BY DEF Due, Tally
    <3>2. faults \in Nat
      BY DEF TrailInv
    <3> QED
      BY <1>0, <2>1, <3>1, <3>2
  <2>3. changes' = changes + 0
    BY <2>1 DEF TrailInv
  <2> QED
    BY <2>1, <2>2, <2>3, EndsRequest
<1>4. CASE AnswerLost
  <2>1. /\ request.stage = "call" /\ request' = Nobody /\ UNCHANGED <<served, trail>>
        /\ changes' = changes + Tally(IsChange(request.route)) /\ faults' = faults + 1
    BY <1>4 DEF AnswerLost
  <2>2. Due = 0 /\ Tally(IsChange(request.route)) \in {0, 1}
    BY <2>1, Counted DEF Due, Tally
  <2> QED
    BY <2>1, <2>2, EndsRequest
<1>5. CASE Record
  <2>1. /\ request \in [stage : {"call", "record", "show"}, route : Routes]
        /\ request.stage = "record" /\ request'.stage = "show"
        /\ request' = [request EXCEPT !.stage = "show"] /\ UNCHANGED <<served, changes, faults>>
    <3>1. /\ request.stage = "record" /\ request' = [request EXCEPT !.stage = "show"]
          /\ UNCHANGED <<served, changes, faults>>
      BY <1>5 DEF Record
    <3>2. request \in [stage : {"call", "record", "show"}, route : Routes]
      BY <3>1 DEF TrailInv, Nobody
    <3> QED
      BY <3>1, <3>2
  <2>2. /\ Tally(request.stage = "call") = 0 /\ Tally(request.stage # "idle") = 1
        /\ Tally(request.stage \in {"call", "record"}) = 1
        /\ Tally(request'.stage = "call") = 0 /\ Tally(request'.stage # "idle") = 1
        /\ Tally(request'.stage \in {"call", "record"}) = 0 /\ Due' = 0
    BY <2>1 DEF Tally, Due
  <2>3. request' \in {Nobody} \cup [stage : {"call", "record", "show"}, route : Routes]
    BY <2>1
  <2>4. Due = IF IsChange(request.route) THEN 1 ELSE 0
    BY <2>1 DEF Due, Tally
  <2>5. request.route.action = "" => ~IsChange(request.route)
    BY <2>1, AdminAssumption
  <2>6. /\ trail' \in [real : Nat, other : Nat] /\ trail'.other <= trail.other + 1
        /\ trail'.real = trail.real + Due
    <3>1. /\ trail \in [real : Nat, other : Nat]
          /\ \/ trail' = trail /\ ~IsChange(request.route)
             \/ trail' = [trail EXCEPT !.real = @ + 1] /\ IsChange(request.route)
             \/ trail' = [trail EXCEPT !.other = @ + 1] /\ ~IsChange(request.route)
      BY <1>5, <2>5 DEF Record, TrailInv
    <3> QED
      BY <1>0, <2>4, <3>1
  <2>7. /\ changes' \in Nat /\ faults' \in Nat /\ served' \in 0 .. MaxRequests
        /\ trail'.other <= served /\ trail'.real <= changes /\ changes <= trail'.real + faults
        /\ faults + 1 <= served /\ changes <= served
    BY <1>0, <2>1, <2>2, <2>6 DEF TrailInv
  <2> QED
    BY <1>0, <2>1, <2>2, <2>3, <2>6, <2>7, TrailStays
<1>6. CASE UNCHANGED adminVars
  BY <1>6 DEF adminVars, TrailInv, Due
<1> QED
  BY <1>1, <1>2, <1>3, <1>4, <1>5, <1>6 DEF AdminNext

\* However requests are refused, their answers lost, what follows the call
\* fails and the panel is killed, the trail tells of no change that was not
\* made, and between requests it misses at most one change per lost answer,
\* failed statement after the call, or death of the panel.
THEOREM TrailIsKept == AdminSpec => []TrailKeepsUp
<1>1. AdminSpec => []TrailInv
  BY TrailBegins, TrailStep, PTL DEF AdminSpec
<1> QED
  BY <1>1, TrailHolds, PTL

-----------------------------------------------------------------------------
(****************************** editing a record ****************************)

AllEdits == EditInit /\ [][EditNext]_editVars

\* The methods that write a record back can pass on every field of it.
Fits(k) == Fields(k) \subseteq Sends(KindOf[k].set)

Edited == [at : {"read", "written", "raised"}, field : Changeable(kind),
           means : {"typed", "screen", "merged"}, read : [Fields(kind) -> Contents]]

EditInv ==
  /\ kind \in EditKinds
  /\ record \in [Fields(kind) -> Contents]
  /\ edit \in {[at |-> "idle"]} \cup Edited

LEMMA HubFits == Fits("hub")
BY DEF Fits, Fields, KindOf, Kind, Sends, Method, Ask, set_hub, HubRecord, HubSettings

LEMMA UserFits == Fits("user")
BY DEF Fits, Fields, KindOf, Kind, Sends, Method, Ask, set_user, UserRecord, UserSettings, UserPolicy

LEMMA GroupFits == Fits("group")
BY DEF Fits, Fields, KindOf, Kind, Sends, Method, Ask, set_group, GroupRecord, GroupSettings, UserPolicy

LEMMA CrlFits == Fits("crl")
BY DEF Fits, Fields, KindOf, Kind, Sends, Method, Ask, set_crl, CrlRecord, RevokedName

LEMMA NatFits == Fits("nat")
BY DEF Fits, Fields, KindOf, Kind, Sends, Method, Ask, set_securenat_option, NatRecord, SecureNatOptions

LEMMA RadiusFits == Fits("radius")
BY DEF Fits, Fields, KindOf, Kind, Sends, Method, Ask, set_hub_radius, RadiusRecord

LEMMA LogFits == Fits("log")
BY DEF Fits, Fields, KindOf, Kind, Sends, Method, Ask, set_hub_log, LogRecord

LEMMA KeepFits == Fits("keep")
BY DEF Fits, Fields, KindOf, Kind, Sends, Method, Ask, set_keep, KeepRecord

LEMMA IPsecFits == Fits("ipsec")
BY DEF Fits, Fields, KindOf, Kind, Sends, Method, Ask, set_ipsec_services, IPsecRecord

LEMMA PlainFit == \A k \in PlainKinds : Fits(k)
BY HubFits, UserFits, GroupFits, CrlFits, NatFits, RadiusFits, LogFits, KeepFits, IPsecFits
   DEF PlainKinds

\* A cascade's is the exception: its certificate of the server, its proxy and
\* three of its flags are in the record and in no argument of set_link.
LEMMA CascadesDoNotFit == ~Fits("link")
<1>1. "ServerCert_bin" \in Fields("link")
  BY DEF Fields, KindOf, Kind, LinkRecord
<1>2. "ServerCert_bin" \notin Sends(KindOf["link"].set)
  BY DEF KindOf, Kind, Sends, Method, Ask, set_link, LinkTarget, LinkPolicy, LinkSettings, SharedPolicy
<1> QED
  BY <1>1, <1>2 DEF Fits

LEMMA EditBegins == EditInit => EditInv /\ EditKeepsRest
BY DEF EditInit, EditInv, EditKeepsRest, Contents

LEMMA EditTyped == EditInv => EditTypeOK
<1> SUFFICES ASSUME EditInv PROVE EditTypeOK
  OBVIOUS
<1>1. edit.at \in {"idle", "read", "written", "raised"}
  BY DEF EditInv, Edited
<1> QED
  BY <1>1 DEF EditInv, EditTypeOK

\* What a Set that carries these fields leaves of the record.
LEMMA Replaced ==
  ASSUME EditInv, NEW params, Replace(params),
         \A f \in Fields(kind) \cap DOMAIN params : params[f] \in Contents
  PROVE  /\ record' \in [Fields(kind) -> Contents]
         /\ \A f \in Fields(kind) \cap DOMAIN params : record'[f] = params[f]
BY DEF Replace, Contents

\* What is packed of a typed write that is sent: of the fields of the record,
\* what it carries are the edited one and, as they were read, others; each of
\* them if the method has it.
LEMMA TypedKeeps ==
  ASSUME EditInv, edit.at = "read", NEW value \in {"new", None, Unfit},
         Encodes(Arguments(value)), NEW f \in Fields(kind)
  PROVE  LET p == Pack(Arguments(value))
         IN /\ Fits(kind) /\ f # edit.field => f \in DOMAIN p /\ p[f] = edit.read[f]
            /\ f \in DOMAIN p => p[f] \in Contents
<1> DEFINE a == Arguments(value)
<1>1. edit \in Edited
  BY DEF EditInv
<1>2. edit.read \in [Fields(kind) -> Contents]
  BY <1>1 DEF Edited
<1>3. /\ f \in DOMAIN a => a[f] = IF f = edit.field THEN value ELSE edit.read[f]
      /\ Fits(kind) => f \in DOMAIN a
  BY <1>2 DEF Arguments, Fits
<1>4. f \in DOMAIN a => a[f] # Unfit
  BY DEF Encodes
<1>5. None \notin Contents /\ edit.read[f] \in Contents /\ "new" \in Contents
  BY <1>2, EditAssumption DEF Contents
<1>6. /\ f \in DOMAIN Pack(a) <=> f \in DOMAIN a /\ a[f] # None
      /\ f \in DOMAIN Pack(a) => Pack(a)[f] = a[f]
  BY DEF Pack
<1> QED
  BY <1>3, <1>4, <1>5, <1>6

LEMMA EditStep ==
  ASSUME EditInv, [EditNext]_editVars
  PROVE  EditInv' /\ (Fits(kind) /\ EditKeepsRest => EditKeepsRest')
<1> DEFINE Goal == EditInv' /\ (Fits(kind) /\ EditKeepsRest => EditKeepsRest')
<1>1. ASSUME NEW f \in Fields(kind), NEW means \in {"typed", "screen", "merged"},
             ReadRecord(f, means)
      PROVE  Goal
  <2>1. /\ edit' = [at |-> "read", field |-> f, means |-> means, read |-> record]
        /\ UNCHANGED <<kind, record>> /\ f \in Changeable(kind)
    BY <1>1 DEF ReadRecord
  <2>2. Changeable(kind)' = Changeable(kind) /\ Fields(kind)' = Fields(kind)
    BY <2>1
  <2>3. edit' \in Edited' /\ edit'.at = "read"
    BY <2>1, <2>2 DEF Edited, EditInv
  <2> QED
    BY <2>1, <2>2, <2>3 DEF EditInv, EditKeepsRest
<1>2. ASSUME NEW f \in Fields(kind), Meanwhile(f) PROVE Goal
  <2>1. /\ record' = [record EXCEPT ![f] = "theirs"] /\ UNCHANGED <<kind, edit>>
        /\ edit.at = "read"
    BY <1>2 DEF Meanwhile
  <2>2. Edited' = Edited /\ Fields(kind)' = Fields(kind)
    BY <2>1 DEF Edited
  <2>3. record' \in [Fields(kind) -> Contents]
    BY <2>1 DEF EditInv, Contents
  <2> QED
    BY <2>1, <2>2, <2>3 DEF EditInv, EditKeepsRest
<1>3. ASSUME edit.at = "read", edit' = [edit EXCEPT !.at = "written"], UNCHANGED kind,
             record' \in [Fields(kind) -> Contents],
             Fits(kind) => \A f \in Fields(kind) \ {edit.field} : record'[f] = edit.read[f]
      PROVE  Goal
  <2>1. edit \in Edited
    BY <1>3 DEF EditInv
  <2>2. Edited' = Edited /\ Fields(kind)' = Fields(kind)
    BY <1>3 DEF Edited
  <2>3. edit' \in Edited /\ edit'.field = edit.field /\ edit'.read = edit.read
    BY <1>3, <2>1 DEF Edited
  <2> QED
    BY <1>3, <2>2, <2>3 DEF EditInv, EditKeepsRest
<1>4. ASSUME NEW value \in {"new", None, Unfit}, WriteTyped(value) PROVE Goal
  <2>1. edit.at = "read" /\ UNCHANGED kind
    BY <1>4 DEF WriteTyped
  <2>2. CASE Encodes(Arguments(value))
    <3> DEFINE p == Pack(Arguments(value))
    <3>1. Replace(p) /\ edit' = [edit EXCEPT !.at = "written"]
      BY <1>4, <2>2 DEF WriteTyped
    <3>2. \A f \in Fields(kind) :
             /\ Fits(kind) /\ f # edit.field => f \in DOMAIN p /\ p[f] = edit.read[f]
             /\ f \in DOMAIN p => p[f] \in Contents
      BY <2>1, <2>2, TypedKeeps
    <3> HIDE DEF p
    <3>3. /\ record' \in [Fields(kind) -> Contents]
          /\ \A f \in Fields(kind) \cap DOMAIN p : record'[f] = p[f]
      BY <3>1, <3>2, Replaced
    <3> QED
      BY <1>3, <2>1, <3>1, <3>2, <3>3
  <2>3. CASE ~Encodes(Arguments(value))
    <3>1. edit' = [edit EXCEPT !.at = "raised"] /\ UNCHANGED record
      BY <1>4, <2>3 DEF WriteTyped
    <3>2. edit \in Edited
      BY <2>1 DEF EditInv
    <3>3. Edited' = Edited /\ Fields(kind)' = Fields(kind)
      BY <2>1 DEF Edited
    <3>4. edit' \in Edited /\ edit'.at = "raised"
      BY <3>1, <3>2 DEF Edited
    <3> QED
      BY <2>1, <3>1, <3>3, <3>4 DEF EditInv, EditKeepsRest
  <2> QED
    BY <2>2, <2>3
<1>5. CASE WriteWire
  <2> DEFINE body == IF edit.means = "screen" THEN edit.read
                     ELSE [f \in {edit.field} |-> "new"]
             current == IF edit.means = "merged" THEN edit.read ELSE body
             p == [f \in DOMAIN current \cup DOMAIN body |->
                      IF f = edit.field THEN "new" ELSE current[f]]
  <2>1. /\ edit.at = "read" /\ edit.means \in {"screen", "merged"} /\ UNCHANGED kind
        /\ Replace(p) /\ edit' = [edit EXCEPT !.at = "written"]
    BY <1>5 DEF WriteWire
  <2>2. edit \in Edited
    BY <2>1 DEF EditInv
  <2>3. edit.read \in [Fields(kind) -> Contents] /\ edit.field \in Fields(kind)
    BY <2>2 DEF Edited, Changeable
  <2>4. current = edit.read
    BY <2>1
  <2>5. /\ DOMAIN p = Fields(kind)
        /\ \A f \in Fields(kind) : p[f] = IF f = edit.field THEN "new" ELSE edit.read[f]
    <3>1. DOMAIN body \subseteq Fields(kind)
      BY <2>3
    <3> QED
      BY <2>3, <2>4, <3>1
  <2> HIDE DEF p
  <2>6. \A f \in Fields(kind) : p[f] \in Contents
    BY <2>3, <2>5 DEF Contents
  <2>7. /\ record' \in [Fields(kind) -> Contents]
        /\ \A f \in Fields(kind) : record'[f] = p[f]
    BY <2>1, <2>5, <2>6, Replaced
  <2> QED
    BY <1>3, <2>1, <2>5, <2>7
<1>6. CASE EditEnd
  <2>1. /\ edit' = [at |-> "idle"] /\ UNCHANGED kind
        /\ record' = [f \in Fields(kind) |-> "was"]
    BY <1>6 DEF EditEnd
  <2> QED
    BY <2>1 DEF EditInv, EditKeepsRest, Contents
<1>7. CASE UNCHANGED editVars
  BY <1>7 DEF editVars, EditInv, EditKeepsRest, Edited
<1> QED
  BY <1>1, <1>2, <1>4, <1>5, <1>6, <1>7 DEF EditNext

\* Editing one field of a record, whichever of the nine kinds other than a
\* cascade's, leaves every other field as it was read.
THEOREM EditsKeepTheRest ==
  ASSUME EditKinds \subseteq PlainKinds
  PROVE  AllEdits => []EditKeepsRest
<1>1. EditInv => Fits(kind)
  BY PlainFit DEF EditInv
<1>2. EditInv /\ EditKeepsRest /\ [EditNext]_editVars => (EditInv /\ EditKeepsRest)'
  BY <1>1, EditStep
<1>3. AllEdits => [](EditInv /\ EditKeepsRest)
  BY <1>2, EditBegins, PTL DEF AllEdits
<1> QED
  BY <1>3, PTL

-----------------------------------------------------------------------------
(*************************** the parts together ****************************)

\* Requests for accounts that may overlap as well keep to their types.
LEMMA CredTyped == CredInv => CredTypeOK
<1> SUFFICES ASSUME CredInv PROVE CredTypeOK
  OBVIOUS
<1>1. \A j \in Jobs : j.at \in {"free", "remember", "forget", "obtain", "save", "look", "keep"}
  BY DEF Jobs, Free, Stages
<1> QED
  BY <1>1 DEF CredInv, CredTypeOK

LEMMA CredTypesBegin == CredInit => CredInv
BY CredAssumption DEF CredInit, CredInv, Jobs

LEMMA CredTypesStep == CredInv /\ [CredNext]_credVars => CredInv'
<1> SUFFICES ASSUME CredInv, [CredNext]_credVars PROVE CredInv'
  OBVIOUS
<1>1. CASE UNCHANGED credVars
  BY <1>1 DEF credVars, CredInv
<1>2. \A c \in Clerks : clerk[c].at # "free" => clerk[c].hash \in Hashes \cup {Nil}
  BY DEF CredInv, Jobs, Free
<1>3. ASSUME NEW c \in Clerks, NEW to \in Stages, NEW h \in Hashes \cup {Nil}, Goes(c, to, h)
      PROVE  clerk' \in [Clerks -> Jobs]
  <2>1. [at |-> to, hash |-> h] \in Jobs
    BY DEF Jobs
  <2> QED
    BY <1>3, <2>1 DEF Goes, CredInv
<1>4. ASSUME NEW c \in Clerks, Ends1(c) PROVE clerk' \in [Clerks -> Jobs]
  BY <1>4 DEF Ends1, CredInv, Jobs
<1>5. Act => acts' \in 0 .. MaxActs
  BY CredAssumption DEF Act, CredInv
<1>6. ASSUME NEW c \in Clerks, NEW h \in Hashes, CreateUser(c, h) PROVE CredInv'
  BY <1>3, <1>5, <1>6 DEF CreateUser, Accept, CredInv, Stages
<1>7. ASSUME NEW c \in Clerks, NEW h \in Hashes \cup {Nil}, SetUser(c, h) PROVE CredInv'
  BY <1>3, <1>5, <1>7 DEF SetUser, Accept, CredInv, Stages
<1>8. ASSUME NEW c \in Clerks, Remember(c) \/ ForgetUser(c) PROVE CredInv'
  BY <1>2, <1>4, <1>8 DEF Remember, ForgetUser, CredInv
<1>9. ASSUME NEW c \in Clerks, DeleteUser(c) \/ CredentialState(c) PROVE CredInv'
  BY <1>3, <1>5, <1>9 DEF DeleteUser, CredentialState, Accept, CredInv, Stages
<1>10. ASSUME NEW c \in Clerks, NEW typed \in Hashes \cup {Nil}, VpnFile(c, typed) PROVE CredInv'
  BY <1>3, <1>5, <1>10 DEF VpnFile, Accept, CredInv, Stages
<1>11. ASSUME NEW c \in Clerks, SaveTyped(c) \/ Keep(c) PROVE CredInv'
  BY <1>2, <1>4, <1>11 DEF SaveTyped, Keep, Hand, CredInv
<1>12. ASSUME NEW c \in Clerks, Obtain(c) PROVE CredInv'
  <2>1. UNCHANGED <<account, cached, acts>> /\ account \in Hashes \cup {Nil}
    BY <1>12 DEF Obtain, CredInv
  <2>2. clerk' \in [Clerks -> Jobs]
    <3>1. Ends1(c) \/ Goes(c, "save", account) \/ Goes(c, "keep", account)
      BY <1>12 DEF Obtain, Hand
    <3> QED
      BY <1>3, <1>4, <2>1, <3>1 DEF Stages
  <2> QED
    BY <2>1, <2>2 DEF CredInv
<1>13. ASSUME NEW h \in Hashes, MadeElsewhere(h) PROVE CredInv'
  BY <1>5, <1>13 DEF MadeElsewhere, CredInv
<1> QED
  BY <1>1, <1>6, <1>7, <1>8, <1>9, <1>10, <1>11, <1>12, <1>13 DEF CredNext

\* A step of one part is a step of that part alone.
LEMMA PartSteps ==
  ASSUME [Next]_vars
  PROVE  /\ [SessionsNext]_sessionVars /\ [AdminNext]_adminVars
         /\ [EditNext]_editVars /\ [CredNext]_credVars
BY DEF Next, OfHistory, OfRoutes, OfEdits, OfAccounts, vars

LEMMA PartsBegin == Init => SessionsInit /\ AdminInit /\ EditInit /\ CredInit
BY DEF Init

\* Side by side, each part is as it is alone.
LEMMA SideBySide == Spec => SessionsSpec /\ AdminSpec /\ AllEdits /\ CredSpec
BY PartSteps, PartsBegin, PTL DEF Spec, SessionsSpec, AdminSpec, AllEdits, CredSpec

\* Every part keeps to its types: the rows and series of the session history,
\* the counts of the audit trail, the fields of the record that is edited, the
\* threads that serve accounts.
THEOREM ServerTyped == Spec => []TypeOK
<1>1. TrailInv => AdminTypeOK
  BY TrailHolds
<1>2. EditInv /\ [EditNext]_editVars => EditInv'
  BY EditStep
<1>3. Spec => [](SessionsTypeOK /\ AdminTypeOK /\ EditTypeOK /\ CredTypeOK)
  BY SideBySide, SessionsTyped, TrailBegins, TrailStep, <1>1, EditBegins, <1>2, EditTyped,
     CredTypesBegin, CredTypesStep, CredTyped, PTL DEF AdminSpec, AllEdits, CredSpec
<1> QED
  BY <1>3, PTL DEF TypeOK

\* The same of the parts' properties: history and sessions are reconciled, no
\* chart shows more than was moved, the trail misses no more than what failed,
\* edits of the plain kinds keep the rest, and the files of
\* requests that follow one another sign in.
THEOREM ServerKeepsItsWord ==
  ASSUME EditKinds \subseteq PlainKinds, ~MayRace
  PROVE  Spec => [](/\ SessionsReconciled /\ UsageWithinMoved
                      /\ TrailKeepsUp /\ EditKeepsRest /\ FileSignsIn)
<1>1. Spec => []SessionsReconciled /\ []UsageWithinMoved /\ []TrailKeepsUp
  BY SideBySide, Reconciled, UsageStaysWithin, TrailIsKept, PTL
<1>2. Spec => []EditKeepsRest /\ []FileSignsIn
  BY SideBySide, EditsKeepTheRest, FilesSignIn, PTL
<1> QED
  BY <1>1, <1>2, PTL
=============================================================================
