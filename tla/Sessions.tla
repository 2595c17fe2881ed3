------------------------------ MODULE Sessions ------------------------------
(***************************************************************************)
(* The session history: app/services/sampler.py reconciles the sessions    *)
(* the VPN server lists against the rows of VpnSessionSample, keeps a      *)
(* series of cumulative readings for each, and prunes both; the usage      *)
(* routes of app/routers/se_hub.py read movements back out of the series.  *)
(* One thread samples and prunes, so the two never overlap; sessions come, *)
(* move bytes and go at any moment between its statements.                 *)
(***************************************************************************)
EXTENDS Naturals, Sequences, FiniteSets

CONSTANTS Keys,         \* UniqueId_bin of the sessions there will be
          MaxMoved,     \* bound: the bytes one session moves
          MaxPoints,    \* bound: the readings one series holds
          Stale,        \* _STALE_SESSION_HOURS, on the scale ages are told
          Retention     \* session_history_retention_days, on the same scale

ASSUME SessionAssumption ==
    /\ MaxMoved \in Nat /\ MaxPoints \in Nat
    /\ Stale \in Nat \ {0} /\ Retention \in Nat \ {0}
    /\ "done" \notin Keys      \* what a finished pass is marked with

VARIABLES
    session,   \* what became of each session: new, live or gone
    moved,     \* its running total at the server, in its client's download
    hubThere,  \* the hub is among those EnumHub lists
    monitor,   \* the settings session_monitor_enabled, session_traffic_enabled
    rows,      \* VpnSessionSample: none, open or ended, per session
    unseen,    \* age of LastSeenDate; EndedDate is always set to that date
    download,  \* DownloadBytes of the row
    series,    \* VpnSessionTrafficSample of the row, oldest first
    scan,      \* the pass that is running, or the last one
    closedStale, \* history: live sessions whose row was closed as stale
    unread     \* history: sessions of which a status call failed

sessionVars == <<session, moved, hubThere, monitor, rows, unseen, download,
                 series, scan, closedStale, unread>>

Live == {k \in Keys : session[k] = "live"}
Open == {k \in Keys : rows[k] = "open"}
Oldest == IF Stale > Retention THEN Stale ELSE Retention  \* older is no news

Idle == [at |-> "idle", live |-> {}, open |-> {}, asked |-> {}, wants |-> FALSE,
         read |-> [k \in Keys |-> 0]]

SessionsInit ==
    /\ session = [k \in Keys |-> "new"] /\ moved = [k \in Keys |-> 0]
    /\ hubThere = TRUE /\ monitor = [sessions |-> TRUE, series |-> TRUE]
    /\ rows = [k \in Keys |-> "none"] /\ unseen = [k \in Keys |-> 0]
    /\ download = [k \in Keys |-> 0] /\ series = [k \in Keys |-> <<>>]
    /\ scan = Idle /\ closedStale = {} /\ unread = {}

(************************* the server's sessions ***************************)

rowVars == <<rows, unseen, download, series, closedStale>>

Connect(k) ==
    /\ hubThere /\ session[k] = "new"
    /\ session' = [session EXCEPT ![k] = "live"]
    /\ UNCHANGED <<moved, hubThere, monitor, rowVars, scan, unread>>

Move(k) ==
    /\ session[k] = "live" /\ moved[k] < MaxMoved
    /\ moved' = [moved EXCEPT ![k] = @ + 1]
    /\ UNCHANGED <<session, hubThere, monitor, rowVars, scan, unread>>

Disconnect(k) ==
    /\ session[k] = "live"
    /\ session' = [session EXCEPT ![k] = "gone"]
    /\ UNCHANGED <<moved, hubThere, monitor, rowVars, scan, unread>>

DropHub ==
    /\ hubThere /\ hubThere' = FALSE
    /\ session' = [k \in Keys |-> "gone"]
    /\ UNCHANGED <<moved, monitor, rowVars, scan, unread>>

SwitchMonitor ==
    /\ \E flag \in {"sessions", "series"} :
           monitor' = [monitor EXCEPT ![flag] = ~@]
    /\ UNCHANGED <<session, moved, hubThere, rowVars, scan, unread>>

\* A day goes by without a sighting: the panel is down, the server does not
\* answer, or the monitor is off.
Day ==
    /\ scan.at = "idle" /\ \E k \in Keys : unseen[k] < Oldest
    /\ unseen' = [k \in Keys |-> IF rows[k] # "none" /\ unseen[k] < Oldest
                                 THEN unseen[k] + 1 ELSE unseen[k]]
    /\ unseen' # unseen
    /\ scan' = Idle
    /\ UNCHANGED <<session, moved, hubThere, monitor, rows, download, series,
                   closedStale, unread>>

(****************************** one pass ***********************************)

\* What is connected, and which rows are open.
ScanBegin ==
    /\ scan.at = "idle" /\ monitor.sessions /\ hubThere
    /\ \A k \in Keys : Len(series[k]) < MaxPoints
    /\ scan' = [Idle EXCEPT !.at = "ask", !.live = Live, !.open = Open,
                            !.wants = monitor.series]
    /\ UNCHANGED <<session, moved, hubThere, monitor, rowVars, unread>>

\* GetSessionStatus of one session: its totals, or zeroes when it cannot be
\* asked; without the series nobody asks.
Readings(k) ==
    IF ~scan.wants THEN {0}
    ELSE {0} \cup {moved[n] : n \in {k} \cap Live}

\* The row is refreshed, or opened unless its key is taken.
ScanOne(k, reading) ==
    /\ scan.at = "ask" /\ k \in scan.live \ scan.asked
    /\ reading \in Readings(k)
    /\ LET seen == k \in scan.open \/ rows[k] = "none" IN
       /\ rows' = IF seen THEN [rows EXCEPT ![k] = "open"] ELSE rows
       /\ unseen' = IF seen THEN [unseen EXCEPT ![k] = 0] ELSE unseen
       /\ download' = IF seen THEN [download EXCEPT ![k] = reading]
                      ELSE download
    /\ scan' = [scan EXCEPT !.asked = @ \cup {k}, !.read[k] = reading]
    /\ unread' = IF scan.wants /\ reading # moved[k]
                 THEN unread \cup {k} ELSE unread
    /\ UNCHANGED <<session, moved, hubThere, monitor, series, closedStale>>

\* One reading per live session whose row is open by now.
ScanPoints ==
    /\ scan.at = "ask" /\ scan.asked = scan.live
    /\ scan' = [scan EXCEPT !.at = "close"]
    /\ LET pointed == {k \in scan.live \cap Open : scan.wants} IN
       series' = [k \in Keys |-> IF k \in pointed
                                 THEN Append(series[k], scan.read[k])
                                 ELSE series[k]]
    /\ UNCHANGED <<session, moved, hubThere, monitor, rows, unseen, download,
                   closedStale, unread>>

\* Mutant of Vanished: rows nothing was read for are passed over.
VanishedWithPoints == {k \in scan.open \ scan.live : series[k] # <<>>}

\* Rows that were open when the pass began and whose session was not listed.
Vanished == scan.open \ scan.live
ScanClose ==
    /\ scan.at = "close"
    /\ rows' = [k \in Keys |-> IF k \in Vanished /\ rows[k] = "open"
                               THEN "ended" ELSE rows[k]]
    /\ scan' = [Idle EXCEPT !.live = scan.live, !.asked = {"done"}]
    /\ UNCHANGED <<session, moved, hubThere, monitor, unseen, download, series,
                   closedStale, unread>>

\* An exception ends the hub's pass where it stands, or the process dies.
ScanBreaks ==
    /\ scan.at # "idle" /\ scan' = Idle
    /\ UNCHANGED <<session, moved, hubThere, monitor, rowVars, unread>>

(***************************** retention ***********************************)

\* Mutant of Overdue: only while the monitor is on.
OverdueWhileMonitored ==
    {k \in Open : monitor.sessions /\ unseen[k] >= Stale}

\* _prune: rows nobody confirmed for too long are closed, closed rows past
\* the retention go, and their series with them.
Overdue == {k \in Open : unseen[k] >= Stale}
Expired == {k \in Keys : /\ rows[k] = "ended" \/ k \in Overdue
                         /\ unseen[k] >= Retention}
\* Mutant of Prune: the series of a pruned session stays.
PruneRowsOnly ==
    /\ scan.at = "idle"
    /\ rows' = [k \in Keys |-> IF k \in Expired THEN "none"
                               ELSE IF k \in Overdue THEN "ended" ELSE rows[k]]
    /\ unseen' = [k \in Keys |-> IF k \in Expired THEN 0 ELSE unseen[k]]
    /\ download' = [k \in Keys |-> IF k \in Expired THEN 0 ELSE download[k]]
    /\ closedStale' = (closedStale \cup (Overdue \cap Live)) \ Expired
    /\ scan' = Idle
    /\ UNCHANGED <<session, moved, hubThere, monitor, series, unread>>

Prune ==
    /\ scan.at = "idle"
    /\ rows' = [k \in Keys |-> IF k \in Expired THEN "none"
                               ELSE IF k \in Overdue THEN "ended" ELSE rows[k]]
    /\ series' = [k \in Keys |-> IF k \in Expired THEN <<>> ELSE series[k]]
    /\ unseen' = [k \in Keys |-> IF k \in Expired THEN 0 ELSE unseen[k]]
    /\ download' = [k \in Keys |-> IF k \in Expired THEN 0 ELSE download[k]]
    /\ closedStale' = (closedStale \cup (Overdue \cap Live)) \ Expired
    /\ scan' = Idle
    /\ UNCHANGED <<session, moved, hubThere, monitor, unread>>

(****************************** reading back *******************************)

\* Mutant of Delta: no movement counts in full as well.
DeltaUnlessRising(now, before) == IF now <= before THEN now ELSE now - before

\* A reading below the one before counts in full, as after a restart.
Delta(now, before) == IF now < before THEN now ELSE now - before
Sums(points) ==
    LET sum[i \in 0..Len(points)] ==
            IF i < 2 THEN 0 ELSE sum[i - 1] + Delta(points[i], points[i - 1])
    IN sum
Usage(points) == Sums(points)[Len(points)]

(******************************* behaviour *********************************)

ScanRest ==
    \/ ScanPoints \/ ScanClose
    \/ \E k \in Keys, n \in 0..MaxMoved : ScanOne(k, n)

SessionsNext ==
    \/ \E k \in Keys : Connect(k) \/ Move(k) \/ Disconnect(k)
    \/ DropHub \/ SwitchMonitor \/ Day
    \/ ScanBegin \/ ScanRest \/ ScanBreaks \/ Prune

\* A pass that began goes on; days go by; and retention rides on the traffic
\* pass, which comes round again and again and meets a server that answers
\* again and again.
SessionsFairness ==
    /\ WF_sessionVars(ScanRest) /\ SF_sessionVars(Day) /\ SF_sessionVars(Prune)

SessionsSpec == SessionsInit /\ [][SessionsNext]_sessionVars

(***************************** properties **********************************)

\* Bookkeeping of the machine: what each variable holds.
SessionsTypeOK ==
    /\ session \in [Keys -> {"new", "live", "gone"}]
    /\ moved \in [Keys -> 0..MaxMoved] /\ download \in [Keys -> 0..MaxMoved]
    /\ rows \in [Keys -> {"none", "open", "ended"}]
    /\ unseen \in [Keys -> 0..Oldest]
    /\ \A k \in Keys : /\ series[k] \in Seq(0..MaxMoved)
                       /\ Len(series[k]) <= MaxPoints
                       /\ rows[k] = "none" => series[k] = <<>>

\* When a pass is through, the open rows are the sessions it listed: every
\* other row has its end, and a listed session is missing only because its
\* row had been closed as stale before (sampler.py:284-340).
SessionsReconciled ==
    scan.asked = {"done"} =>
        /\ Open \subseteq scan.live
        /\ scan.live \ closedStale \subseteq Open

\* The usage a session's chart adds up never exceeds what the session moved,
\* if each of its status calls was answered (se_hub.py:407, sampler.py:345):
\* also with the series switched off for a while, passes that break off, and
\* rows pruned and opened again.
UsageWithinMoved ==
    \A k \in Keys \ unread : Usage(series[k]) <= moved[k]

\* A session that is gone is closed in the history in the end, whether a
\* pass misses it or, its hub deleted or the monitor off, the retention does
\* (sampler.py:335, 384).
GoneIsClosed ==
    \A k \in Keys : (session[k] = "gone" /\ rows[k] = "open")
                        ~> rows[k] # "open"
=============================================================================
