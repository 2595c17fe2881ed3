--------------------------------- MODULE Updates ---------------------------------
(***************************************************************************)
(* Checking for a release and installing it (services/update_service.py,   *)
(* the update routes of routers/system.py).                                *)
(*                                                                         *)
(* An update is started by this process, carried out by a transient        *)
(* systemd unit that restarts this process, and reported on by whichever   *)
(* process is there to be asked.  What they share is a state file and the  *)
(* unit; either can be lost, and the answer of systemd-run can come too    *)
(* late.  A state file that cannot be read or written, and a systemctl     *)
(* that fails, stop nothing: the panel goes on without what they would say.*)
(***************************************************************************)
EXTENDS Versions, FiniteSets

CONSTANTS
  Tags,         \* the versions a release may carry
  FirstTag,     \* the version installed to begin with
  UpdateBudget, \* bound: how often each kind of event may happen
  MaxMishaps    \* bound: crashes, reboots and what fails, of any kind

\* What may fail and is passed over: the file read, the file written, the unit
\* shown, the unit stopped.
Hitches     == {"unread", "unwritten", "blind", "uncleared"}
UpdateKinds == {"start", "crash", "reboot", "reset", "torn", "check", "slow"} \cup Hitches

ASSUME UpdateAssumption ==
  /\ FirstTag \in Tags
  /\ \A t \in Tags : /\ t.nums \in Nat \X Nat \X Nat
                     /\ t.pre \in Nat /\ t.parsed \in BOOLEAN
  /\ UpdateBudget \in [UpdateKinds -> Nat] /\ MaxMishaps \in Nat

VARIABLES
  running,    \* get_version of this process
  installed,  \* the version whose files are in place
  record,     \* update-state.json
  overdue,    \* the recorded run started more than MAX_RUN_SECONDS ago
  unit,       \* the transient unit, as systemctl show tells it
  goal,       \* the version the installer of the unit puts in place
  start,      \* where UpdateApplier.start is; it holds the lock throughout
  want,       \* the version it was asked for
  checker,    \* UpdateChecker: checking, the latest release, the error
  asked,      \* events so far
  evidence,   \* history: an installer ended well since the recorded start
  strayed     \* history: the unit may not be that of the recorded run

updateVars == <<running, installed, record, overdue, unit, goal, start,
                want, checker, asked, evidence, strayed>>
hostVars   == <<running, installed, unit, goal>>
fileVars   == <<record, overdue, evidence, strayed>>

-----------------------------------------------------------------------------
Stages == {"idle", "running", "failed", "succeeded"}

UpdateTypeOK ==
  /\ running \in Tags /\ installed \in Tags
  /\ record \in [stage : Stages, from : Tags]
  /\ overdue \in BOOLEAN
  /\ unit \in {"none", "active", "exited", "error", "failed"}
  /\ goal \in Tags
  /\ start \in {"idle", "clear", "write", "launch", "again", "relaunch", "giveup"}
  /\ checker \in [checking : BOOLEAN, latest : Tags \cup {NoVersion},
                  error : BOOLEAN]
  /\ \A k \in UpdateKinds : asked[k] \in 0 .. UpdateBudget[k]
  /\ evidence \in BOOLEAN /\ strayed \in BOOLEAN /\ want \in Tags

UpdateInit ==
  /\ running = FirstTag /\ installed = FirstTag
  /\ record = [stage |-> "idle", from |-> FirstTag]
  /\ overdue = FALSE /\ unit = "none" /\ goal = FirstTag /\ start = "idle"
  /\ checker = [checking |-> FALSE, latest |-> NoVersion, error |-> FALSE]
  /\ asked = [k \in UpdateKinds |-> 0]
  /\ evidence = FALSE /\ strayed = FALSE /\ want = FirstTag

Mishaps == asked.crash + asked.reboot + asked.reset + asked.torn
           + asked.unread + asked.unwritten + asked.blind + asked.uncleared
AskAll(ks) ==
  /\ \A k \in ks : asked[k] < UpdateBudget[k]
  /\ asked' = [k \in UpdateKinds |-> IF k \in ks THEN asked[k] + 1 ELSE asked[k]]
  /\ Mishaps' <= MaxMishaps
Ask(k) == AskAll({k})

-----------------------------------------------------------------------------
(* The applier *)

\* Mutants of Resolved: a unit that is gone has done its work; it may take for
\* ever.
ResolvedGoneIsDone(seen) ==
  IF record.stage # "running" THEN record.stage
  ELSE CASE seen = "active" -> IF overdue THEN "failed" ELSE "running"
         [] seen \in {"failed", "error"} -> "failed"
         [] seen \in {"exited", "none"} -> "succeeded"

ResolvedGoneWaits(seen) ==
  IF record.stage # "running" THEN record.stage
  ELSE CASE seen = "active" -> IF overdue THEN "failed" ELSE "running"
         [] seen \in {"failed", "error"} -> "failed"
         [] seen = "exited" -> "succeeded"
         [] seen = "none" ->
              IF running # record.from THEN "succeeded" ELSE "running"

\* _resolve: what became of a run still recorded as running, as the unit is
\* seen.
Resolved(seen) ==
  IF record.stage # "running" THEN record.stage
  ELSE CASE seen = "active" -> IF overdue THEN "failed" ELSE "running"
         [] seen \in {"failed", "error"} -> "failed"
         [] seen = "exited" -> "succeeded"
         [] seen = "none" ->
              IF running # record.from THEN "succeeded"
              ELSE IF overdue THEN "failed" ELSE "running"

\* A systemctl show that fails shows no unit.
Seen(hitch) == IF "blind" \in hitch THEN "none" ELSE unit

\* _write: what cannot be written leaves the file as it was, or unreadable,
\* which is read as idle.
Torn == [record EXCEPT !.stage = "idle"]
Write(new, hitch) ==
  IF "unwritten" \in hitch THEN record' \in {record, Torn} ELSE record' = new

\* _resolve(_read()) and what it leaves in the file; the stage it comes to.
Resolve(hitch) ==
  LET stage == Resolved(Seen(hitch))
  IN /\ "blind" \in hitch => record.stage = "running"
     /\ "unwritten" \in hitch => stage # record.stage
     /\ Write([record EXCEPT !.stage = stage], hitch)
     /\ strayed' = (strayed \/ Seen(hitch) # unit)

\* state(): the outcome, written back when there is one.
PollState ==
  /\ start = "idle"
  /\ \E hitch \in SUBSET {"blind", "unwritten"} : AskAll(hitch) /\ Resolve(hitch)
  /\ UNCHANGED <<hostVars, overdue, start, want, checker, evidence>>

\* start: refused while an update is recorded as running.
StartBegin(tag) ==
  /\ start = "idle" /\ tag.parsed
  /\ \/ \E hitch \in SUBSET {"blind", "unwritten"} :
          /\ AskAll({"start"} \cup hitch) /\ Resolve(hitch)
          /\ Resolved(Seen(hitch)) # "running"
     \/ AskAll({"start", "unread"}) /\ UNCHANGED <<record, strayed>>
  /\ want' = tag /\ start' = "clear"
  /\ UNCHANGED <<hostVars, overdue, checker, evidence>>

\* Mutant of StartClear: launched first, recorded never.
StartClearToLaunch ==
  /\ start \in {"clear", "again"}
  /\ unit' = "none"
  /\ start' = IF start = "clear" THEN "launch" ELSE "relaunch"
  /\ UNCHANGED <<running, installed, goal, fileVars, want, checker, asked>>

\* _clear_unit: a unit that is still there is stopped; nobody looks whether it
\* was.
StartClear ==
  /\ start \in {"clear", "again"}
  /\ \/ unit' = "none" /\ UNCHANGED asked
     \/ unit # "none" /\ Ask("uncleared") /\ UNCHANGED unit
  /\ start' = IF start = "clear" THEN "write" ELSE "relaunch"
  /\ UNCHANGED <<running, installed, goal, fileVars, want, checker>>

\* Recorded before the launch, or not: the launch follows all the same.
StartWrite ==
  /\ start = "write" /\ start' = "launch"
  /\ \/ /\ record' = [stage |-> "running", from |-> running]
        /\ overdue' = FALSE /\ evidence' = FALSE /\ strayed' = (unit # "none")
        /\ UNCHANGED asked
     \/ /\ Ask("unwritten") /\ record' \in {record, Torn} /\ strayed' = TRUE
        /\ UNCHANGED <<overdue, evidence>>
  /\ UNCHANGED <<hostVars, want, checker>>

\* systemd-run: started; refused, as it is while there is a unit of that name;
\* or no answer in time, started or not. Anything but a success is tried once
\* more without the redirection.
Launch ==
  /\ start \in {"launch", "relaunch"}
  /\ \/ unit = "none" /\ unit' = "active" /\ goal' = want
        /\ start' = "idle" /\ UNCHANGED asked
     \/ /\ unit = "none" /\ unit' \in {"none", "active"} /\ goal' = want /\ Ask("slow")
        /\ start' = IF start = "launch" THEN "again" ELSE "giveup"
     \/ /\ unit # "none" /\ UNCHANGED <<unit, goal, asked>>
        /\ start' = IF start = "launch" THEN "again" ELSE "giveup"
  /\ UNCHANGED <<running, installed, fileVars, want, checker>>

\* The state that was to be recorded, as a failure.
StartGiveUp ==
  /\ start = "giveup" /\ start' = "idle"
  /\ \/ /\ record' = [stage |-> "failed", from |-> running] /\ overdue' = FALSE
        /\ UNCHANGED asked
     \/ Ask("unwritten") /\ record' \in {record, Torn} /\ UNCHANGED overdue
  /\ strayed' = (strayed \/ unit = "active")
  /\ UNCHANGED <<hostVars, want, checker, evidence>>

-----------------------------------------------------------------------------
(* The installer in its unit, and the rest of the host *)

\* Whatever the panel was in the middle of ends; the files decide its version.
Restarted ==
  /\ running' = installed' /\ start' = "idle"
  /\ checker' = [checking |-> FALSE, latest |-> NoVersion, error |-> FALSE]

\* The files are replaced, and the panel's service restarted.
Install ==
  /\ unit = "active" /\ installed # goal
  /\ installed' = goal /\ Restarted
  /\ UNCHANGED <<unit, goal, fileVars, want, asked>>

InstallerEnds ==
  /\ unit = "active"
  /\ \/ unit' = "exited" /\ installed = goal /\ evidence' = TRUE
     \/ unit' \in {"error", "failed"} /\ UNCHANGED evidence
  /\ UNCHANGED <<running, installed, goal, record, overdue, strayed, start, want,
                 checker, asked>>

\* restart_service, or a failure: the panel alone.
PanelRestarts ==
  /\ Ask("crash") /\ UNCHANGED installed /\ Restarted
  /\ UNCHANGED <<unit, goal, fileVars, want>>

\* A crash in the middle of write_text leaves a file that cannot be read.
TornRecord ==
  /\ start \in {"write", "giveup"} /\ Ask("torn")
  /\ record' = Torn /\ strayed' = (strayed \/ unit = "active")
  /\ UNCHANGED installed /\ Restarted
  /\ UNCHANGED <<overdue, unit, goal, want, evidence>>

\* Transient units do not survive a reboot.
Reboot ==
  /\ Ask("reboot") /\ unit' = "none" /\ UNCHANGED installed /\ Restarted
  /\ UNCHANGED <<goal, fileVars, want>>

\* Somebody stops or resets the unit by hand.
ResetUnit ==
  /\ unit # "none" /\ Ask("reset") /\ unit' = "none"
  /\ UNCHANGED <<running, installed, goal, fileVars, start, want, checker>>

HalfAnHour ==
  /\ record.stage = "running" /\ ~overdue /\ start = "idle" /\ overdue' = TRUE
  /\ UNCHANGED <<hostVars, record, evidence, strayed, start, want, checker, asked>>

-----------------------------------------------------------------------------
(* The checker *)

\* _begin, by a page whose answer is stale or by "check again".
BeginCheck ==
  /\ ~checker.checking /\ Ask("check")
  /\ checker' = [checker EXCEPT !.checking = TRUE]
  /\ UNCHANGED <<hostVars, fileVars, start, want>>

\* _fetch: a failure keeps the last release that was seen.
EndCheck ==
  /\ checker.checking
  /\ \/ \E tag \in Tags :
          checker' = [checking |-> FALSE, latest |-> tag, error |-> FALSE]
     \/ checker' = [checker EXCEPT !.checking = FALSE, !.error = TRUE]
  /\ UNCHANGED <<hostVars, fileVars, start, want, asked>>

UpdateOffered == IsNewer(running, checker.latest)

-----------------------------------------------------------------------------
UpdateNext ==
  \/ PollState \/ (\E tag \in Tags : StartBegin(tag))
  \/ StartClear \/ StartWrite \/ Launch \/ StartGiveUp
  \/ Install \/ InstallerEnds
  \/ PanelRestarts \/ TornRecord \/ Reboot \/ ResetUnit \/ HalfAnHour
  \/ BeginCheck \/ EndCheck

\* The page that watches an update asks again and again; a request that has
\* begun goes on; time passes.
UpdateFairness ==
  /\ WF_updateVars(PollState) /\ WF_updateVars(HalfAnHour)
  /\ WF_updateVars(StartClear \/ StartWrite \/ Launch \/ StartGiveUp)
  /\ WF_updateVars(EndCheck)

UpdateSpec == UpdateInit /\ [][UpdateNext]_updateVars /\ UpdateFairness

-----------------------------------------------------------------------------
(* Properties *)

\* An installer at work is one the state file tells of, so the process it
\* leaves behind knows what to look for; unless it went on for half an hour, or
\* a failure that is passed over lost track of it: it could not be recorded or
\* seen, its answer came too late, or an older one could not be stopped.
InstallerIsRecorded ==
  unit = "active" => record.stage = "running" \/ overdue \/ strayed

\* "It is written to a file before the launch" (update_service.py:308-311): by
\* then the write has been tried, and only logged if it failed.
WorkIsRecorded == unit = "active" => record.stage = "running" \/ overdue

\* An update is reported as done on the evidence of its installer's exit or
\* of a version other than the one it started from, whatever was lost; the
\* exit may be an older installer's only if that one could not be cleared away.
SuccessHasEvidence ==
  [][record'.stage = "succeeded" /\ record.stage # "succeeded" =>
       evidence \/ installed # record.from \/ strayed]_updateVars

\* Nothing that happens to the unit, the panel or the host leaves an update
\* running for ever on the page, and with it every later one refused.
RunResolved == record.stage = "running" ~> record.stage # "running"

\* Releases are offered in the order of their numbers, a release after its
\* prereleases, and never to a build that is not a release. The weight is that
\* order for numbers and ranks of two digits.
Weight(v) == ((v.nums[1] * 100 + v.nums[2]) * 100 + v.nums[3]) * 100
             + (IF v.pre = 0 THEN 99 ELSE v.pre)

OffersOnlyNewer ==
  \A v \in Tags :
    /\ UpdateOffered => running.pre = 0 /\ Weight(running) < Weight(checker.latest)
    /\ IsNewer(running, v) <=>
         /\ running.parsed /\ v.parsed /\ running.pre = 0
         /\ Weight(running) \in 100 .. Weight(v) - 1
==================================================================================
