----------------------------- MODULE QuotaLedger -----------------------------
(***************************************************************************)
(* The arithmetic of one TrafficQuota row (app/services/quota.py): what a  *)
(* row says has been used, when it is over its limit, and where its        *)
(* baseline goes when a new counter reading is stored.                     *)
(*                                                                         *)
(* A counter is a pair of cumulative byte counts, one per direction.       *)
(* SoftEther offers no way to zero it, so the transfer of a subject is its *)
(* counter minus a baseline the panel keeps.                               *)
(***************************************************************************)
EXTENDS Integers

Dirs == {"send", "recv"}

\* SoftEther's Send is what the subject uploaded, its Recv what it downloaded.
Metrics == {"total", "download", "upload"}

Bytes == [Dirs -> Nat]

Zero == [d \in Dirs |-> 0]

\* The transfer in one direction, clamped at zero.
NetBytes(r, d) == IF r.last[d] > r.base[d] THEN r.last[d] - r.base[d] ELSE 0

Metered(upload, download, metric) ==
  CASE metric = "upload"   -> upload
    [] metric = "download" -> download
    [] OTHER               -> upload + download

UsedBytes(r) == Metered(NetBytes(r, "send"), NetBytes(r, "recv"), r.metric)

IsOver(r) == r.isEnabled /\ r.limit > 0 /\ UsedBytes(r) >= r.limit

\* Mutant of Rebased: the baseline stays.
RebasedNever(r, reading) == r.base

\* Where observe leaves the baseline of row r under a new reading: a direction
\* that reads below its baseline is taken to have started over.
Rebased(r, reading) ==
  [d \in Dirs |-> IF reading[d] < r.base[d] THEN 0 ELSE r.base[d]]

\* A row nobody reset keeps no zero worth remembering.
HasBaseline(r) == \E d \in Dirs : r.base[d] > 0
=============================================================================
