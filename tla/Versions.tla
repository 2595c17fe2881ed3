-------------------------------- MODULE Versions --------------------------------
(***************************************************************************)
(* Release tags and their order (app/version.py).  A tag is three numbers  *)
(* and what follows them; suffixes are ranked in the order strings         *)
(* compare, "" (rank 0) for a plain release.                               *)
(***************************************************************************)
EXTENDS Integers

NoVersion == [nums |-> <<0, 0, 0>>, pre |-> 0, parsed |-> FALSE]

IsRelease(v) == v.pre = 0 /\ v.nums # <<0, 0, 0>>

TupleLess(s, t) ==
  \/ s[1] < t[1]
  \/ s[1] = t[1] /\ s[2] < t[2]
  \/ s[1] = t[1] /\ s[2] = t[2] /\ s[3] < t[3]

LessThan(v, w) ==
  IF v.nums # w.nums THEN TupleLess(v.nums, w.nums)
  ELSE v.pre # w.pre /\ v.pre # 0 /\ (w.pre = 0 \/ v.pre < w.pre)

\* Mutant of IsNewer: a build that is no release is offered one too.
IsNewerThanAnyBuild(current, candidate) ==
  /\ current.parsed /\ candidate.parsed /\ LessThan(current, candidate)

\* What cannot be settled is not newer.
IsNewer(current, candidate) ==
  /\ current.parsed /\ IsRelease(current)
  /\ candidate.parsed
  /\ LessThan(current, candidate)
=================================================================================
