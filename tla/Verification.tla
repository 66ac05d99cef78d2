---------------------------- MODULE Verification ----------------------------
(***************************************************************************)
(* How a verdict on an execution comes about (Service.evaluate in          *)
(* internal/verification): a baseline from the incident's evidence, then   *)
(* snapshots of the workload until enough of them in a row have passed or  *)
(* the window is over.  What a verdict does to action and incident is in   *)
(* Remediation.                                                            *)
(***************************************************************************)
EXTENDS Integers, Sequences

CONSTANTS
  Required,   \* requiredObservations: 3 in the server
  Interval,   \* observationInterval: 10 s
  Timeout,    \* observationTimeout: 120 s
  Fetchers,   \* the local fetcher main picks at boot, and Grafana's
  MaxFetch    \* bound: how long one snapshot takes (5 s, the client's timeout)

ASSUME WindowAssumption ==
  /\ Required \in Nat \ {0}
  /\ Interval \in Nat \ {0}
  /\ Timeout \in Nat
  /\ MaxFetch \in Nat
  /\ Fetchers \subseteq {"demo", "workload", "grafana"}

\* A signal against the baseline, and what buildChecks tells apart.
Trends    == {"improved", "same", "worsened"}
Snapshots == [alert_cleared : BOOLEAN, health_check_normal : BOOLEAN,
              error_rate : Trends, latency : Trends, queue_backlog : Trends]

\* deriveBaselineSnapshot of the evidence triage left: no metrics in it, too old
\* a one, one taken in mode worker_stall, one in another mode.
Baselines == {"missing", "stale", "stalled", "other"}

Verdicts  == {"success", "failed", "inconclusive"}
Notes     == {"no comparison", "telemetry lost", "cancelled", "unstable", "judged"}

NoSnapshot == [alert_cleared |-> FALSE, health_check_normal |-> FALSE,
               error_rate |-> "same", latency |-> "same", queue_backlog |-> "same"]

VARIABLES
  phase, clock,
  baseline,
  checks,       \* the last snapshot
  consecutive,
  verdict, notes,
  recent        \* history: time and outcome of the last Required snapshots

vars == <<phase, clock, baseline, checks, consecutive, verdict, notes, recent>>

\* Time counts from the first snapshot; the deadline is set then.
Init ==
  /\ phase = "starting" /\ clock = 0
  /\ baseline \in Baselines
  /\ checks = NoSnapshot
  /\ consecutive = 0
  /\ verdict = "none" /\ notes = "none"
  /\ recent = <<>>
----------------------------------------------------------------------------
(* What a fetcher can answer.  The alert is the snapshot's mode, read from *)
(* the worker's state by the local ones and from thresholds by Grafana's,  *)
(* whose health check is the stricter of the two.                          *)

FromDemo == {s \in Snapshots : s.alert_cleared => s.health_check_normal}

\* It measures no latency: zero is never worse than the baseline's.
FromWorkload == {s \in FromDemo : s.latency # "worsened"}

FromGrafana == {s \in Snapshots : s.health_check_normal => s.alert_cleared}

\* The mode is looked up for each snapshot, and may have been switched since
\* the last one or since the baseline.
Fetched ==
  UNION {CASE f = "demo" -> FromDemo
           [] f = "workload" -> FromWorkload
           [] OTHER -> FromGrafana : f \in Fetchers}
----------------------------------------------------------------------------
AlertOnly(s) == s.alert_cleared  \* mutant: a cleared alert is enough
recoveryChecksPassed(s) ==
  /\ s.alert_cleared /\ s.health_check_normal
  /\ s.queue_backlog = "improved"
  /\ s.error_rate # "worsened"

\* countTrue over the three signals.
count(s, trend) ==
  (IF s.error_rate = trend THEN 1 ELSE 0) + (IF s.latency = trend THEN 1 ELSE 0)
    + (IF s.queue_backlog = trend THEN 1 ELSE 0)

Recovered(s) ==
  \/ baseline = "stalled" /\ recoveryChecksPassed(s)
  \/ /\ s.alert_cleared /\ s.health_check_normal
     /\ count(s, "improved") >= 2
     /\ count(s, "worsened") = 0

Degraded(s) == ~s.alert_cleared \/ ~s.health_check_normal \/ count(s, "worsened") >= 2

Judgement(s) ==
  IF Recovered(s) THEN "success" ELSE IF Degraded(s) THEN "failed" ELSE "inconclusive"

End(v, n) == phase' = "done" /\ verdict' = v /\ notes' = n

KeepCounting(n, s) == IF recoveryChecksPassed(s) THEN n + 1 ELSE n  \* mutant: no reset
Streak(n, s)       == IF recoveryChecksPassed(s) THEN n + 1 ELSE 0

Remember(s, t) ==
  LET all == Append(recent, [at |-> t, passed |-> recoveryChecksPassed(s)])
  IN  recent' = IF Len(all) > Required THEN Tail(all) ELSE all

\* No usable baseline, or no snapshot after the execution.
NoComparison ==
  /\ phase = "starting"
  /\ End("inconclusive", "no comparison")
  /\ UNCHANGED <<clock, baseline, checks, consecutive, recent>>

\* The first snapshot; where one is enough, it is judged as it is.
FirstSnapshot ==
  /\ phase = "starting"
  /\ baseline \notin {"missing", "stale"}
  /\ \E s \in Fetched :
       /\ checks' = s
       /\ consecutive' = Streak(0, s)
       /\ Remember(s, clock)
  /\ phase' = IF Required > 1 THEN "polling" ELSE "judging"
  /\ UNCHANGED <<clock, baseline, verdict, notes>>

Unstable == consecutive < Required  \* mutant: the window never ends
Open == consecutive < Required /\ clock < Timeout

\* Waiting for the ticker and taking the next snapshot; the deadline is not
\* looked at again before it counts.
NextSnapshot ==
  /\ phase = "polling"
  /\ Open
  /\ \E d \in 0..MaxFetch, s \in Fetched :
       /\ clock' = clock + Interval + d
       /\ checks' = s
       /\ consecutive' = Streak(consecutive, s)
       /\ Remember(s, clock + Interval + d)
  /\ UNCHANGED <<phase, baseline, verdict, notes>>

TelemetryLost ==
  /\ phase = "polling"
  /\ Open
  /\ \E d \in 0..MaxFetch : clock' = clock + Interval + d
  /\ End("inconclusive", "telemetry lost")
  /\ UNCHANGED <<baseline, checks, consecutive, recent>>

\* The client is gone, or the server shuts down, while it waits.
Cancelled ==
  /\ phase = "polling"
  /\ Open
  /\ End("inconclusive", "cancelled")
  /\ UNCHANGED <<clock, baseline, checks, consecutive, recent>>

WindowOver ==
  /\ phase = "polling"
  /\ ~Open
  /\ consecutive < Required
  /\ End("inconclusive", "unstable")
  /\ UNCHANGED <<clock, baseline, checks, consecutive, recent>>

Judge ==
  /\ phase = "judging" \/ (phase = "polling" /\ consecutive >= Required)
  /\ End(Judgement(checks), "judged")
  /\ UNCHANGED <<clock, baseline, checks, consecutive, recent>>

Next ==
  \/ NoComparison \/ FirstSnapshot
  \/ NextSnapshot \/ TelemetryLost \/ Cancelled
  \/ WindowOver \/ Judge

Spec == Init /\ [][Next]_vars
----------------------------------------------------------------------------
\* Every variable keeps its type.
TypeOK ==
  /\ phase \in {"starting", "polling", "judging", "done"}
  /\ clock \in Nat
  /\ baseline \in Baselines
  /\ checks \in Snapshots
  /\ consecutive \in 0..Required
  /\ verdict \in Verdicts \cup {"none"}
  /\ notes \in Notes \cup {"none"}
  /\ recent \in Seq([at : Nat, passed : BOOLEAN])

\* With more than one observation required, a verification succeeds on that
\* many good snapshots in a row, one interval or more from the next: a bad one
\* in between starts the count again.
StableSuccess ==
  verdict = "success" /\ Required > 1 =>
    /\ Len(recent) = Required
    /\ \A k \in 1..Required : recent[k].passed
    /\ \A k \in 2..Required : recent[k].at - recent[k-1].at >= Interval

\* The window bounds how long a request waits for its verdict: one interval
\* and one snapshot after the deadline at most.
VerdictInTime == clock < Timeout + Interval + MaxFetch

\* With more than one observation required a verdict is never "failed", and so
\* nothing triggers a rollback: what passes often enough is not degraded, and
\* what does not is inconclusive.
NeverFailed == Required > 1 => verdict # "failed"
=============================================================================
