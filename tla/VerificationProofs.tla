------------------------- MODULE VerificationProofs -------------------------
(***************************************************************************)
(* Proofs about Verification, for every number of required observations    *)
(* and every window.                                                       *)
(***************************************************************************)
EXTENDS Verification, TLAPS

(* What has been counted is what the history shows: its last entries passed, *)
(* all of them lie apart, and none lies ahead.                             *)
Counted ==
  /\ consecutive <= Len(recent) /\ Len(recent) <= Required
  /\ \A k \in 1..Len(recent) : k > Len(recent) - consecutive => recent[k].passed
  /\ \A k \in 2..Len(recent) : recent[k].at - recent[k-1].at >= Interval
  /\ Len(recent) > 0 => recent[Len(recent)].at <= clock
  /\ consecutive > 0 => recoveryChecksPassed(checks)

(* Only a full count is judged, and only where one snapshot does not do.   *)
Phases ==
  /\ phase = "starting" => consecutive = 0 /\ recent = <<>> /\ clock = 0
  /\ phase = "polling" => Required > 1
  /\ phase = "judging" => Required = 1
  /\ phase # "done" <=> verdict = "none"
  /\ verdict \in {"success", "failed"} => Required = 1 \/ consecutive = Required

Inv == TypeOK /\ Counted /\ Phases /\ VerdictInTime /\ NeverFailed
----------------------------------------------------------------------------
\* A snapshot that passes is not a degraded one: it counts an improvement of
\* the backlog and no worse errors, which leaves one signal to get worse.
LEMMA PassedIsNotDegraded ==
  ASSUME NEW s \in Snapshots, recoveryChecksPassed(s)
  PROVE  Judgement(s) # "failed"
  BY DEF Snapshots, Trends, recoveryChecksPassed, Judgement, Degraded, count

LEMMA Judgements == \A s : Judgement(s) \in Verdicts
  BY DEF Judgement, Verdicts

\* Every entry of the history carries a time.
LEMMA EntryTime ==
  ASSUME NEW q \in Seq([at : Nat, passed : BOOLEAN]), NEW k \in 1..Len(q)
  PROVE  q[k].at \in Nat
<1>1. \A S : \A f \in Seq(S) : \A i \in 1..Len(f) : f[i] \in S
  OBVIOUS
<1>2. q[k] \in [at : Nat, passed : BOOLEAN]
  BY <1>1
<1> QED
  BY <1>2

\* Whichever fetcher answers, its snapshots are snapshots.
LEMMA FetchedAreSnapshots == \A s \in Fetched : s \in Snapshots
<1> SUFFICES ASSUME NEW f \in Fetchers,
                    NEW s \in CASE f = "demo" -> FromDemo
                                [] f = "workload" -> FromWorkload
                                [] OTHER -> FromGrafana
             PROVE  s \in Snapshots
  BY DEF Fetched
<1> QED
  BY DEF FromDemo, FromWorkload, FromGrafana

LEMMA InitInv == Init => Inv
  BY WindowAssumption
  DEF Init, Inv, TypeOK, Counted, Phases, VerdictInTime, NeverFailed, NoSnapshot, Snapshots,
      Trends, Baselines, Verdicts, Notes

\* What one more snapshot does to the history and the count.
LEMMA Counting ==
  ASSUME TypeOK, Counted, consecutive < Required, NEW s \in Snapshots, NEW t \in Nat,
         Len(recent) > 0 => t >= clock + Interval,
         Remember(s, t), consecutive' = Streak(consecutive, s), checks' = s, clock' = t
  PROVE  Counted' /\ recent' \in Seq([at : Nat, passed : BOOLEAN]) /\ consecutive' \in 0..Required
<1> DEFINE e == [at |-> t, passed |-> recoveryChecksPassed(s)]
           all == Append(recent, e)
<1> USE WindowAssumption DEF TypeOK
<1>1. e \in [at : Nat, passed : BOOLEAN]
  BY DEF recoveryChecksPassed, Snapshots
<1>2. /\ all \in Seq([at : Nat, passed : BOOLEAN])
      /\ Len(all) = Len(recent) + 1
      /\ \A k \in 1..Len(recent) : all[k] = recent[k]
      /\ all[Len(recent) + 1] = e
  BY <1>1
<1>3. consecutive' \in 0..Required /\ consecutive' <= consecutive + 1
  BY DEF Streak
<1>4. consecutive' > 0 => recoveryChecksPassed(s) /\ consecutive' = consecutive + 1
  BY DEF Streak
<1> HIDE DEF e, all
<1>5. recent' = IF Len(all) > Required THEN Tail(all) ELSE all
  BY DEF Remember, e, all
<1>6. e.at = t /\ e.passed = recoveryChecksPassed(s)
  BY DEF e
<1>7. \A k \in 1..Len(all) : k > Len(all) - consecutive' => all[k].passed
  <2> SUFFICES ASSUME NEW k \in 1..Len(all), k > Len(all) - consecutive' PROVE all[k].passed
    OBVIOUS
  <2>1. consecutive' > 0
    BY <1>2, <1>3
  <2>2. CASE k = Len(recent) + 1
    BY <1>2, <1>4, <1>6, <2>1, <2>2
  <2>3. CASE k \in 1..Len(recent)
    <3>1. k > Len(recent) - consecutive
      BY <1>2, <1>4, <2>1
    <3> QED
      BY <1>2, <2>3, <3>1 DEF Counted
  <2> QED
    BY <1>2, <2>2, <2>3
<1>8. \A k \in 2..Len(all) : all[k].at - all[k-1].at >= Interval
  <2> SUFFICES ASSUME NEW k \in 2..Len(all) PROVE all[k].at - all[k-1].at >= Interval
    OBVIOUS
  <2>1. CASE k = Len(recent) + 1
    <3>1. Len(recent) > 0 /\ k - 1 = Len(recent) /\ k - 1 \in 1..Len(recent)
      BY <1>2, <2>1
    <3>2. all[k-1].at <= clock
      BY <1>2, <3>1 DEF Counted
    <3>3. all[k].at = t
      BY <1>2, <1>6, <2>1
    <3>4. all[k-1].at \in Nat
      BY <1>2, <3>1, EntryTime
    <3>5. clock \in Nat /\ t >= clock + Interval
      BY <3>1
    <3> QED
      BY <3>2, <3>3, <3>4, <3>5
  <2>2. CASE k \in 2..Len(recent)
    <3>1. k \in 1..Len(recent) /\ k - 1 \in 1..Len(recent)
      BY <2>2
    <3>2. all[k] = recent[k] /\ all[k-1] = recent[k-1]
      BY <1>2, <3>1
    <3> QED
      BY <2>2, <3>2 DEF Counted
  <2> QED
    BY <1>2, <2>1, <2>2
<1>9. CASE Len(all) > Required
  <2>1. /\ recent' \in Seq([at : Nat, passed : BOOLEAN])
        /\ Len(recent') = Len(all) - 1
        /\ \A k \in 1..Len(recent') : recent'[k] = all[k+1]
    BY <1>2, <1>5, <1>9
  <2>2. Len(recent') = Required
    BY <1>2, <1>9, <2>1 DEF Counted
  <2>3. \A k \in 1..Len(recent') : k > Len(recent') - consecutive' => recent'[k].passed
    <3> SUFFICES ASSUME NEW k \in 1..Len(recent'), k > Len(recent') - consecutive'
                 PROVE  recent'[k].passed
      OBVIOUS
    <3>1. k + 1 \in 1..Len(all) /\ k + 1 > Len(all) - consecutive'
      BY <1>2, <1>3, <2>1
    <3> QED
      BY <1>7, <2>1, <3>1
  <2>4. \A k \in 2..Len(recent') : recent'[k].at - recent'[k-1].at >= Interval
    <3> SUFFICES ASSUME NEW k \in 2..Len(recent')
                 PROVE  recent'[k].at - recent'[k-1].at >= Interval
      OBVIOUS
    <3>1. k + 1 \in 2..Len(all) /\ k \in 1..Len(recent') /\ k - 1 \in 1..Len(recent')
      BY <1>2, <2>1
    <3>2. recent'[k] = all[k+1] /\ recent'[k-1] = all[(k+1)-1]
      BY <2>1, <3>1
    <3> QED
      BY <1>8, <3>1, <3>2
  <2>5. recent'[Len(recent')].at <= clock'
    BY <1>2, <1>6, <2>1, <2>2
  <2>6. consecutive' <= Len(recent') /\ (consecutive' > 0 => recoveryChecksPassed(checks'))
    BY <1>3, <1>4, <2>2
  <2>7. Counted'
    BY <2>2, <2>3, <2>4, <2>5, <2>6 DEF Counted
  <2> QED
    BY <1>3, <2>1, <2>7
<1>10. CASE ~(Len(all) > Required)
  <2>1. recent' = all
    BY <1>5, <1>10
  <2>2. Len(recent') > 0 => recent'[Len(recent')].at <= clock'
    BY <1>2, <1>6, <2>1
  <2>3. consecutive' <= Len(recent') /\ Len(recent') <= Required
    BY <1>2, <1>3, <1>10, <2>1 DEF Counted
  <2>4. consecutive' > 0 => recoveryChecksPassed(checks')
    BY <1>4
  <2>5. \A k \in 1..Len(recent') : k > Len(recent') - consecutive' => recent'[k].passed
    BY <1>7, <2>1
  <2>6. \A k \in 2..Len(recent') : recent'[k].at - recent'[k-1].at >= Interval
    BY <1>8, <2>1
  <2>7. Counted'
    BY <2>2, <2>3, <2>4, <2>5, <2>6 DEF Counted
  <2> QED
    BY <1>2, <1>3, <2>1, <2>7
<1> QED
  BY <1>3, <1>9, <1>10, <1>2, <1>5

LEMMA NextInv == Inv /\ [Next]_vars => Inv'
<1> SUFFICES ASSUME Inv, [Next]_vars PROVE Inv'
  OBVIOUS
<1> USE WindowAssumption DEF Inv
<1>1. ASSUME NoComparison PROVE Inv'
  BY <1>1 DEF NoComparison, End, TypeOK, Counted, Phases, VerdictInTime, NeverFailed,
              Verdicts, Notes
<1>2. ASSUME FirstSnapshot PROVE Inv'
  <2>1. PICK s \in Snapshots : checks' = s /\ consecutive' = Streak(0, s) /\ Remember(s, clock)
    BY <1>2, FetchedAreSnapshots DEF FirstSnapshot
  <2>2. phase = "starting" /\ clock' = clock /\ clock = 0 /\ recent = <<>> /\ consecutive = 0
    BY <1>2 DEF FirstSnapshot, Phases
  <2>3. Counted' /\ recent' \in Seq([at : Nat, passed : BOOLEAN]) /\ consecutive' \in 0..Required
    BY <2>1, <2>2, Counting DEF TypeOK
  <2>4. TypeOK'
    BY <1>2, <2>1, <2>2, <2>3 DEF FirstSnapshot, TypeOK
  <2> QED
    BY <1>2, <2>2, <2>3, <2>4 DEF FirstSnapshot, Phases, VerdictInTime, NeverFailed
<1>3. ASSUME NextSnapshot PROVE Inv'
  <2>1. PICK d \in 0..MaxFetch, s \in Snapshots :
          /\ clock' = clock + Interval + d /\ checks' = s
          /\ consecutive' = Streak(consecutive, s) /\ Remember(s, clock + Interval + d)
    BY <1>3, FetchedAreSnapshots DEF NextSnapshot
  <2>2. phase = "polling" /\ consecutive < Required /\ clock < Timeout /\ clock \in Nat
        /\ UNCHANGED <<phase, baseline, verdict, notes>>
    BY <1>3 DEF NextSnapshot, Open, TypeOK
  <2>3. clock + Interval + d \in Nat /\ clock + Interval + d >= clock + Interval
    BY <2>2
  <2>4. Counted' /\ recent' \in Seq([at : Nat, passed : BOOLEAN]) /\ consecutive' \in 0..Required
    BY <2>1, <2>2, <2>3, Counting
  <2>5. TypeOK'
    BY <2>1, <2>2, <2>3, <2>4 DEF TypeOK
  <2>6. Phases' /\ NeverFailed'
    BY <2>2 DEF Phases, NeverFailed
  <2>7. VerdictInTime'
    BY <2>1, <2>2 DEF VerdictInTime
  <2> QED
    BY <2>4, <2>5, <2>6, <2>7
<1>4. ASSUME TelemetryLost PROVE Inv'
  <2>1. PICK d \in 0..MaxFetch : clock' = clock + Interval + d
    BY <1>4 DEF TelemetryLost
  <2>2. clock \in Nat /\ clock < Timeout
    BY <1>4 DEF TelemetryLost, Open, TypeOK
  <2>3. clock' \in Nat /\ clock <= clock' /\ clock' < Timeout + Interval + MaxFetch
    BY <2>1, <2>2
  <2>4. phase' = "done" /\ verdict' = "inconclusive" /\ notes' = "telemetry lost"
    BY <1>4 DEF TelemetryLost, End
  <2>5. baseline' = baseline /\ checks' = checks /\ consecutive' = consecutive
        /\ recent' = recent
    BY <1>4 DEF TelemetryLost
  <2>6. TypeOK' /\ VerdictInTime'
    BY <2>3, <2>4, <2>5 DEF TypeOK, VerdictInTime, Verdicts, Notes
  <2>7. Counted'
    <3>1. Len(recent) > 0 => recent[Len(recent)].at <= clock
      BY DEF Counted
    <3>2. recent \in Seq([at : Nat, passed : BOOLEAN]) /\ Len(recent) \in Nat
      BY DEF TypeOK
    <3>3. Len(recent) > 0 => recent[Len(recent)].at \in Nat
      BY <3>2, EntryTime
    <3>4. Len(recent') > 0 => recent'[Len(recent')].at <= clock'
      BY <2>2, <2>3, <2>5, <3>1, <3>3
    <3> QED
      BY <2>5, <3>4 DEF Counted
  <2> QED
    BY <2>4, <2>6, <2>7 DEF Phases, NeverFailed
<1>5. ASSUME Cancelled PROVE Inv'
  BY <1>5 DEF Cancelled, Open, End, TypeOK, Counted, Phases, VerdictInTime, NeverFailed,
              Verdicts, Notes
<1>6. ASSUME WindowOver PROVE Inv'
  BY <1>6 DEF WindowOver, End, TypeOK, Counted, Phases, VerdictInTime, NeverFailed,
              Verdicts, Notes
<1>7. ASSUME Judge PROVE Inv'
  <2>1. Required = 1 \/ consecutive = Required
    BY <1>7 DEF Judge, Phases, TypeOK
  <2>2. Required > 1 => Judgement(checks) # "failed"
    BY <2>1, PassedIsNotDegraded DEF Counted, TypeOK
  <2>3. UNCHANGED <<clock, baseline, checks, consecutive, recent>> /\ phase' = "done"
        /\ verdict' = Judgement(checks) /\ verdict' \in Verdicts /\ notes' = "judged"
    BY <1>7, Judgements DEF Judge, End
  <2>4. TypeOK' /\ Counted' /\ VerdictInTime'
    BY <2>3 DEF TypeOK, Notes, Counted, VerdictInTime
  <2>5. Phases' /\ NeverFailed'
    BY <2>1, <2>2, <2>3 DEF Phases, NeverFailed, Verdicts
  <2> QED
    BY <2>4, <2>5
<1>8. CASE UNCHANGED vars
  BY <1>8 DEF vars, TypeOK, Counted, Phases, VerdictInTime, NeverFailed
<1> QED
  BY <1>1, <1>2, <1>3, <1>4, <1>5, <1>6, <1>7, <1>8 DEF Next

LEMMA Invariance == Spec => []Inv
  BY InitInv, NextInv, PTL DEF Spec
----------------------------------------------------------------------------
\* A verification that asks for several observations succeeds on as many good
\* snapshots in a row, an interval apart: the count says of the history what
\* Service.evaluate takes it to say.
THEOREM SuccessIsStable == Spec => []StableSuccess
<1>1. Inv => StableSuccess
  BY WindowAssumption DEF Inv, TypeOK, Counted, Phases, StableSuccess
<1> QED
  BY Invariance, <1>1, PTL

\* The wait for a verdict is bounded by the window, one interval and one
\* snapshot, whatever the snapshots show.
THEOREM VerdictsAreInTime == Spec => []VerdictInTime
<1>1. Inv => VerdictInTime
  BY DEF Inv
<1> QED
  BY Invariance, <1>1, PTL

\* With several observations required there is no failed verdict, for any
\* workload: the automatic rollback, which waits for one, does not run.
THEOREM FailureIsUnreachable == Spec => []NeverFailed
<1>1. Inv => NeverFailed
  BY DEF Inv
<1> QED
  BY Invariance, <1>1, PTL
=============================================================================
