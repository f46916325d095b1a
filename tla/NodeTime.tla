------------------------------ MODULE NodeTime ------------------------------
(***************************************************************************)
(* How a node keeps its clock with the network: it measures when the       *)
(* hashes of its peers arrive by its own time, and corrects its time in    *)
(* limited steps, while the correction itself fades away.                  *)
(*                                                                         *)
(* Times are in milliseconds.  What a correction measures is the error of  *)
(* the node's time and what the hashes were on their way: the mean of the  *)
(* arrivals since the last correction, which CorrectTimeByArr takes        *)
(* without those far from it.                                              *)
(***************************************************************************)
EXTENDS Integers

CONSTANTS
  Clock,                  \* errors of the system's clock
  MaxLag,                 \* bound: how late hashes are on the average
  CORRECT_TIME_TRIGGER,   \* measured errors below it are left alone
  CORRECT_TIME_VALUE,     \* the largest correction
  INFLATION_TIME_VALUE,   \* by how much the correction fades
  Absurd                  \* measured errors above it are not believed

(* What the corrections need to get anywhere: half a step is more than     *)
(* what fades (1000, 100 and 20 in the code).                              *)
Constants ==
  /\ Clock \subseteq Int /\ MaxLag \in Nat /\ Absurd \in Nat
  /\ CORRECT_TIME_TRIGGER \in Nat /\ CORRECT_TIME_VALUE \in Nat /\ INFLATION_TIME_VALUE \in Nat
  /\ CORRECT_TIME_VALUE =< CORRECT_TIME_TRIGGER
  /\ INFLATION_TIME_VALUE < CORRECT_TIME_VALUE \div 2
ASSUME TimeAssumption == Constants

VARIABLES
  clock,   \* the error of the system's clock
  delta,   \* DELTA_CURRENT_TIME
  was      \* WasCorrectTime, up to 1

timeVars == << clock, delta, was >>

Magnitude(x) == IF x < 0 THEN -x ELSE x

(* Towards the network's time, but by at most CORRECT_TIME_VALUE.          *)
Limited(new) ==
  IF Magnitude(new) < CORRECT_TIME_TRIGGER THEN 0
  ELSE IF Magnitude(new) =< CORRECT_TIME_VALUE THEN new
  ELSE IF new < 0 THEN -CORRECT_TIME_VALUE ELSE CORRECT_TIME_VALUE

(* Mutant: away from the system's clock the step is halved twice.          *)
Careful_Twice(d, new) == IF Magnitude(d + new) > Magnitude(d) THEN new \div 4 ELSE new

(* Away from the system's clock half as fast as back to it.                *)
Careful(d, new) == IF Magnitude(d + new) > Magnitude(d) THEN new \div 2 ELSE new

(* A correction goes back to zero when nothing else is to be done.         *)
Faded(d, new) ==
  IF d > INFLATION_TIME_VALUE THEN new - INFLATION_TIME_VALUE
  ELSE IF d < -INFLATION_TIME_VALUE THEN new + INFLATION_TIME_VALUE
  ELSE IF new = 0 THEN -d ELSE new

Step(measured) ==
  LET new == IF Magnitude(measured) > Absurd THEN 0 ELSE -measured
  IN Faded(delta, IF was = 1 THEN Careful(delta, Limited(new)) ELSE new)

CorrectTimeByDelta(measured) ==
  /\ delta' = delta + Step(measured)
  /\ was' = 1
  /\ UNCHANGED clock

Error == clock + delta

Correct == \E lag \in 0 .. MaxLag : CorrectTimeByDelta(Error + lag)

(* The system's clock is set; the node is started again.                   *)
SetClock == clock' \in Clock /\ UNCHANGED << delta, was >>

Restart == delta' = 0 /\ was' = 0 /\ UNCHANGED clock

TimeInit == clock \in Clock /\ delta = 0 /\ was = 0

TimeNext == Correct \/ SetClock \/ Restart

TimeSpec == TimeInit /\ [][TimeNext]_timeVars
-----------------------------------------------------------------------------
Believed == Magnitude(Error) + MaxLag =< Absurd

(* The node's time is as good as the corrections make it.                  *)
Good(error) ==
  /\ error >= -(CORRECT_TIME_TRIGGER + INFLATION_TIME_VALUE + MaxLag)
  /\ error =< CORRECT_TIME_TRIGGER + INFLATION_TIME_VALUE

(* The first correction makes the node's time good, every other one brings *)
(* a time that is not good nearer to the network's, and a good time stays  *)
(* good - although the step is limited, halved and works against the       *)
(* fading at the same time.                                                *)
Converges ==
  [][Correct /\ Believed =>
       Good(Error') \/ (was = 1 /\ ~Good(Error) /\ Magnitude(Error') < Magnitude(Error))]_timeVars
=============================================================================
