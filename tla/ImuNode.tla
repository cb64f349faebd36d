-------------------------------- MODULE ImuNode --------------------------------
(***************************************************************************)
(* lsm9ds1_node and its driver: connecting to the chip, the samples        *)
(* dropped after start-up, the gyroscope's bias, and the reconnection when *)
(* the bus fails or the samples stop.  A step of time is one poll; the     *)
(* turn rate stands for one axis.  The chip may come and go, lose its      *)
(* configuration in a brown-out, or stop measuring in one half.            *)
(***************************************************************************)
EXTENDS Integers, Sequences, SequencesExt, FiniteSetsExt

CONSTANTS
  TurnOn,           \* TURN_ON_SAMPLES
  Samples,          \* gyro_bias_samples, 0 disables the estimate
  Tolerance,        \* gyro_bias_tolerance
  Rates,            \* turn rates the gyroscope may measure
  StaleTimeout,     \* in polls
  ReconnectPeriod,  \* in polls
  Troubles          \* bound on what happens to the chip

ASSUME ImuAssumption ==
  /\ TurnOn \in Nat /\ Samples \in Nat /\ Tolerance \in Nat /\ Rates \subseteq Int
  /\ ReconnectPeriod \in Nat /\ Troubles \in Nat
  /\ StaleTimeout \in Nat /\ StaleTimeout >= 2 * (TurnOn + 1)  \* longer than a start takes

Half == {"ag", "mag"}
Unknown == <<>>
Known(rate) == <<rate>>

VARIABLES
  there,      \* the chip answers on the bus
  configured, \* the halves of the chip that are configured
  frozen,     \* the halves that stopped measuring until they are reset
  settled,    \* samples since the accelerometer and gyroscope were turned on
  ready,      \* the halves with a new sample
  troubles,   \* so far
  open,       \* self.bus is not None
  sensor,     \* self.sensor is not None
  discard,    \* Lsm9ds1.discard
  silent,     \* polls since last_ag and last_mag
  retry,      \* polls until next_attempt
  window,     \* of the bias estimator
  bias,       \* self.bias
  early,      \* published a sample the gyroscope took before it had settled
  polled      \* the poll of this step of time is done

chip == <<there, configured, frozen, settled, ready, troubles>>
imuVars == <<chip, open, sensor, discard, silent, retry, window, bias, early, polled>>

-----------------------------------------------------------------------------
(* The chip *)

Measures(h) == there /\ h \in configured \ frozen

\* A half that measures has a new sample at least every second poll.
Elapse ==
  /\ polled /\ polled' = FALSE
  /\ \E new \in SUBSET {h \in Half : Measures(h)} :
       /\ \A h \in Half : Measures(h) /\ silent[h] > 0 => h \in new
       /\ ready' = ready \cup new
       /\ settled' = IF "ag" \in new /\ settled <= TurnOn THEN settled + 1 ELSE settled
  /\ silent' = [h \in Half |-> IF sensor THEN silent[h] + 1 ELSE 0]
  /\ retry' = IF retry > 0 THEN retry - 1 ELSE 0
  /\ UNCHANGED <<there, configured, frozen, troubles, open, sensor, discard, window, bias, early>>

Trouble ==
  /\ troubles < Troubles /\ troubles' = troubles + 1
  /\ \/ there' = ~there /\ configured' = {} /\ ready' = {} /\ frozen' = {} /\ settled' = 0
     \/ there' = there /\ configured' = {} /\ ready' = {} /\ frozen' = {} /\ settled' = 0
     \/ \E h \in configured \ frozen :
          frozen' = frozen \cup {h} /\ UNCHANGED <<there, configured, ready, settled>>
  /\ UNCHANGED <<open, sensor, discard, silent, retry, window, bias, early, polled>>

-----------------------------------------------------------------------------
(* The node *)

\* fail: the sensor goes with its bus.
Fail == open' = FALSE /\ sensor' = FALSE /\ retry' = ReconnectPeriod

\* begin: the IDs, the reset, the two halves.  It may stop with an OSError after any of them.
Begin_NoReset(done) ==
  IF done # "all" THEN UNCHANGED <<configured, frozen, ready, settled>>
  ELSE configured' = Half /\ ready' = {} /\ settled' = 0 /\ UNCHANGED frozen

Begin(done) ==
  IF done = "none" THEN UNCHANGED <<configured, frozen, ready, settled>>
  ELSE /\ configured' = (CASE done = "reset" -> {} [] done = "ag" -> {"ag"} [] done = "all" -> Half)
       /\ frozen' = {} /\ ready' = {} /\ settled' = 0

ConnectChip ==
  \E done \in IF there THEN {"none", "reset", "ag", "all"} ELSE {"none"} :
    /\ done # "all" => troubles < Troubles
    /\ troubles' = IF there /\ done # "all" THEN troubles + 1 ELSE troubles
    /\ Begin(done)
    /\ IF done = "all"
       THEN /\ open' = TRUE /\ sensor' = TRUE /\ discard' = TurnOn
            /\ silent' = [h \in Half |-> 0] /\ UNCHANGED retry
       ELSE Fail /\ UNCHANGED <<discard, silent>>
    /\ UNCHANGED <<there, window, bias, early>>

Sum(rates) ==
  LET total[i \in 0..Len(rates)] == IF i = 0 THEN 0 ELSE total[i - 1] + rates[i]
  IN  total[Len(rates)]

\* Looks at the last sample only.
Still_Last(rates) ==
  LET off == Len(rates) * Last(rates) - Sum(rates)
  IN off <= Len(rates) * Tolerance /\ -off <= Len(rates) * Tolerance

\* Every sample within the tolerance of the window's mean.
Still(rates) ==
  \A i \in DOMAIN rates :
    LET off == Len(rates) * rates[i] - Sum(rates)
    IN off <= Len(rates) * Tolerance /\ -off <= Len(rates) * Tolerance

\* GyroBiasEstimator.add
Add(rate) ==
  LET rates == Append(window, rate) IN
  IF Len(rates) < Samples THEN window' = rates /\ UNCHANGED bias
  ELSE /\ window' = <<>>
       /\ bias' = IF Still(rates) THEN Known(Sum(rates) \div Len(rates)) ELSE bias

\* handle_sample: published once the bias is known.
HandleSample(rate) ==
  /\ IF bias = Unknown THEN Add(rate) ELSE UNCHANGED <<window, bias>>
  /\ early' = (early \/ (bias' # Unknown /\ settled <= TurnOn))

\* The samples after a start are dropped, one by one.
Dropping == discard > 0

\* read_accel_gyro, with the samples it drops.
ReadAccelGyro ==
  IF "ag" \notin ready THEN UNCHANGED <<discard, window, bias, early>>
  ELSE IF Dropping THEN discard' = discard - 1 /\ UNCHANGED <<window, bias, early>>
  ELSE UNCHANGED discard /\ \E rate \in Rates : HandleSample(rate)

Heard(h) == h \in ready /\ (h = "ag" => ~Dropping)

\* The age of the newer half.
Stale_Newest(ages) == Min({ages[h] : h \in Half})

\* now - min(last_ag, last_mag)
Stale(ages) == Max({ages[h] : h \in Half})

ReadBoth ==
  /\ ReadAccelGyro
  /\ ready' = {}
  /\ LET ages == [h \in Half |-> IF Heard(h) THEN 0 ELSE silent[h]]
     IN /\ silent' = ages
        /\ IF Stale(ages) > StaleTimeout THEN Fail ELSE UNCHANGED <<open, sensor, retry>>
  /\ UNCHANGED <<there, configured, frozen, settled, troubles>>

Poll ==
  /\ ~polled /\ polled' = TRUE
  /\ IF sensor /\ there THEN ReadBoth
     ELSE IF sensor THEN Fail /\ UNCHANGED <<chip, discard, silent, window, bias, early>>
     ELSE IF retry = 0 THEN ConnectChip
     ELSE UNCHANGED <<chip, open, sensor, discard, silent, retry, window, bias, early>>

\* A transfer fails, and with it the poll.
BusError ==
  /\ ~polled /\ polled' = TRUE
  /\ sensor /\ there /\ troubles < Troubles /\ troubles' = troubles + 1 /\ Fail
  /\ UNCHANGED <<there, configured, frozen, settled, ready, discard, silent, window, bias, early>>

ImuInit ==
  /\ there \in BOOLEAN /\ configured = {} /\ frozen = {} /\ settled = 0 /\ ready = {}
  /\ troubles = 0 /\ open = FALSE /\ sensor = FALSE /\ discard = 0
  /\ silent = [h \in Half |-> 0] /\ retry = 0 /\ window = <<>>
  /\ bias = IF Samples > 0 THEN Unknown ELSE Known(0)
  /\ early = FALSE /\ polled = TRUE

ImuNext == Elapse \/ Trouble \/ Poll \/ BusError

ImuSpec == ImuInit /\ [][ImuNext]_imuVars

\* The timer runs, and time passes.
ImuFairness == WF_imuVars(Elapse \/ Poll)

-----------------------------------------------------------------------------
(* Properties *)

\* The state is well formed; a sensor has an open bus.
ImuTypeOK ==
  /\ there \in BOOLEAN /\ configured \subseteq Half /\ frozen \subseteq Half /\ ready \subseteq Half
  /\ settled \in 0..TurnOn + 1 /\ troubles \in 0..Troubles
  /\ open \in BOOLEAN /\ sensor \in BOOLEAN /\ (sensor => open)
  /\ discard \in 0..TurnOn /\ retry \in 0..ReconnectPeriod
  /\ silent \in [Half -> Nat] /\ window \in Seq(Rates) /\ (Samples > 0 => Len(window) < Samples)

\* Nothing the gyroscope measured while it settled after a start, a reset or a reconnection
\* is published.
Settled == ~early

\* A chip of which one half has gone quiet is not relied on beyond stale_timeout, though
\* the other half still delivers.
HalfFrozen == sensor => \A h \in Half : silent[h] <= StaleTimeout + 1

\* A bias is taken once, and only from samples no two of which differ by more than twice
\* the tolerance: none of a window with motion in it, or of the one before an outage.
BiasFromStill ==
  [][bias' # bias => bias = Unknown /\ \A r \in ToSet(window), q \in ToSet(window) : r - q <= 2 * Tolerance]_imuVars

\* Whatever happened to the chip, once it is left in peace both halves deliver again.
Recovers == <>[](troubles = Troubles /\ there) => <>[](sensor /\ configured = Half /\ frozen = {})

\* Nothing is published of a chip that is settling, and a half that has frozen is noticed.
ImuSafety == ImuTypeOK /\ Settled /\ HalfFrozen
=============================================================================
