----------------------------- MODULE SensorsProof -----------------------------
(***************************************************************************)
(* The two sensor drivers.  Nothing the gyroscope measured while it        *)
(* settled is published, a half that freezes is noticed, and a bias comes  *)
(* from a chip at rest, whatever the timeouts and the number of samples    *)
(* are, and however often the chip is lost, reset or stopped.              *)
(***************************************************************************)
EXTENDS SensorBridge, ImuNode, SequenceTheorems, FiniteSetTheorems, WellFoundedInduction, TLAPS

Bit(b) == IF b THEN 1 ELSE 0

\* A new sample is of a half that is configured.
FromConfigured == ready \subseteq configured

\* A chip the node has configured has as many samples behind it, or still to be dropped,
\* as it needs to settle, and one more when the next one is due to be read.  One that has
\* lost its configuration delivers nothing until it is connected again.
CountedDown ==
  sensor /\ "ag" \in configured => settled + discard >= TurnOn + Bit("ag" \in ready)

\* A poll leaves no half older than the timeout, and time adds one before the next.
NotStale == sensor => \A h \in Half : silent[h] <= StaleTimeout + Bit(~polled)

ImuInductive == ImuTypeOK /\ Settled /\ FromConfigured /\ CountedDown /\ NotStale /\ polled \in BOOLEAN

-----------------------------------------------------------------------------

LEMMA BitType == \A b \in BOOLEAN : Bit(b) \in 0..1
  BY DEF Bit

\* The oldest half is at least as old as each of the two.
LEMMA StaleIsOldest ==
  ASSUME NEW ages \in [Half -> Nat]
  PROVE  Stale(ages) \in Nat /\ \A h \in Half : ages[h] <= Stale(ages)
<1>1. ages["ag"] \in Nat /\ ages["mag"] \in Nat
  BY DEF Half
<1>2. {ages[h] : h \in Half} = {ages["ag"], ages["mag"]}
  BY DEF Half
<1>3. \E x \in {ages["ag"], ages["mag"]} : \A y \in {ages["ag"], ages["mag"]} : x >= y
  BY <1>1
<1> DEFINE S == {ages["ag"], ages["mag"]}
           m == CHOOSE x \in S : \A y \in S : x >= y
<1>4. m \in S /\ \A y \in S : m >= y
  BY <1>3
<1>5. Stale(ages) = m
  BY <1>2 DEF Stale, Max
<1> QED BY <1>1, <1>4, <1>5 DEF Half

\* A window that is kept is one short of full at most.
LEMMA AddKeepsWindow ==
  ASSUME window \in Seq(Rates), Samples > 0 => Len(window) < Samples, NEW rate \in Rates, Add(rate)
  PROVE  window' \in Seq(Rates) /\ (Samples > 0 => Len(window') < Samples)
<1> USE ImuAssumption
<1>1. Append(window, rate) \in Seq(Rates) /\ Len(Append(window, rate)) = Len(window) + 1
  OBVIOUS
<1>2. CASE Len(Append(window, rate)) < Samples
  BY <1>1, <1>2 DEF Add
<1>3. CASE ~(Len(Append(window, rate)) < Samples)
  <2>1. window' = <<>>
    BY <1>3 DEF Add
  <2>2. window' \in Seq(Rates) /\ Len(window') = 0
    BY <2>1
  <2> QED BY <2>2
<1> QED BY <1>2, <1>3

LEMMA ImuStarts == ImuInit => ImuInductive
<1> SUFFICES ASSUME ImuInit PROVE ImuInductive
  OBVIOUS
<1> USE ImuAssumption DEF ImuInit
<1>1. silent \in [Half -> Nat]
  OBVIOUS
<1>2. window \in Seq(Rates) /\ (Samples > 0 => Len(window) < Samples)
  OBVIOUS
<1>3. settled \in 0..TurnOn + 1 /\ troubles \in 0..Troubles /\ discard \in 0..TurnOn /\ retry \in 0..ReconnectPeriod
  OBVIOUS
<1>4. ImuTypeOK
  BY <1>1, <1>2, <1>3 DEF ImuTypeOK
<1> QED BY <1>4 DEF ImuInductive, Settled, FromConfigured, CountedDown, NotStale

-----------------------------------------------------------------------------
(* Time, and the chip. *)

LEMMA ElapseKeeps ==
  ASSUME ImuInductive, Elapse
  PROVE  ImuInductive'
<1> USE ImuAssumption
<1>1. PICK new \in SUBSET {h \in Half : Measures(h)} :
        /\ ready' = ready \cup new
        /\ settled' = IF "ag" \in new /\ settled <= TurnOn THEN settled + 1 ELSE settled
  BY DEF Elapse
<1>2. ready' \subseteq Half /\ ready' \subseteq configured
  BY <1>1 DEF ImuInductive, ImuTypeOK, FromConfigured, Measures
<1>3. silent' \in [Half -> Nat]
  BY DEF Elapse, ImuInductive, ImuTypeOK
<1>4. settled' \in 0..TurnOn + 1
  BY <1>1 DEF ImuInductive, ImuTypeOK
<1>5. retry' \in 0..ReconnectPeriod
  BY DEF Elapse, ImuInductive, ImuTypeOK
<1>6. ImuTypeOK'
  BY <1>2, <1>3, <1>4, <1>5 DEF Elapse, ImuInductive, ImuTypeOK
<1>7. Settled' /\ FromConfigured' /\ polled' = FALSE
  BY <1>2 DEF Elapse, ImuInductive, Settled, FromConfigured
<1>8. CountedDown'
  <2>1. CASE "ag" \in new
    BY <1>1, <2>1, BitType DEF Elapse, ImuInductive, ImuTypeOK, CountedDown, Bit
  <2>2. CASE "ag" \notin new
    BY <1>1, <2>2 DEF Elapse, ImuInductive, ImuTypeOK, CountedDown, Bit
  <2> QED BY <2>1, <2>2
<1>9. NotStale'
  <2> SUFFICES ASSUME sensor', NEW h \in Half PROVE silent'[h] <= StaleTimeout + 1
    BY <1>7 DEF NotStale, Bit
  <2>1. sensor /\ polled /\ silent'[h] = silent[h] + 1
    BY DEF Elapse
  <2>2. silent[h] <= StaleTimeout /\ silent[h] \in Nat
    BY <2>1 DEF ImuInductive, ImuTypeOK, NotStale, Bit
  <2> QED BY <2>1, <2>2
<1> QED BY <1>6, <1>7, <1>8, <1>9 DEF ImuInductive

\* What is lost of the chip is lost with its configuration.
LEMMA TroubleKeeps ==
  ASSUME ImuInductive, Trouble
  PROVE  ImuInductive'
<1> USE ImuAssumption
<1>1. /\ troubles' \in 0..Troubles
      /\ UNCHANGED <<open, sensor, discard, silent, retry, window, bias, early, polled>>
  BY DEF Trouble, ImuInductive, ImuTypeOK
<1>2. CASE configured' = {} /\ ready' = {} /\ frozen' = {} /\ settled' = 0 /\ there' \in BOOLEAN
  <2>1. ImuTypeOK'
    BY <1>1, <1>2 DEF ImuInductive, ImuTypeOK
  <2> QED BY <1>1, <1>2, <2>1 DEF ImuInductive, Settled, FromConfigured, CountedDown, NotStale
<1>3. CASE \E h \in configured \ frozen :
             frozen' = frozen \cup {h} /\ UNCHANGED <<there, configured, ready, settled>>
  <2>1. ImuTypeOK'
    BY <1>1, <1>3 DEF ImuInductive, ImuTypeOK
  <2> QED BY <1>1, <1>3, <2>1 DEF ImuInductive, Settled, FromConfigured, CountedDown, NotStale
<1> QED BY <1>2, <1>3 DEF Trouble, ImuInductive, ImuTypeOK

-----------------------------------------------------------------------------
(* The node. *)

\* Without a sensor nothing is asked of the chip.
LEMMA ConnectKeeps ==
  ASSUME ImuInductive, ConnectChip, polled'
  PROVE  ImuInductive'
<1> USE ImuAssumption
<1>1. PICK done \in {"none", "reset", "ag", "all"} :
        /\ done # "all" => troubles < Troubles
        /\ troubles' = IF there /\ done # "all" THEN troubles + 1 ELSE troubles
        /\ Begin(done)
        /\ IF done = "all"
           THEN /\ open' = TRUE /\ sensor' = TRUE /\ discard' = TurnOn
                /\ silent' = [h \in Half |-> 0] /\ UNCHANGED retry
           ELSE Fail /\ UNCHANGED <<discard, silent>>
        /\ UNCHANGED <<there, window, bias, early>>
  BY DEF ConnectChip
<1>2. troubles' \in 0..Troubles
  BY <1>1 DEF ImuInductive, ImuTypeOK
<1>3. CASE done = "all"
  <2>1. configured' = Half /\ frozen' = {} /\ ready' = {} /\ settled' = 0
    BY <1>1, <1>3 DEF Begin
  <2>2. silent' \in [Half -> Nat] /\ \A h \in Half : silent'[h] = 0
    BY <1>1, <1>3
  <2>3. ImuTypeOK'
    BY <1>1, <1>2, <1>3, <2>1, <2>2 DEF ImuInductive, ImuTypeOK
  <2> QED BY <1>1, <1>3, <2>1, <2>2, <2>3
          DEF ImuInductive, Settled, FromConfigured, CountedDown, NotStale, Bit
<1>4. CASE done # "all"
  <2>1. /\ configured' \subseteq Half /\ frozen' \subseteq Half /\ ready' \subseteq configured'
        /\ settled' \in 0..TurnOn + 1
    BY <1>1, <1>4 DEF Begin, ImuInductive, ImuTypeOK, FromConfigured, Half
  <2>2. open' = FALSE /\ sensor' = FALSE /\ retry' \in 0..ReconnectPeriod
    BY <1>1, <1>4 DEF Fail
  <2>3. ImuTypeOK'
    BY <1>1, <1>2, <1>4, <2>1, <2>2 DEF ImuInductive, ImuTypeOK
  <2> QED BY <1>1, <1>4, <2>1, <2>2, <2>3
          DEF ImuInductive, Settled, FromConfigured, CountedDown, NotStale
<1> QED BY <1>3, <1>4

\* A sample is handled when enough were dropped, or settled before the node looked.
LEMMA ReadingKeeps ==
  ASSUME ImuInductive, sensor, ReadAccelGyro
  PROVE  /\ window' \in Seq(Rates) /\ (Samples > 0 => Len(window') < Samples)
         /\ discard' \in 0..TurnOn /\ ~early'
         /\ "ag" \in configured => settled + discard' >= TurnOn
<1> USE ImuAssumption
<1>1. /\ window \in Seq(Rates) /\ (Samples > 0 => Len(window) < Samples) /\ discard \in 0..TurnOn /\ ~early
      /\ settled \in 0..TurnOn + 1 /\ ("ag" \in ready => "ag" \in configured)
      /\ "ag" \in configured => settled + discard >= TurnOn
      /\ "ag" \in ready => settled + discard >= TurnOn + 1
  BY DEF ImuInductive, ImuTypeOK, Settled, FromConfigured, CountedDown, Bit
<1>2. CASE "ag" \notin ready
  BY <1>1, <1>2 DEF ReadAccelGyro
<1>3. CASE "ag" \in ready /\ Dropping
  BY <1>1, <1>3 DEF ReadAccelGyro, Dropping
<1>4. CASE "ag" \in ready /\ ~Dropping
  <2>1. PICK rate \in Rates : HandleSample(rate)
    BY <1>4 DEF ReadAccelGyro
  <2>2. discard' = discard /\ discard = 0
    BY <1>1, <1>4 DEF ReadAccelGyro, Dropping
  <2>3. ~(settled <= TurnOn)
    BY <1>1, <1>4, <2>2
  <2>4. ~early'
    <3>1. early' = (early \/ (bias' # Unknown /\ settled <= TurnOn))
      BY <2>1 DEF HandleSample
    <3> QED BY ONLY <1>1, <2>3, <3>1
  <2>5. window' \in Seq(Rates) /\ (Samples > 0 => Len(window') < Samples)
    BY <1>1, <2>1, AddKeepsWindow DEF HandleSample
  <2> QED BY <1>1, <2>2, <2>4, <2>5
<1> QED BY <1>2, <1>3, <1>4

LEMMA ReadBothKeeps ==
  ASSUME ImuInductive, sensor, ReadBoth, polled'
  PROVE  ImuInductive'
<1> USE ImuAssumption
<1> DEFINE ages == [h \in Half |-> IF Heard(h) THEN 0 ELSE silent[h]]
<1>1. /\ ready' = {} /\ silent' = ages /\ UNCHANGED <<there, configured, frozen, settled, troubles>>
      /\ IF Stale(ages) > StaleTimeout THEN Fail ELSE UNCHANGED <<open, sensor, retry>>
  BY DEF ReadBoth
<1>2. ages \in [Half -> Nat]
  BY DEF ImuInductive, ImuTypeOK
<1>3. /\ window' \in Seq(Rates) /\ (Samples > 0 => Len(window') < Samples)
      /\ discard' \in 0..TurnOn /\ ~early'
      /\ "ag" \in configured => settled + discard' >= TurnOn
  BY ReadingKeeps DEF ReadBoth
<1>4. /\ open' \in BOOLEAN /\ sensor' \in BOOLEAN /\ (sensor' => open') /\ retry' \in 0..ReconnectPeriod
  <2>1. CASE Stale(ages) > StaleTimeout
    <3>1. open' = FALSE /\ sensor' = FALSE /\ retry' = ReconnectPeriod
      BY <1>1, <2>1 DEF Fail
    <3>2. retry' \in 0..ReconnectPeriod
      BY <3>1
    <3> QED BY ONLY <3>1, <3>2
  <2>2. CASE ~(Stale(ages) > StaleTimeout)
    BY <1>1, <2>2 DEF ImuInductive, ImuTypeOK
  <2> QED BY <2>1, <2>2
<1>5. ImuTypeOK'
  BY <1>1, <1>2, <1>3, <1>4 DEF ImuInductive, ImuTypeOK
<1>6. CountedDown'
  <2>1. Bit("ag" \in ready') = 0 /\ UNCHANGED <<settled, configured>>
    BY <1>1 DEF Bit
  <2>2. "ag" \in configured => settled' + discard' >= TurnOn + 0
    BY <1>3, <2>1
  <2> QED BY <2>1, <2>2 DEF CountedDown
<1>7. NotStale'
  <2> SUFFICES ASSUME sensor', NEW h \in Half PROVE silent'[h] <= StaleTimeout
    BY DEF NotStale, Bit
  <2>1. ~(Stale(ages) > StaleTimeout)
    BY <1>1 DEF Fail
  <2>2. Stale(ages) \in Nat /\ \A g \in Half : ages[g] <= Stale(ages)
    BY <1>2, StaleIsOldest
  <2>4. ages[h] \in Nat
    BY <1>2
  <2> QED BY <1>1, <2>1, <2>2, <2>4
<1> QED BY <1>1, <1>3, <1>5, <1>6, <1>7 DEF ImuInductive, Settled, FromConfigured

LEMMA PollKeeps ==
  ASSUME ImuInductive, Poll
  PROVE  ImuInductive'
<1>1. polled' = TRUE /\ polled = FALSE
  BY DEF Poll, ImuInductive
<1>2. CASE sensor /\ there
  BY <1>1, <1>2, ReadBothKeeps DEF Poll
<1>3. CASE sensor /\ ~there
  <2>1. Fail /\ UNCHANGED <<chip, discard, silent, window, bias, early>>
    BY <1>3 DEF Poll
  <2>2. open' = FALSE /\ sensor' = FALSE /\ retry' \in 0..ReconnectPeriod
    BY <2>1, ImuAssumption DEF Fail
  <2> QED BY <1>1, <2>1, <2>2
          DEF chip, ImuInductive, ImuTypeOK, Settled, FromConfigured, CountedDown, NotStale
<1>4. CASE ~sensor /\ retry = 0
  BY <1>1, <1>4, ConnectKeeps DEF Poll
<1>5. CASE ~sensor /\ retry # 0
  BY <1>1, <1>5
     DEF Poll, chip, ImuInductive, ImuTypeOK, Settled, FromConfigured, CountedDown, NotStale
<1> QED BY <1>2, <1>3, <1>4, <1>5

LEMMA BusErrorKeeps ==
  ASSUME ImuInductive, BusError
  PROVE  ImuInductive'
<1>1. open' = FALSE /\ sensor' = FALSE /\ retry' \in 0..ReconnectPeriod /\ troubles' \in 0..Troubles
  BY ImuAssumption DEF BusError, Fail, ImuInductive, ImuTypeOK
<1> QED BY <1>1 DEF BusError, ImuInductive, ImuTypeOK, Settled, FromConfigured, CountedDown, NotStale

LEMMA ImuSteps ==
  ASSUME ImuInductive, [ImuNext]_imuVars
  PROVE  ImuInductive'
<1>1. CASE UNCHANGED imuVars
  BY <1>1 DEF imuVars, chip, ImuInductive, ImuTypeOK, Settled, FromConfigured, CountedDown, NotStale
<1> QED BY <1>1, ElapseKeeps, TroubleKeeps, PollKeeps, BusErrorKeeps DEF ImuNext

\* The samples dropped and the samples since the chip was turned on always make up a start.
THEOREM ImuInductiveHolds == ImuSpec => []ImuInductive
  BY ImuStarts, ImuSteps, PTL DEF ImuSpec

\* Nothing is published of a chip that is settling, and a half that has frozen is noticed
\* within stale_timeout: read_accel_gyro's discard and the poll's two ages.
THEOREM ImuIsSafe == ImuSpec => []ImuSafety
<1>1. ImuInductive => ImuSafety
  <2> SUFFICES ASSUME ImuInductive, sensor, NEW h \in Half PROVE silent[h] <= StaleTimeout + 1
    BY DEF ImuInductive, ImuSafety, HalfFrozen
  <2>1. silent[h] \in Nat /\ Bit(~polled) \in 0..1
    BY BitType DEF ImuInductive, ImuTypeOK
  <2> QED BY <2>1, ImuAssumption DEF ImuInductive, NotStale
<1> QED BY <1>1, ImuInductiveHolds, PTL

-----------------------------------------------------------------------------
(* The bias. *)

\* A set of natural numbers has a least element.
LEMMA LeastNumber ==
  ASSUME NEW T, T \subseteq Nat, T # {}
  PROVE  \E x \in T : \A y \in T : x <= y
<1>1. \E x \in T : \A y \in T : ~(<<y, x>> \in OpToRel(<, Nat))
  BY WFMin, NatLessThanWellFounded
<1>2. PICK x \in T : \A y \in T : ~(<<y, x>> \in OpToRel(<, Nat))
  BY <1>1
<1>3. ASSUME NEW y \in T PROVE x <= y
  <2>1. ~(y < x)
    BY <1>2 DEF OpToRel
  <2> QED BY <2>1
<1> QED BY <1>3

\* The sums of the first samples, as a function of their number.
AreSums(f, rates, n) ==
  f = [i \in 0..n |-> IF i = 0 THEN 0 ELSE f[i - 1] + rates[i]]

\* They exist, one after the other.
LEMMA SumsExist ==
  ASSUME NEW rates \in Seq(Int)
  PROVE  \E f \in [0..Len(rates) -> Int] : AreSums(f, rates, Len(rates))
<1> DEFINE Missing == {n \in 0..Len(rates) : ~\E f \in [0..n -> Int] : AreSums(f, rates, n)}
<1>1. Missing \subseteq Nat /\ Len(rates) \in Nat
  OBVIOUS
<1> SUFFICES ASSUME Missing # {} PROVE FALSE
  BY <1>1
<1>2. PICK n \in Missing : \A m \in Missing : n <= m
  BY <1>1, LeastNumber
<1>3. n # 0
  <2>1. ASSUME n = 0 PROVE AreSums([i \in 0..0 |-> 0], rates, n)
    BY <2>1 DEF AreSums
  <2>2. [i \in 0..0 |-> 0] \in [0..0 -> Int]
    OBVIOUS
  <2> QED BY <1>2, <2>1, <2>2
<1>4. n \in 1..Len(rates) /\ n - 1 \in 0..Len(rates) /\ ~(n <= n - 1)
  BY <1>1, <1>2, <1>3
<1>5. n - 1 \notin Missing
  <2> HIDE DEF Missing
  <2> QED BY <1>2, <1>4
<1>6. PICK f \in [0..(n - 1) -> Int] : AreSums(f, rates, n - 1)
  BY <1>4, <1>5
<1> DEFINE g == [i \in 0..n |-> IF i < n THEN f[i] ELSE f[n - 1] + rates[n]]
<1>7. rates[n] \in Int /\ n \in 1..Len(rates)
  BY <1>1, <1>2, <1>3
<1>8. g \in [0..n -> Int]
  BY <1>7
<1>9. ASSUME NEW i \in 0..n PROVE g[i] = IF i = 0 THEN 0 ELSE g[i - 1] + rates[i]
  <2>1. CASE i = n
    BY <1>7, <2>1
  <2>2. CASE i # n
    <3>1. i \in 0..(n - 1) /\ g[i] = f[i] /\ (i # 0 => i - 1 \in 0..n /\ g[i - 1] = f[i - 1])
      BY <1>7, <2>2
    <3>2. f[i] = IF i = 0 THEN 0 ELSE f[i - 1] + rates[i]
      BY <1>6, <3>1 DEF AreSums
    <3> QED BY <3>1, <3>2
  <2> QED BY <2>1, <2>2
<1>10. AreSums(g, rates, n)
  BY <1>9 DEF AreSums
<1> QED BY <1>2, <1>8, <1>10

\* The sum of the samples is a number.
LEMMA SumType ==
  ASSUME NEW rates \in Seq(Int)
  PROVE  Sum(rates) \in Int
<1> DEFINE total == CHOOSE f : AreSums(f, rates, Len(rates))
<1>1. AreSums(total, rates, Len(rates))
  BY SumsExist
<1>2. Sum(rates) = total[Len(rates)]
  BY DEF Sum, AreSums
<1> HIDE DEF total
<1> DEFINE Wrong == {i \in 0..Len(rates) : total[i] \notin Int}
<1>3. Len(rates) \in Nat /\ Wrong \subseteq Nat
  OBVIOUS
<1>4. ASSUME Wrong # {} PROVE FALSE
  <2>1. PICK n \in Wrong : \A m \in Wrong : n <= m
    BY <1>3, <1>4, LeastNumber
  <2>2. total[n] = IF n = 0 THEN 0 ELSE total[n - 1] + rates[n]
    BY <1>1, <2>1 DEF AreSums
  <2>3. n # 0 => n - 1 \in 0..Len(rates) /\ n - 1 \notin Wrong /\ rates[n] \in Int
    BY <1>3, <2>1
  <2> QED BY <2>1, <2>2, <2>3
<1> QED BY <1>2, <1>3, <1>4

\* Two samples no further than a tolerance from the mean are no further than two apart.
LEMMA StillTogether ==
  ASSUME NEW rates \in Seq(Int), Still(rates), NEW i \in DOMAIN rates, NEW j \in DOMAIN rates
  PROVE  rates[i] - rates[j] <= 2 * Tolerance
<1> DEFINE n == Len(rates)
<1> DEFINE d == rates[i] - rates[j] - 2 * Tolerance
<1>1. n \in Nat \ {0} /\ rates[i] \in Int /\ rates[j] \in Int /\ Tolerance \in Int
  BY ImuAssumption
<1>2. Sum(rates) \in Int /\ n * rates[i] \in Int /\ n * rates[j] \in Int /\ n * Tolerance \in Int
  BY <1>1, SumType
<1>3. /\ n * rates[i] - Sum(rates) <= n * Tolerance
      /\ -(n * rates[j] - Sum(rates)) <= n * Tolerance
  BY DEF Still
<1>4. n * rates[i] - n * rates[j] - 2 * (n * Tolerance) <= 0
  BY <1>2, <1>3
<1>5. n * d = n * rates[i] - n * rates[j] - 2 * (n * Tolerance)
  BY <1>1
<1>6. d \in Int /\ n * d <= 0
  BY <1>1, <1>4, <1>5
<1>7. d > 0 => n * d > 0
  BY <1>1, <1>6
<1> QED BY <1>1, <1>6, <1>7

\* A bias is taken once, and only of a chip at rest: GyroBiasEstimator.add looks at every
\* sample of its window.
THEOREM BiasIsStill == ImuSpec => BiasFromStill
<1> DEFINE Taken == bias = Unknown /\
             \A r \in ToSet(window), q \in ToSet(window) : r - q <= 2 * Tolerance
<1>1. ASSUME ImuInductive, ImuNext, bias' # bias PROVE Taken
  <2>1. PICK rate \in Rates : HandleSample(rate)
    BY <1>1 DEF ImuNext, Elapse, Trouble, BusError, Poll, ConnectChip, ReadBoth, ReadAccelGyro
  <2>2. bias = Unknown /\ Add(rate)
    BY <1>1, <2>1 DEF HandleSample
  <2> DEFINE rates == Append(window, rate)
  <2>3. window \in Seq(Int) /\ rate \in Int /\ rates \in Seq(Int)
    <3>1. window \in Seq(Rates) /\ Rates \subseteq Int
      BY <1>1, ImuAssumption DEF ImuInductive, ImuTypeOK
    <3>2. window = [i \in 1..Len(window) |-> window[i]] /\ Len(window) \in Nat
      BY <3>1
    <3>3. \A i \in 1..Len(window) : window[i] \in Int
      BY <3>1, ElementOfSeq
    <3>4. [i \in 1..Len(window) |-> window[i]] \in Seq(Int)
      BY <3>2, <3>3
    <3> QED BY <3>1, <3>2, <3>4
  <2>4. Still(rates)
    BY <1>1, <2>2 DEF Add
  <2>5. \A i \in DOMAIN window : i \in DOMAIN rates /\ rates[i] = window[i]
    BY <2>3
  <2>6. \A i, j \in DOMAIN window : window[i] - window[j] <= 2 * Tolerance
    BY <2>3, <2>4, <2>5, StillTogether
  <2> QED BY <2>2, <2>6 DEF ToSet
<1>2. ASSUME ImuInductive, [ImuNext]_imuVars
      PROVE  [bias' # bias => Taken]_imuVars
  BY <1>1, <1>2
<1> QED BY <1>2, ImuInductiveHolds, PTL DEF ImuSpec, BiasFromStill

-----------------------------------------------------------------------------
(* The bridge: the halves on the wire. *)

Piece == [line : Lines, newline : BOOLEAN]

\* What the board writes are lines.
LEMMA LinesAreLines ==
  /\ Banner \in Lines /\ Malformed \in Lines /\ Rest \in Piece
  /\ \A kind \in {"warning", "recovered"}, s \in Side : Status(kind, s) \in Lines
  /\ \A cm \in [Side -> Distances], dead \in [Side -> 0..LastPing] : Reading(cm, dead) \in Lines
  BY DEF Lines, Banner, Malformed, Status, Reading, Rest, Piece

\* A line is sent as two halves.
LEMMA HalvesOfLine ==
  ASSUME NEW line \in Lines
  PROVE  /\ Halves(line) \in Seq(Piece) /\ Len(Halves(line)) = 2
         /\ Halves(line)[1] = [line |-> line, newline |-> FALSE]
         /\ Halves(line)[2] = [line |-> line, newline |-> TRUE]
<1>1. /\ [line |-> line, newline |-> FALSE] \in Piece
      /\ [line |-> line, newline |-> TRUE] \in Piece
  BY DEF Piece
<1> QED BY <1>1 DEF Halves

\* The half before the k-th one on the wire; before the first one comes what is kept of the
\* line so far, or the end of the last line.
Before(kept, w, k) ==
  IF k > 1 THEN w[k - 1] ELSE IF kept = <<>> THEN Rest ELSE Last(kept)

\* A half that does not go on where the one before it ended.
Breaks(prev, half) ==
  IF half.newline THEN prev.newline \/ prev.line # half.line ELSE ~prev.newline

\* The places where something is missing; the last one waits for the start of a line.
Seams(kept, w) ==
  {k \in 1..(Len(w) + 1) :
     IF k > Len(w) THEN ~Before(kept, w, k).newline ELSE Breaks(Before(kept, w, k), w[k])}

LEMMA SeamsFinite ==
  ASSUME NEW kept, NEW w \in Seq(Piece)
  PROVE  /\ IsFiniteSet(Seams(kept, w)) /\ Cardinality(Seams(kept, w)) \in Nat
         /\ Seams(kept, w) \subseteq 1..(Len(w) + 1)
<1>1. Len(w) + 1 \in Nat /\ Seams(kept, w) \subseteq 1..(Len(w) + 1)
  BY DEF Seams
<1>2. IsFiniteSet(1..(Len(w) + 1))
  BY <1>1, FS_Interval
<1> QED BY <1>1, <1>2, FS_Subset, FS_CardinalityType

\* A whole line leaves the seams as they are.
LEMMA WholeLinesJoin ==
  ASSUME NEW kept, NEW w \in Seq(Piece), NEW line \in Lines
  PROVE  Seams(kept, w \o Halves(line)) = Seams(kept, w)
<1> DEFINE n == Len(w)
           v == w \o Halves(line)
<1>1. n \in Nat /\ Halves(line) \in Seq(Piece) /\ Len(Halves(line)) = 2
  BY HalvesOfLine, LenProperties
<1>2. /\ v \in Seq(Piece) /\ Len(v) = n + 2
      /\ \A k \in 1..n : v[k] = w[k]
      /\ v[n + 1] = [line |-> line, newline |-> FALSE]
      /\ v[n + 2] = [line |-> line, newline |-> TRUE]
  BY <1>1, HalvesOfLine, ConcatProperties
<1> HIDE DEF v
<1>3. \A k \in 1..(n + 1) : Before(kept, v, k) = Before(kept, w, k)
  BY <1>1, <1>2 DEF Before
<1>4. \A k \in 1..n : k \in Seams(kept, v) <=> k \in Seams(kept, w)
  BY <1>1, <1>2, <1>3 DEF Seams
<1>5. n + 1 \in Seams(kept, v) <=> n + 1 \in Seams(kept, w)
  <2>1. Breaks(Before(kept, v, n + 1), v[n + 1]) <=> ~Before(kept, w, n + 1).newline
    BY <1>1, <1>2, <1>3 DEF Breaks
  <2> QED BY <1>1, <1>2, <2>1 DEF Seams
<1>6. n + 2 \notin Seams(kept, v) /\ n + 3 \notin Seams(kept, v)
  <2>1. Before(kept, v, n + 2) = v[n + 1] /\ Before(kept, v, n + 3) = v[n + 2]
    BY <1>1 DEF Before
  <2>2. ~Breaks(v[n + 1], v[n + 2]) /\ v[n + 2].newline
    BY <1>2 DEF Breaks
  <2> QED BY <1>1, <1>2, <2>1, <2>2 DEF Seams
<1>7. Seams(kept, v) \subseteq 1..(n + 3) /\ Seams(kept, w) \subseteq 1..(n + 1)
  BY <1>2 DEF Seams
<1>8. \A k : k \in Seams(kept, v) <=> k \in Seams(kept, w)
  BY <1>1, <1>4, <1>5, <1>6, <1>7
<1> QED BY <1>8 DEF v

\* What maps one to one into a set is no larger.
LEMMA Shifted ==
  ASSUME NEW S, NEW T, S \subseteq Int, IsFiniteSet(T), NEW d \in Int, \A k \in S : k + d \in T
  PROVE  IsFiniteSet(S) /\ Cardinality(S) <= Cardinality(T)
<1> DEFINE f == [k \in S |-> k + d]
<1>1. f \in [S -> T]
  OBVIOUS
<1>2. \A a, b \in S : f[a] = f[b] => a = b
  OBVIOUS
<1>3. f \in Injection(S, T)
  BY <1>1, <1>2 DEF Injection, IsInjective
<1> QED BY <1>3, FS_Injection

\* Cutting off the end leaves one more seam at most.
LEMMA CutEnd ==
  ASSUME NEW kept, NEW w \in Seq(Piece), w # <<>>
  PROVE  /\ Front(w) \in Seq(Piece) /\ Len(Front(w)) = Len(w) - 1
         /\ Cardinality(Seams(kept, Front(w))) <= Cardinality(Seams(kept, w)) + 1
<1> DEFINE n == Len(w)
           v == Front(w)
<1>1. n \in Nat \ {0}
  BY EmptySeq
<1>2. /\ v \in Seq(Piece) /\ Len(v) = n - 1
      /\ \A k \in 1..(n - 1) : v[k] = w[k]
  <2>1. v = SubSeq(w, 1, n - 1)
    BY DEF Front
  <2>2. \A k \in 1..(n - 1) : w[k] \in Piece
    BY <1>1, ElementOfSeq
  <2>3. /\ SubSeq(w, 1, n - 1) \in Seq(Piece)
        /\ Len(SubSeq(w, 1, n - 1)) = IF 1 <= n - 1 THEN (n - 1) - 1 + 1 ELSE 0
        /\ \A k \in 1..((n - 1) - 1 + 1) : SubSeq(w, 1, n - 1)[k] = w[1 + k - 1]
    BY <1>1, <2>2, SubSeqProperties
  <2>4. PICK m \in Nat \ {0} : m = n
    BY <1>1
  <2>5. PICK a \in Seq(Piece) : a = v
    BY <2>1, <2>3
  <2>6. /\ Len(a) = IF 1 <= m - 1 THEN (m - 1) - 1 + 1 ELSE 0
        /\ \A k \in 1..((m - 1) - 1 + 1) : a[k] = w[1 + k - 1]
    BY <2>1, <2>3, <2>4, <2>5
  <2>7. Len(a) = m - 1 /\ \A k \in 1..(m - 1) : a[k] = w[k]
    BY <2>6
  <2> QED BY <2>4, <2>5, <2>7
<1> HIDE DEF v
<1>3. Seams(kept, v) \subseteq Seams(kept, w) \cup {n}
  <2> SUFFICES ASSUME NEW k \in Seams(kept, v), k # n PROVE k \in Seams(kept, w)
    OBVIOUS
  <2>1. k \in 1..(n - 1)
    BY <1>1, <1>2 DEF Seams
  <2>2. Before(kept, v, k) = Before(kept, w, k) /\ v[k] = w[k]
    BY <1>1, <1>2, <2>1 DEF Before
  <2> QED BY <1>1, <1>2, <2>1, <2>2 DEF Seams
<1>4. IsFiniteSet(Seams(kept, w)) /\ Cardinality(Seams(kept, w)) \in Nat
  BY SeamsFinite
<1>5. /\ IsFiniteSet(Seams(kept, w) \cup {n})
      /\ Cardinality(Seams(kept, w) \cup {n}) <= Cardinality(Seams(kept, w)) + 1
      /\ Cardinality(Seams(kept, w) \cup {n}) \in Nat
  <2>1. /\ IsFiniteSet(Seams(kept, w) \cup {n})
        /\ Cardinality(Seams(kept, w) \cup {n})
             = IF n \in Seams(kept, w) THEN Cardinality(Seams(kept, w))
               ELSE Cardinality(Seams(kept, w)) + 1
    BY <1>4, FS_AddElement
  <2> QED BY <1>4, <2>1
<1>6. Cardinality(Seams(kept, v)) <= Cardinality(Seams(kept, w) \cup {n})
  BY <1>3, <1>5, FS_Subset, Zenon
<1>7. Cardinality(Seams(kept, v)) \in Nat
  BY <1>2, SeamsFinite
<1> QED BY <1>2, <1>4, <1>5, <1>6, <1>7 DEF v

\* Losing halves in a row makes one seam of all those among them.
LEMMA LossJoins ==
  ASSUME NEW kept, NEW w \in Seq(Piece), NEW i \in 1..Len(w), NEW j \in i..Len(w)
  PROVE  /\ SubSeq(w, 1, i - 1) \o SubSeq(w, j + 1, Len(w)) \in Seq(Piece)
         /\ Len(SubSeq(w, 1, i - 1) \o SubSeq(w, j + 1, Len(w))) <= Len(w)
         /\ Cardinality(Seams(kept, SubSeq(w, 1, i - 1) \o SubSeq(w, j + 1, Len(w))))
               <= Cardinality(Seams(kept, w)) + 1
<1>1. PICK n : n = Len(w)
  OBVIOUS
<1>2. PICK d : d = j - i + 1
  OBVIOUS
<1>3. PICK v : v = SubSeq(w, 1, i - 1) \o SubSeq(w, j + 1, n)
  OBVIOUS
<1>4. n \in Nat /\ i \in 1..n /\ j \in i..n /\ d \in Int /\ d = j - i + 1
  BY <1>1, <1>2, LenProperties
<1>5. \A k \in 1..n : w[k] \in Piece
  BY <1>1, ElementOfSeq
<1>6. /\ SubSeq(w, 1, i - 1) \in Seq(Piece) /\ Len(SubSeq(w, 1, i - 1)) = i - 1
      /\ \A k \in 1..(i - 1) : SubSeq(w, 1, i - 1)[k] = w[k]
  <2>1. \A k \in 1..(i - 1) : w[k] \in Piece
    BY <1>4, <1>5
  <2>2. /\ SubSeq(w, 1, i - 1) \in Seq(Piece)
        /\ Len(SubSeq(w, 1, i - 1)) = IF 1 <= i - 1 THEN (i - 1) - 1 + 1 ELSE 0
        /\ \A k \in 1..((i - 1) - 1 + 1) : SubSeq(w, 1, i - 1)[k] = w[1 + k - 1]
    BY <1>4, <2>1, SubSeqProperties
  <2> QED BY <1>4, <2>2
<1>7. /\ SubSeq(w, j + 1, n) \in Seq(Piece) /\ Len(SubSeq(w, j + 1, n)) = n - j
      /\ \A k \in 1..(n - j) : SubSeq(w, j + 1, n)[k] = w[j + k]
  <2>1. \A k \in (j + 1)..n : w[k] \in Piece
    BY <1>4, <1>5
  <2>2. /\ SubSeq(w, j + 1, n) \in Seq(Piece)
        /\ Len(SubSeq(w, j + 1, n)) = IF j + 1 <= n THEN n - (j + 1) + 1 ELSE 0
        /\ \A k \in 1..(n - (j + 1) + 1) : SubSeq(w, j + 1, n)[k] = w[(j + 1) + k - 1]
    BY <1>4, <2>1, SubSeqProperties
  <2> QED BY <1>4, <2>2
<1>8. /\ v \in Seq(Piece) /\ Len(v) = n - d
      /\ \A k \in 1..(i - 1) : v[k] = w[k]
      /\ \A k \in i..(n - d) : v[k] = w[k + d]
  <2>1. /\ v \in Seq(Piece) /\ Len(v) = (i - 1) + (n - j)
        /\ \A k \in 1..((i - 1) + (n - j)) : v[k] =
              IF k <= i - 1 THEN SubSeq(w, 1, i - 1)[k] ELSE SubSeq(w, j + 1, n)[k - (i - 1)]
    <3>1. PICK a \in Seq(Piece) : a = SubSeq(w, 1, i - 1) /\ Len(a) = i - 1
      BY <1>6
    <3>2. PICK b \in Seq(Piece) : b = SubSeq(w, j + 1, n) /\ Len(b) = n - j
      BY <1>7
    <3>3. /\ a \o b \in Seq(Piece) /\ Len(a \o b) = Len(a) + Len(b)
          /\ \A k \in 1..(Len(a) + Len(b)) : (a \o b)[k] = IF k <= Len(a) THEN a[k] ELSE b[k - Len(a)]
      BY ConcatProperties
    <3>4. v = a \o b
      BY <1>3, <3>1, <3>2
    <3> QED BY <3>1, <3>2, <3>3, <3>4
  <2>2. ASSUME NEW k \in i..(n - d) PROVE v[k] = w[k + d]
    <3>1. v[k] = SubSeq(w, j + 1, n)[k - (i - 1)] /\ k - (i - 1) \in 1..(n - j)
      BY <1>4, <2>1
    <3>2. v[k] = w[j + (k - (i - 1))]
      BY <1>7, <3>1
    <3> QED BY <1>4, <3>2
  <2> QED BY <1>4, <1>6, <2>1, <2>2
<1>9. \A k \in Seams(kept, v) : k < i => k \in Seams(kept, w)
  <2> SUFFICES ASSUME NEW k \in Seams(kept, v), k < i PROVE k \in Seams(kept, w)
    OBVIOUS
  <2>1. k \in 1..(i - 1) /\ k \in 1..(n - d)
    BY <1>4, <1>8, <1>1 DEF Seams
  <2>2. Before(kept, v, k) = Before(kept, w, k) /\ v[k] = w[k]
    BY <1>4, <1>8, <2>1 DEF Before
  <2> QED BY <1>4, <1>8, <2>1, <2>2, <1>1 DEF Seams
<1>10. \A k \in Seams(kept, v) : k > i => k + d \in Seams(kept, w)
  <2> SUFFICES ASSUME NEW k \in Seams(kept, v), k > i PROVE k + d \in Seams(kept, w)
    OBVIOUS
  <2>1. k \in (i + 1)..(n - d + 1) /\ k + d \in 2..(n + 1)
    BY <1>4, <1>8, <1>1 DEF Seams
  <2>2. Before(kept, v, k) = Before(kept, w, k + d)
    BY <1>4, <1>8, <2>1 DEF Before
  <2>3. k <= n - d => v[k] = w[k + d]
    BY <1>4, <1>8, <2>1
  <2> QED BY <1>4, <1>8, <2>1, <2>2, <2>3, <1>1 DEF Seams
<1> DEFINE rest == Seams(kept, v) \ {i}
           f == [k \in rest |-> IF k < i THEN k ELSE k + d]
<1>11. IsFiniteSet(Seams(kept, v)) /\ Cardinality(Seams(kept, v)) \in Nat
      /\ Seams(kept, v) \subseteq Int
  BY <1>8, SeamsFinite
<1>12. f \in [rest -> Seams(kept, w)]
  BY <1>4, <1>9, <1>10, <1>11
<1>13. \A a, b \in rest : f[a] = f[b] => a = b
  BY <1>4, <1>11
<1>14. f \in Injection(rest, Seams(kept, w))
  BY <1>12, <1>13 DEF Injection, IsInjective
<1>15. IsFiniteSet(Seams(kept, w)) /\ Cardinality(Seams(kept, w)) \in Nat
  BY SeamsFinite
<1>16. Cardinality(rest) <= Cardinality(Seams(kept, w))
  BY <1>14, <1>15, FS_Injection
<1>17. Cardinality(rest) = IF i \in Seams(kept, v) THEN Cardinality(Seams(kept, v)) - 1
                           ELSE Cardinality(Seams(kept, v))
  BY <1>11, FS_RemoveElement
<1>18. Cardinality(Seams(kept, v)) <= Cardinality(Seams(kept, w)) + 1
  BY <1>11, <1>15, <1>16, <1>17
<1>19. Len(v) <= n
  BY <1>4, <1>8
<1> QED BY <1>8, <1>18, <1>19, <1>1, <1>3

\* More than the first half of a line is kept, and so nothing of it will be handled as sent.
Long(kept) == IF Len(kept) > 1 THEN 1 ELSE 0
\* A newline ends what is not one whole line.
Spoilt(halves) == IF Last(halves).newline /\ halves # Halves(halves[1].line) THEN 1 ELSE 0

LEMMA LastOfAppend ==
  ASSUME NEW kept \in Seq(Piece), NEW half \in Piece
  PROVE  /\ Append(kept, half) \in Seq(Piece) /\ Append(kept, half) # <<>>
         /\ Len(Append(kept, half)) = Len(kept) + 1 /\ Last(Append(kept, half)) = half
         /\ kept = <<>> => Append(kept, half)[1] = half
         /\ kept # <<>> => Append(kept, half)[1] = kept[1]
<1>1. /\ Append(kept, half) \in Seq(Piece) /\ Append(kept, half) # <<>>
      /\ Len(Append(kept, half)) = Len(kept) + 1
      /\ \A i \in 1..Len(kept) : Append(kept, half)[i] = kept[i]
      /\ Append(kept, half)[Len(kept) + 1] = half
  BY AppendProperties
<1>2. Len(kept) \in Nat /\ (kept = <<>> => Len(kept) = 0) /\ (kept # <<>> => Len(kept) > 0)
  BY EmptySeq
<1>3. Last(Append(kept, half)) = half
  BY <1>1 DEF Last
<1> QED BY <1>1, <1>2, <1>3

\* Reading a half shifts the seams.
LEMMA SeamsMove ==
  ASSUME NEW kept \in Seq(Piece), \A i \in 1..Len(kept) : ~kept[i].newline,
         NEW w \in Seq(Piece), w # <<>>, NEW halves, halves = Append(kept, Head(w))
  PROVE  /\ \A k \in Seams(Kept(halves), Tail(w)) : k > 1 => k + 1 \in Seams(kept, w) \ {1}
         /\ Head(w).newline \/ Len(halves) <= MaxLine =>
              (1 \in Seams(Kept(halves), Tail(w)) => 2 \in Seams(kept, w))
<1>1. PICK half \in Piece : half = Head(w) /\ half = w[1]
  BY HeadTailProperties
<1>2. PICK v \in Seq(Piece) : /\ v = Tail(w) /\ Len(v) = Len(w) - 1
                              /\ \A k \in 1..Len(v) : v[k] = w[k + 1]
  BY HeadTailProperties
<1>3. PICK n \in Nat \ {0} : n = Len(w) /\ Len(v) = n - 1
  BY <1>2, EmptySeq
<1>4. /\ halves \in Seq(Piece) /\ halves # <<>> /\ Len(halves) = Len(kept) + 1
      /\ Last(halves) = half
      /\ kept = <<>> => halves[1] = half
      /\ kept # <<>> => halves[1] = kept[1]
  BY <1>1, LastOfAppend
<1>5. /\ Len(kept) \in Nat /\ (kept = <<>> <=> Len(kept) = 0)
      /\ kept # <<>> => Last(kept) = kept[Len(kept)] /\ Last(kept) \in Piece /\ ~Last(kept).newline
  BY EmptySeq, ElementOfSeq DEF Last
<1>6. PICK next \in Seq(Piece) : next = Kept(halves)
  BY <1>4, EmptySeq DEF Kept
<1>7. next = (IF half.newline \/ Len(halves) > MaxLine THEN <<>> ELSE halves)
  BY <1>4, <1>6 DEF Kept
\* The seams after the first place are those of before, but for their places.
<1>8. \A k \in Seams(next, v) : k > 1 => k + 1 \in Seams(kept, w) \ {1}
  <2> SUFFICES ASSUME NEW k \in Seams(next, v), k > 1 PROVE k + 1 \in Seams(kept, w)
    BY <1>3 DEF Seams
  <2>1. k \in 2..n
    BY <1>3 DEF Seams
  <2>2. Before(next, v, k) = Before(kept, w, k + 1)
    BY <1>2, <1>3, <2>1 DEF Before
  <2>3. k < n => v[k] = w[k + 1]
    BY <1>2, <1>3, <2>1
  <2> QED BY <1>3, <2>1, <2>2, <2>3 DEF Seams
\* At the first place there is a new one only when the line that grew too long is dropped.
<1>9. half.newline \/ Len(halves) <= MaxLine => (1 \in Seams(next, v) => 2 \in Seams(kept, w))
  <2> SUFFICES ASSUME half.newline \/ Len(halves) <= MaxLine, 1 \in Seams(next, v)
               PROVE  2 \in Seams(kept, w)
    OBVIOUS
  <2>1. Before(next, v, 1) = IF half.newline THEN Rest ELSE half
    <3>1. MaxLine \in Nat /\ Len(halves) \in Nat
      BY <1>4, <1>5, SensorAssumption
    <3>2. CASE half.newline
      BY <1>7, <3>2 DEF Before
    <3>3. CASE ~half.newline
      BY <1>4, <1>7, <3>1, <3>3 DEF Before
    <3> QED BY <3>2, <3>3
  <2>2. Before(kept, w, 2) = half
    BY <1>1 DEF Before
  <2>3. n > 1 => v[1] = w[2]
    BY <1>2, <1>3
  <2>4. Rest.newline
    BY DEF Rest
  <2>5. CASE n = 1
    BY <1>3, <2>1, <2>2, <2>4, <2>5 DEF Seams
  <2>6. CASE n > 1
    <3>1. Breaks(Before(next, v, 1), v[1])
      BY <1>3, <2>6 DEF Seams
    <3>2. Breaks(half, v[1])
      BY <2>1, <2>4, <3>1 DEF Breaks
    <3> QED BY <1>3, <2>2, <2>3, <2>6, <3>2 DEF Seams
  <2> QED BY <1>3, <2>5, <2>6
<1> QED BY <1>1, <1>2, <1>6, <1>8, <1>9

\* A line is spoilt, or grows too long, only at a seam, or
\* after it has got long; and each seam is passed once.
LEMMA ReadJoins ==
  ASSUME NEW kept \in Seq(Piece), \A i \in 1..Len(kept) : ~kept[i].newline,
         NEW w \in Seq(Piece), w # <<>>, NEW halves, halves = Append(kept, Head(w))
  PROVE  Cardinality(Seams(Kept(halves), Tail(w))) + Long(Kept(halves)) + Spoilt(halves)
           <= Cardinality(Seams(kept, w)) + Long(kept)
<1>1. PICK half \in Piece : half = Head(w) /\ half = w[1]
  BY HeadTailProperties
<1>2. PICK v \in Seq(Piece) : /\ v = Tail(w) /\ Len(v) = Len(w) - 1
                              /\ \A k \in 1..Len(v) : v[k] = w[k + 1]
  BY HeadTailProperties
<1>3. PICK n \in Nat \ {0} : n = Len(w) /\ Len(v) = n - 1
  BY <1>2, EmptySeq
<1>4. /\ halves \in Seq(Piece) /\ halves # <<>> /\ Len(halves) = Len(kept) + 1
      /\ Last(halves) = half
      /\ kept = <<>> => halves[1] = half
      /\ kept # <<>> => halves[1] = kept[1]
  BY <1>1, LastOfAppend
<1>5. /\ Len(kept) \in Nat /\ (kept = <<>> <=> Len(kept) = 0)
      /\ kept # <<>> => Last(kept) = kept[Len(kept)] /\ Last(kept) \in Piece /\ ~Last(kept).newline
  BY EmptySeq, ElementOfSeq DEF Last
<1>6. PICK next \in Seq(Piece) : next = Kept(halves)
  BY <1>4, EmptySeq DEF Kept
<1>7. next = (IF half.newline \/ Len(halves) > MaxLine THEN <<>> ELSE halves)
  BY <1>4, <1>6 DEF Kept
<1>8. \A k \in Seams(next, v) : k > 1 => k + 1 \in Seams(kept, w) \ {1}
  BY <1>2, <1>6, SeamsMove
<1>9. half.newline \/ Len(halves) <= MaxLine => (1 \in Seams(next, v) => 2 \in Seams(kept, w))
  BY <1>1, <1>2, <1>6, SeamsMove
<1>10. PICK S : S = Seams(next, v)
  OBVIOUS
<1>11. PICK T : T = Seams(kept, w)
  OBVIOUS
<1>12. /\ IsFiniteSet(S) /\ Cardinality(S) \in Nat /\ S \subseteq Int /\ \A k \in S : k >= 1
       /\ IsFiniteSet(T) /\ Cardinality(T) \in Nat
  <2>1. IsFiniteSet(S) /\ Cardinality(S) \in Nat /\ S \subseteq 1..(Len(v) + 1)
    BY <1>10, SeamsFinite
  <2>2. IsFiniteSet(T) /\ Cardinality(T) \in Nat
    BY <1>11, SeamsFinite
  <2> QED BY <1>3, <2>1, <2>2
<1>13. /\ IsFiniteSet(T \ {1}) /\ Cardinality(T \ {1}) \in Nat
       /\ Cardinality(T \ {1}) = IF 1 \in T THEN Cardinality(T) - 1 ELSE Cardinality(T)
  BY <1>12, FS_RemoveElement, FS_CardinalityType
<1>14. /\ Cardinality(S \ {1}) <= Cardinality(T \ {1})
       /\ Cardinality(S \ {1}) = IF 1 \in S THEN Cardinality(S) - 1 ELSE Cardinality(S)
  <2>1. \A k \in S \ {1} : k + 1 \in T \ {1}
    BY <1>8, <1>10, <1>11, <1>12
  <2>2. S \ {1} \subseteq Int
    BY <1>12
  <2>3. Cardinality(S \ {1}) <= Cardinality(T \ {1})
    BY <1>13, <2>1, <2>2, Shifted
  <2> QED BY <1>12, <2>3, FS_RemoveElement
<1>15. (1 \in S => 2 \in T) => Cardinality(S) <= Cardinality(T \ {1})
  <2> SUFFICES ASSUME 1 \in S => 2 \in T PROVE Cardinality(S) <= Cardinality(T \ {1})
    OBVIOUS
  <2>1. \A k \in S : k + 1 \in T \ {1}
    BY <1>8, <1>10, <1>11, <1>12
  <2>2. S \subseteq Int /\ IsFiniteSet(T \ {1}) /\ 1 \in Int
    BY <1>12, <1>13
  <2> QED BY ONLY <2>1, <2>2, Shifted
\* What the half does to the line that is kept.
<1>16. 1 \in T <=> Breaks(Before(kept, w, 1), half)
  BY <1>1, <1>3, <1>11 DEF Seams
<1>17. Before(kept, w, 1) = IF kept = <<>> THEN Rest ELSE Last(kept)
  BY DEF Before
<1>18. CASE half.newline
  <2>1. Long(next) = 0 /\ Long(kept) \in 0..1 /\ Cardinality(S) <= Cardinality(T \ {1})
    BY <1>5, <1>7, <1>9, <1>10, <1>11, <1>15, <1>18, EmptySeq DEF Long
  <2>2. Spoilt(halves) = 1 => 1 \in T \/ Long(kept) = 1
    <3> SUFFICES ASSUME Spoilt(halves) = 1, Len(kept) <= 1 PROVE 1 \in T
      BY <1>5 DEF Long
    <3>1. CASE kept = <<>>
      BY <1>16, <1>17, <1>18, <3>1 DEF Breaks, Rest
    <3>2. CASE kept # <<>>
      <4>1. Len(kept) = 1 /\ Last(kept) = kept[1] /\ ~kept[1].newline /\ kept[1] \in Piece
        <5>1. Len(kept) = 1
          <6>1. PICK m \in Nat : m = Len(kept) /\ m # 0
            BY <1>5, <3>2, Zenon
          <6> QED BY <6>1
        <5> QED BY <1>5, <3>2, <5>1
      <4>2. halves # Halves(halves[1].line) /\ halves[1] = kept[1]
        BY <1>4, <3>2 DEF Spoilt
      <4>3. ASSUME kept[1].line = half.line PROVE FALSE
        <5>1. Len(halves) = 2 /\ halves[2] = half
          BY <1>4, <4>1 DEF Last
        <5>2. kept[1] = [line |-> half.line, newline |-> FALSE] /\ half = [line |-> half.line, newline |-> TRUE]
          BY <1>18, <4>1, <4>3 DEF Piece
        <5>3. half.line \in Lines
          BY DEF Piece
        <5>4. /\ Halves(half.line) \in Seq(Piece) /\ Len(Halves(half.line)) = 2
              /\ Halves(half.line)[1] = kept[1] /\ Halves(half.line)[2] = half
          BY <5>2, <5>3, HalvesOfLine
        <5>5. \A k \in 1..Len(halves) : halves[k] = Halves(half.line)[k]
          BY <4>2, <5>1, <5>4
        <5>6. halves = Halves(half.line)
          BY <1>4, <5>1, <5>4, <5>5, SeqEqual
        <5> QED BY <4>2, <4>3, <5>6
      <4> QED BY <1>16, <1>17, <1>18, <3>2, <4>1, <4>3 DEF Breaks
    <3> QED BY <3>1, <3>2
  <2>3. Spoilt(halves) \in 0..1
    BY DEF Spoilt
  <2> QED BY <1>6, <1>2, <1>10, <1>11, <1>12, <1>13, <2>1, <2>2, <2>3
<1>19. CASE ~half.newline
  <2>1. Spoilt(halves) = 0 /\ Long(kept) \in 0..1 /\ Long(next) \in 0..1
    BY <1>4, <1>19 DEF Spoilt, Long
  <2>2. kept # <<>> => 1 \in T
    BY <1>5, <1>16, <1>17, <1>19 DEF Breaks
  <2>3. MaxLine \in Nat \ {0} /\ Len(halves) \in Nat
    BY <1>4, <1>5, SensorAssumption
  <2>4. CASE Len(halves) <= MaxLine
    <3>1. Cardinality(S) <= Cardinality(T \ {1}) /\ next = halves
      BY <1>7, <1>9, <1>10, <1>11, <1>15, <1>19, <2>3, <2>4
    <3>2. Long(next) = 1 => kept # <<>>
      BY <1>4, <1>5, <3>1 DEF Long
    <3> QED BY <1>2, <1>6, <1>10, <1>11, <1>12, <1>13, <2>1, <2>2, <3>1, <3>2
  <2>5. CASE ~(Len(halves) <= MaxLine)
    <3>1. next = <<>> /\ Long(next) = 0 /\ kept # <<>>
      BY <1>4, <1>5, <1>7, <2>3, <2>5, EmptySeq DEF Long
    <3>2. Cardinality(S) <= Cardinality(T \ {1}) + 1
      BY <1>12, <1>13, <1>14
    <3> QED BY <1>2, <1>6, <1>10, <1>11, <1>12, <1>13, <2>1, <2>2, <3>1, <3>2
  <2> QED BY <2>4, <2>5
<1> QED BY <1>18, <1>19

-----------------------------------------------------------------------------
(* The bridge: types. *)

BridgeTypes ==
  /\ SensorTypeOK
  /\ wire \in Seq(Piece) /\ pending \in Seq(Piece)
  /\ \A i \in 1..Len(pending) : ~pending[i].newline
  /\ losses \in Nat /\ bad \in Nat /\ blind \in [Side -> Nat]
  /\ port = "open" => plugged

\* What the bytes of some halves are read as is a line, or a comment without meaning.
LEMMA ParsedLines ==
  ASSUME NEW halves \in Seq(Piece), halves # <<>>, NEW line \in ParsedAs(halves)
  PROVE  line \in Lines \cup {Comment}
<1>1. halves[1] \in Piece /\ halves[1].line \in Lines
  <2>1. 1 \in 1..Len(halves)
    BY EmptySeq
  <2>2. halves[1] \in Piece
    BY <2>1, ElementOfSeq
  <2> QED BY <2>2 DEF Piece
<1>2. [s \in Side |-> 0] \in [Side -> 0..LastPing] /\ LastPing \in Nat
  BY SensorAssumption DEF LastPing
<1>3. \A cm \in [Side -> Distances] : Reading(cm, [s \in Side |-> 0]) \in Lines
  BY <1>2, LinesAreLines
<1>4. Malformed \in Lines
  BY LinesAreLines
<1>5. \/ line \in {halves[1].line, Malformed, Comment}
      \/ \E cm \in [Side -> Distances] : line = Reading(cm, [s \in Side |-> 0])
  BY DEF ParsedAs
<1> QED BY <1>1, <1>3, <1>4, <1>5

\* A line has what its kind is read for.
LEMMA LineFields ==
  ASSUME NEW line \in Lines \cup {Comment}
  PROVE  /\ line.kind = "reading" => line.cm \in [Side -> Distances] /\ line.dead \in [Side -> 0..LastPing]
         /\ line.kind \in {"warning", "recovered"} => line.side \in Side
         /\ line.kind \in {"banner", "malformed", "comment", "warning", "recovered", "reading"}
  BY DEF Lines, Comment

\* Every distance is published as NaN, as infinite, or in the sensor's range.
LEMMA RangeType ==
  ASSUME NEW cm \in Int, NEW isFaulty \in BOOLEAN
  PROVE  DistanceToRange(cm, isFaulty) \in {NoRange, NaN, Infinite} \cup (MinRange..MaxRange)
  BY SensorAssumption DEF DistanceToRange, Echo, NaN, Infinite

\* handle_line keeps the types.
LEMMA HandleTypes ==
  ASSUME BridgeTypes, NEW line \in Lines \cup {Comment}, Handle(line), blind' = Blind(line)
  PROVE  /\ ranges' \in [Side -> {NoRange, NaN, Infinite} \cup (MinRange..MaxRange)]
         /\ faulty' \in [Side -> BOOLEAN] /\ blind' \in [Side -> Nat]
<1>1. faulty \in [Side -> BOOLEAN] /\ blind \in [Side -> Nat]
      /\ ranges \in [Side -> {NoRange, NaN, Infinite} \cup (MinRange..MaxRange)]
  BY DEF BridgeTypes, SensorTypeOK
<1>2. ranges' \in [Side -> {NoRange, NaN, Infinite} \cup (MinRange..MaxRange)]
  <2>1. CASE line.kind = "reading"
    <3>1. ASSUME NEW s \in Side
          PROVE  DistanceToRange(line.cm[s], faulty[s]) \in {NoRange, NaN, Infinite} \cup (MinRange..MaxRange)
      <4>1. line.cm[s] \in Int /\ faulty[s] \in BOOLEAN
        BY <1>1, <2>1, LineFields, SensorAssumption
      <4> QED BY <4>1, RangeType
    <3>2. ranges' = [s \in Side |-> DistanceToRange(line.cm[s], faulty[s])]
      BY <2>1 DEF Handle
    <3> QED BY <3>1, <3>2
  <2>2. CASE line.kind # "reading"
    BY <1>1, <2>2 DEF Handle
  <2> QED BY <2>1, <2>2
<1>3. faulty' \in [Side -> BOOLEAN]
  <2>1. CASE line.kind = "warning"
    BY <1>1, <2>1, LineFields DEF Handle
  <2>2. CASE line.kind = "recovered"
    BY <1>1, <2>2, LineFields DEF Handle
  <2>3. CASE line.kind = "banner"
    BY <2>3 DEF Handle
  <2>4. CASE line.kind \notin {"warning", "recovered", "banner"}
    BY <1>1, <2>4 DEF Handle
  <2> QED BY <2>1, <2>2, <2>3, <2>4
<1>4. blind' \in [Side -> Nat]
  <2>1. \A s \in Side : blind[s] \in Nat /\ blind[s] + 1 \in Nat /\ 0 \in Nat
    BY <1>1
  <2>2. CASE line.kind = "reading"
    BY <2>1, <2>2 DEF Blind
  <2>3. CASE line.kind = "banner"
    BY <2>3 DEF Blind
  <2>4. CASE line.kind \notin {"reading", "banner"}
    BY <2>1, <2>4 DEF Blind
  <2> QED BY <2>2, <2>3, <2>4
<1> QED BY <1>2, <1>3, <1>4

\* What read_lines keeps has no newline, and is no longer than MaxLine.
LEMMA KeptTypes ==
  ASSUME BridgeTypes, NEW half \in Piece, NEW halves, halves = Append(pending, half)
  PROVE  /\ halves \in Seq(Piece) /\ halves # <<>> /\ Last(halves) = half
         /\ Kept(halves) \in Seq(Piece) /\ Len(Kept(halves)) <= MaxLine
         /\ \A i \in 1..Len(Kept(halves)) : ~Kept(halves)[i].newline
<1>1. pending \in Seq(Piece) /\ MaxLine \in Nat /\ \A i \in 1..Len(pending) : ~pending[i].newline
  BY SensorAssumption DEF BridgeTypes
<1>2. /\ halves \in Seq(Piece) /\ halves # <<>> /\ Last(halves) = half
      /\ Len(halves) \in Nat /\ Len(halves) = Len(pending) + 1
  BY <1>1, LastOfAppend, LenProperties
<1>3. \A i \in 1..Len(pending) : halves[i] = pending[i]
  BY <1>1, AppendProperties
<1>4. CASE half.newline \/ Len(halves) > MaxLine
  BY <1>1, <1>2, <1>4, EmptySeq DEF Kept
<1>5. CASE ~half.newline /\ ~(Len(halves) > MaxLine)
  <2>1. Kept(halves) = halves
    BY <1>2, <1>5 DEF Kept
  <2>2. halves[Len(halves)] = half
    BY <1>2 DEF Last
  <2>3. \A i \in 1..Len(halves) : ~halves[i].newline
    BY <1>1, <1>2, <1>3, <1>5, <2>2
  <2> QED BY <1>1, <1>2, <1>5, <2>1, <2>3
<1> QED BY <1>2, <1>4, <1>5

LEMMA ToSetOfKept ==
  ASSUME NEW kept \in Seq(Piece), \A i \in 1..Len(kept) : ~kept[i].newline
  PROVE  \A h \in ToSet(kept) : h.line \in Lines /\ ~h.newline
<1>1. \A i \in 1..Len(kept) : kept[i] \in Piece
  BY ElementOfSeq
<1> QED BY <1>1 DEF ToSet, Piece

\* The bridge's state does not depend on the rest of the board.
LEMMA BridgeTypesStart == SensorInit => BridgeTypes
<1> SUFFICES ASSUME SensorInit PROVE BridgeTypes
  OBVIOUS
<1> USE SensorAssumption DEF SensorInit
<1>1. <<>> \in Seq(Piece) /\ Len(<<>>) = 0 /\ 0 \in 0..LastPing /\ 0 \in 0..Mishaps
  BY DEF LastPing
<1>2. failed \in [Side -> 0..LastPing] /\ blind \in [Side -> Nat] /\ faulty \in [Side -> BOOLEAN]
  BY <1>1
<1>3. ranges \in [Side -> {NoRange, NaN, Infinite} \cup (MinRange..MaxRange)]
  OBVIOUS
<1>4. pending = <<>> /\ wire = <<>> /\ plugged \in BOOLEAN
  OBVIOUS
<1>5. \A h \in ToSet(pending) : h.line \in Lines /\ ~h.newline
  <2>1. pending \in Seq(Piece) /\ Len(pending) = 0
    BY <1>1, <1>4
  <2>2. \A i \in 1..Len(pending) : ~pending[i].newline
    BY <2>1
  <2> QED BY ONLY <2>1, <2>2, ToSetOfKept
<1>6. Len(pending) <= MaxLine /\ Len(wire) <= Wire
  BY <1>1, <1>4
<1>7. /\ broken \subseteq CanBreak /\ reported \subseteq Side
      /\ reader = "open" /\ main = "spin" /\ port = "closed" /\ serial = FALSE
      /\ mishaps \in 0..Mishaps /\ losses \in Nat /\ bad \in Nat
  BY <1>1
<1>8. SensorTypeOK
  BY <1>2, <1>3, <1>4, <1>5, <1>6, <1>7, Zenon DEF SensorTypeOK
<1> QED BY ONLY <1>1, <1>2, <1>4, <1>7, <1>8 DEF BridgeTypes

\* A notice is a line or nothing.
LEMMA NoticeIsLine ==
  ASSUME NEW s \in Side
  PROVE  /\ Notice(s) \in Seq(Piece) /\ Len(Notice(s)) \in 0..2
         /\ Notice(s) = <<>> \/ \E line \in Lines : Notice(s) = Halves(line)
<1>1. Notice(s) \in {<<>>, Halves(Status("warning", s)), Halves(Status("recovered", s))}
  BY DEF Notice
<1>2. Status("warning", s) \in Lines /\ Status("recovered", s) \in Lines
  BY LinesAreLines
<1>3. Notice(s) = <<>> \/ \E line \in Lines : Notice(s) = Halves(line)
  BY <1>1, <1>2
<1>4. <<>> \in Seq(Piece) /\ Len(<<>>) = 0
  OBVIOUS
<1>5. CASE Notice(s) = <<>>
  BY <1>4, <1>5
<1>6. ASSUME NEW line \in Lines, Notice(s) = Halves(line)
      PROVE  Notice(s) \in Seq(Piece) /\ Len(Notice(s)) \in 0..2
  <2>1. Halves(line) \in Seq(Piece) /\ Len(Halves(line)) = 2
    BY HalvesOfLine
  <2> QED BY <1>6, <2>1
<1> QED BY <1>3, <1>5, <1>6

\* What a ping leaves: the sensors' counts, and on an open port the notices and the reading.
LEMMA Pinged ==
  ASSUME BridgeTypes, Ping
  PROVE  /\ failed' \in [Side -> 0..LastPing] /\ \A s \in Side : failed'[s] = Failed(s)
         /\ Len(wire) + 6 <= Wire
         /\ port # "open" => wire' = wire
         /\ port = "open" => \E cm \in [Side -> Distances] :
              wire' = ((wire \o Notice("left")) \o Notice("right")) \o Halves(Reading(cm, failed'))
<1>1. failed \in [Side -> 0..LastPing] /\ wire \in Seq(Piece)
  BY DEF BridgeTypes, SensorTypeOK
<1>2. \A s \in Side : Failed(s) \in 0..LastPing
  BY <1>1, SensorAssumption DEF Failed, LastPing
<1>3. failed' \in [Side -> 0..LastPing] /\ \A s \in Side : failed'[s] = Failed(s)
  BY <1>2 DEF Ping
<1>4. PICK seen \in [Side -> Distances] :
        Written(Notice("left") \o Notice("right")
                  \o Halves(Reading([s \in Side |-> IF s \in broken THEN -1 ELSE seen[s]], failed')))
  BY Zenon DEF Ping
<1>5. PICK cm : cm = [s \in Side |-> IF s \in broken THEN -1 ELSE seen[s]]
  OBVIOUS
<1>6. cm \in [Side -> Distances]
  BY <1>5, SensorAssumption
<1>7. Halves(Reading(cm, failed')) \in Seq(Piece)
  BY <1>3, <1>6, LinesAreLines, HalvesOfLine
<1>8. Notice("left") \in Seq(Piece) /\ Notice("right") \in Seq(Piece)
  BY NoticeIsLine DEF Side
<1>9. wire \o (Notice("left") \o Notice("right") \o Halves(Reading(cm, failed')))
        = ((wire \o Notice("left")) \o Notice("right")) \o Halves(Reading(cm, failed'))
  <2>1. PICK a \in Seq(Piece), b \in Seq(Piece), c \in Seq(Piece) :
          a = Notice("left") /\ b = Notice("right") /\ c = Halves(Reading(cm, failed'))
    BY <1>7, <1>8
  <2>2. a \o b \in Seq(Piece) /\ wire \o (a \o b) = (wire \o a) \o b
        /\ wire \o ((a \o b) \o c) = (wire \o (a \o b)) \o c
    <3>1. a \o b \in Seq(Piece)
      BY ConcatProperties
    <3>2. (wire \o a) \o b = wire \o (a \o b)
      BY <1>1, ConcatAssociative
    <3>3. PICK d \in Seq(Piece) : d = a \o b
      BY <3>1
    <3>4. wire \in Seq(Piece) /\ d \in Seq(Piece) /\ c \in Seq(Piece)
      BY <1>1, <3>1, <3>3
    <3>5. (wire \o d) \o c = wire \o (d \o c)
      BY ONLY <3>4, ConcatAssociative
    <3> QED BY <3>1, <3>2, <3>3, <3>5
  <2> QED BY <2>1, <2>2
<1>10. Len(wire) + 6 <= Wire /\ (port # "open" => wire' = wire)
  BY <1>4 DEF Written
<1>11. port = "open" =>
         wire' = ((wire \o Notice("left")) \o Notice("right")) \o Halves(Reading(cm, failed'))
  BY <1>4, <1>5, <1>9 DEF Written
<1> QED BY <1>3, <1>6, <1>10, <1>11

\* A whole line is appended.
LEMMA LineAppended ==
  ASSUME NEW w \in Seq(Piece), NEW line \in Lines
  PROVE  /\ w \o Halves(line) \in Seq(Piece) /\ Len(w \o Halves(line)) = Len(w) + 2
         /\ \A k \in 1..Len(w) : (w \o Halves(line))[k] = w[k]
         /\ (w \o Halves(line))[Len(w) + 1] = [line |-> line, newline |-> FALSE]
         /\ (w \o Halves(line))[Len(w) + 2] = [line |-> line, newline |-> TRUE]
<1>1. Len(w) \in Nat /\ Halves(line) \in Seq(Piece) /\ Len(Halves(line)) = 2
  BY HalvesOfLine, LenProperties
<1> QED BY <1>1, HalvesOfLine, ConcatProperties

\* What a ping writes joins on.
LEMMA PingJoins ==
  ASSUME BridgeTypes, Ping
  PROVE  /\ wire' \in Seq(Piece) /\ Len(wire') <= Wire
         /\ \A kept : Seams(kept, wire') = Seams(kept, wire)
         /\ Len(wire') >= Len(wire) /\ \A k \in 1..Len(wire) : wire'[k] = wire[k]
<1>1. wire \in Seq(Piece) /\ Len(wire) \in Nat /\ Wire \in Nat
  BY SensorAssumption DEF BridgeTypes
<1>2. Len(wire) + 6 <= Wire
  BY Pinged
<1>3. CASE port # "open"
  <2>1. wire' = wire
    BY <1>3, Pinged
  <2> QED BY <1>1, <1>2, <2>1
<1>4. CASE port = "open"
  <2>1. PICK cm \in [Side -> Distances] :
          wire' = ((wire \o Notice("left")) \o Notice("right")) \o Halves(Reading(cm, failed'))
    BY <1>4, Pinged
  <2>2. Reading(cm, failed') \in Lines
    BY Pinged, LinesAreLines
  <2>3. ASSUME NEW w \in Seq(Piece), NEW s \in Side
        PROVE  /\ w \o Notice(s) \in Seq(Piece) /\ Len(w \o Notice(s)) \in Len(w)..(Len(w) + 2)
               /\ \A kept : Seams(kept, w \o Notice(s)) = Seams(kept, w)
               /\ \A k \in 1..Len(w) : (w \o Notice(s))[k] = w[k]
    <3>1. CASE Notice(s) = <<>>
      BY <3>1, ConcatEmptySeq, LenProperties
    <3>2. CASE Notice(s) # <<>>
      <4>1. PICK line \in Lines : Notice(s) = Halves(line)
        BY <3>2, NoticeIsLine
      <4>2. \A kept : Seams(kept, w \o Halves(line)) = Seams(kept, w)
        BY WholeLinesJoin, Zenon
      <4>3. PICK n \in Nat : n = Len(w)
        BY LenProperties
      <4>4. /\ w \o Halves(line) \in Seq(Piece) /\ Len(w \o Halves(line)) = n + 2
            /\ \A k \in 1..n : (w \o Halves(line))[k] = w[k]
        BY <4>3, LineAppended
      <4> QED BY <4>1, <4>2, <4>3, <4>4
    <3> QED BY <3>1, <3>2
  <2>4. PICK a \in Seq(Piece) :
          /\ a = wire \o Notice("left") /\ Len(a) \in Len(wire)..(Len(wire) + 2)
          /\ \A kept : Seams(kept, a) = Seams(kept, wire)
          /\ \A k \in 1..Len(wire) : a[k] = wire[k]
    BY <1>1, <2>3 DEF Side
  <2>5. PICK b \in Seq(Piece) :
          /\ b = a \o Notice("right") /\ Len(b) \in Len(a)..(Len(a) + 2)
          /\ \A kept : Seams(kept, b) = Seams(kept, a)
          /\ \A k \in 1..Len(a) : b[k] = a[k]
    BY <2>3 DEF Side
  <2>6. /\ wire' \in Seq(Piece) /\ Len(wire') = Len(b) + 2
        /\ \A k \in 1..Len(b) : wire'[k] = b[k]
        /\ \A kept : Seams(kept, wire') = Seams(kept, b)
    BY <2>1, <2>2, <2>4, <2>5, LineAppended, WholeLinesJoin
  <2>7. Len(a) \in Nat /\ Len(b) \in Nat
    BY LenProperties
  <2> QED BY <1>1, <1>2, <2>4, <2>5, <2>6, <2>7
<1> QED BY <1>3, <1>4

\* What the types say of the wire, the line that is kept, and what depends on nothing else.
LinkTypes ==
  /\ wire \in Seq(Piece) /\ Len(wire) <= Wire
  /\ pending \in Seq(Piece) /\ Len(pending) <= MaxLine
  /\ \A i \in 1..Len(pending) : ~pending[i].newline
BoardTypes ==
  /\ plugged \in BOOLEAN /\ broken \subseteq CanBreak /\ reported \subseteq Side
  /\ failed \in [Side -> 0..LastPing] /\ mishaps \in 0..Mishaps
NodeTypes ==
  /\ reader \in {"open", "flush", "read", "close", "wait", "done", "dead"}
  /\ main \in {"spin", "down", "joining", "gone"}
  /\ port \in {"closed", "open", "hung"} /\ serial \in BOOLEAN
  /\ port = "open" => plugged
BeliefTypes ==
  /\ faulty \in [Side -> BOOLEAN]
  /\ ranges \in [Side -> {NoRange, NaN, Infinite} \cup (MinRange..MaxRange)]
  /\ losses \in Nat /\ bad \in Nat /\ blind \in [Side -> Nat]

LEMMA BridgeTypesParts == BridgeTypes <=> LinkTypes /\ BoardTypes /\ NodeTypes /\ BeliefTypes
<1>1. BridgeTypes => LinkTypes /\ BoardTypes /\ NodeTypes /\ BeliefTypes
  BY DEF BridgeTypes, SensorTypeOK, LinkTypes, BoardTypes, NodeTypes, BeliefTypes
<1>2. ASSUME LinkTypes, BoardTypes, NodeTypes, BeliefTypes PROVE BridgeTypes
  <2>1. \A h \in ToSet(pending) : h.line \in Lines /\ ~h.newline
    <3>1. pending \in Seq(Piece) /\ \A i \in 1..Len(pending) : ~pending[i].newline
      BY <1>2 DEF LinkTypes
    <3> QED BY ONLY <3>1, ToSetOfKept
  <2> QED BY <1>2, <2>1 DEF BridgeTypes, SensorTypeOK, LinkTypes, BoardTypes, NodeTypes, BeliefTypes
<1> QED BY <1>1, <1>2

LEMMA BridgeTypesPartsPrime == (LinkTypes /\ BoardTypes /\ NodeTypes /\ BeliefTypes)' => BridgeTypes'
  BY BridgeTypesParts, PTL

LEMMA BoardTypesKept == ASSUME BridgeTypes, SensorNext PROVE BoardTypes'
<1> USE BridgeTypesParts DEF BoardTypes
<1>1. 0 \in 0..LastPing /\ (Mishap => mishaps' \in 0..Mishaps)
  <2>1. mishaps \in 0..Mishaps /\ Mishaps \in Nat
    BY SensorAssumption
  <2> QED BY <2>1, SensorAssumption DEF LastPing, Mishap
<1>2. CASE Ping
  <2>1. failed' \in [Side -> 0..LastPing]
    BY <1>2, Pinged
  <2> QED BY <1>2, <2>1 DEF Ping
<1>3. ASSUME NEW s \in CanBreak, BreakOrMend(s) PROVE BoardTypes'
  BY <1>3 DEF BreakOrMend
<1>4. ASSUME NEW b \in BOOLEAN, Reset(b) \/ Plug(b) PROVE BoardTypes'
  <2>1. CASE Reset(b)
    BY <1>1, <2>1 DEF Reset
  <2>2. CASE Plug(b)
    BY <1>1, <2>2 DEF Plug
  <2> QED BY <1>4, <2>1, <2>2
<1>5. ASSUME NEW i, NEW j, Lose(i, j) PROVE BoardTypes'
  BY <1>1, <1>5 DEF Lose, board
<1>6. CASE Unplug
  BY <1>1, <1>6 DEF Unplug
<1>7. CASE Reader
  BY <1>7 DEF Reader, OpenPort, Wait, Connect, FlushFails, Leave, Close, board
<1>8. CASE Read
  BY <1>8 DEF Read, board
<1>9. CASE Sigint \/ Destroy \/ Destroyed
  BY <1>9 DEF Sigint, Destroy, Destroyed, Main, board
<1> QED BY <1>2, <1>3, <1>4, <1>5, <1>6, <1>7, <1>8, <1>9 DEF SensorNext, Environment

LEMMA NodeTypesKept == ASSUME BridgeTypes, SensorNext PROVE NodeTypes'
<1> USE BridgeTypesParts DEF NodeTypes
<1>1. CASE Ping
  BY <1>1 DEF Ping, node
<1>2. ASSUME NEW s \in CanBreak, BreakOrMend(s) PROVE NodeTypes'
  BY <1>2 DEF BreakOrMend, node
<1>3. ASSUME NEW b \in BOOLEAN, Reset(b) \/ Plug(b) PROVE NodeTypes'
  BY <1>3 DEF Reset, Plug, node
<1>4. ASSUME NEW i, NEW j, Lose(i, j) PROVE NodeTypes'
  BY <1>4 DEF Lose, board, node
<1>5. CASE Unplug
  BY <1>5 DEF Unplug
<1>6. CASE OpenPort
  BY <1>6 DEF OpenPort, board
<1>7. CASE Wait \/ Leave \/ Close \/ FlushFails
  BY <1>7 DEF Wait, Loop, Leave, Close, FlushFails, board
<1>8. ASSUME NEW cut \in BOOLEAN, Connect(cut) PROVE NodeTypes'
  BY <1>8 DEF Connect, board
<1>9. CASE Read
  BY <1>9 DEF Read, board, node
<1>10. CASE Sigint \/ Destroy \/ Destroyed
  BY <1>10 DEF Sigint, Destroy, Destroyed, Main, board
<1> QED BY <1>1, <1>2, <1>3, <1>4, <1>5, <1>6, <1>7, <1>8, <1>9, <1>10
        DEF SensorNext, Environment, Reader

\* What a reset writes joins on, unless it cut a line.
LEMMA ResetJoins ==
  ASSUME BridgeTypes, NEW cuts \in BOOLEAN, Reset(cuts)
  PROVE  /\ wire' \in Seq(Piece) /\ Len(wire') <= Wire
         /\ \A kept : Cardinality(Seams(kept, wire'))
                        <= Cardinality(Seams(kept, wire)) + (IF cuts THEN 1 ELSE 0)
         /\ ~cuts => /\ \A kept : Seams(kept, wire') = Seams(kept, wire)
                     /\ wire' = wire \/ wire' = wire \o Halves(Banner)
<1>1. wire \in Seq(Piece) /\ Len(wire) + 2 <= Wire /\ Wire \in Nat /\ Len(wire) \in Nat
  BY SensorAssumption DEF BridgeTypes, Reset
<1>2. Banner \in Lines
  BY LinesAreLines
<1>3. \A kept : Cardinality(Seams(kept, wire)) \in Nat
  BY <1>1, SeamsFinite
<1>4. CASE port # "open"
  BY <1>1, <1>3, <1>4 DEF Reset
<1>5. CASE port = "open" /\ ~cuts
  <2>1. wire' = wire \o Halves(Banner)
    BY <1>5 DEF Reset
  <2>2. \A kept : Seams(kept, wire') = Seams(kept, wire)
    BY <1>1, <1>2, <2>1, WholeLinesJoin
  <2>3. wire' \in Seq(Piece) /\ Len(wire') = Len(wire) + 2
    BY <1>1, <1>2, <2>1, LineAppended
  <2> QED BY <1>1, <1>3, <1>5, <2>1, <2>2, <2>3
<1>6. CASE port = "open" /\ cuts
  <2>1. wire # <<>> /\ wire' = Front(wire) \o Halves(Banner)
    BY <1>6 DEF Reset
  <2>2. PICK a \in Seq(Piece) :
          /\ a = Front(wire) /\ Len(a) = Len(wire) - 1
          /\ \A kept : Cardinality(Seams(kept, a)) <= Cardinality(Seams(kept, wire)) + 1
    BY <1>1, <2>1, CutEnd
  <2>3. \A kept : Seams(kept, wire') = Seams(kept, a)
    BY <1>2, <2>1, <2>2, WholeLinesJoin
  <2>4. wire' \in Seq(Piece) /\ Len(wire') = Len(a) + 2
    BY <1>2, <2>1, <2>2, LineAppended
  <2> QED BY <1>1, <1>6, <2>2, <2>3, <2>4
<1> QED BY <1>4, <1>5, <1>6

LEMMA LoseJoins ==
  ASSUME BridgeTypes, NEW i \in DOMAIN wire, NEW j \in DOMAIN wire, Lose(i, j)
  PROVE  /\ wire' \in Seq(Piece) /\ Len(wire') <= Wire
         /\ \A kept : Cardinality(Seams(kept, wire')) <= Cardinality(Seams(kept, wire)) + 1
<1>1. PICK w \in Seq(Piece) : w = wire
  BY DEF BridgeTypes
<1>2. i \in 1..Len(w) /\ j \in i..Len(w) /\ Len(w) <= Wire /\ Wire \in Nat /\ Len(w) \in Nat
  BY <1>1, SensorAssumption DEF Lose, BridgeTypes, SensorTypeOK
<1>3. PICK v : v = SubSeq(w, 1, i - 1) \o SubSeq(w, j + 1, Len(w))
  OBVIOUS
<1>4. /\ v \in Seq(Piece) /\ Len(v) <= Len(w)
      /\ \A kept : Cardinality(Seams(kept, v)) <= Cardinality(Seams(kept, w)) + 1
  BY ONLY <1>2, <1>3, w \in Seq(Piece), LossJoins
<1>5. wire' = v
  BY <1>1, <1>3 DEF Lose
<1>6. Len(v) \in Nat
  BY <1>4, LenProperties
<1>7. Len(v) <= Wire
  BY <1>2, <1>4, <1>6
<1> QED BY <1>1, <1>4, <1>5, <1>7

LEMMA ConnectWire ==
  ASSUME NEW cut \in BOOLEAN, Connect(cut)
  PROVE  /\ wire' \in Seq(Piece) /\ Len(wire') \in 0..1 /\ (wire' # <<>> => wire'[1] = Rest)
         /\ pending' = <<>>
<1>1. Rest \in Piece
  BY LinesAreLines
<1> QED BY <1>1 DEF Connect

LEMMA ReadWire ==
  ASSUME BridgeTypes, Read
  PROVE  \E half \in Piece, halves \in Seq(Piece) :
           /\ half = Head(wire) /\ half = wire[1] /\ halves = Append(pending, half)
           /\ wire # <<>> /\ wire' = Tail(wire) /\ pending' = Kept(halves)
           /\ wire' \in Seq(Piece) /\ Len(wire') = Len(wire) - 1
           /\ \A k \in 1..Len(wire') : wire'[k] = wire[k + 1]
           /\ halves # <<>> /\ Last(halves) = half
           /\ pending' \in Seq(Piece) /\ Len(pending') <= MaxLine
           /\ \A i \in 1..Len(pending') : ~pending'[i].newline
<1>1. wire \in Seq(Piece) /\ wire # <<>> /\ wire' = Tail(wire)
  BY DEF BridgeTypes, Read
<1>2. PICK half \in Piece : half = Head(wire) /\ half = wire[1]
  BY <1>1, HeadTailProperties
<1>3. /\ wire' \in Seq(Piece) /\ Len(wire') = Len(wire) - 1
      /\ \A k \in 1..Len(wire') : wire'[k] = wire[k + 1]
  BY <1>1, HeadTailProperties
<1>4. PICK halves \in Seq(Piece) : halves = Append(pending, half)
  BY KeptTypes
<1>5. /\ halves # <<>> /\ Last(halves) = half
      /\ Kept(halves) \in Seq(Piece) /\ Len(Kept(halves)) <= MaxLine
      /\ \A i \in 1..Len(Kept(halves)) : ~Kept(halves)[i].newline
  BY <1>4, KeptTypes
<1>6. pending' = Kept(halves)
  BY <1>2, <1>4 DEF Read
<1> QED BY <1>1, <1>2, <1>3, <1>4, <1>5, <1>6

LEMMA LinkTypesKept == ASSUME BridgeTypes, SensorNext PROVE LinkTypes'
<1> USE BridgeTypesParts DEF LinkTypes
<1>1. /\ \A w \in Seq(Piece) : w = <<>> => Len(w) = 0
      /\ <<>> \in Seq(Piece) /\ 0 <= Wire /\ 1 <= Wire /\ 0 <= MaxLine /\ Wire \in Nat
  BY SensorAssumption, EmptySeq
<1>2. CASE Ping
  BY <1>2, PingJoins DEF Ping
<1>3. ASSUME NEW b \in BOOLEAN, Reset(b) PROVE LinkTypes'
  BY <1>3, ResetJoins DEF Reset
<1>4. ASSUME NEW i \in DOMAIN wire, NEW j \in DOMAIN wire, Lose(i, j) PROVE LinkTypes'
  BY <1>4, LoseJoins DEF Lose
<1>5. CASE Unplug \/ Close
  <2>1. wire' = <<>> /\ pending' = pending
    BY <1>5 DEF Unplug, Close
  <2>2. LinkTypes
    OBVIOUS
  <2> QED BY <1>1, <2>1, <2>2
<1>6. ASSUME NEW cut \in BOOLEAN, Connect(cut) PROVE LinkTypes'
  <2>1. pending' = <<>> /\ wire' \in Seq(Piece) /\ Len(wire') \in 0..1
    BY <1>6, ConnectWire
  <2>2. Len(wire') <= Wire
    BY ONLY <1>1, <2>1
  <2>3. pending' \in Seq(Piece) /\ Len(pending') = 0
    BY <1>1, <2>1
  <2> QED BY ONLY <1>1, <2>1, <2>2, <2>3 DEF LinkTypes
<1>7. CASE Read
  <2>1. /\ wire' \in Seq(Piece) /\ Len(wire') = Len(wire) - 1
        /\ pending' \in Seq(Piece) /\ Len(pending') <= MaxLine
        /\ \A i \in 1..Len(pending') : ~pending'[i].newline
    BY <1>7, ReadWire
  <2>2. Len(wire) \in Nat /\ Len(wire) <= Wire
    BY LenProperties
  <2> QED BY <1>1, <2>1, <2>2
<1>8. CASE UNCHANGED <<wire, pending>>
  BY <1>8
<1>9. (\E s \in CanBreak : BreakOrMend(s)) \/ (\E b \in BOOLEAN : Plug(b)) \/ OpenPort \/ Wait
        \/ FlushFails \/ Leave \/ Sigint \/ Destroy \/ Destroyed => UNCHANGED <<wire, pending>>
  BY DEF BreakOrMend, Plug, OpenPort, Wait, FlushFails, Leave, Sigint, Destroy, Destroyed, Main
<1> QED BY ONLY <1>2, <1>3, <1>4, <1>5, <1>6, <1>7, <1>8, <1>9, SensorNext
        DEF SensorNext, Environment, Reader

\* A read keeps what is believed, or handles one line.
LEMMA ReadHandles ==
  ASSUME BridgeTypes, Read, NEW halves, halves = Append(pending, Head(wire))
  PROVE  IF ~Last(halves).newline THEN UNCHANGED <<faulty, ranges, bad, blind>>
         ELSE \E line \in ParsedAs(halves) :
                /\ line \in Lines \cup {Comment}
                /\ Handle(line) /\ blind' = Blind(line)
                /\ bad' = bad + (IF halves = Halves(line) THEN 0 ELSE 1)
<1>1. halves \in Seq(Piece) /\ halves # <<>>
  BY ReadWire
<1>2. CASE ~Last(halves).newline
  BY <1>2 DEF Read
<1>3. CASE Last(halves).newline
  <2>1. PICK line \in ParsedAs(halves) :
          /\ Handle(line) /\ blind' = Blind(line)
          /\ bad' = bad + (IF halves = Halves(line) THEN 0 ELSE 1)
    BY <1>3 DEF Read
  <2>2. line \in Lines \cup {Comment}
    BY <1>1, ParsedLines
  <2> QED BY <1>3, <2>1, <2>2
<1> QED BY <1>2, <1>3

LEMMA BeliefTypesKept == ASSUME BridgeTypes, SensorNext PROVE BeliefTypes'
<1> USE BridgeTypesParts DEF BeliefTypes
<1>1. CASE Ping \/ Unplug \/ (\E s \in CanBreak : BreakOrMend(s)) \/ (\E b \in BOOLEAN : Plug(b))
             \/ OpenPort \/ Wait \/ FlushFails \/ Leave \/ Close \/ Sigint \/ Destroy \/ Destroyed
  <2>1. UNCHANGED <<faulty, ranges, losses, bad, blind>>
    BY <1>1 DEF Ping, Unplug, BreakOrMend, Plug, OpenPort, Wait, FlushFails, Leave, Close, Sigint,
                Destroy, Destroyed, Main, ghost
  <2> QED BY <2>1
<1>2. ASSUME NEW b \in BOOLEAN, Reset(b) PROVE BeliefTypes'
  BY <1>2 DEF Reset
<1>3. ASSUME NEW i, NEW j, Lose(i, j) PROVE BeliefTypes'
  BY <1>3 DEF Lose
<1>4. ASSUME NEW cut \in BOOLEAN, Connect(cut) PROVE BeliefTypes'
  BY <1>4 DEF Connect
<1>5. CASE Read
  <2>1. PICK halves : halves = Append(pending, Head(wire))
    OBVIOUS
  <2>2. losses' = losses
    BY <1>5 DEF Read
  <2>3. CASE ~Last(halves).newline
    <3>1. UNCHANGED <<faulty, ranges, bad, blind>>
      BY <1>5, <2>1, <2>3, ReadHandles
    <3> QED BY <2>2, <3>1
  <2>4. CASE Last(halves).newline
    <3>1. PICK line \in Lines \cup {Comment} :
            /\ Handle(line) /\ blind' = Blind(line)
            /\ bad' = bad + (IF halves = Halves(line) THEN 0 ELSE 1)
      BY <1>5, <2>1, <2>4, ReadHandles
    <3>2. /\ ranges' \in [Side -> {NoRange, NaN, Infinite} \cup (MinRange..MaxRange)]
          /\ faulty' \in [Side -> BOOLEAN] /\ blind' \in [Side -> Nat]
      BY <3>1, HandleTypes
    <3>3. bad' \in Nat
      BY <3>1
    <3> QED BY <2>2, <3>2, <3>3
  <2> QED BY <2>3, <2>4
<1> QED BY ONLY <1>1, <1>2, <1>3, <1>4, <1>5, SensorNext DEF SensorNext, Environment, Reader

LEMMA BridgeTypesKept == ASSUME BridgeTypes, [SensorNext]_sensorVars PROVE BridgeTypes'
<1>1. CASE SensorNext
  BY <1>1, LinkTypesKept, BoardTypesKept, NodeTypesKept, BeliefTypesKept, BridgeTypesPartsPrime
<1>2. CASE UNCHANGED sensorVars
  BY <1>2 DEF BridgeTypes, SensorTypeOK, sensorVars, board, node, ghost
<1> QED BY <1>1, <1>2

\* The bridge's state is well formed.
THEOREM BridgeTypesHold == SensorSpec => []BridgeTypes
  BY BridgeTypesStart, BridgeTypesKept, PTL DEF SensorSpec

-----------------------------------------------------------------------------
(* The bridge: what a loss may spoil. *)

\* The lines that were spoilt and those that may still be: one for each loss and for the flush.
InStep ==
  reader = "read" =>
    /\ bad <= losses + 1
    /\ port = "open" => bad + Cardinality(Seams(pending, wire)) + Long(pending) <= losses + 1

\* No more than one seam: that of the line that the flush cut.
LEMMA OneSeamAtConnect ==
  ASSUME NEW cut \in BOOLEAN, Connect(cut)
  PROVE  /\ Cardinality(Seams(pending', wire')) <= 1 /\ Long(pending') = 0
         /\ \A k \in Seams(pending', wire') : k = 1 /\ wire' = <<Rest>>
<1>1. pending' = <<>> /\ wire' = (IF cut THEN <<Rest>> ELSE <<>>)
  BY DEF Connect
<1>2. Rest.newline
  BY DEF Rest
<1>3. \A k \in Seams(pending', wire') : k = 1 /\ wire' = <<Rest>>
  <2>1. CASE ~cut
    <3>1. Len(wire') = 0 /\ Before(pending', wire', 1) = Rest
      BY <1>1, <2>1 DEF Before
    <3> QED BY <1>2, <3>1 DEF Seams
  <2>2. CASE cut
    <3>1. Len(wire') = 1 /\ wire'[1] = Rest /\ wire' = <<Rest>>
      BY <1>1, <2>2
    <3>2. Before(pending', wire', 2) = Rest
      BY <3>1 DEF Before
    <3> QED BY <1>2, <3>1, <3>2 DEF Seams
  <2> QED BY <2>1, <2>2
<1>4. Cardinality({1}) = 1 /\ IsFiniteSet({1})
  BY FS_Singleton
<1>5. Seams(pending', wire') \subseteq {1}
  BY <1>3
<1>6. Cardinality(Seams(pending', wire')) <= Cardinality({1})
  BY <1>4, <1>5, FS_Subset, Zenon
<1>7. Long(pending') = 0
  BY <1>1, EmptySeq DEF Long
<1> QED BY <1>3, <1>4, <1>6, <1>7

\* A line that is handled otherwise than it was sent was spoilt.
LEMMA BadWhenSpoilt ==
  ASSUME BridgeTypes, Read, NEW halves, halves = Append(pending, Head(wire))
  PROVE  bad' = bad + Spoilt(halves)
<1>1. CASE ~Last(halves).newline
  <2>1. bad' = bad /\ bad \in Nat /\ Spoilt(halves) = 0
    BY <1>1, ReadHandles DEF Spoilt, BridgeTypes
  <2> QED BY <2>1
<1>2. CASE Last(halves).newline
  <2>1. PICK line \in ParsedAs(halves) : bad' = bad + (IF halves = Halves(line) THEN 0 ELSE 1)
    BY <1>2, ReadHandles
  <2>2. halves = Halves(halves[1].line) => line = halves[1].line
    BY DEF ParsedAs
  <2>3. halves = Halves(line) => halves[1].line = line
    BY DEF Halves
  <2> QED BY <1>2, <2>1, <2>2, <2>3 DEF Spoilt
<1> QED BY <1>1, <1>2

LEMMA InStepStart == SensorInit => InStep
  BY DEF SensorInit, InStep

LEMMA InStepKept ==
  ASSUME BridgeTypes, InStep, [SensorNext]_sensorVars PROVE InStep'
<1>1. losses \in Nat /\ bad \in Nat /\ pending \in Seq(Piece) /\ wire \in Seq(Piece)
  BY DEF BridgeTypes
<1>2. Long(pending) \in 0..1 /\ \A kept : Cardinality(Seams(kept, wire)) \in Nat
  BY <1>1, SeamsFinite DEF Long
<1>3. CASE Ping
  <2>1. \A kept : Seams(kept, wire') = Seams(kept, wire)
    BY <1>3, PingJoins
  <2>2. UNCHANGED <<reader, port, pending, losses, bad>>
    BY <1>3 DEF Ping, node, ghost
  <2> QED BY <2>1, <2>2 DEF InStep
<1>4. ASSUME NEW cuts \in BOOLEAN, Reset(cuts) PROVE InStep'
  <2>1. \A kept : Cardinality(Seams(kept, wire')) <= Cardinality(Seams(kept, wire)) + (IF cuts THEN 1 ELSE 0)
    BY <1>4, ResetJoins
  <2>2. wire' \in Seq(Piece)
    BY <1>4, ResetJoins
  <2>3. Cardinality(Seams(pending, wire')) \in Nat
    BY <2>2, SeamsFinite
  <2>4. UNCHANGED <<reader, port, pending, bad>> /\ losses' = losses + (IF cuts THEN 1 ELSE 0)
    BY <1>4 DEF Reset, node
  <2> QED BY <1>1, <1>2, <2>1, <2>3, <2>4 DEF InStep
<1>5. ASSUME NEW i \in DOMAIN wire, NEW j \in DOMAIN wire, Lose(i, j) PROVE InStep'
  <2>1. \A kept : Cardinality(Seams(kept, wire')) <= Cardinality(Seams(kept, wire)) + 1
    BY <1>5, LoseJoins
  <2>2. wire' \in Seq(Piece)
    BY <1>5, LoseJoins
  <2>3. Cardinality(Seams(pending, wire')) \in Nat
    BY <2>2, SeamsFinite
  <2>4. UNCHANGED <<reader, port, pending, bad>> /\ losses' = losses + 1
    BY <1>5 DEF Lose, node
  <2> QED BY <1>1, <1>2, <2>1, <2>3, <2>4 DEF InStep
<1>6. CASE Unplug
  <2>1. port' # "open" /\ UNCHANGED <<reader, losses, bad>>
    BY <1>6 DEF Unplug, ghost
  <2> QED BY <2>1 DEF InStep
<1>7. ASSUME NEW cut \in BOOLEAN, Connect(cut) PROVE InStep'
  <2>1. Cardinality(Seams(pending', wire')) <= 1 /\ Long(pending') = 0
    BY <1>7, OneSeamAtConnect
  <2>2. wire' \in Seq(Piece) /\ losses' = 0 /\ bad' = 0
    BY <1>7, ConnectWire DEF Connect
  <2>3. Cardinality(Seams(pending', wire')) \in Nat
    BY <2>2, SeamsFinite
  <2> QED BY <2>1, <2>2, <2>3 DEF InStep
<1>8. CASE Read
  <2>1. PICK half \in Piece, halves \in Seq(Piece) :
          /\ half = Head(wire) /\ halves = Append(pending, half)
          /\ wire # <<>> /\ wire' = Tail(wire) /\ pending' = Kept(halves)
          /\ wire' \in Seq(Piece) /\ pending' \in Seq(Piece)
    BY <1>8, ReadWire
  <2>2. \A i \in 1..Len(pending) : ~pending[i].newline
    BY DEF BridgeTypes
  <2>3. Cardinality(Seams(pending', wire')) + Long(pending') + Spoilt(halves)
          <= Cardinality(Seams(pending, wire)) + Long(pending)
    BY <1>1, <2>1, <2>2, ReadJoins
  <2>4. bad' = bad + Spoilt(halves)
    BY <1>8, <2>1, BadWhenSpoilt
  <2>5. Cardinality(Seams(pending', wire')) \in Nat
    BY <2>1, SeamsFinite
  <2>6. Long(pending') \in 0..1 /\ Spoilt(halves) \in 0..1
    BY DEF Long, Spoilt
  <2>7. reader = "read" /\ port = "open" /\ UNCHANGED <<reader, port, losses>>
    BY <1>8 DEF Read, node
  <2>8. PICK m \in Nat, n \in Nat, l \in Nat, long \in Nat, spoilt \in Nat :
          /\ m = Cardinality(Seams(pending, wire)) /\ n = Cardinality(Seams(pending', wire'))
          /\ l = Long(pending) /\ long = Long(pending') /\ spoilt = Spoilt(halves)
    <3>1. Long(pending) \in Nat /\ Long(pending') \in Nat /\ Spoilt(halves) \in Nat
      BY <1>2, <2>6
    <3> QED BY <1>2, <2>5, <3>1
  <2>9. bad <= losses + 1 /\ bad + m + l <= losses + 1
    BY <2>7, <2>8 DEF InStep
  <2>10. n + long + spoilt <= m + l /\ bad' = bad + spoilt /\ losses' = losses
    BY <2>3, <2>4, <2>7, <2>8
  <2>11. bad' <= losses' + 1 /\ bad' + n + long <= losses' + 1
    BY ONLY <1>1, <2>9, <2>10, m \in Nat, n \in Nat, l \in Nat, long \in Nat, spoilt \in Nat
  <2> QED BY <2>8, <2>11 DEF InStep
<1>9. CASE OpenPort \/ Wait \/ FlushFails \/ Leave \/ Close
  BY <1>9 DEF OpenPort, Wait, Loop, FlushFails, Leave, Close, InStep
<1>10. CASE (\E s \in CanBreak : BreakOrMend(s)) \/ (\E b \in BOOLEAN : Plug(b))
              \/ Sigint \/ Destroy \/ Destroyed \/ UNCHANGED sensorVars
  <2>1. UNCHANGED <<wire, pending, reader, losses, bad>> /\ (port' = "open" => port = "open")
    BY <1>10 DEF BreakOrMend, Plug, Sigint, Destroy, Destroyed, Main, sensorVars, node, ghost
  <2> QED BY <2>1 DEF InStep
<1> QED BY ONLY <1>3, <1>4, <1>5, <1>6, <1>7, <1>8, <1>9, <1>10, [SensorNext]_sensorVars
        DEF SensorNext, Environment, Reader

\* Each loss spoils one line: read_lines is in step again at the next newline.
THEOREM BackInStep == SensorSpec => []OneLinePerLoss
<1>1. InStep => OneLinePerLoss
  BY DEF InStep, OneLinePerLoss
<1> QED BY <1>1, InStepStart, InStepKept, BridgeTypesHold, PTL DEF SensorSpec

-----------------------------------------------------------------------------
(* The bridge: without a loss every line is handled as it was sent. *)

\* Nothing is missing but the start of the line that the flush may have cut.
Intact ==
  reader = "read" /\ port = "open" /\ losses = 0 =>
    /\ Len(pending) <= 1
    /\ \A k \in Seams(pending, wire) : k = 1 /\ pending = <<>> /\ wire # <<>> /\ wire[1] = Rest

LEMMA IntactStart == SensorInit => Intact
  BY DEF SensorInit, Intact

\* What the first half on the wire does to the line that is kept.
LEMMA IntactRead ==
  ASSUME BridgeTypes, Intact, Read, losses = 0,
         NEW halves, halves = Append(pending, Head(wire))
  PROVE  LET half == Head(wire) IN
         /\ ~half.newline => pending = <<>>
         /\ half.newline => \A line \in ParsedAs(halves) : line = half.line
<1>1. PICK half \in Piece :
        /\ half = Head(wire) /\ half = wire[1] /\ wire # <<>>
        /\ halves \in Seq(Piece) /\ halves # <<>> /\ Last(halves) = half
        /\ Len(halves) \in Nat /\ Len(halves) = Len(pending) + 1
        /\ (pending = <<>> => halves[1] = half) /\ (pending # <<>> => halves[1] = pending[1])
  <2>1. PICK half \in Piece, hs \in Seq(Piece) :
          /\ half = Head(wire) /\ half = wire[1] /\ hs = Append(pending, half)
          /\ wire # <<>> /\ hs # <<>> /\ Last(hs) = half
    BY ReadWire
  <2>2. pending \in Seq(Piece)
    BY DEF BridgeTypes
  <2> QED BY <2>1, <2>2, LastOfAppend, LenProperties
<1>2. reader = "read" /\ port = "open"
  BY DEF Read
<1>3. /\ Len(pending) <= 1 /\ pending \in Seq(Piece)
      /\ \A i \in 1..Len(pending) : ~pending[i].newline
      /\ 1 \in Seams(pending, wire) => pending = <<>> /\ half = Rest
  BY <1>1, <1>2 DEF Intact, BridgeTypes
<1>4. 1 \in Seams(pending, wire) <=> Breaks(Before(pending, wire, 1), half)
  <2>1. Len(wire) \in Nat \ {0}
    BY <1>1, EmptySeq DEF BridgeTypes
  <2> QED BY <1>1, <2>1 DEF Seams
<1>5. Before(pending, wire, 1) = IF pending = <<>> THEN Rest ELSE Last(pending)
  BY DEF Before
<1>6. Rest.newline /\ Rest.line = Malformed
  BY DEF Rest
<1>7. pending # <<>> => /\ Len(pending) = 1 /\ Last(pending) = pending[1] /\ ~pending[1].newline
                        /\ pending[1] \in Piece
  <2>1. PICK m \in Nat : m = Len(pending) /\ (pending # <<>> => m # 0)
    BY <1>3, EmptySeq
  <2>2. m <= 1
    BY <1>3, <2>1
  <2>3. pending # <<>> => m = 1
    BY ONLY <2>1, <2>2
  <2>4. m = 1 => Last(pending) = pending[1] /\ ~pending[1].newline /\ pending[1] \in Piece
    <3>1. Last(pending) = pending[m]
      BY <2>1 DEF Last
    <3>2. m = 1 => 1 \in 1..Len(pending)
      BY <2>1
    <3> QED BY <1>3, <3>1, <3>2, ElementOfSeq
  <2> QED BY <2>1, <2>3, <2>4
<1>8. ASSUME ~half.newline PROVE pending = <<>>
  <2> SUFFICES ASSUME pending # <<>> PROVE FALSE
    OBVIOUS
  <2>1. Breaks(Before(pending, wire, 1), half)
    BY <1>5, <1>7, <1>8 DEF Breaks
  <2> QED BY <1>3, <1>4, <2>1
<1>9. ASSUME half.newline, NEW line \in ParsedAs(halves) PROVE line = half.line
  <2>1. CASE pending = <<>>
    <3>1. Breaks(Before(pending, wire, 1), half)
      BY <1>5, <1>6, <1>9, <2>1 DEF Breaks
    <3>2. half = Rest /\ halves[1] = half
      BY <1>1, <1>3, <1>4, <2>1, <3>1
    <3>3. halves # Halves(halves[1].line)
      <4>1. Halves(halves[1].line)[1] = [line |-> halves[1].line, newline |-> FALSE]
        BY HalvesOfLine, <3>2 DEF Piece
      <4>2. [line |-> halves[1].line, newline |-> FALSE].newline = FALSE
        OBVIOUS
      <4> QED BY <1>6, <3>2, <4>1, <4>2
    <3> QED BY <1>6, <3>2, <3>3 DEF ParsedAs
  <2>2. CASE pending # <<>>
    <3>1. ~Breaks(Before(pending, wire, 1), half)
      BY <1>3, <1>4, <2>2
    <3>2. pending[1].line = half.line
      BY <1>5, <1>7, <1>9, <2>2, <3>1 DEF Breaks
    <3>3. halves[1] = pending[1] /\ Len(halves) = 2 /\ halves[2] = half
      <4>1. halves[1] = pending[1] /\ Len(halves) = Len(pending) + 1 /\ Len(pending) = 1
        BY <1>1, <1>7, <2>2, Zenon
      <4>2. Len(halves) = 2
        BY ONLY <4>1
      <4> QED BY <1>1, <4>1, <4>2 DEF Last
    <3>4. half.line \in Lines
      BY DEF Piece
    <3>5. /\ halves[1] = [line |-> half.line, newline |-> FALSE]
          /\ half = [line |-> half.line, newline |-> TRUE]
      BY <1>7, <1>9, <2>2, <3>2, <3>3 DEF Piece
    <3>6. /\ Halves(half.line) \in Seq(Piece) /\ Len(Halves(half.line)) = 2
          /\ Halves(half.line)[1] = halves[1] /\ Halves(half.line)[2] = halves[2]
      BY <3>3, <3>4, <3>5, HalvesOfLine
    <3>7. \A k \in 1..Len(halves) : halves[k] = Halves(half.line)[k]
      BY <3>3, <3>6
    <3>8. halves = Halves(half.line)
      BY <1>1, <3>3, <3>6, <3>7, SeqEqual
    <3>9. halves[1].line = half.line
      BY <3>2, <3>3
    <3> QED BY <3>8, <3>9 DEF ParsedAs
  <2> QED BY <2>1, <2>2
<1> QED BY <1>1, <1>8, <1>9

LEMMA IntactReadKept ==
  ASSUME BridgeTypes, Intact, Read PROVE Intact'
<1> SUFFICES ASSUME losses = 0 PROVE Intact'
  BY DEF Read, Intact
<1>1. PICK half \in Piece, halves \in Seq(Piece) :
        /\ half = Head(wire) /\ halves = Append(pending, half)
        /\ wire # <<>> /\ wire' = Tail(wire) /\ pending' = Kept(halves) /\ Last(halves) = half
  BY ReadWire
<1>2. /\ pending \in Seq(Piece) /\ wire \in Seq(Piece) /\ reader = "read" /\ port = "open"
      /\ \A i \in 1..Len(pending) : ~pending[i].newline
  BY DEF BridgeTypes, Read
<1>3. \A k \in Seams(pending, wire) : k = 1
  BY <1>2 DEF Intact
<1>4. ~half.newline => pending = <<>>
  BY <1>1, IntactRead
<1>5. half.newline \/ Len(halves) = 1
  <2>1. Len(halves) = Len(pending) + 1
    BY <1>1, <1>2, LastOfAppend
  <2>2. ~half.newline => Len(pending) = 0
    BY <1>4
  <2> QED BY <2>1, <2>2
<1>6. 1 <= MaxLine
  BY SensorAssumption
<1>7. Len(pending') <= 1
  <2>1. CASE half.newline
    BY <1>1, <2>1, EmptySeq DEF Kept
  <2>2. CASE Len(halves) = 1 /\ ~half.newline
    <3>1. ~(Len(halves) > MaxLine)
      BY <1>6, <2>2, SensorAssumption
    <3>2. pending' = halves
      BY <1>1, <2>2, <3>1, Zenon DEF Kept
    <3>3. Len(halves) <= 1
      BY <2>2
    <3> QED BY <3>2, <3>3, Zenon
  <2> QED BY <1>5, <2>1, <2>2
<1>8. /\ \A k \in Seams(pending', wire') : k > 1 => k + 1 \in Seams(pending, wire) \ {1}
      /\ 1 \in Seams(pending', wire') => 2 \in Seams(pending, wire)
  BY <1>1, <1>2, <1>5, <1>6, SeamsMove
<1>9. \A k \in Seams(pending', wire') : k \in Int /\ k >= 1
  <2>1. wire' \in Seq(Piece)
    BY ReadWire
  <2>2. Seams(pending', wire') \subseteq 1..(Len(wire') + 1) /\ Len(wire') \in Nat
    BY <2>1, SeamsFinite, LenProperties
  <2> QED BY <2>2
<1>10. \A k \in Seams(pending', wire') : FALSE
  BY <1>3, <1>8, <1>9
<1> QED BY <1>7, <1>10 DEF Intact

LEMMA IntactKept ==
  ASSUME BridgeTypes, Intact, [SensorNext]_sensorVars PROVE Intact'
<1>1. losses \in Nat /\ pending \in Seq(Piece) /\ wire \in Seq(Piece)
  BY DEF BridgeTypes
<1>2. CASE Ping
  <2>1. /\ \A kept : Seams(kept, wire') = Seams(kept, wire)
        /\ wire' \in Seq(Piece) /\ Len(wire') >= Len(wire) /\ \A k \in 1..Len(wire) : wire'[k] = wire[k]
    BY <1>2, PingJoins
  <2>2. UNCHANGED <<reader, port, pending, losses>>
    BY <1>2 DEF Ping, node, ghost
  <2>3. wire # <<>> => wire' # <<>> /\ wire'[1] = wire[1]
    <3>1. wire # <<>> => 1 \in 1..Len(wire)
      BY <1>1, EmptySeq
    <3>2. Len(wire) \in Nat /\ (wire' = <<>> => Len(wire') = 0)
      BY <1>1, <2>1, EmptySeq
    <3> QED BY <2>1, <3>1, <3>2
  <2> QED BY <2>1, <2>2, <2>3 DEF Intact
<1>3. ASSUME NEW cuts \in BOOLEAN, Reset(cuts) PROVE Intact'
  <2>1. CASE cuts
    BY <1>1, <1>3, <2>1 DEF Reset, Intact
  <2>2. CASE ~cuts
    <3>1. /\ \A kept : Seams(kept, wire') = Seams(kept, wire)
          /\ wire' \in Seq(Piece) /\ (wire' = wire \/ wire' = wire \o Halves(Banner))
      BY <1>3, <2>2, ResetJoins
    <3>2. UNCHANGED <<reader, port, pending, losses>>
      BY <1>1, <1>3, <2>2 DEF Reset, node
    <3>3. wire # <<>> => wire' # <<>> /\ wire'[1] = wire[1]
      <4>1. wire # <<>> => 1 \in 1..Len(wire)
        BY <1>1, EmptySeq
      <4>2. Banner \in Lines
        BY LinesAreLines
      <4>3. Len(wire \o Halves(Banner)) = Len(wire) + 2
            /\ \A k \in 1..Len(wire) : (wire \o Halves(Banner))[k] = wire[k]
        BY <1>1, <4>2, LineAppended
      <4>4. Len(wire) \in Nat /\ (wire' = <<>> => Len(wire') = 0)
        BY <1>1, <3>1, EmptySeq
      <4> QED BY <3>1, <4>1, <4>3, <4>4
    <3> QED BY <3>1, <3>2, <3>3 DEF Intact
  <2> QED BY <2>1, <2>2
<1>4. ASSUME NEW i, NEW j, Lose(i, j) PROVE Intact'
  BY <1>1, <1>4 DEF Lose, Intact
<1>5. CASE Unplug
  BY <1>5 DEF Unplug, Intact
<1>6. ASSUME NEW cut \in BOOLEAN, Connect(cut) PROVE Intact'
  <2>1. pending' = <<>> /\ \A k \in Seams(pending', wire') : k = 1 /\ wire' = <<Rest>>
    BY <1>6, OneSeamAtConnect, ConnectWire
  <2>2. Len(pending') <= 1
    BY <2>1
  <2>3. wire' = <<Rest>> => wire' # <<>> /\ wire'[1] = Rest
    OBVIOUS
  <2> QED BY <2>1, <2>2, <2>3 DEF Intact
<1>7. CASE Read
  BY <1>7, IntactReadKept
<1>8. CASE OpenPort \/ Wait \/ FlushFails \/ Leave \/ Close
  BY <1>8 DEF OpenPort, Wait, Loop, FlushFails, Leave, Close, Intact
<1>9. CASE (\E s \in CanBreak : BreakOrMend(s)) \/ (\E b \in BOOLEAN : Plug(b))
              \/ Sigint \/ Destroy \/ Destroyed \/ UNCHANGED sensorVars
  <2>1. UNCHANGED <<wire, pending, reader, losses>> /\ (port' = "open" => port = "open")
    BY <1>9 DEF BreakOrMend, Plug, Sigint, Destroy, Destroyed, Main, sensorVars, node, ghost
  <2> QED BY <2>1 DEF Intact
<1> QED BY ONLY <1>2, <1>3, <1>4, <1>5, <1>6, <1>7, <1>8, <1>9, [SensorNext]_sensorVars
        DEF SensorNext, Environment, Reader

-----------------------------------------------------------------------------
(* The bridge: what it will believe of a side. *)

\* What the first k halves of w leave of the belief f of side s.
Believed(f, w, s, k) ==
  \/ f /\ \A i \in 1..k : ~About(w[i], s)
  \/ \E i \in 1..k : Warns(w[i], s) /\ \A j \in (i + 1)..k : ~About(w[j], s)

\* The last half decides, when it is about the side.
LEMMA BelievedNext ==
  ASSUME NEW f, NEW w, NEW s, NEW k \in Nat \ {0}
  PROVE  Believed(f, w, s, k) <=>
           IF About(w[k], s) THEN Warns(w[k], s) ELSE Believed(f, w, s, k - 1)
<1>1. \A i \in 1..k : i \in 1..(k - 1) \/ i = k
  OBVIOUS
<1>2. k \in 1..k /\ \A i \in 1..(k - 1) : i \in 1..k
  OBVIOUS
<1>3. CASE About(w[k], s)
  <2>1. ASSUME Believed(f, w, s, k) PROVE Warns(w[k], s)
    <3>1. PICK i \in 1..k : Warns(w[i], s) /\ \A j \in (i + 1)..k : ~About(w[j], s)
      BY <1>2, <1>3, <2>1 DEF Believed
    <3>2. i = k
      BY <1>3, <3>1
    <3> QED BY <3>1, <3>2
  <2>2. ASSUME Warns(w[k], s) PROVE Believed(f, w, s, k)
    <3>1. \A j \in (k + 1)..k : FALSE
      OBVIOUS
    <3> QED BY <1>2, <2>2, <3>1 DEF Believed
  <2> QED BY <1>3, <2>1, <2>2
<1>4. CASE ~About(w[k], s)
  <2>1. ~Warns(w[k], s)
    BY <1>4 DEF Warns
  <2>2. (\A i \in 1..k : ~About(w[i], s)) <=> \A i \in 1..(k - 1) : ~About(w[i], s)
    BY <1>1, <1>2, <1>4
  <2>3. ASSUME NEW i \in 1..(k - 1)
        PROVE  (\A j \in (i + 1)..k : ~About(w[j], s)) <=> \A j \in (i + 1)..(k - 1) : ~About(w[j], s)
    <3>1. \A j \in (i + 1)..k : j \in (i + 1)..(k - 1) \/ j = k
      OBVIOUS
    <3>2. \A j \in (i + 1)..(k - 1) : j \in (i + 1)..k
      OBVIOUS
    <3> QED BY <1>4, <3>1, <3>2
  <2>4. (\E i \in 1..k : Warns(w[i], s) /\ \A j \in (i + 1)..k : ~About(w[j], s))
          <=> \E i \in 1..(k - 1) : Warns(w[i], s) /\ \A j \in (i + 1)..(k - 1) : ~About(w[j], s)
    BY <1>1, <1>2, <2>1, <2>3
  <2> QED BY <1>4, <2>2, <2>4 DEF Believed
<1> QED BY <1>3, <1>4

\* What comes after the first k halves does not matter.
LEMMA BelievedSame ==
  ASSUME NEW f, NEW w, NEW v, NEW s, NEW k \in Nat, \A i \in 1..k : v[i] = w[i]
  PROVE  Believed(f, v, s, k) <=> Believed(f, w, s, k)
<1>1. \A i \in 1..k : \A j \in (i + 1)..k : j \in 1..k
  OBVIOUS
<1> QED BY <1>1 DEF Believed

\* Handling the first half and then the others is handling them all.
LEMMA BelievedTail ==
  ASSUME NEW f, NEW g, NEW w, NEW v, NEW s, NEW k \in Nat, \A i \in 1..k : v[i] = w[i + 1],
         g <=> IF About(w[1], s) THEN Warns(w[1], s) ELSE f
  PROVE  Believed(g, v, s, k) <=> Believed(f, w, s, k + 1)
<1>1. Warns(w[1], s) => About(w[1], s)
  BY DEF Warns
<1>2. (\A i \in 1..(k + 1) : ~About(w[i], s)) <=> ~About(w[1], s) /\ \A i \in 1..k : ~About(v[i], s)
  <2>1. 1 \in 1..(k + 1) /\ \A i \in 1..k : i + 1 \in 1..(k + 1)
    OBVIOUS
  <2>2. \A i \in 1..(k + 1) : i = 1 \/ (i - 1 \in 1..k /\ i = (i - 1) + 1)
    OBVIOUS
  <2>3. \A i \in 1..(k + 1) : i = 1 \/ (i - 1 \in 1..k /\ w[i] = v[i - 1])
    BY <2>2
  <2> QED BY <2>1, <2>3
<1>3. \A i \in 1..k : (\A j \in (i + 1)..k : ~About(v[j], s)) <=> \A j \in (i + 2)..(k + 1) : ~About(w[j], s)
  <2> SUFFICES ASSUME NEW i \in 1..k
               PROVE  (\A j \in (i + 1)..k : ~About(v[j], s)) <=> \A j \in (i + 2)..(k + 1) : ~About(w[j], s)
    OBVIOUS
  <2>1. \A j \in (i + 1)..k : j + 1 \in (i + 2)..(k + 1) /\ v[j] = w[j + 1]
    OBVIOUS
  <2>2. \A j \in (i + 2)..(k + 1) : j - 1 \in (i + 1)..k /\ w[j] = v[j - 1]
    <3> TAKE j \in (i + 2)..(k + 1)
    <3>1. j - 1 \in (i + 1)..k /\ j - 1 \in 1..k /\ (j - 1) + 1 = j
      OBVIOUS
    <3> QED BY <3>1
  <2> QED BY <2>1, <2>2
<1>4. (\A j \in 2..(k + 1) : ~About(w[j], s)) <=> \A i \in 1..k : ~About(v[i], s)
  <2>1. \A j \in 2..(k + 1) : j - 1 \in 1..k /\ w[j] = v[j - 1]
    <3> TAKE j \in 2..(k + 1)
    <3>1. j - 1 \in 1..k /\ (j - 1) + 1 = j
      OBVIOUS
    <3> QED BY <3>1
  <2>2. \A i \in 1..k : i + 1 \in 2..(k + 1) /\ v[i] = w[i + 1]
    OBVIOUS
  <2> QED BY <2>1, <2>2
<1> DEFINE Later == \E i \in 1..k : Warns(v[i], s) /\ \A j \in (i + 1)..k : ~About(v[j], s)
           First == Warns(w[1], s) /\ \A j \in 2..(k + 1) : ~About(w[j], s)
<1>5. (\E i \in 1..(k + 1) : Warns(w[i], s) /\ \A j \in (i + 1)..(k + 1) : ~About(w[j], s))
        <=> First \/ Later
  <2>1. ASSUME NEW i \in 1..(k + 1), Warns(w[i], s), \A j \in (i + 1)..(k + 1) : ~About(w[j], s)
        PROVE  First \/ Later
    <3>1. CASE i = 1
      BY <2>1, <3>1
    <3>2. CASE i # 1
      <4>1. i - 1 \in 1..k /\ (i - 1) + 1 = i /\ (i - 1) + 2 = i + 1
        BY <3>2
      <4>2. Warns(v[i - 1], s)
        BY <2>1, <4>1
      <4>3. \A j \in ((i - 1) + 1)..k : ~About(v[j], s)
        BY <1>3, <2>1, <4>1
      <4> QED BY <4>1, <4>2, <4>3
    <3> QED BY <3>1, <3>2
  <2>2. ASSUME First
        PROVE  \E i \in 1..(k + 1) : Warns(w[i], s) /\ \A j \in (i + 1)..(k + 1) : ~About(w[j], s)
    <3>1. 1 \in 1..(k + 1) /\ 1 + 1 = 2
      OBVIOUS
    <3> QED BY <2>2, <3>1
  <2>3. ASSUME NEW i \in 1..k, Warns(v[i], s), \A j \in (i + 1)..k : ~About(v[j], s)
        PROVE  \E n \in 1..(k + 1) : Warns(w[n], s) /\ \A j \in (n + 1)..(k + 1) : ~About(w[j], s)
    <3>1. i + 1 \in 1..(k + 1) /\ (i + 1) + 1 = i + 2 /\ v[i] = w[i + 1]
      OBVIOUS
    <3> QED BY <1>3, <2>3, <3>1
  <2> QED BY <2>1, <2>2, <2>3
<1>6. Believed(g, v, s, k) <=> (g /\ \A i \in 1..k : ~About(v[i], s)) \/ Later
  BY DEF Believed
<1>7. Believed(f, w, s, k + 1) <=> (f /\ \A i \in 1..(k + 1) : ~About(w[i], s)) \/ First \/ Later
  BY <1>5 DEF Believed
<1> HIDE DEF Later
<1> QED BY <1>1, <1>2, <1>4, <1>6, <1>7

\* The lines that decide.
Decides(line, s) ==
  line.kind = "banner" \/ (line.kind \in {"warning", "recovered"} /\ line.side = s)

LEMMA BelievedLine ==
  ASSUME NEW f, NEW w \in Seq(Piece), NEW line \in Lines, NEW s, NEW v, v = w \o Halves(line)
  PROVE  /\ Believed(f, v, s, Len(w) + 1) <=> Believed(f, w, s, Len(w))
         /\ Believed(f, v, s, Len(v)) <=>
              IF Decides(line, s) THEN line.kind = "warning" ELSE Believed(f, w, s, Len(w))
<1>1. PICK n \in Nat : n = Len(w)
  BY LenProperties
<1>2. /\ Len(v) = n + 2 /\ \A k \in 1..n : v[k] = w[k]
      /\ v[n + 1] = [line |-> line, newline |-> FALSE]
      /\ v[n + 2] = [line |-> line, newline |-> TRUE]
  BY <1>1, LineAppended
<1>3. Believed(f, v, s, n) <=> Believed(f, w, s, n)
  BY <1>2, BelievedSame
<1>4. ~About(v[n + 1], s)
  BY <1>2 DEF About
<1>5. Believed(f, v, s, n + 1) <=> Believed(f, v, s, n)
  <2>1. n + 1 \in Nat \ {0} /\ (n + 1) - 1 = n
    OBVIOUS
  <2>2. Believed(f, v, s, n + 1) <=>
          IF About(v[n + 1], s) THEN Warns(v[n + 1], s) ELSE Believed(f, v, s, (n + 1) - 1)
    BY ONLY <2>1, BelievedNext
  <2> QED BY <1>4, <2>1, <2>2
<1>6. /\ About(v[n + 2], s) <=> Decides(line, s)
      /\ Decides(line, s) => (Warns(v[n + 2], s) <=> line.kind = "warning")
  BY <1>2 DEF About, Decides, Warns
<1>7. Believed(f, v, s, n + 2) <=>
        IF Decides(line, s) THEN line.kind = "warning" ELSE Believed(f, v, s, n + 1)
  <2>1. n + 2 \in Nat \ {0} /\ (n + 2) - 1 = n + 1
    OBVIOUS
  <2>2. Believed(f, v, s, n + 2) <=>
          IF About(v[n + 2], s) THEN Warns(v[n + 2], s) ELSE Believed(f, v, s, (n + 2) - 1)
    BY ONLY <2>1, BelievedNext
  <2> QED BY <1>6, <2>1, <2>2
<1> QED BY <1>1, <1>2, <1>3, <1>5, <1>7

\* The next ping tells of side s.
Told(s) == IF s \in broken THEN FaultWarningDue(Failed(s)) ELSE s \in reported

LEMMA BelievedNotice ==
  ASSUME NEW f, NEW w \in Seq(Piece), NEW s \in Side, NEW t \in Side, NEW v, v = w \o Notice(t)
  PROVE  /\ v \in Seq(Piece)
         /\ Believed(f, v, s, Len(v)) <=>
              IF t = s /\ Told(s) THEN s \in broken ELSE Believed(f, w, s, Len(w))
<1>1. CASE ~Told(t)
  <2>1. Notice(t) = <<>>
    BY <1>1 DEF Notice, Told
  <2>2. v = w
    BY <2>1, ConcatEmptySeq
  <2> QED BY <1>1, <2>2
<1>2. CASE Told(t)
  <2>1. PICK line : line = Status(IF t \in broken THEN "warning" ELSE "recovered", t)
    OBVIOUS
  <2>2. line \in Lines
    BY <2>1, LinesAreLines
  <2>3. Notice(t) = Halves(line)
    BY <1>2, <2>1 DEF Notice, Told
  <2>4. /\ Decides(line, s) <=> t = s
        /\ line.kind = "warning" <=> t \in broken
    BY <2>1 DEF Status, Decides
  <2>5. Believed(f, v, s, Len(v)) <=>
          IF Decides(line, s) THEN line.kind = "warning" ELSE Believed(f, w, s, Len(w))
    BY <2>2, <2>3, BelievedLine
  <2>6. v \in Seq(Piece)
    BY <2>2, <2>3, LineAppended
  <2> QED BY <1>2, <2>4, <2>5, <2>6
<1> QED BY <1>1, <1>2

\* Before the reading that a ping ends with, the bridge will have been told.
LEMMA PingBelieved ==
  ASSUME BridgeTypes, Ping, port = "open"
  PROVE  \E b \in Seq(Piece), cm \in [Side -> Distances] :
           /\ Reading(cm, failed') \in Lines /\ wire' = b \o Halves(Reading(cm, failed'))
           /\ b = (wire \o Notice("left")) \o Notice("right")
           /\ \A s \in Side : \A f : Believed(f, b, s, Len(b)) <=>
                IF Told(s) THEN s \in broken ELSE Believed(f, wire, s, Len(wire))
<1>1. PICK cm \in [Side -> Distances] :
        wire' = ((wire \o Notice("left")) \o Notice("right")) \o Halves(Reading(cm, failed'))
  BY Pinged
<1>2. Reading(cm, failed') \in Lines
  BY Pinged, LinesAreLines
<1>3. wire \in Seq(Piece)
  BY DEF BridgeTypes
<1>4. PICK a : a = wire \o Notice("left")
  OBVIOUS
<1>5. PICK b : b = a \o Notice("right")
  OBVIOUS
<1>6. a \in Seq(Piece)
  BY <1>3, <1>4, BelievedNotice DEF Side
<1>7. b \in Seq(Piece)
  BY <1>5, <1>6, BelievedNotice DEF Side
<1>8. ASSUME NEW s \in Side, NEW f
      PROVE  Believed(f, b, s, Len(b)) <=>
               IF Told(s) THEN s \in broken ELSE Believed(f, wire, s, Len(wire))
  <2>1. "left" \in Side /\ "right" \in Side /\ s \in {"left", "right"}
    BY DEF Side
  <2>2. Believed(f, a, s, Len(a)) <=>
          IF "left" = s /\ Told(s) THEN s \in broken ELSE Believed(f, wire, s, Len(wire))
    BY <1>3, <1>4, <2>1, BelievedNotice
  <2>3. Believed(f, b, s, Len(b)) <=>
          IF "right" = s /\ Told(s) THEN s \in broken ELSE Believed(f, a, s, Len(a))
    BY <1>5, <1>6, <2>1, BelievedNotice
  <2> QED BY <2>1, <2>2, <2>3
<1> QED BY <1>1, <1>2, <1>4, <1>5, <1>7, <1>8

\* What the line that is read does to what is believed of a side, when nothing was lost.
LEMMA ReadBelieved ==
  ASSUME BridgeTypes, Intact, Read, losses = 0, NEW s \in Side
  PROVE  /\ faulty'[s] <=> IF About(wire[1], s) THEN Warns(wire[1], s) ELSE faulty[s]
         /\ \A k \in 0..Len(wire') : Believed(faulty'[s], wire', s, k) <=> Believed(faulty[s], wire, s, k + 1)
<1>1. PICK half \in Piece, halves \in Seq(Piece) :
        /\ half = Head(wire) /\ half = wire[1] /\ halves = Append(pending, half)
        /\ Last(halves) = half /\ \A k \in 1..Len(wire') : wire'[k] = wire[k + 1]
        /\ wire' \in Seq(Piece)
  BY ReadWire
<1>2. faulty \in [Side -> BOOLEAN]
  BY DEF BridgeTypes, SensorTypeOK
<1>3. faulty'[s] <=> IF About(half, s) THEN Warns(half, s) ELSE faulty[s]
  <2>1. CASE ~half.newline
    <3>1. faulty' = faulty
      BY <1>1, <2>1, ReadHandles
    <3> QED BY <2>1, <3>1 DEF About
  <2>2. CASE half.newline
    <3>1. PICK line \in ParsedAs(halves) : line \in Lines \cup {Comment} /\ Handle(line)
      BY <1>1, <2>2, ReadHandles
    <3>2. line = half.line
      BY <1>1, <2>2, <3>1, IntactRead
    <3>3. CASE line.kind = "warning"
      BY <1>2, <2>2, <3>1, <3>2, <3>3, LineFields DEF Handle, About, Warns
    <3>4. CASE line.kind = "recovered"
      BY <1>2, <2>2, <3>1, <3>2, <3>4, LineFields DEF Handle, About, Warns
    <3>5. CASE line.kind = "banner"
      BY <2>2, <3>1, <3>2, <3>5 DEF Handle, About, Warns
    <3>6. CASE line.kind \notin {"warning", "recovered", "banner"}
      BY <1>2, <2>2, <3>1, <3>2, <3>6 DEF Handle, About, Warns
    <3> QED BY <3>3, <3>4, <3>5, <3>6
  <2> QED BY <2>1, <2>2
<1>4. ASSUME NEW k \in 0..Len(wire')
      PROVE  Believed(faulty'[s], wire', s, k) <=> Believed(faulty[s], wire, s, k + 1)
  <2>1. k \in Nat /\ \A i \in 1..k : wire'[i] = wire[i + 1]
    <3>1. Len(wire') \in Nat
      BY <1>1, LenProperties
    <3> QED BY <1>1, <3>1
  <2> QED BY <1>1, <1>3, <2>1, BelievedTail
<1> QED BY <1>1, <1>3, <1>4

LEMMA NoGhostMeans ==
  NoGhostFault <=>
    (reader = "read" /\ port = "open" /\ losses = 0 =>
       \A s \in Side : Believed(faulty[s], wire, s, Len(wire)) => s \in reported)
  BY DEF NoGhostFault, Eventually, Believes, Believed

LEMMA NoGhostMeansThen ==
  NoGhostFault' <=>
    (reader' = "read" /\ port' = "open" /\ losses' = 0 =>
       \A s \in Side : Believed(faulty'[s], wire', s, Len(wire')) => s \in reported')
  BY DEF NoGhostFault, Eventually, Believes, Believed

LEMMA NoGhostStart == SensorInit => NoGhostFault
  BY DEF SensorInit, NoGhostFault

LEMMA NoGhostKept ==
  ASSUME BridgeTypes, Intact, NoGhostFault, [SensorNext]_sensorVars PROVE NoGhostFault'
<1>1. losses \in Nat /\ wire \in Seq(Piece) /\ (port = "open" => plugged)
  BY DEF BridgeTypes
<1>2. CASE Ping
  <2>1. UNCHANGED <<reader, port, faulty, losses>>
    BY <1>2 DEF Ping, node, ghost
  <2> SUFFICES ASSUME reader = "read", port = "open", losses = 0, NEW s \in Side,
                      Believed(faulty[s], wire', s, Len(wire'))
               PROVE  s \in reported'
    BY <2>1, NoGhostMeansThen
  <2>2. PICK b \in Seq(Piece), cm \in [Side -> Distances] :
           /\ Reading(cm, failed') \in Lines /\ wire' = b \o Halves(Reading(cm, failed'))
           /\ \A t \in Side : \A f : Believed(f, b, t, Len(b)) <=>
                IF Told(t) THEN t \in broken ELSE Believed(f, wire, t, Len(wire))
    BY <1>2, PingBelieved
  <2>3. ~Decides(Reading(cm, failed'), s)
    BY DEF Decides, Reading
  <2>4. Believed(faulty[s], b, s, Len(b))
    BY <2>2, <2>3, BelievedLine
  <2>5. IF Told(s) THEN s \in broken ELSE Believed(faulty[s], wire, s, Len(wire))
    BY <2>2, <2>4
  <2>6. reported' = {t \in Side : IF t \in broken THEN t \in reported \/ FaultWarningDue(Failed(t)) ELSE FALSE}
    BY <1>2 DEF Ping
  <2>7. ~Told(s) => s \in reported
    BY <2>5, NoGhostMeans
  <2> QED BY <2>5, <2>6, <2>7 DEF Told
<1>3. ASSUME NEW cuts \in BOOLEAN, Reset(cuts) PROVE NoGhostFault'
  <2>1. CASE cuts
    BY <1>1, <1>3, <2>1 DEF Reset, NoGhostFault
  <2>2. CASE ~cuts
    <3> SUFFICES ASSUME port' = "open", NEW s \in Side
                 PROVE  ~Believed(faulty'[s], wire', s, Len(wire'))
      BY NoGhostMeansThen
    <3>1. wire' = wire \o Halves(Banner)
      BY <1>3, <2>2 DEF Reset, node
    <3>2. Banner \in Lines /\ Decides(Banner, s) /\ Banner.kind # "warning"
      BY LinesAreLines DEF Banner, Decides
    <3> QED BY <1>1, <3>1, <3>2, BelievedLine
  <2> QED BY <2>1, <2>2
<1>4. ASSUME NEW i, NEW j, Lose(i, j) PROVE NoGhostFault'
  BY <1>1, <1>4 DEF Lose, NoGhostFault
<1>5. CASE Unplug
  BY <1>5 DEF Unplug, NoGhostFault
<1>6. ASSUME NEW cut \in BOOLEAN, Connect(cut) PROVE NoGhostFault'
  <2> SUFFICES ASSUME NEW s \in Side PROVE ~Believed(faulty'[s], wire', s, Len(wire'))
    BY NoGhostMeansThen
  <2>1. faulty'[s] = FALSE
    BY <1>6 DEF Connect
  <2>2. \A i \in 1..Len(wire') : wire'[i] = Rest
    <3>1. Len(wire') \in 0..1 /\ (wire' # <<>> => wire'[1] = Rest) /\ wire' \in Seq(Piece)
      BY <1>6, ConnectWire
    <3>2. wire' = <<>> => Len(wire') = 0
      BY <3>1, EmptySeq
    <3> QED BY <3>1, <3>2
  <2>3. ~Warns(Rest, s)
    BY DEF Warns, Rest, Malformed
  <2> QED BY <2>1, <2>2, <2>3 DEF Believed
<1>7. CASE Read
  <2>1. UNCHANGED <<reader, port, losses, reported>>
    BY <1>7 DEF Read, node, board
  <2> SUFFICES ASSUME reader = "read", port = "open", losses = 0, NEW s \in Side,
                      Believed(faulty'[s], wire', s, Len(wire'))
               PROVE  s \in reported
    BY <2>1, NoGhostMeansThen
  <2>2. Len(wire') \in Nat /\ Len(wire') = Len(wire) - 1 /\ Len(wire) \in Nat
    BY <1>1, <1>7, ReadWire, LenProperties
  <2>3. Len(wire') \in 0..Len(wire') /\ Len(wire') + 1 = Len(wire)
    BY <2>2
  <2>4. Believed(faulty'[s], wire', s, Len(wire')) <=> Believed(faulty[s], wire, s, Len(wire') + 1)
    BY <1>7, <2>3, ReadBelieved
  <2> QED BY <2>3, <2>4, NoGhostMeans
<1>8. CASE OpenPort \/ Wait \/ FlushFails \/ Leave \/ Close
  BY <1>8 DEF OpenPort, Wait, Loop, FlushFails, Leave, Close, NoGhostFault
<1>9. ASSUME NEW b \in BOOLEAN, Plug(b) PROVE NoGhostFault'
  BY <1>1, <1>9 DEF Plug, node, NoGhostFault
<1>10. CASE (\E s \in CanBreak : BreakOrMend(s)) \/ Sigint \/ Destroy \/ Destroyed \/ UNCHANGED sensorVars
  <2>1. UNCHANGED <<wire, reader, faulty, reported, losses>> /\ (port' = "open" => port = "open")
    BY <1>10 DEF BreakOrMend, Sigint, Destroy, Destroyed, Main, sensorVars, node, ghost, board
  <2> QED BY <2>1, NoGhostMeans, NoGhostMeansThen
<1> QED BY ONLY <1>2, <1>3, <1>4, <1>5, <1>6, <1>7, <1>8, <1>9, <1>10, [SensorNext]_sensorVars
        DEF SensorNext, Environment, Reader

\* Without a loss, a side is believed faulty only while the board reports it so.
THEOREM GhostsAreLaid == SensorSpec => []NoGhostFault
  BY NoGhostStart, NoGhostKept, IntactStart, IntactKept, BridgeTypesHold, PTL DEF SensorSpec

-----------------------------------------------------------------------------
(* The bridge: failed pings that pass for open space. *)

\* The board's count of failed pings of side s goes from m to n as a half of a line comes.
NextPing(m) == IF m = LastPing THEN FaultWarn + 1 ELSE m + 1
Counted(m, half, n, s) ==
  IF half.newline /\ half.line.kind = "reading" THEN n = half.line.dead[s] /\ (n # 0 => n = NextPing(m))
  ELSE IF half.newline /\ half.line.kind = "banner" THEN n = 0 ELSE n = m
Counts(c, w, s) ==
  /\ c \in [0..Len(w) -> 0..LastPing]
  /\ \A k \in 1..Len(w) : Counted(c[k - 1], w[k], c[k], s)

\* The readings before which the board has just warned.
Warned(f, w, s) ==
  \A k \in 1..Len(w) :
    w[k].newline /\ w[k].line.kind = "reading" /\ w[k].line.dead[s] \in {FaultWarn, LastPing}
      => Believed(f, w, s, k - 1)

\* The failed pings that may have passed for open space when the last of them was the n-th.
Unseen(n) == IF n < FaultWarn THEN n ELSE IF n = LastPing THEN 0 ELSE n - FaultWarn
MaxBlind == IF FaultWarn > FaultRepeat THEN FaultWarn ELSE FaultRepeat

LEMMA UnseenGrows ==
  /\ \A n \in 0..LastPing : Unseen(n) \in Nat /\ Unseen(n) < MaxBlind
  /\ Unseen(FaultWarn) = 0 /\ Unseen(LastPing) = 0 /\ Unseen(0) = 0
  /\ \A m \in 0..LastPing : NextPing(m) \notin {FaultWarn, LastPing} =>
       NextPing(m) \in 0..LastPing /\ Unseen(NextPing(m)) = Unseen(m) + 1
<1>1. FaultWarn \in Nat \ {0} /\ FaultRepeat \in Nat \ {0}
  BY SensorAssumption
<1> QED BY <1>1 DEF Unseen, MaxBlind, NextPing, LastPing

\* A count from m to n along w.
CountsTo(w, s, m, n) == \E c : Counts(c, w, s) /\ c[0] = m /\ c[Len(w)] = n

\* A line that is appended goes on counting.
LEMMA CountsLine ==
  ASSUME NEW w \in Seq(Piece), NEW line \in Lines, NEW s, NEW l, NEW m, CountsTo(w, s, l, m),
         NEW n \in 0..LastPing, Counted(m, [line |-> line, newline |-> TRUE], n, s)
  PROVE  CountsTo(w \o Halves(line), s, l, n)
<1>1. PICK i \in Nat : i = Len(w)
  BY LenProperties
<1>2. PICK v : v = w \o Halves(line)
  OBVIOUS
<1>3. /\ Len(v) = i + 2 /\ \A k \in 1..i : v[k] = w[k]
      /\ v[i + 1] = [line |-> line, newline |-> FALSE]
      /\ v[i + 2] = [line |-> line, newline |-> TRUE]
  BY <1>1, <1>2, LineAppended
<1>4. PICK c : /\ c \in [0..i -> 0..LastPing] /\ c[0] = l /\ c[i] = m
               /\ \A k \in 1..i : Counted(c[k - 1], w[k], c[k], s)
  BY <1>1 DEF Counts, CountsTo
<1>5. PICK d : d = [k \in 0..(i + 2) |-> IF k <= i THEN c[k] ELSE IF k = i + 1 THEN m ELSE n]
  OBVIOUS
<1>6. /\ d \in [0..(i + 2) -> 0..LastPing]
      /\ \A k \in 0..i : d[k] = c[k]
      /\ d[i + 1] = m /\ d[i + 2] = n
  BY <1>4, <1>5
<1>7. ASSUME NEW k \in 1..i PROVE Counted(d[k - 1], v[k], d[k], s)
  <2>1. k - 1 \in 0..i /\ k \in 0..i
    OBVIOUS
  <2> QED BY <1>3, <1>4, <1>6, <2>1
<1>8. Counted(d[i], v[i + 1], d[i + 1], s)
  <2>1. i \in 0..i
    OBVIOUS
  <2>2. d[i] = m /\ ~v[i + 1].newline
    BY <1>3, <1>4, <1>6, <2>1
  <2> QED BY <1>6, <2>2 DEF Counted
<1>9. Counted(d[i + 1], v[i + 2], d[i + 2], s)
  BY <1>3, <1>6
<1>10. \A k \in 1..(i + 2) : Counted(d[k - 1], v[k], d[k], s)
  <2>1. \A k \in 1..(i + 2) : k \in 1..i \/ (k = i + 1 /\ k - 1 = i) \/ (k = i + 2 /\ k - 1 = i + 1)
    OBVIOUS
  <2> QED BY <1>7, <1>8, <1>9, <2>1
<1>11. Counts(d, v, s)
  BY <1>3, <1>6, <1>10 DEF Counts
<1>12. d[0] = l /\ d[Len(v)] = n
  <2>1. 0 \in 0..i
    OBVIOUS
  <2> QED BY <1>3, <1>4, <1>6, <2>1
<1> QED BY <1>2, <1>11, <1>12 DEF CountsTo

LEMMA CountsNotice ==
  ASSUME NEW w \in Seq(Piece), NEW t \in Side, NEW s, NEW l, NEW m \in 0..LastPing, CountsTo(w, s, l, m)
  PROVE  CountsTo(w \o Notice(t), s, l, m)
<1>1. CASE Notice(t) = <<>>
  BY <1>1, ConcatEmptySeq
<1>2. ASSUME NEW kind \in {"warning", "recovered"}, Notice(t) = Halves(Status(kind, t))
      PROVE  CountsTo(w \o Notice(t), s, l, m)
  <2>1. PICK line \in Lines : line = Status(kind, t)
    BY LinesAreLines
  <2>2. Counted(m, [line |-> line, newline |-> TRUE], m, s)
    BY <2>1 DEF Counted, Status
  <2>3. CountsTo(w \o Halves(line), s, l, m)
    BY <2>2, CountsLine
  <2> QED BY <1>2, <2>1, <2>3
<1> QED BY <1>1, <1>2 DEF Notice

\* A reading that is appended comes after its warning.
LEMMA WarnedLine ==
  ASSUME NEW w \in Seq(Piece), NEW line \in Lines, NEW v, v = w \o Halves(line), NEW s, NEW f,
         Warned(f, w, s),
         line.kind = "reading" /\ line.dead[s] \in {FaultWarn, LastPing} => Believed(f, w, s, Len(w))
  PROVE  Warned(f, v, s)
<1>1. PICK m \in Nat : m = Len(w)
  BY LenProperties
<1>2. /\ Len(v) = m + 2 /\ \A k \in 1..m : v[k] = w[k]
      /\ v[m + 1] = [line |-> line, newline |-> FALSE]
      /\ v[m + 2] = [line |-> line, newline |-> TRUE]
  BY <1>1, LineAppended
<1> SUFFICES ASSUME NEW k \in 1..(m + 2), v[k].newline, v[k].line.kind = "reading",
                    v[k].line.dead[s] \in {FaultWarn, LastPing}
             PROVE  Believed(f, v, s, k - 1)
  BY <1>2 DEF Warned
<1>3. CASE k \in 1..m
  <2>1. Believed(f, w, s, k - 1)
    BY <1>1, <1>2, <1>3 DEF Warned
  <2>2. k - 1 \in Nat /\ \A i \in 1..(k - 1) : v[i] = w[i]
    BY <1>2, <1>3
  <2> QED BY <2>1, <2>2, BelievedSame
<1>4. CASE k = m + 2
  <2>1. Believed(f, w, s, m)
    BY <1>1, <1>2, <1>4
  <2>2. Believed(f, v, s, m + 1)
    BY <1>1, <2>1, BelievedLine
  <2> QED BY <1>4, <2>2
<1> QED BY <1>2, <1>3, <1>4

LEMMA WarnedNotice ==
  ASSUME NEW w \in Seq(Piece), NEW t \in Side, NEW v, v = w \o Notice(t), NEW s, NEW f, Warned(f, w, s)
  PROVE  Warned(f, v, s)
<1>1. CASE Notice(t) = <<>>
  <2>1. v = w
    BY <1>1, ConcatEmptySeq
  <2> QED BY <2>1
<1>2. ASSUME NEW kind \in {"warning", "recovered"}, Notice(t) = Halves(Status(kind, t))
      PROVE  Warned(f, v, s)
  <2>1. Status(kind, t) \in Lines /\ Status(kind, t).kind # "reading"
    BY LinesAreLines DEF Status
  <2> QED BY <1>2, <2>1, WarnedLine
<1> QED BY <1>1, <1>2 DEF Notice

\* The board warns at the FaultWarn-th failed ping, and again after FaultRepeat of them.
LEMMA DueThen == FaultWarningDue(FaultWarn) /\ FaultWarningDue(LastPing)
<1>1. FaultWarn \in Nat \ {0} /\ FaultRepeat \in Nat \ {0}
  BY SensorAssumption
<1>2. FaultWarn - FaultWarn = 0 /\ LastPing - FaultWarn = FaultRepeat /\ LastPing >= FaultWarn
  BY <1>1 DEF LastPing
<1>3. 0 % FaultRepeat = 0 /\ FaultRepeat % FaultRepeat = 0
  BY <1>1
<1> QED BY <1>1, <1>2, <1>3 DEF FaultWarningDue

BlindTracked ==
  reader = "read" /\ losses = 0 => \A s \in Side :
    /\ blind[s] < MaxBlind
    /\ port = "open" =>
         /\ Warned(faulty[s], wire, s)
         /\ \E m \in 0..LastPing : CountsTo(wire, s, m, failed[s]) /\ blind[s] <= Unseen(m)

LEMMA BlindTrackedStart == SensorInit => BlindTracked
  BY DEF SensorInit, BlindTracked

\* A ping goes on counting, and warns before the reading that a warning is due with.
LEMMA PingTracked ==
  ASSUME BridgeTypes, Ping, port = "open", NEW s \in Side, NEW f, Warned(f, wire, s),
         NEW m, CountsTo(wire, s, m, failed[s])
  PROVE  Warned(f, wire', s) /\ CountsTo(wire', s, m, failed'[s])
<1>1. PICK b \in Seq(Piece), cm \in [Side -> Distances] :
        /\ Reading(cm, failed') \in Lines /\ wire' = b \o Halves(Reading(cm, failed'))
        /\ b = (wire \o Notice("left")) \o Notice("right")
        /\ \A t \in Side : \A g : Believed(g, b, t, Len(b)) <=>
             IF Told(t) THEN t \in broken ELSE Believed(g, wire, t, Len(wire))
  BY PingBelieved
<1>2. "left" \in Side /\ "right" \in Side /\ wire \in Seq(Piece)
  BY DEF Side, BridgeTypes
<1>3. PICK a \in Seq(Piece) : a = wire \o Notice("left")
  BY <1>2, BelievedNotice
<1>4. Warned(f, a, s)
  BY <1>2, <1>3, WarnedNotice
<1>5. b = a \o Notice("right")
  BY <1>1, <1>3
<1>6. Warned(f, b, s)
  BY ONLY <1>2, <1>4, <1>5, a \in Seq(Piece), WarnedNotice
<1>7. failed[s] \in 0..LastPing
  BY DEF BridgeTypes, SensorTypeOK
<1>8. CountsTo(a, s, m, failed[s])
  BY <1>2, <1>3, <1>7, CountsNotice
<1>9. CountsTo(b, s, m, failed[s])
  BY <1>2, <1>7, <1>5, <1>8, CountsNotice
<1>10. PICK line \in Lines : line = Reading(cm, failed')
  BY <1>1
<1>11. line.kind = "reading" /\ line.dead[s] = Failed(s) /\ Failed(s) = failed'[s] /\ Failed(s) \in 0..LastPing
  BY <1>10, Pinged DEF Reading
<1>12. Failed(s) \in {FaultWarn, LastPing} => Told(s) /\ s \in broken
  <2>1. Failed(s) # 0 => s \in broken
    BY DEF Failed
  <2>2. FaultWarn # 0 /\ LastPing # 0
    BY SensorAssumption DEF LastPing
  <2> QED BY <2>1, <2>2, DueThen DEF Told
<1>13. Warned(f, wire', s)
  <2>1. line.dead[s] \in {FaultWarn, LastPing} => Believed(f, b, s, Len(b))
    BY <1>1, <1>11, <1>12
  <2> QED BY <1>1, <1>6, <1>10, <2>1, WarnedLine
<1>14. Failed(s) # 0 => Failed(s) = NextPing(failed[s])
  BY DEF Failed, NextPing
<1>15. Counted(failed[s], [line |-> line, newline |-> TRUE], Failed(s), s)
  BY <1>11, <1>14 DEF Counted
<1>16. CountsTo(b \o Halves(line), s, m, Failed(s))
  BY <1>9, <1>11, <1>15, CountsLine
<1> QED BY <1>1, <1>10, <1>11, <1>13, <1>16

\* Reading the first half: what passes for open space is what the board has counted.
LEMMA ReadTracked ==
  ASSUME BridgeTypes, Intact, Read, losses = 0, NEW s \in Side, Warned(faulty[s], wire, s),
         NEW m \in 0..LastPing, CountsTo(wire, s, m, failed[s]), blind[s] <= Unseen(m)
  PROVE  /\ Warned(faulty'[s], wire', s)
         /\ \E l \in 0..LastPing : CountsTo(wire', s, l, failed[s]) /\ blind'[s] <= Unseen(l)
<1>1. PICK half \in Piece, halves \in Seq(Piece) :
        /\ half = Head(wire) /\ half = wire[1] /\ halves = Append(pending, half)
        /\ Last(halves) = half /\ \A k \in 1..Len(wire') : wire'[k] = wire[k + 1]
        /\ wire' \in Seq(Piece) /\ Len(wire') = Len(wire) - 1
  BY ReadWire
<1>2. PICK n \in Nat : n = Len(wire') /\ Len(wire) = n + 1
  <2>1. Len(wire') \in Nat /\ Len(wire) \in Nat
    BY <1>1, LenProperties DEF BridgeTypes
  <2> QED BY <1>1, <2>1
<1>3. Warned(faulty'[s], wire', s)
  <2> SUFFICES ASSUME NEW k \in 1..n, wire'[k].newline, wire'[k].line.kind = "reading",
                      wire'[k].line.dead[s] \in {FaultWarn, LastPing}
               PROVE  Believed(faulty'[s], wire', s, k - 1)
    BY <1>2 DEF Warned
  <2>1. k + 1 \in 1..(n + 1) /\ (k + 1) - 1 = k /\ k - 1 \in 0..n /\ (k - 1) + 1 = k
    OBVIOUS
  <2>2. Believed(faulty[s], wire, s, k)
    BY <1>1, <1>2, <2>1 DEF Warned
  <2>3. Believed(faulty'[s], wire', s, k - 1) <=> Believed(faulty[s], wire, s, (k - 1) + 1)
    BY <1>2, <2>1, ReadBelieved
  <2> QED BY <2>1, <2>2, <2>3
<1>4. PICK c : /\ c \in [0..(n + 1) -> 0..LastPing] /\ c[0] = m /\ c[n + 1] = failed[s]
               /\ \A k \in 1..(n + 1) : Counted(c[k - 1], wire[k], c[k], s)
  BY <1>2 DEF Counts, CountsTo
<1>5. PICK d : d = [k \in 0..n |-> c[k + 1]]
  OBVIOUS
<1>6. d \in [0..n -> 0..LastPing] /\ \A k \in 0..n : d[k] = c[k + 1]
  BY <1>4, <1>5
<1>7. Counts(d, wire', s) /\ d[Len(wire')] = failed[s]
  <2>1. ASSUME NEW k \in 1..n PROVE Counted(d[k - 1], wire'[k], d[k], s)
    <3>1. k - 1 \in 0..n /\ (k - 1) + 1 = k /\ k \in 0..n /\ k + 1 \in 1..(n + 1) /\ (k + 1) - 1 = k
      OBVIOUS
    <3>2. d[k - 1] = c[k] /\ d[k] = c[k + 1] /\ wire'[k] = wire[k + 1]
      BY <1>1, <1>2, <1>6, <3>1
    <3> QED BY <1>4, <3>1, <3>2
  <2>2. n \in 0..n
    OBVIOUS
  <2> QED BY <1>2, <1>4, <1>6, <2>1, <2>2 DEF Counts
<1>8. blind'[s] <= Unseen(d[0])
  <2>1. m = c[0]
    BY <1>4
  <2>2. PICK l \in 0..LastPing : l = c[1] /\ l = d[0]
    BY <1>4, <1>6
  <2>3. Counted(m, half, l, s)
    <3>1. 1 \in 1..(n + 1) /\ 1 - 1 = 0
      OBVIOUS
    <3> QED BY <1>1, <1>4, <2>1, <2>2, <3>1
  <2>4. blind \in [Side -> Nat] /\ blind[s] \in Nat /\ blind[s] <= Unseen(m)
    BY <2>1 DEF BridgeTypes
  <2>5. Unseen(m) \in Nat /\ Unseen(l) \in Nat
    BY UnseenGrows
  <2>6. CASE ~half.newline
    <3>1. blind' = blind /\ l = m
      BY <1>1, <2>3, <2>6, ReadHandles DEF Counted
    <3> QED BY <2>2, <2>4, <3>1
  <2>7. CASE half.newline
    <3>1. PICK line \in ParsedAs(halves) :
            line \in Lines \cup {Comment} /\ Handle(line) /\ blind' = Blind(line)
      BY <1>1, <2>7, ReadHandles
    <3>2. line = half.line
      BY <1>1, <2>7, <3>1, IntactRead
    <3>3. CASE line.kind = "banner"
      <4>1. blind'[s] = 0
        BY <3>1, <3>3 DEF Blind
      <4> QED BY <2>2, <2>5, <4>1
    <3>4. CASE line.kind \notin {"banner", "reading"}
      <4>1. blind'[s] = blind[s] /\ l = m
        BY <2>3, <2>7, <3>1, <3>2, <3>4 DEF Blind, Counted
      <4> QED BY <2>2, <2>4, <4>1
    <3>5. CASE line.kind = "reading"
      <4>1. /\ l = line.dead[s] /\ (l # 0 => l = NextPing(m))
            /\ blind'[s] = IF line.dead[s] > 0 /\ ranges'[s] = Infinite THEN blind[s] + 1 ELSE 0
        BY <2>3, <2>7, <3>1, <3>2, <3>5 DEF Blind, Counted
      <4>2. CASE l = 0
        BY <2>2, <2>5, <4>1, <4>2
      <4>3. CASE l \in {FaultWarn, LastPing}
        <5>1. Believed(faulty[s], wire, s, 0)
          <6>1. 1 \in 1..(n + 1) /\ 1 - 1 = 0
            OBVIOUS
          <6> QED BY <1>1, <1>2, <2>7, <3>2, <3>5, <4>1, <4>3, <6>1 DEF Warned
        <5>2. faulty[s]
          BY <5>1 DEF Believed
        <5>3. ranges'[s] = NaN
          BY <3>1, <3>5, <5>2 DEF Handle, DistanceToRange
        <5>4. ranges'[s] # Infinite
          BY <5>3, SensorAssumption DEF NaN, Infinite
        <5> QED BY <2>2, <2>5, <4>1, <5>4
      <4>4. CASE l # 0 /\ l \notin {FaultWarn, LastPing}
        <5>1. Unseen(l) = Unseen(m) + 1
          BY <4>1, <4>4, UnseenGrows
        <5> QED BY <2>2, <2>4, <2>5, <4>1, <5>1
      <4> QED BY <4>2, <4>3, <4>4
    <3> QED BY <3>3, <3>4, <3>5
  <2> QED BY <2>6, <2>7
<1>9. d[0] \in 0..LastPing
  <2>1. 0 \in 0..n
    OBVIOUS
  <2> QED BY <1>6, <2>1
<1>10. CountsTo(wire', s, d[0], failed[s])
  BY <1>7 DEF CountsTo
<1> QED BY <1>3, <1>8, <1>9, <1>10

LEMMA BlindTrackedKept ==
  ASSUME BridgeTypes, Intact, BlindTracked, [SensorNext]_sensorVars PROVE BlindTracked'
<1>1. /\ losses \in Nat /\ wire \in Seq(Piece) /\ (port = "open" => plugged)
      /\ blind \in [Side -> Nat] /\ failed \in [Side -> 0..LastPing]
  BY DEF BridgeTypes, SensorTypeOK
<1>2. CASE Ping
  <2>1. UNCHANGED <<reader, port, faulty, losses, blind>>
    BY <1>2 DEF Ping, node, ghost
  <2> SUFFICES ASSUME reader = "read", losses = 0, NEW s \in Side, port = "open"
               PROVE  /\ Warned(faulty[s], wire', s)
                      /\ \E m \in 0..LastPing : CountsTo(wire', s, m, failed'[s]) /\ blind[s] <= Unseen(m)
    BY <2>1 DEF BlindTracked
  <2>2. Warned(faulty[s], wire, s)
    BY DEF BlindTracked
  <2>3. PICK m \in 0..LastPing : CountsTo(wire, s, m, failed[s]) /\ blind[s] <= Unseen(m)
    BY DEF BlindTracked
  <2> QED BY <1>2, <2>2, <2>3, PingTracked
<1>3. ASSUME NEW cuts \in BOOLEAN, Reset(cuts) PROVE BlindTracked'
  <2>1. CASE cuts
    BY <1>1, <1>3, <2>1 DEF Reset, BlindTracked
  <2>2. CASE ~cuts
    <3>1. /\ UNCHANGED <<reader, port, faulty, losses, blind>> /\ failed' = [s \in Side |-> 0]
          /\ port = "open" => wire' = wire \o Halves(Banner)
      BY <1>1, <1>3, <2>2 DEF Reset, node
    <3> SUFFICES ASSUME reader = "read", losses = 0, NEW s \in Side, port = "open"
                 PROVE  /\ Warned(faulty[s], wire', s)
                        /\ \E m \in 0..LastPing : CountsTo(wire', s, m, 0) /\ blind[s] <= Unseen(m)
      BY <3>1 DEF BlindTracked
    <3>2. Banner \in Lines /\ Banner.kind = "banner"
      BY LinesAreLines DEF Banner
    <3>3. Warned(faulty[s], wire, s)
      BY DEF BlindTracked
    <3>4. Warned(faulty[s], wire', s)
      BY <1>1, <3>1, <3>2, <3>3, WarnedLine
    <3>5. PICK m \in 0..LastPing : CountsTo(wire, s, m, failed[s]) /\ blind[s] <= Unseen(m)
      BY DEF BlindTracked
    <3>6. 0 \in 0..LastPing
      BY SensorAssumption DEF LastPing
    <3>7. Counted(failed[s], [line |-> Banner, newline |-> TRUE], 0, s)
      BY <3>2 DEF Counted
    <3>8. CountsTo(wire \o Halves(Banner), s, m, 0)
      BY <1>1, <3>2, <3>5, <3>6, <3>7, CountsLine
    <3> QED BY <3>1, <3>4, <3>5, <3>8
  <2> QED BY <2>1, <2>2
<1>4. ASSUME NEW i, NEW j, Lose(i, j) PROVE BlindTracked'
  BY <1>1, <1>4 DEF Lose, BlindTracked
<1>5. CASE Unplug
  BY <1>5 DEF Unplug, ghost, BlindTracked
<1>6. ASSUME NEW cut \in BOOLEAN, Connect(cut) PROVE BlindTracked'
  <2> SUFFICES ASSUME NEW s \in Side
               PROVE  /\ blind'[s] < MaxBlind /\ Warned(faulty'[s], wire', s)
                      /\ \E m \in 0..LastPing : CountsTo(wire', s, m, failed'[s]) /\ blind'[s] <= Unseen(m)
    BY DEF BlindTracked
  <2>1. blind'[s] = 0 /\ failed'[s] = failed[s]
    BY <1>6 DEF Connect, board
  <2>2. PICK n \in 0..1 : n = Len(wire')
    BY <1>6, ConnectWire
  <2>3. \A k \in 1..n : wire'[k] = Rest
    <3>1. (wire' # <<>> => wire'[1] = Rest) /\ wire' \in Seq(Piece)
      BY <1>6, ConnectWire
    <3>2. wire' = <<>> => n = 0
      BY <2>2, <3>1, EmptySeq
    <3> QED BY <3>1, <3>2
  <2>4. Rest.line.kind = "malformed"
    BY DEF Rest, Malformed
  <2>5. Warned(faulty'[s], wire', s)
    BY <2>2, <2>3, <2>4 DEF Warned
  <2>6. PICK m \in 0..LastPing : m = failed[s]
    BY <1>1
  <2>7. PICK c : c = [k \in 0..n |-> m]
    OBVIOUS
  <2>8. Counts(c, wire', s)
    <3>1. c \in [0..n -> 0..LastPing] /\ \A k \in 1..n : c[k - 1] = m /\ c[k] = m
      BY <2>7
    <3>2. \A k \in 1..n : Counted(m, wire'[k], m, s)
      BY <2>3, <2>4 DEF Counted
    <3> QED BY <2>2, <3>1, <3>2 DEF Counts
  <2>9. CountsTo(wire', s, m, m)
    <3>1. c[0] = m /\ c[n] = m
      BY <2>7
    <3> QED BY <2>2, <2>8, <3>1 DEF CountsTo
  <2>10. 0 <= Unseen(m) /\ 0 < MaxBlind
    BY UnseenGrows, SensorAssumption DEF MaxBlind
  <2> QED BY <2>1, <2>5, <2>6, <2>9, <2>10
<1>7. CASE Read
  <2>1. reader = "read" /\ port = "open" /\ UNCHANGED <<reader, port, losses, failed>>
    BY <1>7 DEF Read, node, board
  <2> SUFFICES ASSUME losses = 0, NEW s \in Side
               PROVE  /\ blind'[s] < MaxBlind /\ Warned(faulty'[s], wire', s)
                      /\ \E m \in 0..LastPing : CountsTo(wire', s, m, failed[s]) /\ blind'[s] <= Unseen(m)
    BY <2>1 DEF BlindTracked
  <2>2. Warned(faulty[s], wire, s)
    BY <2>1 DEF BlindTracked
  <2>3. PICK m \in 0..LastPing : CountsTo(wire, s, m, failed[s]) /\ blind[s] <= Unseen(m)
    BY <2>1 DEF BlindTracked
  <2>4. /\ Warned(faulty'[s], wire', s)
        /\ \E l \in 0..LastPing : CountsTo(wire', s, l, failed[s]) /\ blind'[s] <= Unseen(l)
    BY <1>7, <2>2, <2>3, ReadTracked
  <2>5. blind'[s] < MaxBlind
    <3>1. PICK l \in 0..LastPing : blind'[s] <= Unseen(l)
      BY <2>4
    <3>2. BeliefTypes'
      BY <1>7, BeliefTypesKept DEF SensorNext
    <3>3. blind'[s] \in Nat
      BY <3>2 DEF BeliefTypes
    <3>4. Unseen(l) \in Nat /\ Unseen(l) < MaxBlind /\ MaxBlind \in Nat
      BY UnseenGrows, SensorAssumption DEF MaxBlind
    <3> QED BY <3>1, <3>3, <3>4
  <2> QED BY <2>4, <2>5
<1>8. CASE OpenPort \/ Wait \/ FlushFails \/ Leave \/ Close
  BY <1>8 DEF OpenPort, Wait, Loop, FlushFails, Leave, Close, BlindTracked
<1>9. ASSUME NEW b \in BOOLEAN, Plug(b) PROVE BlindTracked'
  BY <1>1, <1>9 DEF Plug, node, ghost, BlindTracked
<1>10. CASE (\E s \in CanBreak : BreakOrMend(s)) \/ Sigint \/ Destroy \/ Destroyed \/ UNCHANGED sensorVars
  <2>1. UNCHANGED <<wire, reader, faulty, failed, losses, blind>> /\ (port' = "open" => port = "open")
    BY <1>10 DEF BreakOrMend, Sigint, Destroy, Destroyed, Main, sensorVars, node, ghost, board
  <2> QED BY <2>1 DEF BlindTracked
<1> QED BY ONLY <1>2, <1>3, <1>4, <1>5, <1>6, <1>7, <1>8, <1>9, <1>10, [SensorNext]_sensorVars
        DEF SensorNext, Environment, Reader

\* What is published is no more wrong than the losses on the wire and the board's own delays
\* explain: one line for each loss, no side NaN that the board does not report, and no more
\* failed pings for open space than the board lets pass before its warning.
THEOREM BridgeIsSafe == SensorSpec => []BridgeSafety
<1>1. BridgeTypes => SensorTypeOK
  BY DEF BridgeTypes
<1>2. BlindTracked => BlindAtMost
  BY DEF BlindTracked, BlindAtMost, MaxBlind
<1>3. SensorSpec => []BlindTracked
  BY BlindTrackedStart, BlindTrackedKept, IntactStart, IntactKept, BridgeTypesHold, PTL DEF SensorSpec
<1>4. SensorTypeOK /\ OneLinePerLoss /\ NoGhostFault /\ BlindAtMost => BridgeSafety
  BY DEF BridgeSafety
<1> QED BY <1>1, <1>2, <1>3, <1>4, BridgeTypesHold, BackInStep, GhostsAreLaid, PTL
=============================================================================
