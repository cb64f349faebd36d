------------------------------ MODULE SensorBridge ------------------------------
(***************************************************************************)
(* stm32_bridge: the thread that reads the sensor board's serial port, and *)
(* the shutdown of the node; with the board as fake_stm32 and the protocol *)
(* describe it.  A line travels in two halves, the second one with the     *)
(* newline, because readline returns what it has when its timeout expires. *)
(* The board may be unplugged or reset, halves of lines may get lost, and  *)
(* a sensor may fail and be mended.                                        *)
(***************************************************************************)
EXTENDS Integers, Sequences, SequencesExt

CONSTANTS
  FaultWarn, FaultRepeat,  \* FAULT_WARN_PINGS, FAULT_REPEAT_PINGS
  MinRange, MaxRange,      \* in the unit of the distances
  Distances,               \* that a line may contain
  Sees,                    \* what each working sensor measures
  CanBreak,                \* the sensors that may fail
  MaxLine,                 \* MAX_LINE_BYTES, in halves
  Wire,                    \* bound on the halves between the board and the bridge
  Mishaps                  \* bound on resets, losses and unpluggings

Side == {"left", "right"}

ASSUME SensorAssumption ==
  /\ FaultWarn \in Nat \ {0} /\ FaultRepeat \in Nat \ {0} /\ MaxLine \in Nat \ {0}
  /\ MinRange \in Nat \ {0} /\ MaxRange \in Nat /\ MinRange < MaxRange
  /\ CanBreak \subseteq Side
  /\ Distances \subseteq Int /\ -1 \in Distances  \* of a failed ping
  /\ Sees \in [Side -> SUBSET Distances]
  /\ Wire \in Nat \ {0} /\ Mishaps \in Nat

VARIABLES
  plugged,  \* the board is there
  broken,   \* the sensors that fail
  failed,   \* failed pings in a row, by sensor
  reported, \* the sensors whose fault the board has reported
  wire,     \* halves of lines on their way
  reader,   \* where the reader thread is
  main,     \* the main thread: "spin", "down" (no context), "joining", "gone"
  port,     \* the port: "closed", "open", or "hung" since the board was unplugged
  serial,   \* self.serial is not None
  pending,  \* halves without a newline yet
  faulty,   \* Stm32Bridge.faulty
  ranges,   \* the last Range of each side
  mishaps,  \* so far
  losses, bad, \* on this connection: losses on the wire, lines not handled as sent
  blind     \* readings in a row in which a failed ping passed for open space

board == <<plugged, broken, failed, reported>>
node == <<reader, main, port, serial>>
ghost == <<losses, bad, blind>>
sensorVars == <<board, wire, node, pending, faulty, ranges, mishaps, ghost>>

-----------------------------------------------------------------------------
(* The lines *)

\* To bound the count of failed pings, it goes back by a repetition after the first one.
LastPing == FaultWarn + FaultRepeat

\* dead: the failed pings in a row behind each distance, which are not on the wire.
Reading(cm, dead) == [kind |-> "reading", cm |-> cm, dead |-> dead]
Status(kind, side) == [kind |-> kind, side |-> side]
Banner == [kind |-> "banner"]
Comment == [kind |-> "comment"]
Malformed == [kind |-> "malformed"]
Lines ==
  [kind : {"banner", "malformed"}] \cup [kind : {"warning", "recovered"}, side : Side]
  \cup [kind : {"reading"}, cm : [Side -> Distances], dead : [Side -> 0..LastPing]]

Halves(line) == <<[line |-> line, newline |-> FALSE], [line |-> line, newline |-> TRUE]>>
Rest == [line |-> Malformed, newline |-> TRUE]  \* of a line whose start nobody saw

\* What the bytes up to a newline may be read as: the line itself, or, when halves are
\* missing, what the rest of it amounts to wherever it was cut.  A comment keeps its prefix;
\* two readings can make a third; a reading with another's fields is refused.
ParsedAs(halves) ==
  LET line == halves[1].line IN
  IF halves = Halves(line) THEN {line}
  ELSE IF halves[1].newline THEN {Malformed}
  ELSE IF line.kind = "reading"
       THEN {Malformed} \cup {Reading(cm, [s \in Side |-> 0]) : cm \in
              IF Len(halves) = 2 /\ halves[2].line.kind = "reading" THEN [Side -> Distances] ELSE {}}
  ELSE {Comment} \cup ({line} \ {l \in {line} : l.kind = "recovered"})

Echo(cm) == cm > 0

NoRange == -2          \* nothing published yet
NaN == -1
Infinite == MaxRange + 1

DistanceToRange(cm, isFaulty) ==
  IF isFaulty THEN NaN
  ELSE IF ~Echo(cm) \/ cm > MaxRange THEN Infinite
  ELSE IF cm < MinRange THEN MinRange ELSE cm

-----------------------------------------------------------------------------
(* The board *)

FaultWarningDue(pings) == pings >= FaultWarn /\ (pings - FaultWarn) % FaultRepeat = 0

Failed(s) == IF s \notin broken THEN 0
             ELSE IF failed[s] = LastPing THEN FaultWarn + 1 ELSE failed[s] + 1

\* A warning or a recovery that falls due with the next ping of sensor s.
Notice(s) ==
  IF s \in broken THEN IF FaultWarningDue(Failed(s)) THEN Halves(Status("warning", s)) ELSE <<>>
  ELSE IF s \in reported THEN Halves(Status("recovered", s)) ELSE <<>>

\* Bytes for a port that nobody has open are lost.  A ping writes up to six halves.
Written(halves) ==
  /\ Len(wire) + 6 <= Wire
  /\ wire' = IF port = "open" THEN wire \o halves ELSE wire

Ping ==
  /\ failed' = [s \in Side |-> Failed(s)]
  /\ reported' = {s \in Side : IF s \in broken THEN s \in reported \/ FaultWarningDue(Failed(s)) ELSE FALSE}
  /\ \E seen \in {f \in [Side -> Distances] : \A s \in Side : f[s] \in Sees[s]} :
       LET cm == [s \in Side |-> IF s \in broken THEN -1 ELSE seen[s]]
       IN  Written(Notice("left") \o Notice("right") \o Halves(Reading(cm, failed')))
  /\ UNCHANGED <<plugged, broken, node, pending, faulty, ranges, mishaps, ghost>>

BreakOrMend(s) ==
  /\ broken' = IF s \in broken THEN broken \ {s} ELSE broken \cup {s}
  /\ UNCHANGED <<plugged, failed, reported, wire, node, pending, faulty, ranges, mishaps, ghost>>

Mishap == mishaps < Mishaps /\ mishaps' = mishaps + 1

\* The banner follows what was left of the line that the reset cut.
Reset(cuts) ==
  /\ Mishap /\ plugged /\ Len(wire) + 2 <= Wire
  /\ cuts => wire # <<>> /\ Last(wire).newline
  /\ failed' = [s \in Side |-> 0] /\ reported' = {}
  /\ wire' = IF port = "open" THEN (IF cuts THEN Front(wire) ELSE wire) \o Halves(Banner) ELSE wire
  /\ losses' = losses + (IF cuts THEN 1 ELSE 0)
  /\ UNCHANGED <<plugged, broken, node, pending, faulty, ranges, bad, blind>>

\* The halves i to j are lost.
Lose(i, j) ==
  /\ Mishap /\ i <= j
  /\ wire' = SubSeq(wire, 1, i - 1) \o SubSeq(wire, j + 1, Len(wire))
  /\ losses' = losses + 1
  /\ UNCHANGED <<board, node, pending, faulty, ranges, bad, blind>>

Unplug ==
  /\ plugged /\ Mishap
  /\ plugged' = FALSE /\ wire' = <<>>
  /\ port' = IF port = "open" THEN "hung" ELSE port
  /\ UNCHANGED <<broken, failed, reported, reader, main, serial, pending, faulty, ranges, ghost>>

\* The board may have kept its power from elsewhere.
Plug(restarts) ==
  /\ ~plugged /\ plugged' = TRUE
  /\ failed' = IF restarts THEN [s \in Side |-> 0] ELSE failed
  /\ reported' = IF restarts THEN {} ELSE reported
  /\ UNCHANGED <<broken, wire, node, pending, faulty, ranges, mishaps, ghost>>

-----------------------------------------------------------------------------
(* The reader thread *)

Running == main = "spin"    \* stopping is not set and the context is ok

\* run's loop: connect again, or end.
Loop == reader' = IF Running THEN "open" ELSE "done"

OpenPort ==
  /\ reader = "open"
  /\ IF plugged THEN reader' = "flush" /\ port' = "open" ELSE reader' = "wait" /\ UNCHANGED port
  /\ UNCHANGED <<board, wire, main, serial, pending, faulty, ranges, mishaps, ghost>>

\* stopping.wait(reconnect_period)
Wait ==
  /\ reader = "wait" /\ Loop
  /\ UNCHANGED <<board, wire, main, port, serial, pending, faulty, ranges, mishaps, ghost>>

\* Keeps the faults of before the outage.
Connect_Remembers(cut) ==
  /\ reader = "flush" /\ port = "open"
  /\ reader' = "read" /\ serial' = TRUE
  /\ wire' = IF cut THEN <<Rest>> ELSE <<>>
  /\ pending' = <<>>
  /\ losses' = 0 /\ bad' = 0 /\ blind' = [s \in Side |-> 0]
  /\ UNCHANGED <<board, main, port, faulty, ranges, mishaps>>

\* reset_input_buffer, which may leave the rest of a line, then the rest of connect.
Connect(cut) ==
  /\ reader = "flush" /\ port = "open"
  /\ reader' = "read" /\ serial' = TRUE
  /\ wire' = IF cut THEN <<Rest>> ELSE <<>>
  /\ pending' = <<>>
  /\ faulty' = [s \in Side |-> FALSE]
  /\ losses' = 0 /\ bad' = 0 /\ blind' = [s \in Side |-> 0]
  /\ UNCHANGED <<board, main, port, ranges, mishaps>>

\* reset_input_buffer is outside the try: the thread ends with its error.
FlushFails ==
  /\ reader = "flush" /\ port = "hung"
  /\ reader' = "dead" /\ port' = "closed"
  /\ UNCHANGED <<board, wire, main, serial, pending, faulty, ranges, mishaps, ghost>>

Handle(line) ==
  /\ ranges' = IF line.kind = "reading"
               THEN [s \in Side |-> DistanceToRange(line.cm[s], faulty[s])] ELSE ranges
  /\ faulty' = CASE line.kind = "warning"   -> [faulty EXCEPT ![line.side] = TRUE]
                 [] line.kind = "recovered" -> [faulty EXCEPT ![line.side] = FALSE]
                 [] line.kind = "banner"    -> [s \in Side |-> FALSE]
                 [] OTHER                   -> faulty

Blind(line) ==
  [s \in Side |-> CASE line.kind = "reading" -> IF line.dead[s] > 0 /\ ranges'[s] = Infinite THEN blind[s] + 1 ELSE 0
                    [] line.kind = "banner"  -> 0
                    [] OTHER                 -> blind[s]]

\* What stays in pending: without a newline all of it, up to MAX_LINE_BYTES.
Kept(halves) == IF Last(halves).newline \/ Len(halves) > MaxLine THEN <<>> ELSE halves

Read ==
  /\ reader = "read" /\ Running /\ port = "open" /\ wire # <<>>
  /\ wire' = Tail(wire)
  /\ LET halves == Append(pending, Head(wire)) IN
     /\ pending' = Kept(halves)
     /\ IF ~Last(halves).newline THEN UNCHANGED <<faulty, ranges, bad, blind>>
        ELSE \E line \in ParsedAs(halves) :
               /\ Handle(line)
               /\ blind' = Blind(line)
               /\ bad' = bad + (IF halves = Halves(line) THEN 0 ELSE 1)
  /\ UNCHANGED <<board, node, mishaps, losses>>

\* read_lines returns: the node stops, or readline fails.
Leave ==
  /\ reader = "read" /\ (~Running \/ port # "open")
  /\ reader' = "close"
  /\ UNCHANGED <<board, wire, main, port, serial, pending, faulty, ranges, mishaps, ghost>>

\* connection.close() left out.
Close_Leaks ==
  /\ reader = "close" /\ Loop
  /\ serial' = FALSE /\ wire' = <<>>
  /\ UNCHANGED <<board, main, port, pending, faulty, ranges, mishaps, ghost>>

Close ==
  /\ reader = "close" /\ Loop
  /\ serial' = FALSE /\ port' = "closed" /\ wire' = <<>>
  /\ UNCHANGED <<board, main, pending, faulty, ranges, mishaps, ghost>>

Reader == OpenPort \/ Wait \/ (\E cut \in BOOLEAN : Connect(cut)) \/ FlushFails \/ Leave \/ Close

-----------------------------------------------------------------------------
(* The main thread *)

Main(from, to) ==
  /\ main = from /\ main' = to
  /\ UNCHANGED <<board, wire, reader, pending, faulty, ranges, mishaps, ghost>>

Sigint == Main("spin", "down") /\ UNCHANGED <<port, serial>>
Destroy == Main("down", "joining") /\ UNCHANGED <<port, serial>>    \* stopping.set()

\* The join ends with the thread or after its timeout.
Destroyed ==
  /\ Main("joining", "gone")
  /\ IF serial THEN port' = "closed" /\ serial' = FALSE ELSE UNCHANGED <<port, serial>>

SensorInit ==
  /\ plugged \in BOOLEAN /\ broken = {} /\ failed = [s \in Side |-> 0] /\ reported = {}
  /\ wire = <<>> /\ pending = <<>> /\ reader = "open" /\ main = "spin" /\ port = "closed" /\ serial = FALSE
  /\ faulty = [s \in Side |-> FALSE] /\ ranges = [s \in Side |-> NoRange]
  /\ mishaps = 0 /\ losses = 0 /\ bad = 0 /\ blind = [s \in Side |-> 0]

\* What happens to the board matters as long as the thread may read.
Environment ==
  /\ reader \notin {"done", "dead"} /\ main # "gone"
  /\ \/ Ping \/ Unplug
     \/ \E s \in CanBreak : BreakOrMend(s)
     \/ \E b \in BOOLEAN : Reset(b) \/ Plug(b)
     \/ \E i \in DOMAIN wire, j \in DOMAIN wire : Lose(i, j)

SensorNext == Reader \/ Read \/ Sigint \/ Destroy \/ Destroyed \/ Environment

SensorSpec == SensorInit /\ [][SensorNext]_sensorVars

\* The thread runs; so does the node's destruction once it has begun.
SensorFairness == WF_sensorVars(Reader) /\ WF_sensorVars(Destroy \/ Destroyed)

-----------------------------------------------------------------------------
(* Properties *)

\* The state is well formed: in particular no more than MaxLine halves are kept while no
\* newline comes.
SensorTypeOK ==
  /\ plugged \in BOOLEAN /\ broken \subseteq CanBreak /\ reported \subseteq Side
  /\ failed \in [Side -> 0..LastPing]
  /\ reader \in {"open", "flush", "read", "close", "wait", "done", "dead"}
  /\ main \in {"spin", "down", "joining", "gone"}
  /\ port \in {"closed", "open", "hung"} /\ serial \in BOOLEAN /\ faulty \in [Side -> BOOLEAN]
  /\ ranges \in [Side -> {NoRange, NaN, Infinite} \cup (MinRange..MaxRange)]
  /\ Len(pending) <= MaxLine /\ Len(wire) <= Wire
  /\ \A h \in ToSet(pending) : h.line \in Lines /\ ~h.newline
  /\ mishaps \in 0..Mishaps

\* Whatever is lost on the wire, the bridge is back in step at the next newline: each loss
\* spoils at most one line that is handled, and so does the flush at the start.
OneLinePerLoss == reader = "read" => bad <= losses + 1

\* The lines that decide what the bridge believes of a side, and the one that damns it.
About(half, s) ==
  /\ half.newline
  /\ half.line.kind = "banner" \/ (half.line.kind \in {"warning", "recovered"} /\ half.line.side = s)
Warns(half, s) == About(half, s) /\ half.line.kind = "warning"

\* What the bridge will believe of side s once it has read the first k halves on the wire.
Believes(s, k) ==
  \/ faulty[s] /\ \A i \in 1..k : ~About(wire[i], s)
  \/ \E i \in 1..k : Warns(wire[i], s) /\ \A j \in (i + 1)..k : ~About(wire[j], s)
Eventually(s) == Believes(s, Len(wire))

\* A side is not published as NaN for longer than the board reports its fault, through
\* recoveries, resets and reconnections, unless part of a line was lost.
NoGhostFault ==
  reader = "read" /\ port = "open" /\ losses = 0 => \A s \in Side : Eventually(s) => s \in reported

\* A failed ping passes for open space only until the board warns, which after a
\* reconnection takes a whole repetition of its warning.
BlindAtMost ==
  reader = "read" /\ losses = 0 =>
    \A s \in Side : blind[s] < (IF FaultWarn > FaultRepeat THEN FaultWarn ELSE FaultRepeat)

\* A node that is shut down lets go of the port, also when the join timed out while the
\* thread was opening it.
EndsClosed == main # "spin" ~> main = "gone" /\ port = "closed" /\ ~serial

\* A board that stays plugged in is read, unless a flush ended the thread.
Reconnects == <>[](plugged /\ main = "spin") => <>[](reader \in {"read", "dead"})

\* What is published is no more wrong than the losses on the wire and the board's own delays explain.
BridgeSafety == SensorTypeOK /\ OneLinePerLoss /\ NoGhostFault /\ BlindAtMost

\* The reader gets hold of the port again, and lets go of it at the end.
PortServed == EndsClosed /\ Reconnects
=============================================================================
