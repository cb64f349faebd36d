------------------------------ MODULE EstopMirror ------------------------------
(***************************************************************************)
(* The shared /e_stop topic: web nodes that engage, release, repeat and    *)
(* mirror the E-stop, other publishers (a button, a terminal), and         *)
(* twist_mux, which obeys the latest message it got from anyone.           *)
(*                                                                         *)
(* A web node hears its own messages too and tells them apart with         *)
(* EchoFilter.  Messages from one publisher reach one subscriber in order; *)
(* nothing orders those of two publishers, or the same message at two      *)
(* subscribers.                                                            *)
(***************************************************************************)
EXTENDS Naturals, Sequences

CONSTANTS
  Web,            \* the web nodes
  Other,          \* the publishers that only publish
  Mux,            \* twist_mux
  Setup           \* the robots to look at: records of
                  \*   here:     the web nodes and publishers there are
                  \*   estopped: start_estopped
                  \*   slow:     an echo may take longer than EchoFilter's timeout
                  \*   restarts: twist_mux and the web nodes may restart
                  \*   inFlight: bound on the messages from one node to another

ASSUME ConstantsAssumption ==
  /\ Web \cap Other = {} /\ Mux \notin Web
  /\ Setup \subseteq [here : SUBSET (Web \cup Other), estopped : BOOLEAN, slow : BOOLEAN,
                     restarts : BOOLEAN, inFlight : 1..4]

VARIABLES
  setup,        \* the robot at hand; it never changes
  estop,        \* self.estop of each web node
  known,        \* self.estop_known
  startup,      \* the estop_startup timer has yet to fire
  outstanding,  \* EchoFilter.outstanding, without the times
  channel,      \* what is on its way from each publisher to each subscriber
  locked        \* twist_mux blocks every velocity input

vars == <<setup, estop, known, startup, outstanding, channel, locked>>

Publisher == Web \cup Other
Subscriber == Web \cup {Mux}
Page == Web \cap setup.here
InFlight == setup.inFlight

Room(p) == \A s \in Page \cup {Mux} : Len(channel[p][s]) < InFlight
Sent(p, engaged) ==
  [channel EXCEPT ![p] = [s \in Subscriber |-> IF s \in Page \cup {Mux}
                                              THEN Append(channel[p][s], engaged)
                                              ELSE <<>>]]
Received(p, s) == [channel EXCEPT ![p][s] = Tail(@)]

\* Mutant: the node does not remember what it sent.
Remember_Nothing(w, engaged) == outstanding
\* EchoFilter.sent
Remember(w, engaged) == [outstanding EXCEPT ![w] = Append(@, engaged)]

\* publish_estop, with the state the node has just taken.
PublishEstop(w, engaged) ==
  /\ Room(w)
  /\ Len(outstanding[w]) < InFlight
  /\ known' = [known EXCEPT ![w] = TRUE]
  /\ outstanding' = Remember(w, engaged)
  /\ channel' = Sent(w, engaged)

\* set_estop: the page engages or releases, whatever the state was.
SetEstop(w, engaged) ==
  /\ estop' = [estop EXCEPT ![w] = engaged]
  /\ PublishEstop(w, engaged)
  /\ UNCHANGED <<setup, startup, locked>>

\* Mutant: the node never repeats itself.
Repeats_Never(w) == FALSE
\* Only an engaged E-stop is repeated.
Repeats(w) == estop[w]

\* on_estop_timer
Heartbeat(w) ==
  /\ Repeats(w)
  /\ PublishEstop(w, estop[w])
  /\ UNCHANGED <<setup, estop, startup, locked>>

Unheard(w) == ~known[w]

\* on_estop_startup: publishes "released" unless something was heard or published.
Startup(w) ==
  /\ startup[w]
  /\ startup' = [startup EXCEPT ![w] = FALSE]
  /\ IF Unheard(w)
     THEN PublishEstop(w, estop[w])
     ELSE UNCHANGED <<known, outstanding, channel>>
  /\ UNCHANGED <<setup, estop, locked>>

\* EchoFilter.is_echo: what it remembers when it looks, and whether it then matches.
Remembered(w) ==
  {SubSeq(outstanding[w], n + 1, Len(outstanding[w])) :
     n \in IF setup.slow THEN 0..Len(outstanding[w]) ELSE {0}}
\* Mutant: the newest message is the one looked for.
IsEcho_Newest(memory, engaged) == memory # <<>> /\ memory[Len(memory)] = engaged
IsEcho(memory, engaged) == memory # <<>> /\ Head(memory) = engaged

\* on_estop: an echo is dropped; anyone else's message becomes the state.
Hear(p, w) ==
  /\ channel[p][w] # <<>>
  /\ channel' = Received(p, w)
  /\ \E memory \in Remembered(w) :
       LET engaged == Head(channel[p][w])
       IN  IF IsEcho(memory, engaged)
           THEN /\ outstanding' = [outstanding EXCEPT ![w] = Tail(memory)]
                /\ UNCHANGED <<setup, estop, known>>
           ELSE /\ outstanding' = [outstanding EXCEPT ![w] = memory]
                /\ known' = [known EXCEPT ![w] = TRUE]
                /\ estop' = [estop EXCEPT ![w] = engaged]
  /\ UNCHANGED <<setup, startup, locked>>

\* twist_mux's lock follows the topic.
Lock(p) ==
  /\ channel[p][Mux] # <<>>
  /\ channel' = Received(p, Mux)
  /\ locked' = Head(channel[p][Mux])
  /\ UNCHANGED <<setup, estop, known, startup, outstanding>>

\* A button is pressed, a terminal publishes.
OtherPublishes(p, engaged) ==
  /\ Room(p)
  /\ channel' = Sent(p, engaged)
  /\ UNCHANGED <<setup, estop, known, startup, outstanding, locked>>

\* A restarted twist_mux assumes "released" and has missed what was on its way.
MuxRestarts ==
  /\ setup.restarts
  /\ locked' = FALSE
  /\ channel' = [p \in Publisher |-> [channel[p] EXCEPT ![Mux] = <<>>]]
  /\ UNCHANGED <<setup, estop, known, startup, outstanding>>

\* What a web node publishes as it starts.
FirstWords == IF setup.estopped THEN <<TRUE>> ELSE <<>>

\* A restarted web node: what it sent may still arrive elsewhere; with start_estopped
\* it publishes at once.
WebRestarts(w) ==
  /\ setup.restarts /\ Room(w)
  /\ estop' = [estop EXCEPT ![w] = setup.estopped]
  /\ known' = [known EXCEPT ![w] = setup.estopped]
  /\ startup' = [startup EXCEPT ![w] = ~setup.estopped]
  /\ outstanding' = [outstanding EXCEPT ![w] = FirstWords]
  /\ channel' =
       [p \in Publisher |-> [s \in Subscriber |->
          LET rest == IF s = w THEN <<>> ELSE channel[p][s]
          IN  IF p = w /\ s \in Page \cup {Mux} THEN rest \o FirstWords ELSE rest]]
  /\ UNCHANGED <<setup, locked>>

-----------------------------------------------------------------------------
Init ==
  /\ setup \in Setup
  /\ estop = [w \in Web |-> setup.estopped]
  /\ known = [w \in Web |-> setup.estopped]
  /\ startup = [w \in Web |-> ~setup.estopped]
  /\ outstanding = [w \in Web |-> IF w \in Page THEN FirstWords ELSE <<>>]
  /\ channel = [p \in Publisher |-> [s \in Subscriber |->
                  IF p \in Page /\ s \in Page \cup {Mux} THEN FirstWords ELSE <<>>]]
  /\ locked \in BOOLEAN  \* a lock may be left behind by a previous run

Deliver == \E p \in Publisher : Lock(p) \/ \E w \in Web : Hear(p, w)
Pages == \E w \in Page, engaged \in BOOLEAN : SetEstop(w, engaged)
Timers == \E w \in Page : Heartbeat(w) \/ Startup(w)
World ==
  \/ \E p \in Other \cap setup.here, engaged \in BOOLEAN : OtherPublishes(p, engaged)
  \/ MuxRestarts
  \/ \E w \in Page : WebRestarts(w)

Next == Deliver \/ Pages \/ Timers \/ World

Spec == Init /\ [][Next]_vars

\* Messages arrive and timers fire.
Fairness ==
  /\ \A p \in Publisher : WF_vars(Lock(p))
  /\ \A p \in Publisher, w \in Web : WF_vars(Hear(p, w))
  /\ \A w \in Web : WF_vars(w \in Page /\ Startup(w)) /\ SF_vars(w \in Page /\ Heartbeat(w))
FairSpec == Spec /\ Fairness

-----------------------------------------------------------------------------
\* Types, and how many messages can be on their way or remembered.
TypeOK ==
  /\ setup \in Setup
  /\ estop \in [Web -> BOOLEAN] /\ known \in [Web -> BOOLEAN]
  /\ startup \in [Web -> BOOLEAN]
  /\ outstanding \in [Web -> Seq(BOOLEAN)]
  /\ channel \in [Publisher -> [Subscriber -> Seq(BOOLEAN)]]
  /\ \A w \in Web : Len(outstanding[w]) <= InFlight
  /\ locked \in BOOLEAN

Settled ==
  /\ \A w \in Page : known[w]
  /\ \A p \in Publisher, s \in Subscriber : channel[p][s] = <<>>

\* One web node, nobody else, and nothing restarts or stalls.
Alone == \E w \in Web : setup.here = {w} /\ ~setup.slow /\ ~setup.restarts

\* A lone node mirrors the state of twist_mux: once every message has arrived and the node
\* has heard or said something, the page and twist_mux agree (web_controller.py:160-161,
\* 219-220).
Mirrors == Alone /\ Settled => \A w \in Page : estop[w] = locked

\* The half of Mirrors that nothing repairs later: no page shows the E-stop released while
\* twist_mux is locked by a message nobody repeats (web_controller.py:160-161).
NeverContradicts == Settled /\ locked => \A w \in Page : estop[w]

\* No echo is taken for someone else, or left behind to hide someone else's message: what
\* a lone node remembers is exactly what is still on its way to it (logic.py:166-170).
EchoesAccounted == Alone => \A w \in Page : outstanding[w] = channel[w][w]

\* A lone page is released by a release it publishes, never by a message of its own that it
\* hears late (web_controller.py:252).
OnlyReleasedByPage ==
  [][\A w \in Page : Alone /\ estop[w] /\ ~estop'[w] =>
       Len(channel'[w][w]) > Len(channel[w][w])]_vars

\* A page that is engaged locks twist_mux, unless it is released or twist_mux restarts
\* for ever (docs/web.md:140-141).
EngagedLocks ==
  <>[][~MuxRestarts]_vars =>
    \A w \in Web : w \in Page /\ estop[w] ~> locked \/ ~estop[w]

\* Every page comes to show an E-stop that stays engaged on one of them, unless pages
\* restart for ever (docs/web.md:103).
EngagedShown ==
  <>[][\A w \in Page : ~WebRestarts(w)]_vars =>
    \A v \in Web : \A w \in Web \ {v} :
      {v, w} \subseteq Page /\ estop[v] ~> estop[w] \/ ~estop[v]

\* A lone node mirrors twist_mux and accounts for each of its echoes.
MirrorSafety == TypeOK /\ Mirrors /\ EchoesAccounted
=============================================================================
