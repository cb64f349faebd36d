--------------------------- MODULE EstopMirrorProof ---------------------------
(***************************************************************************)
(* Theorems about EstopMirror for every set of nodes and publishers and    *)
(* every number of messages on their way: its type invariant, and that a   *)
(* lone web node mirrors twist_mux and mistakes none of its own messages.  *)
(***************************************************************************)
EXTENDS EstopMirror, SequenceTheorems, TLAPS

USE DEF Publisher, Subscriber, Page, InFlight

-----------------------------------------------------------------------------
(* The inductive invariant of a lone node. *)

Lone(w) == setup.here = {w} /\ ~setup.slow /\ ~setup.restarts

\* What twist_mux will have obeyed last, once everything it was sent has arrived.
LastWord(w) ==
  LET toMux == channel[w][Mux] IN IF toMux = <<>> THEN locked ELSE toMux[Len(toMux)]

Mirrored(w) ==
  /\ outstanding[w] = channel[w][w]
  /\ \A p \in Publisher, s \in Subscriber : p # w \/ s \notin {w, Mux} => channel[p][s] = <<>>
  /\ known[w] => estop[w] = LastWord(w)
LoneMirrors == \A w \in Web : Lone(w) => Mirrored(w)

-----------------------------------------------------------------------------
(* Sequences of messages. *)

\* A message put at the end of what is on its way.
LEMMA AppendAt ==
  ASSUME NEW q \in Seq(BOOLEAN), NEW m \in BOOLEAN
  PROVE  /\ Append(q, m) \in Seq(BOOLEAN) /\ Append(q, m) # <<>>
         /\ Len(Append(q, m)) = Len(q) + 1 /\ Append(q, m)[Len(Append(q, m))] = m
  BY AppendProperties

\* The first message taken from what is on its way.
LEMMA TailAt ==
  ASSUME NEW q \in Seq(BOOLEAN), q # <<>>
  PROVE  /\ Head(q) \in BOOLEAN /\ Tail(q) \in Seq(BOOLEAN) /\ Len(Tail(q)) = Len(q) - 1
         /\ Tail(q) = <<>> => Head(q) = q[Len(q)]
         /\ Tail(q) # <<>> => Tail(q)[Len(Tail(q))] = q[Len(q)]
<1>1. /\ Head(q) \in BOOLEAN /\ Tail(q) \in Seq(BOOLEAN) /\ Len(Tail(q)) = Len(q) - 1
      /\ \A i \in 1..Len(Tail(q)) : Tail(q)[i] = q[i + 1]
      /\ Head(q) = q[1] /\ Len(q) \in Nat
  BY HeadTailProperties
<1>2. Tail(q) = <<>> => Len(q) = 1
  <2>1. Tail(q) = <<>> => Len(Tail(q)) = 0
    BY EmptySeq
  <2>2. QED
    BY <1>1, <2>1
<1>3. Tail(q) # <<>> => Len(Tail(q)) \in 1..Len(Tail(q)) /\ Len(Tail(q)) + 1 = Len(q)
  BY <1>1, EmptySeq
<1>4. QED
  BY <1>1, <1>2, <1>3

\* What EchoFilter remembers when it looks is a part of what it was told, and all of it if
\* no echo is late.
LEMMA RememberedType ==
  ASSUME TypeOK, NEW w \in Web, NEW memory \in Remembered(w)
  PROVE  /\ memory \in Seq(BOOLEAN) /\ Len(memory) <= Len(outstanding[w])
         /\ memory # <<>> => Tail(memory) \in Seq(BOOLEAN) /\ Len(Tail(memory)) <= Len(outstanding[w])
         /\ ~setup.slow => memory = outstanding[w]
<1>1. outstanding[w] \in Seq(BOOLEAN) /\ Len(outstanding[w]) \in Nat
  BY DEF TypeOK
<1>2. PICK n \in 0..Len(outstanding[w]) :
             /\ memory = SubSeq(outstanding[w], n + 1, Len(outstanding[w]))
             /\ ~setup.slow => n = 0
  BY <1>1 DEF Remembered
<1>3. memory \in Seq(BOOLEAN) /\ Len(memory) <= Len(outstanding[w])
  BY <1>1, <1>2, SubSeqProperties
<1>4. ~setup.slow => memory = outstanding[w]
  BY <1>1, <1>2, SubSeqFull
<1>5. memory # <<>> => Tail(memory) \in Seq(BOOLEAN) /\ Len(Tail(memory)) = Len(memory) - 1
  BY <1>3, TailAt
<1>6. QED
  BY <1>1, <1>3, <1>4, <1>5

-----------------------------------------------------------------------------
(* Types. *)

\* A node starts with one message or none.
LEMMA FirstWordsType == FirstWords \in Seq(BOOLEAN) /\ Len(FirstWords) \in Nat /\ Len(FirstWords) <= 1
<1>1. <<>> \in Seq(BOOLEAN) /\ Len(<<>>) = 0
  OBVIOUS
<1>2. <<TRUE>> \in Seq(BOOLEAN) /\ Len(<<TRUE>>) = 1
  OBVIOUS
<1>3. CASE setup.estopped
  BY <1>2, <1>3 DEF FirstWords
<1>4. CASE ~setup.estopped
  BY <1>1, <1>4 DEF FirstWords
<1>5. QED
  BY <1>3, <1>4

LEMMA SetupType ==
  ASSUME TypeOK
  PROVE  /\ setup.here \subseteq Web \cup Other /\ setup.inFlight \in 1..4
         /\ setup.estopped \in BOOLEAN /\ setup.slow \in BOOLEAN /\ setup.restarts \in BOOLEAN
         /\ FirstWords \in Seq(BOOLEAN) /\ Len(FirstWords) <= setup.inFlight
<1>1. setup \in [here : SUBSET (Web \cup Other), estopped : BOOLEAN, slow : BOOLEAN,
                 restarts : BOOLEAN, inFlight : 1..4]
  BY ConstantsAssumption DEF TypeOK
<1>3. FirstWords \in Seq(BOOLEAN) /\ Len(FirstWords) <= 1
  BY FirstWordsType
<1>4. /\ setup.here \subseteq Web \cup Other /\ setup.inFlight \in 1..4
      /\ setup.estopped \in BOOLEAN /\ setup.slow \in BOOLEAN /\ setup.restarts \in BOOLEAN
  BY <1>1
<1>5. Len(FirstWords) <= setup.inFlight
  BY <1>3, <1>4, FirstWordsType
<1>6. QED
  BY <1>3, <1>4, <1>5

\* A message sent reaches the channels of those who are there.
LEMMA SentType ==
  ASSUME TypeOK, NEW p \in Publisher, NEW engaged \in BOOLEAN
  PROVE  Sent(p, engaged) \in [Publisher -> [Subscriber -> Seq(BOOLEAN)]]
<1>1. ASSUME NEW s \in Subscriber
      PROVE  (IF s \in Page \cup {Mux} THEN Append(channel[p][s], engaged) ELSE <<>>)
               \in Seq(BOOLEAN)
  <2>1. channel[p][s] \in Seq(BOOLEAN) /\ <<>> \in Seq(BOOLEAN)
    BY DEF TypeOK
  <2>2. Append(channel[p][s], engaged) \in Seq(BOOLEAN)
    BY <2>1, AppendAt
  <2>3. QED
    BY <2>1, <2>2
<1>2. QED
  BY <1>1 DEF Sent, TypeOK

\* And one received leaves it.
LEMMA ReceivedType ==
  ASSUME TypeOK, NEW p \in Publisher, NEW s \in Subscriber, channel[p][s] # <<>>
  PROVE  /\ Received(p, s) \in [Publisher -> [Subscriber -> Seq(BOOLEAN)]]
         /\ Head(channel[p][s]) \in BOOLEAN
<1>1. Tail(channel[p][s]) \in Seq(BOOLEAN) /\ Head(channel[p][s]) \in BOOLEAN
  BY TailAt DEF TypeOK
<1>2. QED
  BY <1>1 DEF Received, TypeOK

\* publish_estop
LEMMA PublishType ==
  ASSUME TypeOK, NEW w \in Web, NEW engaged \in BOOLEAN, PublishEstop(w, engaged)
  PROVE  /\ known' \in [Web -> BOOLEAN] /\ outstanding' \in [Web -> Seq(BOOLEAN)]
         /\ channel' \in [Publisher -> [Subscriber -> Seq(BOOLEAN)]]
         /\ \A v \in Web : Len(outstanding'[v]) <= setup.inFlight
<1>1. Append(outstanding[w], engaged) \in Seq(BOOLEAN)
      /\ Len(Append(outstanding[w], engaged)) = Len(outstanding[w]) + 1
  BY AppendAt DEF TypeOK
<1>2. Len(outstanding[w]) < setup.inFlight /\ Len(outstanding[w]) \in Nat /\ setup.inFlight \in Nat
  <2>1. outstanding[w] \in Seq(BOOLEAN) /\ setup.inFlight \in 1..4
    BY SetupType DEF TypeOK
  <2>2. QED
    BY <2>1 DEF PublishEstop
<1>3. outstanding' = [outstanding EXCEPT ![w] = Append(outstanding[w], engaged)]
  BY DEF PublishEstop, Remember
<1>4. \A v \in Web : Len(outstanding'[v]) <= setup.inFlight
  BY <1>1, <1>2, <1>3 DEF TypeOK
<1>5. QED
  BY <1>1, <1>3, <1>4, SentType DEF PublishEstop, TypeOK

\* The nodes, and twist_mux, keep their types at every step.
LEMMA NodeType == TypeOK /\ (Pages \/ Timers) => TypeOK'
<1> SUFFICES ASSUME TypeOK, Pages \/ Timers PROVE TypeOK'
  OBVIOUS
<1>1. ASSUME NEW w \in Web, NEW engaged \in BOOLEAN, SetEstop(w, engaged) PROVE TypeOK'
  BY <1>1, PublishType DEF SetEstop, TypeOK
<1>2. ASSUME NEW w \in Web, Heartbeat(w) PROVE TypeOK'
  <2>1. estop[w] \in BOOLEAN
    BY DEF TypeOK
  <2>2. QED
    BY <1>2, <2>1, PublishType DEF Heartbeat, TypeOK
<1>3. ASSUME NEW w \in Web, Startup(w) PROVE TypeOK'
  <2>1. estop[w] \in BOOLEAN
    BY DEF TypeOK
  <2>2. CASE Unheard(w)
    BY <1>3, <2>1, <2>2, PublishType DEF Startup, TypeOK
  <2>3. CASE ~Unheard(w)
    BY <1>3, <2>3 DEF Startup, TypeOK
  <2>4. QED
    BY <2>2, <2>3
<1>4. QED
  BY <1>1, <1>2, <1>3 DEF Pages, Timers

LEMMA DeliverType == TypeOK /\ Deliver => TypeOK'
<1> SUFFICES ASSUME TypeOK, NEW p \in Publisher, Lock(p) \/ \E w \in Web : Hear(p, w)
             PROVE  TypeOK'
  BY DEF Deliver
<1>1. CASE Lock(p)
  BY <1>1, ReceivedType DEF Lock, TypeOK
<1>2. ASSUME NEW w \in Web, Hear(p, w) PROVE TypeOK'
  <2>1. channel' \in [Publisher -> [Subscriber -> Seq(BOOLEAN)]]
        /\ Head(channel[p][w]) \in BOOLEAN
    BY <1>2, ReceivedType DEF Hear
  <2>2. PICK memory \in Remembered(w) :
          \/ /\ memory # <<>>
             /\ outstanding' = [outstanding EXCEPT ![w] = Tail(memory)]
             /\ UNCHANGED <<setup, estop, known>>
          \/ /\ outstanding' = [outstanding EXCEPT ![w] = memory]
             /\ known' = [known EXCEPT ![w] = TRUE]
             /\ estop' = [estop EXCEPT ![w] = Head(channel[p][w])]
    BY <1>2 DEF Hear, IsEcho
  <2>3. /\ memory \in Seq(BOOLEAN) /\ Len(memory) <= Len(outstanding[w])
        /\ memory # <<>> => Tail(memory) \in Seq(BOOLEAN) /\ Len(Tail(memory)) <= Len(outstanding[w])
    BY RememberedType
  <2>4. known' \in [Web -> BOOLEAN] /\ estop' \in [Web -> BOOLEAN]
    BY <2>1, <2>2 DEF TypeOK
  <2>5. PICK rest \in Seq(BOOLEAN) : /\ Len(rest) <= Len(outstanding[w])
                                     /\ outstanding' = [outstanding EXCEPT ![w] = rest]
    BY <2>2, <2>3
  <2>6. /\ outstanding' \in [Web -> Seq(BOOLEAN)]
        /\ \A v \in Web : Len(outstanding'[v]) <= Len(outstanding[v])
    BY <2>5 DEF TypeOK
  <2>7. \A v \in Web : Len(outstanding'[v]) <= setup.inFlight
    <3>1. \A v \in Web : /\ Len(outstanding[v]) \in Nat /\ Len(outstanding'[v]) \in Nat
                         /\ Len(outstanding[v]) <= setup.inFlight
      BY <2>6 DEF TypeOK
    <3>2. QED
      BY <2>6, <3>1, SetupType
  <2>8. QED
    BY <1>2, <2>1, <2>4, <2>6, <2>7 DEF Hear, TypeOK
<1>3. QED
  BY <1>1, <1>2

LEMMA WorldType == TypeOK /\ World => TypeOK'
<1> SUFFICES ASSUME TypeOK, World PROVE TypeOK'
  OBVIOUS
<1>1. ASSUME NEW p \in Other, NEW engaged \in BOOLEAN, OtherPublishes(p, engaged) PROVE TypeOK'
  BY <1>1, SentType DEF OtherPublishes, TypeOK
<1>2. CASE MuxRestarts
  <2>1. channel' \in [Publisher -> [Subscriber -> Seq(BOOLEAN)]]
    BY <1>2 DEF MuxRestarts, TypeOK
  <2>2. QED
    BY <1>2, <2>1 DEF MuxRestarts, TypeOK
<1>3. ASSUME NEW w \in Web, WebRestarts(w) PROVE TypeOK'
  <2>1. ASSUME NEW p \in Publisher, NEW s \in Subscriber
        PROVE  (LET rest == IF s = w THEN <<>> ELSE channel[p][s]
                IN  IF p = w /\ s \in Page \cup {Mux} THEN rest \o FirstWords ELSE rest)
                 \in Seq(BOOLEAN)
    <3>1. channel[p][s] \in Seq(BOOLEAN) /\ <<>> \in Seq(BOOLEAN) /\ FirstWords \in Seq(BOOLEAN)
      BY FirstWordsType DEF TypeOK
    <3>2. \A q \in Seq(BOOLEAN) : q \o FirstWords \in Seq(BOOLEAN)
      BY <3>1, ConcatProperties
    <3>3. QED
      BY <3>1, <3>2
  <2>2. channel' \in [Publisher -> [Subscriber -> Seq(BOOLEAN)]]
    BY <1>3, <2>1 DEF WebRestarts
  <2>3. outstanding' \in [Web -> Seq(BOOLEAN)] /\ \A v \in Web : Len(outstanding'[v]) <= setup.inFlight
    BY <1>3, SetupType DEF WebRestarts, TypeOK
  <2>4. estop' \in [Web -> BOOLEAN] /\ known' \in [Web -> BOOLEAN] /\ startup' \in [Web -> BOOLEAN]
    BY <1>3, SetupType DEF WebRestarts, TypeOK
  <2>5. QED
    BY <1>3, <2>2, <2>3, <2>4 DEF WebRestarts, TypeOK
<1>4. QED
  BY <1>1, <1>2, <1>3 DEF World

\* EstopMirror's variables keep their types: for any nodes and publishers EchoFilter never
\* remembers more messages than can be on their way.
THEOREM MirrorTypes == Spec => []TypeOK
<1>1. Init => TypeOK
  <2> SUFFICES ASSUME Init PROVE TypeOK
    OBVIOUS
  <2>1. setup \in [here : SUBSET (Web \cup Other), estopped : BOOLEAN, slow : BOOLEAN,
                   restarts : BOOLEAN, inFlight : 1..4]
    BY ConstantsAssumption DEF Init
  <2>2. /\ FirstWords \in Seq(BOOLEAN) /\ <<>> \in Seq(BOOLEAN)
        /\ Len(FirstWords) <= setup.inFlight /\ Len(<<>>) <= setup.inFlight
    <3>1. <<>> \in Seq(BOOLEAN) /\ Len(<<>>) = 0
      OBVIOUS
    <3>2. setup.inFlight \in 1..4
      BY <2>1
    <3>3. QED
      BY <3>1, <3>2, FirstWordsType
  <2>3. outstanding \in [Web -> Seq(BOOLEAN)] /\ \A w \in Web : Len(outstanding[w]) <= setup.inFlight
    BY <2>2 DEF Init
  <2>4. channel \in [Publisher -> [Subscriber -> Seq(BOOLEAN)]]
    BY <2>2 DEF Init
  <2>5. QED
    BY <2>1, <2>3, <2>4 DEF Init, TypeOK
<1>2. TypeOK /\ [Next]_vars => TypeOK'
  <2>1. TypeOK /\ UNCHANGED vars => TypeOK'
    BY DEF TypeOK, vars
  <2>2. QED
    BY <2>1, NodeType, DeliverType, WorldType DEF Next
<1>3. QED
  BY <1>1, <1>2, PTL DEF Spec

-----------------------------------------------------------------------------
(* A lone node. *)

\* What the node publishes is its last word.
LEMMA PublishMirrored ==
  ASSUME TypeOK, NEW w \in Web, Lone(w), Mirrored(w), NEW engaged \in BOOLEAN,
         PublishEstop(w, engaged), estop'[w] = engaged
  PROVE  Mirrored(w)' /\ Len(channel'[w][w]) > Len(channel[w][w])
<1>1. w \in Page /\ w \in Subscriber /\ Mux \in Subscriber /\ w \in Publisher
  BY DEF Lone
<1>2. /\ \A s \in {w, Mux} : channel'[w][s] = Append(channel[w][s], engaged)
      /\ \A p \in Publisher, s \in Subscriber :
           p # w \/ s \notin {w, Mux} => channel'[p][s] \in {channel[p][s], <<>>}
  BY <1>1 DEF PublishEstop, Sent, TypeOK, Lone
<1>3. channel[w][w] \in Seq(BOOLEAN) /\ channel[w][Mux] \in Seq(BOOLEAN)
  BY <1>1 DEF TypeOK
<1>4. outstanding'[w] = Append(outstanding[w], engaged)
  BY DEF PublishEstop, Remember, TypeOK
<1>5. LastWord(w)' = engaged
  BY <1>2, <1>3, AppendAt DEF LastWord
<1>6. Len(channel'[w][w]) = Len(channel[w][w]) + 1 /\ Len(channel[w][w]) \in Nat
  BY <1>2, <1>3, AppendAt
<1>7. \A p \in Publisher, s \in Subscriber : p # w \/ s \notin {w, Mux} => channel'[p][s] = <<>>
  BY <1>2 DEF Mirrored
<1>8. outstanding'[w] = channel'[w][w]
  BY <1>2, <1>4 DEF Mirrored
<1>9. QED
  BY <1>5, <1>6, <1>7, <1>8 DEF Mirrored

\* The page and the timers of a lone node.
LEMMA NodeMirrored ==
  ASSUME TypeOK, NEW w \in Web, Lone(w), Mirrored(w), Pages \/ Timers
  PROVE  /\ Mirrored(w)'
         /\ estop[w] /\ ~estop'[w] => Len(channel'[w][w]) > Len(channel[w][w])
<1>1. Page = {w} /\ estop[w] \in BOOLEAN
  BY DEF Lone, TypeOK
<1>2. ASSUME NEW engaged \in BOOLEAN, SetEstop(w, engaged)
      PROVE  Mirrored(w)' /\ Len(channel'[w][w]) > Len(channel[w][w])
  BY <1>2, PublishMirrored DEF SetEstop, TypeOK
<1>3. CASE Heartbeat(w)
  BY <1>1, <1>3, PublishMirrored DEF Heartbeat
<1>4. CASE Startup(w)
  <2>1. CASE Unheard(w)
    BY <1>1, <1>4, <2>1, PublishMirrored DEF Startup
  <2>2. CASE ~Unheard(w)
    BY <1>4, <2>2 DEF Startup, Mirrored, LastWord
  <2>3. QED
    BY <2>1, <2>2
<1>5. QED
  BY <1>1, <1>2, <1>3, <1>4 DEF Pages, Timers

\* The echoes of a lone node are the first it remembers, and its words reach twist_mux in
\* the order it said them.
LEMMA DeliverMirrored ==
  ASSUME TypeOK, NEW w \in Web, Lone(w), Mirrored(w), Deliver
  PROVE  Mirrored(w)' /\ UNCHANGED estop
<1>1. w \in Publisher /\ w \in Subscriber /\ Mux \in Subscriber /\ w # Mux
  BY ConstantsAssumption
<1>2. channel[w][w] \in Seq(BOOLEAN) /\ channel[w][Mux] \in Seq(BOOLEAN)
  BY <1>1 DEF TypeOK
<1>3. CASE Lock(w)
  <2>1. /\ channel[w][Mux] # <<>> /\ channel'[w][Mux] = Tail(channel[w][Mux])
        /\ channel'[w][w] = channel[w][w]
        /\ \A p \in Publisher, s \in Subscriber :
             p # w \/ s \notin {w, Mux} => channel'[p][s] = channel[p][s]
        /\ locked' = Head(channel[w][Mux]) /\ UNCHANGED <<outstanding, known, estop>>
    BY <1>1, <1>3 DEF Lock, Received, TypeOK
  <2>2. LastWord(w)' = LastWord(w)
    BY <1>2, <2>1, TailAt DEF LastWord
  <2>3. QED
    BY <2>1, <2>2 DEF Mirrored
<1>4. CASE Hear(w, w)
  <2>1. /\ channel[w][w] # <<>> /\ channel'[w][w] = Tail(channel[w][w])
        /\ channel'[w][Mux] = channel[w][Mux]
        /\ \A p \in Publisher, s \in Subscriber :
             p # w \/ s \notin {w, Mux} => channel'[p][s] = channel[p][s]
        /\ UNCHANGED locked
    BY <1>1, <1>4 DEF Hear, Received, TypeOK
  <2>2. PICK memory \in Remembered(w) :
          IF IsEcho(memory, Head(channel[w][w]))
            THEN /\ outstanding' = [outstanding EXCEPT ![w] = Tail(memory)]
                 /\ UNCHANGED <<setup, estop, known>>
            ELSE TRUE
    BY <1>4 DEF Hear
  <2>3. memory = outstanding[w] /\ outstanding[w] = channel[w][w]
    BY RememberedType DEF Lone, Mirrored
  <2>4. outstanding'[w] = Tail(channel[w][w]) /\ UNCHANGED <<estop, known>>
    BY <2>1, <2>2, <2>3 DEF IsEcho, TypeOK
  <2>5. LastWord(w)' = LastWord(w)
    BY <2>1 DEF LastWord
  <2>6. QED
    BY <2>1, <2>4, <2>5 DEF Mirrored
<1>5. ASSUME NEW p \in Publisher, Lock(p) \/ \E v \in Web : Hear(p, v)
      PROVE  Lock(w) \/ Hear(w, w)
  BY <1>1, <1>5, ConstantsAssumption DEF Lock, Hear, Mirrored
<1>6. QED
  BY <1>3, <1>4, <1>5 DEF Deliver, Hear, Lock

\* Nobody else is there, and nothing restarts.
LEMMA WorldIsStill ==
  ASSUME NEW w \in Web, Lone(w), World PROVE FALSE
  BY ConstantsAssumption DEF Lone, World, MuxRestarts, WebRestarts

\* A lone node's memory is what is on its way to it, and its state is its last word to
\* twist_mux, for any number of messages on their way.
THEOREM LoneMirrorsHolds == Spec => []LoneMirrors
<1>1. Init => LoneMirrors
  <2> SUFFICES ASSUME Init, NEW w \in Web, Lone(w) PROVE Mirrored(w)
    BY DEF LoneMirrors
  <2>1. w \in Page /\ Page = {w} /\ w \in Publisher /\ w \in Subscriber /\ Mux \in Subscriber
    BY DEF Lone
  <2>2. /\ outstanding[w] = FirstWords /\ channel[w][w] = FirstWords /\ channel[w][Mux] = FirstWords
        /\ \A p \in Publisher, s \in Subscriber :
             p # w \/ s \notin {w, Mux} => channel[p][s] = <<>>
        /\ estop[w] = setup.estopped /\ known[w] = setup.estopped
    BY <2>1 DEF Init
  <2>3. known[w] => estop[w] = LastWord(w)
    BY <2>2 DEF LastWord, FirstWords
  <2>4. QED
    BY <2>2, <2>3 DEF Mirrored
<1>2. TypeOK /\ LoneMirrors /\ [Next]_vars => LoneMirrors'
  <2> SUFFICES ASSUME TypeOK, LoneMirrors, [Next]_vars, NEW w \in Web, Lone(w)'
               PROVE  Mirrored(w)'
    BY DEF LoneMirrors
  <2>1. Lone(w) /\ Mirrored(w)
    BY DEF LoneMirrors, Lone, Next, Deliver, Lock, Hear, Pages, SetEstop, Timers, Heartbeat, Startup,
           World, OtherPublishes, MuxRestarts, WebRestarts, vars
  <2>2. CASE UNCHANGED vars
    BY <2>1, <2>2 DEF vars, Mirrored, LastWord
  <2>3. QED
    BY <2>1, <2>2, NodeMirrored, DeliverMirrored, WorldIsStill DEF Next
<1>3. QED
  BY <1>1, <1>2, MirrorTypes, PTL DEF Spec

\* For any number of messages on their way, a lone node agrees with twist_mux once they have
\* arrived, and takes none of its own messages for somebody else's.
THEOREM MirrorIsSafe == Spec => []MirrorSafety
<1>1. TypeOK /\ LoneMirrors => Mirrors /\ EchoesAccounted
  <2> SUFFICES ASSUME TypeOK, LoneMirrors, Alone PROVE Mirrors /\ EchoesAccounted
    BY DEF Mirrors, EchoesAccounted
  <2>1. PICK w \in Web : Lone(w) /\ Page = {w} /\ Mirrored(w)
    BY DEF Alone, Lone, LoneMirrors
  <2>2. Settled => known[w] /\ channel[w][Mux] = <<>>
    BY <2>1 DEF Settled
  <2>3. Settled => estop[w] = locked
    BY <2>1, <2>2 DEF Mirrored, LastWord
  <2>4. QED
    BY <2>1, <2>3 DEF Mirrors, EchoesAccounted, Mirrored
<1>2. QED
  BY <1>1, MirrorTypes, LoneMirrorsHolds, PTL DEF MirrorSafety

\* A lone page is released by a release it publishes, never by a message of its own that it
\* hears late, however many are on their way.
THEOREM ReleasedByPage == Spec => OnlyReleasedByPage
<1>1. TypeOK /\ LoneMirrors /\ [Next]_vars =>
        [\A w \in Page : Alone /\ estop[w] /\ ~estop'[w] =>
           Len(channel'[w][w]) > Len(channel[w][w])]_vars
  <2> SUFFICES ASSUME TypeOK, LoneMirrors, Next, NEW w \in Page, Alone, estop[w], ~estop'[w]
               PROVE  Len(channel'[w][w]) > Len(channel[w][w])
    OBVIOUS
  <2>1. w \in Web /\ Lone(w) /\ Mirrored(w)
    BY DEF Alone, Lone, LoneMirrors
  <2>2. QED
    BY <2>1, NodeMirrored, DeliverMirrored, WorldIsStill DEF Next
<1>2. QED
  BY <1>1, MirrorTypes, LoneMirrorsHolds, PTL DEF OnlyReleasedByPage, Spec
=============================================================================
