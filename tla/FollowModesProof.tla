---------------------------- MODULE FollowModesProof ----------------------------
(***************************************************************************)
(* No detector and no follower is left behind by a switch, for any number  *)
(* of requests, clients, modes and needs, whatever the launches do.        *)
(***************************************************************************)
EXTENDS FollowModes, SequenceTheorems, TLAPS

FollowTypes ==
  /\ mode \in Mode /\ follow \in Task \cup {Nobody} /\ driver \in Client \cup {Nobody}
  /\ status \in {"ready", "starting", "running", "stopping", "failed"}
  /\ pc \in [Task \cup {Main} -> Awaits]
  /\ goal \in [Task -> [client : Client \cup {Nobody}, mode : Mode]]
  /\ target \in [Task \cup {Main} -> Task \cup {Nobody}]
  /\ launch \in [Task -> {"none", "up", "gone"}]
  /\ handle \in [Task -> BOOLEAN] /\ asked \in [Task -> BOOLEAN]
  /\ nodes \in [Task -> SUBSET {"follower", "detector"}]
  /\ ready \subseteq {"follower", "detector"} /\ cancelled \subseteq Task /\ stopped \in BOOLEAN

\* mode_lock: who waits for it, and that only its holder is past waiting.
Owns(a) == queue # <<>> /\ a = Head(queue)

Once(q) == \A i, j \in DOMAIN q : q[i] = q[j] => i = j

LockOK ==
  /\ queue \in Seq(Task) /\ Once(queue)
  /\ \A t \in Task : t \in ToSet(queue) <=> pc[t] \notin {"idle", "done", "gone"}
  /\ \A t \in Task : pc[t] \in {"int", "reap", "read", "start"} => Owns(t)

\* Nothing is known of a launch before it is forked.
ForkedFirst ==
  \A p \in Task : /\ launch[p] = "none" => nodes[p] = {} /\ ~handle[p] /\ ~asked[p]
                  /\ pc[p] = "start" => launch[p] # "none"

\* What is alive is the launch that is followed, and its process is known to whoever will
\* stop it; a task that has killed it leaves nothing alive.
Serving == Running /\ ~stopped

OneLaunch ==
  Serving =>
    /\ cancelled = {} /\ pc[Main] = "serve"
    /\ \A p \in Task : follow = p => pc[p] \in {"start", "done"} /\ goal[p].mode = mode
    /\ \A p \in Task : Alive(p) => follow = p /\ (handle[p] \/ pc[p] = "start")
    /\ \A t \in Task : pc[t] \in {"int", "reap", "read"} => target[t] = follow
    /\ \A t \in Task : pc[t] \in {"reap", "read"} => \A p \in Task : ~Alive(p)

FollowInductive == FollowTypes /\ LockOK /\ ForkedFirst /\ OneLaunch

-----------------------------------------------------------------------------
(* The queue of mode_lock. *)

LEMMA Contents ==
  ASSUME NEW q \in Seq(Task)
  PROVE  /\ Len(q) \in Nat /\ DOMAIN q = 1..Len(q) /\ \A i \in 1..Len(q) : q[i] \in Task
         /\ q # <<>> => Len(q) > 0 /\ Head(q) = q[1] /\ Head(q) \in ToSet(q)
         /\ ToSet(q) \subseteq Task
<1>1. Len(q) \in Nat /\ DOMAIN q = 1..Len(q) /\ \A i \in 1..Len(q) : q[i] \in Task
  BY ElementOfSeq, LenProperties
<1>2. q # <<>> => Len(q) > 0
  BY <1>1, EmptySeq
<1>3. q # <<>> => Head(q) = q[1]
  OBVIOUS
<1>4. ToSet(q) \subseteq Task
  BY <1>1 DEF ToSet
<1>5. q # <<>> => q[1] \in ToSet(q)
  BY <1>1, <1>2 DEF ToSet
<1> QED BY <1>1, <1>2, <1>3, <1>4, <1>5

LEMMA Removed ==
  ASSUME NEW q \in Seq(Task), NEW i \in 1..Len(q)
  PROVE  /\ RemoveAt(q, i) \in Seq(Task) /\ Len(RemoveAt(q, i)) = Len(q) - 1
         /\ \A j \in 1..Len(q) - 1 : RemoveAt(q, i)[j] = IF j < i THEN q[j] ELSE q[j + 1]
<1> DEFINE before == SubSeq(q, 1, i - 1)
           after == SubSeq(q, i + 1, Len(q))
<1>1. Len(q) \in Nat /\ \A j \in 1..Len(q) : q[j] \in Task
  BY Contents
<1>2. before \in Seq(Task) /\ Len(before) = i - 1 /\ \A j \in 1..i - 1 : before[j] = q[j]
  <2>1. \A j \in 1..i - 1 : q[j] \in Task
    BY <1>1
  <2>2. 1 \in Int /\ i - 1 \in Int
    BY <1>1
  <2>3. /\ before \in Seq(Task) /\ Len(before) = (IF 1 <= i - 1 THEN i - 1 - 1 + 1 ELSE 0)
        /\ \A j \in 1..i - 1 - 1 + 1 : before[j] = q[1 + j - 1]
    BY <2>1, <2>2, SubSeqProperties
  <2> QED BY <1>1, <2>3
<1>3. after \in Seq(Task) /\ Len(after) = Len(q) - i /\ \A j \in 1..Len(q) - i : after[j] = q[i + j]
  <2>1. \A j \in i + 1..Len(q) : q[j] \in Task
    BY <1>1
  <2>2. i + 1 \in Int /\ Len(q) \in Int
    BY <1>1
  <2>3. /\ after \in Seq(Task) /\ Len(after) = (IF i + 1 <= Len(q) THEN Len(q) - (i + 1) + 1 ELSE 0)
        /\ \A j \in 1..Len(q) - (i + 1) + 1 : after[j] = q[i + 1 + j - 1]
    BY <2>1, <2>2, SubSeqProperties
  <2> QED BY <1>1, <2>3
<1> HIDE DEF before, after
<1>4. /\ before \o after \in Seq(Task) /\ Len(before \o after) = Len(before) + Len(after)
      /\ \A j \in 1..Len(before) + Len(after) :
           (before \o after)[j] = IF j <= Len(before) THEN before[j] ELSE after[j - Len(before)]
  BY <1>2, <1>3, ConcatProperties
<1>5. RemoveAt(q, i) = before \o after
  BY DEF RemoveAt, before, after
<1>6. \A j \in 1..Len(q) - 1 : (before \o after)[j] = IF j < i THEN q[j] ELSE q[j + 1]
  <2> SUFFICES ASSUME NEW j \in 1..Len(q) - 1
               PROVE  (before \o after)[j] = IF j < i THEN q[j] ELSE q[j + 1]
    OBVIOUS
  <2>1. (before \o after)[j] = IF j <= i - 1 THEN before[j] ELSE after[j - (i - 1)]
    BY <1>1, <1>2, <1>3, <1>4
  <2>2. CASE j < i
    BY <1>1, <1>2, <2>1, <2>2
  <2>3. CASE ~(j < i)
    <3>1. j - (i - 1) \in 1..Len(q) - i /\ i + (j - (i - 1)) = j + 1
      BY <1>1, <2>3
    <3>2. after[j - (i - 1)] = q[j + 1]
      BY <1>3, <3>1
    <3> QED BY <1>1, <2>1, <2>3, <3>2
  <2> QED BY <2>2, <2>3
<1>7. Len(before \o after) = Len(q) - 1
  BY <1>1, <1>2, <1>3, <1>4
<1> QED BY ONLY <1>4, <1>5, <1>6, <1>7

\* Who is removed is gone, everybody else keeps their turn.
LEMMA RemovedOthersStay ==
  ASSUME NEW q \in Seq(Task), Once(q), NEW i \in DOMAIN q
  PROVE  /\ RemoveAt(q, i) \in Seq(Task) /\ Once(RemoveAt(q, i))
         /\ ToSet(RemoveAt(q, i)) = ToSet(q) \ {q[i]}
         /\ i # 1 => RemoveAt(q, i) # <<>> /\ Head(RemoveAt(q, i)) = Head(q)
<1> DEFINE r == RemoveAt(q, i)
<1>1. Len(q) \in Nat /\ DOMAIN q = 1..Len(q) /\ i \in 1..Len(q)
  BY Contents
<1>2. /\ r \in Seq(Task) /\ Len(r) = Len(q) - 1
      /\ \A j \in 1..Len(q) - 1 : r[j] = IF j < i THEN q[j] ELSE q[j + 1]
  BY <1>1, Removed
<1>3. DOMAIN r = 1..Len(q) - 1
  BY <1>2, Contents
<1> HIDE DEF r
<1> DEFINE at(j) == IF j < i THEN j ELSE j + 1
<1>4. \A j \in 1..Len(q) - 1 : at(j) \in 1..Len(q) /\ at(j) # i /\ r[j] = q[at(j)]
  BY <1>1, <1>2
<1>5. \A j, k \in 1..Len(q) - 1 : at(j) = at(k) => j = k
  BY <1>1
<1>6. \A k \in 1..Len(q) : k # i => \E j \in 1..Len(q) - 1 : at(j) = k
  <2> SUFFICES ASSUME NEW k \in 1..Len(q), k # i PROVE \E j \in 1..Len(q) - 1 : at(j) = k
    OBVIOUS
  <2>1. CASE k < i
    BY <1>1, <2>1
  <2>2. CASE ~(k < i)
    <3>1. k - 1 \in 1..Len(q) - 1 /\ at(k - 1) = k
      BY <1>1, <2>2
    <3> QED BY <3>1
  <2> QED BY <2>1, <2>2
<1>7. Once(r) /\ ToSet(r) = ToSet(q) \ {q[i]}
  <2> HIDE DEF at
  <2>1. Once(r)
    BY <1>1, <1>3, <1>4, <1>5 DEF Once
  <2>2. ToSet(r) = ToSet(q) \ {q[i]}
    <3>1. \A j \in 1..Len(q) - 1 : r[j] \in ToSet(q) \ {q[i]}
      BY <1>1, <1>4 DEF ToSet, Once
    <3>2. \A k \in 1..Len(q) : q[k] # q[i] => \E j \in 1..Len(q) - 1 : r[j] = q[k]
      BY <1>4, <1>6
    <3>3. ToSet(r) = {r[j] : j \in 1..Len(q) - 1} /\ ToSet(q) = {q[k] : k \in 1..Len(q)}
      BY <1>1, <1>3 DEF ToSet
    <3>4. ToSet(r) \subseteq ToSet(q) \ {q[i]}
      BY ONLY <3>1, <3>3
    <3>5. ToSet(q) \ {q[i]} \subseteq ToSet(r)
      BY ONLY <3>2, <3>3
    <3> QED BY <3>4, <3>5
  <2> QED BY <2>1, <2>2
<1>8. i # 1 => r # <<>> /\ Head(r) = Head(q)
  <2> SUFFICES ASSUME i # 1 PROVE r # <<>> /\ Head(r) = Head(q)
    OBVIOUS
  <2>1. 1 \in 1..Len(q) - 1 /\ 1 < i
    BY <1>1
  <2>2. r[1] = q[1] /\ Len(r) > 0
    BY <1>1, <1>2, <2>1
  <2>3. r # <<>> /\ q # <<>>
    BY <1>1, <2>2, EmptySeq
  <2> QED BY <1>2, <2>2, <2>3, Contents
<1> QED BY <1>2, <1>7, <1>8 DEF r

LEMMA Appended ==
  ASSUME NEW q \in Seq(Task), Once(q), NEW t \in Task, t \notin ToSet(q)
  PROVE  /\ Append(q, t) \in Seq(Task) /\ Once(Append(q, t)) /\ Append(q, t) # <<>>
         /\ ToSet(Append(q, t)) = ToSet(q) \cup {t}
         /\ Head(Append(q, t)) = IF q = <<>> THEN t ELSE Head(q)
<1>1. Len(q) \in Nat /\ DOMAIN q = 1..Len(q) /\ (q # <<>> => Len(q) > 0)
  BY Contents
<1>2. /\ Append(q, t) \in Seq(Task) /\ Append(q, t) # <<>> /\ Len(Append(q, t)) = Len(q) + 1
      /\ \A i \in 1..Len(q) : Append(q, t)[i] = q[i]
      /\ Append(q, t)[Len(q) + 1] = t
  BY AppendProperties
<1>3. DOMAIN Append(q, t) = 1..Len(q) + 1 /\ Head(Append(q, t)) = Append(q, t)[1]
  BY <1>2, Contents
<1>4. \A i \in 1..Len(q) + 1 : i \in 1..Len(q) \/ i = Len(q) + 1
  BY <1>1
<1>5. \A i \in 1..Len(q) : q[i] # t /\ i # Len(q) + 1 /\ i \in 1..Len(q) + 1
  BY <1>1 DEF ToSet
<1>6. Len(q) + 1 \in 1..Len(q) + 1
  BY <1>1
<1> DEFINE r == Append(q, t)
           n == Len(q) + 1
<1> HIDE DEF r
<1>7. Once(r)
  BY <1>1, <1>2, <1>3, <1>4, <1>5 DEF Once, r
<1>8. ToSet(r) = ToSet(q) \cup {t}
  BY <1>1, <1>2, <1>3, <1>4, <1>5, <1>6 DEF ToSet, r
<1>9. q = <<>> => Len(q) = 0
  OBVIOUS
<1>10. q # <<>> => Head(q) = q[1] /\ 1 \in 1..Len(q)
  BY <1>1, Contents
<1> QED BY <1>2, <1>3, <1>7, <1>8, <1>9, <1>10 DEF r

-----------------------------------------------------------------------------
(* Who holds mode_lock. *)

InStop == {"int", "reap", "read", "start"}
Outside == {"idle", "done", "gone"}

LEMMA LockSaid ==
  LockOK <=> /\ queue \in Seq(Task) /\ Once(queue)
             /\ \A t \in Task : t \in ToSet(queue) <=> pc[t] \notin Outside
             /\ \A t \in Task : pc[t] \in InStop => Owns(t)
  BY DEF LockOK, Outside, InStop

LEMMA LockSaidNext ==
  LockOK' <=> /\ queue' \in Seq(Task) /\ Once(queue')
              /\ \A t \in Task : t \in ToSet(queue') <=> pc'[t] \notin Outside
              /\ \A t \in Task : pc'[t] \in InStop => queue' # <<>> /\ t = Head(queue')
  BY DEF LockOK, Outside, InStop, Owns

\* A task is about to work on the launch: it takes the free lock, or it holds it.
Entering(t) == (pc[t] = "idle" /\ queue = <<>>) \/ (pc[t] \in {"wait", "read"} /\ Owns(t))

\* Nobody else is at work then.
LEMMA Alone ==
  ASSUME LockOK, NEW t \in Task, Entering(t)
  PROVE  \A u \in Task : u # t => pc[u] \notin InStop
  BY LockSaid DEF Entering, Owns

LEMMA PcAfter ==
  ASSUME FollowTypes, NEW a \in Task \cup {Main}, NEW x \in Awaits, pc' = [pc EXCEPT ![a] = x]
  PROVE  /\ pc' \in [Task \cup {Main} -> Awaits] /\ pc'[a] = x
         /\ \A b \in Task \cup {Main} : b # a => pc'[b] = pc[b]
  BY DEF FollowTypes

LEMMA LockLeft ==
  ASSUME FollowTypes, LockOK, NEW t \in Task, Leave(t)
  PROVE  LockOK'
<1>1. /\ queue \in Seq(Task) /\ Once(queue)
      /\ \A u \in Task : u \in ToSet(queue) <=> pc[u] \notin Outside
      /\ \A u \in Task : pc[u] \in InStop => queue # <<>> /\ u = Head(queue)
  BY LockSaid DEF Owns
<1>2. pc'[t] = "done" /\ \A u \in Task : u # t => pc'[u] = pc[u]
  BY PcAfter DEF Leave, Awaits
<1>3. pc'[t] \in Outside /\ pc'[t] \notin InStop
  BY <1>2 DEF Outside, InStop
<1>4. CASE t \notin ToSet(queue) /\ UNCHANGED queue
  BY <1>1, <1>2, <1>3, <1>4, LockSaidNext
<1>5. ASSUME NEW i \in DOMAIN queue, queue[i] = t, queue' = RemoveAt(queue, i) PROVE LockOK'
  <2>1. /\ queue' \in Seq(Task) /\ Once(queue') /\ ToSet(queue') = ToSet(queue) \ {t}
        /\ i # 1 => queue' # <<>> /\ Head(queue') = Head(queue)
    BY <1>1, <1>5, RemovedOthersStay
  <2>2. queue # <<>> => Head(queue) = queue[1]
    BY <1>1, Contents
  <2>3. \A u \in Task : pc'[u] \in InStop => queue' # <<>> /\ u = Head(queue')
    <3> SUFFICES ASSUME NEW u \in Task, pc'[u] \in InStop PROVE queue' # <<>> /\ u = Head(queue')
      OBVIOUS
    <3>1. u # t /\ pc[u] \in InStop
      BY <1>2, <1>3
    <3>2. queue # <<>> /\ u = Head(queue)
      BY <1>1, <3>1
    <3>3. i # 1
      BY <1>5, <2>2, <3>1, <3>2
    <3> QED BY <2>1, <3>2, <3>3
  <2>4. \A u \in Task : u \in ToSet(queue') <=> pc'[u] \notin Outside
    BY <1>1, <1>2, <1>3, <2>1
  <2> QED BY <2>1, <2>3, <2>4, LockSaidNext
<1> QED BY <1>4, <1>5 DEF Leave

\* It goes on to an await, with the lock.
LEMMA LockTaken ==
  ASSUME FollowTypes, LockOK, NEW t \in Task, Entering(t), NEW x \in InStop,
         pc' = [pc EXCEPT ![t] = x], queue' = Queued(t)
  PROVE  LockOK'
<1>1. /\ queue \in Seq(Task) /\ Once(queue)
      /\ \A u \in Task : u \in ToSet(queue) <=> pc[u] \notin Outside
  BY LockSaid
<1>2. pc'[t] = x /\ \A u \in Task : u # t => pc'[u] = pc[u]
  BY PcAfter DEF InStop, Awaits
<1>3. x \notin Outside
  BY DEF InStop, Outside
<1>4. \A u \in Task : u # t => pc'[u] \notin InStop
  BY <1>2, Alone
<1>5. CASE pc[t] = "idle"
  <2>1. queue' = Append(queue, t) /\ queue = <<>>
    BY <1>5, ConstantsAssumption DEF Queued, Entering
  <2>2. t \notin ToSet(queue)
    BY <1>1, <1>5 DEF Outside
  <2>3. /\ queue' \in Seq(Task) /\ Once(queue') /\ queue' # <<>> /\ Head(queue') = t
        /\ ToSet(queue') = ToSet(queue) \cup {t}
    BY <1>1, <2>1, <2>2, Appended
  <2> QED BY <1>1, <1>2, <1>3, <1>4, <2>3, LockSaidNext
<1>6. CASE pc[t] # "idle"
  <2>1. queue' = queue /\ queue # <<>> /\ t = Head(queue)
    BY <1>6 DEF Queued, Entering, Owns
  <2>2. t \in ToSet(queue)
    BY <1>1, <2>1, Contents
  <2> QED BY <1>1, <1>2, <1>3, <1>4, <2>1, <2>2, LockSaidNext
<1> QED BY <1>5, <1>6

\* It waits its turn.
LEMMA LockWaited ==
  ASSUME FollowTypes, LockOK, NEW t \in Task, pc[t] = "idle", queue # <<>>,
         pc' = [pc EXCEPT ![t] = "wait"], queue' = Queued(t)
  PROVE  LockOK'
<1>1. /\ queue \in Seq(Task) /\ Once(queue)
      /\ \A u \in Task : u \in ToSet(queue) <=> pc[u] \notin Outside
      /\ \A u \in Task : pc[u] \in InStop => u = Head(queue)
  BY LockSaid DEF Owns
<1>2. pc'[t] = "wait" /\ \A u \in Task : u # t => pc'[u] = pc[u]
  BY PcAfter DEF Awaits
<1>3. pc'[t] \notin Outside /\ pc'[t] \notin InStop
  BY <1>2 DEF InStop, Outside
<1>4. queue' = Append(queue, t) /\ t \notin ToSet(queue)
  BY <1>1, ConstantsAssumption DEF Queued, Outside
<1>5. /\ queue' \in Seq(Task) /\ Once(queue') /\ queue' # <<>> /\ Head(queue') = Head(queue)
      /\ ToSet(queue') = ToSet(queue) \cup {t}
  BY <1>1, <1>4, Appended
<1>6. \A u \in Task : u \in ToSet(queue') <=> pc'[u] \notin Outside
  BY <1>1, <1>2, <1>3, <1>5
<1>7. \A u \in Task : pc'[u] \in InStop => u = Head(queue')
  BY <1>1, <1>2, <1>3, <1>5
<1> QED BY <1>5, <1>6, <1>7, LockSaidNext

\* The holder goes on, or serve() does.
LEMMA LockKept ==
  ASSUME FollowTypes, LockOK, NEW a \in Task \cup {Main}, NEW x \in Awaits,
         pc' = [pc EXCEPT ![a] = x], UNCHANGED queue,
         a \in Task => pc[a] \in InStop /\ x \in InStop
  PROVE  LockOK'
<1>1. /\ queue \in Seq(Task) /\ Once(queue)
      /\ \A u \in Task : u \in ToSet(queue) <=> pc[u] \notin Outside
      /\ \A u \in Task : pc[u] \in InStop => queue # <<>> /\ u = Head(queue)
  BY LockSaid DEF Owns
<1>2. pc'[a] = x /\ \A u \in Task : u # a => pc'[u] = pc[u]
  BY PcAfter
<1>3. \A y \in InStop : y \notin Outside
  BY DEF InStop, Outside
<1>4. \A u \in Task : /\ pc'[u] \in Outside <=> pc[u] \in Outside
                      /\ pc'[u] \in InStop => pc[u] \in InStop
  BY <1>2, <1>3
<1> QED BY <1>1, <1>4, LockSaidNext

LEMMA LockStays ==
  ASSUME LockOK, UNCHANGED <<queue, pc>>
  PROVE  LockOK'
  BY LockSaid, LockSaidNext DEF Owns

-----------------------------------------------------------------------------
(* A launch is started, and stopped. *)

LEMMA MainIsNoTask == Main \notin Task /\ Nobody \notin Task
  BY ConstantsAssumption

\* The group is gone.
LEMMA KilledOne ==
  ASSUME FollowTypes, NEW p \in Task \cup {Nobody}, Killed(p)
  PROVE  /\ launch' \in [Task -> {"none", "up", "gone"}]
         /\ nodes' \in [Task -> SUBSET {"follower", "detector"}]
         /\ \A q \in Task : q # p => launch'[q] = launch[q] /\ nodes'[q] = nodes[q]
         /\ p \in Task => launch'[p] = "gone" /\ nodes'[p] = {}
  BY DEF FollowTypes, Killed

LEMMA KilledAlive ==
  ASSUME FollowTypes, NEW p \in Task \cup {Nobody}, Killed(p)
  PROVE  \A q \in Task : Alive(q)' => Alive(q) /\ q # p
  BY KilledOne DEF Alive

\* What is forked stays so.
LEMMA ForkedStays ==
  ASSUME ForkedFirst, UNCHANGED handle,
         \A p \in Task : launch'[p] = "none" => launch[p] = "none" /\ nodes'[p] \subseteq nodes[p],
         \A p \in Task : asked'[p] => asked[p] \/ launch[p] # "none",
         \A p \in Task : pc'[p] = "start" => pc[p] = "start"
  PROVE  ForkedFirst'
  BY DEF ForkedFirst

\* Once the server is stopping, OneLaunch says nothing.
LEMMA ServingEnds == ~Serving' => OneLaunch'
  BY DEF OneLaunch, Serving, Running

LEMMA SwitchKeeps ==
  ASSUME FollowInductive, NEW t \in Task, Entering(t), Switch(t),
         goal' \in [Task -> [client : Client \cup {Nobody}, mode : Mode]],
         \A u \in Task : u # t => goal'[u] = goal[u],
         cancelled' \subseteq cancelled,
         UNCHANGED <<nodes, handle, asked, target, ready, driver, stopped>>,
         Serving => \A p \in Task : ~Alive(p)
  PROVE  FollowInductive'
<1>1. FollowTypes /\ LockOK /\ ForkedFirst /\ OneLaunch
  BY DEF FollowInductive
<1>2. mode' = goal'[t].mode /\ mode' \in Mode
  BY DEF Switch
<1>3. CASE Leave(t) /\ UNCHANGED launch /\ status' \in {"ready", "failed"} /\ follow' \in {Nobody, t}
  <2>1. pc' \in [Task \cup {Main} -> Awaits] /\ pc'[t] = "done" /\ \A b \in Task \cup {Main} : b # t => pc'[b] = pc[b]
    BY <1>1, <1>3, PcAfter DEF Leave, Awaits
  <2>2. FollowTypes'
    BY <1>1, <1>2, <1>3, <2>1 DEF FollowTypes
  <2>3. LockOK'
    BY <1>1, <1>3, LockLeft
  <2>4. ForkedFirst'
    BY <1>1, <1>3, <2>1 DEF ForkedFirst
  <2>5. ASSUME Serving' PROVE OneLaunch'
    <3>1. Serving /\ cancelled' = {} /\ pc'[Main] = "serve"
      BY <1>1, <2>1, <2>5, MainIsNoTask DEF Serving, Running, OneLaunch
    <3>2. \A p \in Task : ~Alive(p)'
      BY <1>3, <3>1 DEF Alive
    <3>3. \A p \in Task : follow' = p => pc'[p] = "done" /\ goal'[p].mode = mode'
      BY <1>2, <1>3, <2>1, MainIsNoTask
    <3>4. \A u \in Task : pc'[u] \notin InStop
      BY <1>1, <2>1, Alone DEF InStop
    <3> QED BY <3>1, <3>2, <3>3, <3>4 DEF OneLaunch, InStop
  <2> QED BY <2>2, <2>3, <2>4, <2>5, ServingEnds DEF FollowInductive
<1>4. CASE /\ status' = "starting" /\ follow' = t
           /\ launch' = [launch EXCEPT ![t] = "up"]
           /\ pc' = [pc EXCEPT ![t] = "start"] /\ queue' = Queued(t)
  <2>1. pc' \in [Task \cup {Main} -> Awaits] /\ pc'[t] = "start" /\ \A b \in Task \cup {Main} : b # t => pc'[b] = pc[b]
    BY <1>1, <1>4, PcAfter DEF Awaits
  <2>2. /\ launch' \in [Task -> {"none", "up", "gone"}] /\ launch'[t] = "up"
        /\ \A p \in Task : p # t => launch'[p] = launch[p]
    BY <1>1, <1>4 DEF FollowTypes
  <2>3. FollowTypes'
    BY <1>1, <1>2, <1>4, <2>1, <2>2 DEF FollowTypes
  <2>4. LockOK'
    BY <1>1, <1>4, LockTaken DEF InStop
  <2>5. ForkedFirst'
    BY <1>1, <2>1, <2>2 DEF ForkedFirst
  <2>6. ASSUME Serving' PROVE OneLaunch'
    <3>1. Serving /\ cancelled' = {} /\ pc'[Main] = "serve"
      BY <1>1, <2>1, <2>6, MainIsNoTask DEF Serving, Running, OneLaunch
    <3>2. \A p \in Task : Alive(p)' => p = t
      BY <2>2, <3>1 DEF Alive
    <3>3. \A p \in Task : follow' = p => pc'[p] = "start" /\ goal'[p].mode = mode'
      BY <1>2, <1>4, <2>1
    <3>4. \A u \in Task : u # t => pc'[u] \notin InStop
      BY <1>1, <2>1, Alone
    <3>5. \A u \in Task : pc'[u] \notin {"int", "reap", "read"}
      BY <2>1, <3>4 DEF InStop
    <3> QED BY <1>4, <2>1, <3>1, <3>2, <3>3, <3>5 DEF OneLaunch
  <2> QED BY <2>3, <2>4, <2>5, <2>6, ServingEnds DEF FollowInductive
<1> QED BY <1>3, <1>4 DEF Switch

\* Without a launch to stop nothing is alive: one that is starting holds the lock.
LEMMA NothingToStop ==
  ASSUME FollowInductive, NEW t \in Task, Entering(t), ~Stoppable, Serving
  PROVE  \A p \in Task : ~Alive(p)
<1> SUFFICES ASSUME NEW p \in Task, Alive(p) PROVE FALSE
  OBVIOUS
<1>1. follow = p /\ (handle[p] \/ pc[p] = "start")
  BY DEF FollowInductive, OneLaunch
<1>2. pc[p] = "start"
  BY <1>1, MainIsNoTask DEF Stoppable
<1>3. p = t
  BY <1>2, Alone DEF FollowInductive, InStop
<1> QED BY <1>2, <1>3 DEF Entering

\* The launch followed is asked to stop, or killed if it is gone.
LEMMA StopBegins ==
  ASSUME FollowInductive, NEW t \in Task, Entering(t), pc[t] \in {"idle", "wait"}, Stoppable, BeginStop(t),
         goal' \in [Task -> [client : Client \cup {Nobody}, mode : Mode]],
         \A u \in Task : u # t => goal'[u] = goal[u],
         UNCHANGED Unstopped
  PROVE  FollowInductive'
<1>1. FollowTypes /\ LockOK /\ ForkedFirst /\ OneLaunch
  BY DEF FollowInductive
<1>2. follow \in Task /\ handle[follow]
  BY <1>1 DEF FollowTypes, Stoppable
<1>3. PICK x \in {"int", "read"} :
        /\ pc' = [pc EXCEPT ![t] = x] /\ status' = "stopping" /\ target' = [target EXCEPT ![t] = follow]
        /\ queue' = Queued(t) /\ UNCHANGED <<mode, follow>>
        /\ \/ x = "int" /\ launch[follow] = "up" /\ asked' = [asked EXCEPT ![follow] = TRUE] /\ UNCHANGED <<launch, nodes>>
           \/ x = "read" /\ Killed(follow) /\ UNCHANGED asked
  BY DEF BeginStop
<1>4. UNCHANGED <<ready, driver, cancelled, stopped, handle>>
  BY DEF Unstopped
<1>5. pc' \in [Task \cup {Main} -> Awaits] /\ pc'[t] = x /\ \A b \in Task \cup {Main} : b # t => pc'[b] = pc[b]
  BY <1>1, <1>3, PcAfter DEF Awaits
<1>6. target' \in [Task \cup {Main} -> Task \cup {Nobody}] /\ target'[t] = follow
  BY <1>1, <1>2, <1>3 DEF FollowTypes
<1>7. asked' \in [Task -> BOOLEAN] /\ \A p \in Task : asked'[p] => asked[p] \/ launch[p] # "none"
  BY <1>1, <1>2, <1>3 DEF FollowTypes
<1>8. /\ launch' \in [Task -> {"none", "up", "gone"}] /\ nodes' \in [Task -> SUBSET {"follower", "detector"}]
      /\ \A p \in Task : launch'[p] = "none" => launch[p] = "none" /\ nodes'[p] \subseteq nodes[p]
      /\ \A p \in Task : Alive(p)' => Alive(p) /\ (x = "read" => p # follow)
  <2>1. CASE x = "int"
    BY <1>1, <1>3, <2>1 DEF FollowTypes, Alive
  <2>2. CASE x = "read"
    <3>1. Killed(follow)
      BY <1>3, <2>2
    <3> QED BY <1>1, <1>2, <2>2, <3>1, KilledOne, KilledAlive
  <2> QED BY <2>1, <2>2
<1>9. FollowTypes'
  BY <1>1, <1>3, <1>4, <1>5, <1>6, <1>7, <1>8 DEF FollowTypes
<1>10. LockOK'
  BY <1>1, <1>3, LockTaken DEF InStop
<1>11. ForkedFirst'
  BY <1>1, <1>4, <1>5, <1>7, <1>8, ForkedStays
<1>12. ASSUME Serving' PROVE OneLaunch'
  <2>1. Serving /\ cancelled' = {} /\ pc'[Main] = "serve"
    BY <1>1, <1>4, <1>5, <1>12, MainIsNoTask DEF Serving, Running, OneLaunch
  <2>2. \A p \in Task : follow = p => p # t /\ pc[p] \in {"start", "done"} /\ goal[p].mode = mode
    BY <1>1, <2>1 DEF OneLaunch
  <2>3. \A p \in Task : follow' = p => pc'[p] \in {"start", "done"} /\ goal'[p].mode = mode'
    BY <1>3, <1>5, <2>2
  <2>4. \A p \in Task : Alive(p) => follow = p /\ (handle[p] \/ pc[p] = "start")
    BY <1>1, <2>1 DEF OneLaunch
  <2>5. \A p \in Task : Alive(p)' => follow' = p /\ (handle'[p] \/ pc'[p] = "start")
    BY <1>3, <1>4, <1>5, <1>8, <2>2, <2>4
  <2>6. \A u \in Task : u # t => pc'[u] \notin InStop
    BY <1>1, <1>5, Alone
  <2>7. \A u \in Task : pc'[u] \in {"int", "reap", "read"} => target'[u] = follow'
    BY <1>3, <1>6, <2>6 DEF InStop
  <2>8. \A u \in Task : pc'[u] \in {"reap", "read"} => \A p \in Task : ~Alive(p)'
    BY <1>3, <1>5, <1>8, <2>4, <2>6 DEF InStop
  <2> QED BY <2>1, <2>3, <2>5, <2>7, <2>8 DEF OneLaunch
<1> QED BY <1>9, <1>10, <1>11, <1>12, ServingEnds DEF FollowInductive

-----------------------------------------------------------------------------
(* The steps of the tasks. *)

\* It ends, and leaves the launch as it was.
LEMMA LeaveKeeps ==
  ASSUME FollowInductive, NEW t \in Task, Leave(t), Serving => follow # t,
         goal' \in [Task -> [client : Client \cup {Nobody}, mode : Mode]],
         \A u \in Task : u # t => goal'[u] = goal[u],
         UNCHANGED <<mode, status, follow, target, launch, asked, nodes, Unstopped>>
  PROVE  FollowInductive'
<1>1. FollowTypes /\ LockOK /\ ForkedFirst /\ OneLaunch
  BY DEF FollowInductive
<1>2. pc' \in [Task \cup {Main} -> Awaits] /\ pc'[t] = "done" /\ \A b \in Task \cup {Main} : b # t => pc'[b] = pc[b]
  BY <1>1, PcAfter DEF Leave, Awaits
<1>3. FollowTypes'
  BY <1>1, <1>2 DEF FollowTypes, Unstopped
<1>4. LockOK'
  BY <1>1, LockLeft
<1>5. ForkedFirst'
  BY <1>1, <1>2 DEF ForkedFirst, Unstopped
<1>6. ASSUME Serving' PROVE OneLaunch'
  <2>1. Serving /\ cancelled' = {} /\ pc'[Main] = "serve"
    BY <1>1, <1>2, <1>6, MainIsNoTask DEF Serving, Running, OneLaunch, Unstopped
  <2>2. \A p \in Task : follow' = p => pc'[p] \in {"start", "done"} /\ goal'[p].mode = mode'
    BY <1>1, <1>2, <2>1 DEF OneLaunch
  <2>3. \A p \in Task : Alive(p)' => follow' = p /\ (handle'[p] \/ pc'[p] = "start")
    BY <1>1, <1>2, <2>1 DEF OneLaunch, Alive, Unstopped
  <2>4. \A u \in Task : pc'[u] \in {"int", "reap", "read"} => target'[u] = follow'
    BY <1>1, <1>2, <2>1 DEF OneLaunch
  <2>5. \A u \in Task : pc'[u] \in {"reap", "read"} => \A p \in Task : ~Alive(p)'
    BY <1>1, <1>2, <2>1 DEF OneLaunch, Alive
  <2> QED BY <2>1, <2>2, <2>3, <2>4, <2>5 DEF OneLaunch
<1> QED BY <1>3, <1>4, <1>5, <1>6, ServingEnds DEF FollowInductive

LEMMA EnterKeeps ==
  ASSUME FollowInductive, NEW t \in Task, Entering(t), pc[t] \in {"idle", "wait"}, Enter(t),
         goal' \in [Task -> [client : Client \cup {Nobody}, mode : Mode]],
         \A u \in Task : u # t => goal'[u] = goal[u],
         UNCHANGED Unstopped
  PROVE  FollowInductive'
<1>1. CASE Leave(t) /\ UNCHANGED <<mode, status, follow, target, launch, asked, nodes>>
  <2>1. Serving => follow # t
    BY DEF FollowInductive, OneLaunch
  <2> QED BY <1>1, <2>1, LeaveKeeps
<1>2. CASE BeginStop(t) /\ Stoppable
  BY <1>2, StopBegins
<1>3. CASE BeginStop(t) /\ ~Stoppable
  <2>1. Switch(t) /\ UNCHANGED <<target, asked, nodes>>
    BY <1>3, MainIsNoTask DEF BeginStop, Proceed
  <2>2. Serving => \A p \in Task : ~Alive(p)
    BY <1>3, NothingToStop
  <2>3. UNCHANGED <<nodes, handle, asked, target, ready, driver, stopped>> /\ cancelled' \subseteq cancelled
    BY <2>1 DEF Unstopped
  <2> QED BY <2>1, <2>2, <2>3, SwitchKeeps
<1> QED BY <1>1, <1>2, <1>3 DEF Enter

LEMMA RequestKeeps ==
  ASSUME FollowInductive, NEW t \in Task, NEW c \in Client, NEW m \in Mode, Request(t, c, m)
  PROVE  FollowInductive'
<1>1. FollowTypes /\ LockOK /\ ForkedFirst /\ OneLaunch
  BY DEF FollowInductive
<1>2. pc[t] = "idle" /\ UNCHANGED Unstopped /\ goal' = [goal EXCEPT ![t] = [client |-> c, mode |-> m]]
  BY DEF Request
<1>3. /\ goal' \in [Task -> [client : Client \cup {Nobody}, mode : Mode]]
      /\ \A u \in Task : u # t => goal'[u] = goal[u]
  BY <1>1, <1>2 DEF FollowTypes
<1>4. CASE queue = <<>> /\ Enter(t)
  BY <1>2, <1>3, <1>4, EnterKeeps DEF Entering
<1>5. CASE /\ queue # <<>> /\ queue' = Queued(t) /\ pc' = [pc EXCEPT ![t] = "wait"]
           /\ UNCHANGED <<mode, status, follow, target, launch, asked, nodes>>
  <2>1. UNCHANGED <<ready, driver, cancelled, stopped, handle>>
    BY <1>2 DEF Unstopped
  <2>2. pc' \in [Task \cup {Main} -> Awaits] /\ pc'[t] = "wait" /\ \A b \in Task \cup {Main} : b # t => pc'[b] = pc[b]
    BY <1>1, <1>5, PcAfter DEF Awaits
  <2>3. FollowTypes'
    BY <1>1, <1>3, <1>5, <2>1, <2>2 DEF FollowTypes
  <2>4. LockOK'
    BY <1>1, <1>2, <1>5, LockWaited
  <2>5. ForkedFirst'
    BY <1>1, <1>5, <2>1, <2>2 DEF ForkedFirst
  <2>6. ASSUME Serving' PROVE OneLaunch'
    <3>1. Serving /\ cancelled' = {} /\ pc'[Main] = "serve"
      BY <1>1, <2>1, <2>2, <2>6, MainIsNoTask DEF Serving, Running, OneLaunch
    <3>2. \A p \in Task : follow' = p => pc'[p] \in {"start", "done"} /\ goal'[p].mode = mode'
      BY <1>1, <1>2, <1>3, <1>5, <2>2, <3>1 DEF OneLaunch
    <3>3. \A p \in Task : Alive(p)' => follow' = p /\ (handle'[p] \/ pc'[p] = "start")
      BY <1>1, <1>2, <1>5, <2>1, <2>2, <3>1 DEF OneLaunch, Alive
    <3>4. \A u \in Task : pc'[u] \in {"int", "reap", "read"} => target'[u] = follow'
      BY <1>1, <1>5, <2>2, <3>1 DEF OneLaunch
    <3>5. \A u \in Task : pc'[u] \in {"reap", "read"} => \A p \in Task : ~Alive(p)'
      BY <1>1, <1>5, <2>2, <3>1 DEF OneLaunch, Alive
    <3> QED BY <3>1, <3>2, <3>3, <3>4, <3>5 DEF OneLaunch
  <2> QED BY <2>3, <2>4, <2>5, <2>6, ServingEnds DEF FollowInductive
<1> QED BY <1>4, <1>5 DEF Request

LEMMA WakeKeeps ==
  ASSUME FollowInductive, NEW t \in Task, Wake(t)
  PROVE  FollowInductive'
<1>1. FollowTypes /\ LockOK
  BY DEF FollowInductive
<1>2. queue # <<>>
  <2>1. t \in ToSet(queue)
    BY <1>1, LockSaid DEF Wake, Outside
  <2> QED BY <2>1 DEF ToSet
<1>3. Entering(t) /\ pc[t] = "wait" /\ UNCHANGED <<goal, Unstopped>> /\ Enter(t)
  BY <1>2 DEF Wake, Entering, Owns
<1>4. goal' \in [Task -> [client : Client \cup {Nobody}, mode : Mode]]
  BY <1>1, <1>3 DEF FollowTypes
<1> QED BY <1>3, <1>4, EnterKeeps

\* A task or serve() goes on with a launch it is stopping.
LEMMA StoppingKeeps ==
  ASSUME FollowInductive, NEW a \in Task \cup {Main}, NEW x \in {"reap", "read"},
         pc[a] \in {"int", "reap"}, pc' = [pc EXCEPT ![a] = x],
         Killed(target[a]) \/ (pc[a] = "reap" /\ UNCHANGED <<launch, nodes>>),
         UNCHANGED <<mode, status, follow, queue, target, goal, asked, Unstopped>>
  PROVE  FollowInductive'
<1>1. FollowTypes /\ LockOK /\ ForkedFirst /\ OneLaunch
  BY DEF FollowInductive
<1>2. UNCHANGED <<ready, driver, cancelled, stopped, handle>>
  BY DEF Unstopped
<1>3. pc' \in [Task \cup {Main} -> Awaits] /\ pc'[a] = x /\ \A b \in Task \cup {Main} : b # a => pc'[b] = pc[b]
  BY <1>1, PcAfter DEF Awaits
<1>4. target[a] \in Task \cup {Nobody}
  BY <1>1 DEF FollowTypes
<1>5. /\ launch' \in [Task -> {"none", "up", "gone"}] /\ nodes' \in [Task -> SUBSET {"follower", "detector"}]
      /\ \A p \in Task : launch'[p] = "none" => launch[p] = "none" /\ nodes'[p] \subseteq nodes[p]
      /\ \A p \in Task : Alive(p)' => Alive(p) /\ (pc[a] = "reap" \/ p # target[a])
  <2>1. CASE Killed(target[a])
    BY <1>1, <1>4, <2>1, KilledOne, KilledAlive
  <2>2. CASE pc[a] = "reap" /\ UNCHANGED <<launch, nodes>>
    BY <1>1, <2>2 DEF FollowTypes, Alive
  <2> QED BY <2>1, <2>2
<1>6. FollowTypes'
  BY <1>1, <1>2, <1>3, <1>5 DEF FollowTypes
<1>7. LockOK'
  BY <1>1, LockKept DEF InStop, Awaits
<1>8. ForkedFirst'
  BY <1>1, <1>2, <1>3, <1>5, ForkedStays
<1>9. ASSUME Serving' PROVE OneLaunch'
  <2>1. Serving
    BY <1>1, <1>2, <1>3, <1>9 DEF Serving, Running, FollowTypes
  <2>2. a \in Task /\ pc[Main] = "serve"
    BY <1>1, <2>1 DEF OneLaunch
  <2>3. cancelled' = {} /\ pc'[Main] = "serve"
    BY <1>1, <1>2, <1>3, <2>1, <2>2, MainIsNoTask DEF OneLaunch
  <2>4. \A p \in Task : ~Alive(p)'
    BY <1>1, <1>5, <2>1, <2>2 DEF OneLaunch
  <2>5. \A p \in Task : follow' = p => pc'[p] \in {"start", "done"} /\ goal'[p].mode = mode'
    BY <1>1, <1>3, <2>1 DEF OneLaunch
  <2>6. \A u \in Task : pc'[u] \in {"int", "reap", "read"} => target'[u] = follow'
    BY <1>1, <1>3, <2>1, <2>2 DEF OneLaunch
  <2> QED BY <2>3, <2>4, <2>5, <2>6 DEF OneLaunch
<1> QED BY <1>6, <1>7, <1>8, <1>9, ServingEnds DEF FollowInductive

\* Once serve() is shutting down, nothing is said of the launches.
LEMMA MainStopping ==
  ASSUME OneLaunch, pc[Main] \notin {"serve", "gone"}, UNCHANGED stopped
  PROVE  OneLaunch'
  BY ServingEnds DEF OneLaunch, Serving, Running

\* Serve() has stopped the launch.
LEMMA CleanKeeps ==
  ASSUME FollowInductive, pc[Main] \in {"read", "closing"}, Clean, cancelled' \subseteq cancelled,
         UNCHANGED <<goal, target, asked, nodes, ready, driver, stopped, handle>>
  PROVE  FollowInductive'
<1>1. FollowTypes /\ LockOK /\ ForkedFirst /\ OneLaunch
  BY DEF FollowInductive
<1>2. pc' \in [Task \cup {Main} -> Awaits] /\ \A b \in Task : pc'[b] = pc[b]
  BY <1>1, PcAfter, MainIsNoTask DEF Clean, Awaits
<1>3. FollowTypes'
  BY <1>1, <1>2 DEF FollowTypes, Clean
<1>4. LockOK'
  BY <1>1, LockKept, MainIsNoTask DEF Clean, Awaits
<1>5. ForkedFirst'
  BY <1>1, <1>2 DEF ForkedFirst, Clean
<1> QED BY <1>1, <1>3, <1>4, <1>5, MainStopping DEF FollowInductive

LEMMA DrainedKeeps ==
  ASSUME FollowInductive, NEW a \in Task \cup {Main}, Drained(a)
  PROVE  FollowInductive'
<1>1. /\ pc[a] = "read" /\ Proceed(a) /\ cancelled' \subseteq cancelled
      /\ UNCHANGED <<goal, ready, driver, stopped, target, asked, nodes, handle>>
  BY DEF Drained
<1>2. CASE a = Main
  BY <1>1, <1>2, CleanKeeps DEF Proceed
<1>3. CASE a # Main
  <2>1. a \in Task /\ Switch(a)
    BY <1>1, <1>3 DEF Proceed
  <2>2. Entering(a)
    BY <1>1, <2>1, LockSaid DEF FollowInductive, Entering, InStop
  <2>3. Serving => \A p \in Task : ~Alive(p)
    BY <1>1, <2>1 DEF FollowInductive, OneLaunch
  <2>4. goal' \in [Task -> [client : Client \cup {Nobody}, mode : Mode]]
    BY <1>1 DEF FollowInductive, FollowTypes
  <2> QED BY <1>1, <2>1, <2>2, <2>3, <2>4, SwitchKeeps
<1> QED BY <1>2, <1>3

LEMMA StoppingSteps ==
  ASSUME FollowInductive, NEW a \in Task \cup {Main}, Stopping(a)
  PROVE  FollowInductive'
<1>1. CASE Exited(a) \/ TimedOut(a) \/ Reaped(a)
  BY <1>1, StoppingKeeps DEF Exited, TimedOut, Reaped, KillsRest
<1> QED BY <1>1, DrainedKeeps DEF Stopping

\* The process of the launch is known from here on.
LEMMA StartedKeeps ==
  ASSUME FollowInductive, NEW t \in Task, Started(t)
  PROVE  FollowInductive'
<1>1. FollowTypes /\ LockOK /\ ForkedFirst /\ OneLaunch
  BY DEF FollowInductive
<1>2. /\ pc[t] = "start" /\ handle' = [handle EXCEPT ![t] = TRUE] /\ Leave(t)
      /\ UNCHANGED <<mode, status, follow, ready, driver, goal, target, cancelled, stopped, launch, asked, nodes>>
  BY DEF Started
<1>3. pc' \in [Task \cup {Main} -> Awaits] /\ pc'[t] = "done" /\ \A b \in Task \cup {Main} : b # t => pc'[b] = pc[b]
  BY <1>1, <1>2, PcAfter DEF Leave, Awaits
<1>4. handle' \in [Task -> BOOLEAN] /\ handle'[t] = TRUE /\ \A p \in Task : p # t => handle'[p] = handle[p]
  BY <1>1, <1>2 DEF FollowTypes
<1>5. FollowTypes'
  BY <1>1, <1>2, <1>3, <1>4 DEF FollowTypes
<1>6. LockOK'
  BY <1>1, <1>2, LockLeft
<1>7. ForkedFirst'
  BY <1>1, <1>2, <1>3, <1>4 DEF ForkedFirst
<1>8. ASSUME Serving' PROVE OneLaunch'
  <2>1. Serving /\ cancelled' = {} /\ pc'[Main] = "serve"
    BY <1>1, <1>2, <1>3, <1>8, MainIsNoTask DEF Serving, Running, OneLaunch
  <2>2. \A p \in Task : follow' = p => pc'[p] \in {"start", "done"} /\ goal'[p].mode = mode'
    BY <1>1, <1>2, <1>3, <2>1 DEF OneLaunch
  <2>3. \A p \in Task : Alive(p)' => follow' = p /\ (handle'[p] \/ pc'[p] = "start")
    BY <1>1, <1>2, <1>3, <1>4, <2>1 DEF OneLaunch, Alive
  <2>4. \A u \in Task : pc'[u] \in {"int", "reap", "read"} => target'[u] = follow'
    BY <1>1, <1>2, <1>3, <2>1 DEF OneLaunch
  <2>5. \A u \in Task : pc'[u] \in {"reap", "read"} => \A p \in Task : ~Alive(p)'
    BY <1>1, <1>2, <1>3, <2>1 DEF OneLaunch, Alive
  <2> QED BY <2>1, <2>2, <2>3, <2>4, <2>5 DEF OneLaunch
<1> QED BY <1>5, <1>6, <1>7, <1>8, ServingEnds DEF FollowInductive

\* Only a server that is stopping cancels its tasks.
LEMMA CancelKeeps ==
  ASSUME FollowInductive, NEW t \in Task, Cancel(t)
  PROVE  FollowInductive'
<1>1. FollowTypes /\ LockOK /\ ForkedFirst /\ OneLaunch
  BY DEF FollowInductive
<1>2. /\ t \in cancelled /\ Leave(t) /\ cancelled' = cancelled \ {t}
      /\ launch' = launch \/ launch' = [launch EXCEPT ![t] = "gone"]
      /\ UNCHANGED <<mode, status, follow, ready, driver, goal, target, stopped, handle, asked, nodes>>
  BY DEF Cancel
<1>3. pc' \in [Task \cup {Main} -> Awaits] /\ pc'[t] = "done" /\ \A b \in Task \cup {Main} : b # t => pc'[b] = pc[b]
  BY <1>1, <1>2, PcAfter DEF Leave, Awaits
<1>4. /\ launch' \in [Task -> {"none", "up", "gone"}]
      /\ \A p \in Task : launch'[p] = "none" => launch[p] = "none"
  BY <1>1, <1>2 DEF FollowTypes
<1>5. FollowTypes'
  BY <1>1, <1>2, <1>3, <1>4 DEF FollowTypes
<1>6. LockOK'
  BY <1>1, <1>2, LockLeft
<1>7. ForkedFirst'
  BY <1>1, <1>2, <1>3, <1>4, ForkedStays
<1>8. ~Serving'
  BY <1>1, <1>2, <1>3, MainIsNoTask DEF OneLaunch, Serving, Running
<1> QED BY <1>5, <1>6, <1>7, <1>8, ServingEnds DEF FollowInductive

-----------------------------------------------------------------------------
(* The steps of serve(), of the timers and of the world. *)

\* The lock and the awaits stay, and nothing comes alive that was not.
LEMMA OneLaunchStays ==
  ASSUME OneLaunch, UNCHANGED <<mode, follow, pc, goal, target, cancelled, handle>>,
         Serving' => Serving, \A p \in Task : Alive(p)' => Alive(p)
  PROVE  OneLaunch'
<1> SUFFICES ASSUME Serving' PROVE OneLaunch'
  BY ServingEnds
<1> QED BY DEF OneLaunch

LEMMA ShutdownKeeps ==
  ASSUME FollowInductive, Shutdown
  PROVE  FollowInductive'
<1>1. FollowTypes /\ LockOK /\ ForkedFirst
  BY DEF FollowInductive
<1>2. pc' \in [Task \cup {Main} -> Awaits] /\ \A b \in Task : pc'[b] = pc[b]
  BY <1>1, PcAfter, MainIsNoTask DEF Shutdown, Awaits
<1>3. cancelled' \subseteq Task
  BY <1>1, Contents DEF Shutdown, LockOK
<1>4. FollowTypes'
  BY <1>1, <1>2, <1>3 DEF FollowTypes, Shutdown, processes
<1>5. LockOK'
  BY <1>1, LockKept, MainIsNoTask DEF Shutdown, Awaits
<1>6. ForkedFirst'
  BY <1>1, <1>2 DEF ForkedFirst, Shutdown, processes
<1>7. ~Serving'
  BY DEF Shutdown, Serving
<1> QED BY <1>4, <1>5, <1>6, <1>7, ServingEnds DEF FollowInductive

LEMMA ClosedKeeps ==
  ASSUME FollowInductive, Closed
  PROVE  FollowInductive'
<1>1. FollowTypes /\ LockOK /\ ForkedFirst /\ OneLaunch
  BY DEF FollowInductive
<1>2. /\ pc[Main] = "closing" /\ BeginStop(Main)
      /\ UNCHANGED <<goal, ready, driver, cancelled, stopped, handle>>
  BY DEF Closed, Unstopped
<1>3. CASE ~Stoppable
  BY <1>2, <1>3, CleanKeeps DEF BeginStop, Proceed
<1>4. CASE Stoppable
  <2>1. follow \in Task
    BY <1>1, <1>4 DEF FollowTypes, Stoppable
  <2>2. PICK x \in {"int", "read"} :
          /\ pc' = [pc EXCEPT ![Main] = x] /\ status' = "stopping" /\ target' = [target EXCEPT ![Main] = follow]
          /\ UNCHANGED <<queue, mode, follow>>
          /\ \/ launch[follow] = "up" /\ asked' = [asked EXCEPT ![follow] = TRUE] /\ UNCHANGED <<launch, nodes>>
             \/ Killed(follow) /\ UNCHANGED asked
    BY <1>2, <1>4 DEF BeginStop, Queued
  <2>3. pc' \in [Task \cup {Main} -> Awaits] /\ \A b \in Task : pc'[b] = pc[b]
    BY <1>1, <2>2, PcAfter, MainIsNoTask DEF Awaits
  <2>4. target' \in [Task \cup {Main} -> Task \cup {Nobody}]
    BY <1>1, <2>1, <2>2 DEF FollowTypes
  <2>5. asked' \in [Task -> BOOLEAN] /\ \A p \in Task : asked'[p] => asked[p] \/ launch[p] # "none"
    BY <1>1, <2>1, <2>2 DEF FollowTypes
  <2>6. /\ launch' \in [Task -> {"none", "up", "gone"}] /\ nodes' \in [Task -> SUBSET {"follower", "detector"}]
        /\ \A p \in Task : launch'[p] = "none" => launch[p] = "none" /\ nodes'[p] \subseteq nodes[p]
    <3>1. CASE Killed(follow)
      BY <1>1, <2>1, <3>1, KilledOne
    <3>2. CASE UNCHANGED <<launch, nodes>>
      BY <1>1, <3>2 DEF FollowTypes
    <3> QED BY <2>2, <3>1, <3>2
  <2>7. FollowTypes'
    BY <1>1, <1>2, <2>2, <2>3, <2>4, <2>5, <2>6 DEF FollowTypes
  <2>8. LockOK'
    BY <1>1, <2>2, LockKept, MainIsNoTask DEF Awaits
  <2>9. ForkedFirst'
    BY <1>1, <1>2, <2>3, <2>5, <2>6, ForkedStays
  <2>10. OneLaunch'
    BY <1>1, <1>2, MainStopping
  <2> QED BY <2>7, <2>8, <2>9, <2>10 DEF FollowInductive
<1> QED BY <1>3, <1>4

\* The process of the web server is gone, whoever killed what before.
LEMMA GoneKeeps ==
  ASSUME FollowInductive, Gone, (Stoppable /\ Killed(follow)) \/ UNCHANGED <<launch, nodes>>
  PROVE  FollowInductive'
<1>1. FollowTypes /\ LockOK /\ ForkedFirst /\ OneLaunch
  BY DEF FollowInductive
<1>2. /\ pc' = [a \in DOMAIN pc |-> "gone"] /\ queue' = <<>> /\ cancelled' = {}
      /\ asked' = [p \in Task |-> Orphaned(p)]
      /\ UNCHANGED <<mode, status, follow, ready, driver, goal, target, stopped, handle>>
  BY DEF Gone
<1>3. pc' \in [Task \cup {Main} -> Awaits] /\ \A a \in Task \cup {Main} : pc'[a] = "gone"
  BY <1>1, <1>2 DEF FollowTypes, Awaits
<1>4. /\ launch' \in [Task -> {"none", "up", "gone"}] /\ nodes' \in [Task -> SUBSET {"follower", "detector"}]
      /\ \A p \in Task : launch'[p] = "none" => launch[p] = "none" /\ nodes'[p] \subseteq nodes[p]
  <2>1. CASE Stoppable /\ Killed(follow)
    BY <1>1, <2>1, KilledOne DEF FollowTypes, Stoppable
  <2>2. CASE UNCHANGED <<launch, nodes>>
    BY <1>1, <2>2 DEF FollowTypes
  <2> QED BY <2>1, <2>2
<1>5. \A p \in Task : Orphaned(p) \in BOOLEAN
  BY <1>1 DEF FollowTypes, Orphaned
<1>6. asked' \in [Task -> BOOLEAN]
  BY <1>2, <1>5
<1>7. FollowTypes'
  BY <1>1, <1>2, <1>3, <1>4, <1>6 DEF FollowTypes
<1>8. LockOK'
  <2>1. queue' \in Seq(Task) /\ Once(queue') /\ ToSet(queue') = {}
    BY <1>2 DEF Once, ToSet
  <2> QED BY <1>3, <2>1, LockSaidNext DEF Outside, InStop
<1>9. ForkedFirst'
  <2>1. \A p \in Task : asked'[p] <=> asked[p] \/ launch'[p] = "up"
    BY <1>1, <1>2 DEF Orphaned, FollowTypes
  <2> QED BY <1>1, <1>2, <1>3, <1>4, <2>1 DEF ForkedFirst
<1>10. ~Serving'
  BY <1>3 DEF Serving, Running
<1> QED BY <1>7, <1>8, <1>9, <1>10, ServingEnds DEF FollowInductive

LEMMA TerminateKeeps ==
  ASSUME FollowInductive, Terminate
  PROVE  FollowInductive'
<1>1. FollowTypes /\ LockOK /\ ForkedFirst /\ OneLaunch
  BY DEF FollowInductive
<1>2. /\ stopped' = TRUE
      /\ UNCHANGED <<mode, status, follow, ready, driver, queue, pc, goal, target, cancelled, handle, asked>>
  BY DEF Terminate
<1>3. /\ launch' \in [Task -> {"none", "up", "gone"}] /\ nodes' \in [Task -> SUBSET {"follower", "detector"}]
      /\ \A p \in Task : launch'[p] = "none" => launch[p] = "none" /\ nodes'[p] \subseteq nodes[p]
  <2>1. CASE Stoppable /\ Killed(follow)
    BY <1>1, <2>1, KilledOne DEF FollowTypes, Stoppable
  <2>2. CASE UNCHANGED <<launch, nodes>>
    BY <1>1, <2>2 DEF FollowTypes
  <2> QED BY <2>1, <2>2 DEF Terminate
<1>4. FollowTypes'
  BY <1>1, <1>2, <1>3 DEF FollowTypes
<1>5. LockOK' /\ ForkedFirst'
  BY <1>1, <1>2, <1>3, LockStays, ForkedStays
<1>6. ~Serving'
  BY <1>2 DEF Serving
<1> QED BY <1>4, <1>5, <1>6, ServingEnds DEF FollowInductive

\* A node starts only of a launch that is alive.
LEMMA NodeStartsKeeps ==
  ASSUME FollowInductive, NEW p \in Task, NEW n \in {"follower", "detector"}, NodeStarts(p, n)
  PROVE  FollowInductive'
<1>1. FollowTypes /\ LockOK /\ ForkedFirst /\ OneLaunch
  BY DEF FollowInductive
<1>2. /\ launch[p] = "up" /\ nodes' = [nodes EXCEPT ![p] = nodes[p] \cup {n}]
      /\ UNCHANGED <<mode, status, follow, ready, driver, queue, pc, goal, target, cancelled, stopped, launch,
                     handle, asked>>
  BY DEF NodeStarts, web
<1>3. /\ nodes' \in [Task -> SUBSET {"follower", "detector"}]
      /\ \A q \in Task : q # p => nodes'[q] = nodes[q]
  BY <1>1, <1>2 DEF FollowTypes
<1>4. FollowTypes'
  BY <1>1, <1>2, <1>3 DEF FollowTypes
<1>5. ForkedFirst'
  BY <1>1, <1>2, <1>3 DEF ForkedFirst
<1>6. LockOK'
  BY <1>1, <1>2, LockStays
<1>7. \A q \in Task : Alive(q)' => Alive(q)
  BY <1>2, <1>3 DEF Alive
<1>8. OneLaunch'
  BY <1>1, <1>2, <1>7, OneLaunchStays DEF Serving, Running
<1> QED BY <1>4, <1>5, <1>6, <1>8 DEF FollowInductive

LEMMA LaunchEndsKeeps ==
  ASSUME FollowInductive, NEW p \in Task, LaunchExits(p) \/ LaunchDies(p)
  PROVE  FollowInductive'
<1>1. FollowTypes /\ LockOK /\ ForkedFirst /\ OneLaunch
  BY DEF FollowInductive
<1>2. /\ UNCHANGED <<mode, status, follow, ready, driver, queue, pc, goal, target, cancelled, stopped, handle, asked>>
      /\ Killed(p) \/ (launch' = [launch EXCEPT ![p] = "gone"] /\ UNCHANGED nodes)
  BY DEF LaunchExits, LaunchDies, web
<1>3. /\ launch' \in [Task -> {"none", "up", "gone"}] /\ nodes' \in [Task -> SUBSET {"follower", "detector"}]
      /\ \A q \in Task : launch'[q] = "none" => launch[q] = "none" /\ nodes'[q] \subseteq nodes[q]
      /\ \A q \in Task : Alive(q)' => Alive(q)
  <2>1. CASE Killed(p)
    BY <1>1, <2>1, KilledOne, KilledAlive
  <2>2. CASE launch' = [launch EXCEPT ![p] = "gone"] /\ UNCHANGED nodes
    BY <1>1, <2>2 DEF FollowTypes, Alive
  <2> QED BY <1>2, <2>1, <2>2
<1>4. FollowTypes'
  BY <1>1, <1>2, <1>3 DEF FollowTypes
<1>5. LockOK' /\ ForkedFirst'
  BY <1>1, <1>2, <1>3, LockStays, ForkedStays
<1>6. OneLaunch'
  BY <1>1, <1>2, <1>3, OneLaunchStays DEF Serving, Running
<1> QED BY <1>4, <1>5, <1>6 DEF FollowInductive

\* What the pages are shown, who drives, and the signals.
LEMMA ShownKeeps ==
  ASSUME FollowInductive, GraphTimer \/ Telemetry \/ DriverChanges \/ Stop \/ UNCHANGED vars
  PROVE  FollowInductive'
<1>1. FollowTypes /\ LockOK /\ ForkedFirst /\ OneLaunch
  BY DEF FollowInductive
<1>2. /\ UNCHANGED <<mode, follow, queue, pc, goal, target, cancelled, launch, handle, asked, nodes>>
      /\ stopped' \in {stopped, TRUE}
  BY DEF GraphTimer, Telemetry, DriverChanges, Stop, vars, web, processes
<1>3. ready' \subseteq {"follower", "detector"}
  <2>1. ready' = ready \/ ready' = UNION {nodes[p] : p \in Task}
    BY DEF GraphTimer, Telemetry, DriverChanges, Stop, vars
  <2>2. ready \subseteq {"follower", "detector"} /\ \A p \in Task : nodes[p] \subseteq {"follower", "detector"}
    BY <1>1 DEF FollowTypes
  <2>3. UNION {nodes[p] : p \in Task} \subseteq {"follower", "detector"}
    BY ONLY <2>2
  <2> QED BY ONLY <2>1, <2>2, <2>3
<1>4. status' \in {"ready", "starting", "running", "stopping", "failed"} /\ driver' \in Client \cup {Nobody}
  BY <1>1 DEF GraphTimer, Telemetry, DriverChanges, Stop, vars, web, FollowTypes
<1>5. FollowTypes'
  BY <1>1, <1>2, <1>3, <1>4 DEF FollowTypes
<1>6. LockOK' /\ ForkedFirst'
  BY <1>1, <1>2, LockStays DEF ForkedFirst
<1>7. \A p \in Task : Alive(p)' => Alive(p)
  BY <1>2 DEF Alive
<1>8. Serving' => Serving
  <2>1. stopped \in BOOLEAN /\ (stopped => stopped') /\ pc' = pc
    BY <1>1, <1>2 DEF FollowTypes
  <2> QED BY <2>1 DEF Serving, Running
<1>9. OneLaunch'
  BY <1>1, <1>2, <1>7, <1>8, OneLaunchStays
<1> QED BY <1>5, <1>6, <1>9 DEF FollowInductive

-----------------------------------------------------------------------------

LEMMA FollowStarts == Init => FollowInductive
<1> SUFFICES ASSUME Init PROVE FollowInductive
  OBVIOUS
<1> USE ConstantsAssumption DEF Init
<1>1. pc \in [Task \cup {Main} -> Awaits] /\ pc[Main] = "serve" /\ \A t \in Task : pc[t] = "idle"
  BY DEF Awaits
<1>2. goal \in [Task -> [client : Client \cup {Nobody}, mode : Mode]]
  OBVIOUS
<1>3. FollowTypes
  BY <1>1, <1>2 DEF FollowTypes
<1>4. queue \in Seq(Task) /\ Once(queue) /\ ToSet(queue) = {}
  BY DEF Once, ToSet
<1>5. LockOK
  BY <1>1, <1>4 DEF LockOK
<1>6. ForkedFirst
  BY <1>1 DEF ForkedFirst
<1>7. OneLaunch
  BY <1>1 DEF OneLaunch, Alive
<1> QED BY <1>3, <1>5, <1>6, <1>7 DEF FollowInductive

LEMMA FollowSteps ==
  ASSUME FollowInductive, [Next]_vars
  PROVE  FollowInductive'
<1>1. CASE \E t \in Task, c \in Client, m \in Mode : Request(t, c, m)
  BY <1>1, RequestKeeps
<1>2. CASE \E t \in Task : TaskStep(t)
  BY <1>2, WakeKeeps, StoppingSteps, StartedKeeps, CancelKeeps DEF TaskStep
<1>3. CASE MainStep
  BY <1>3, ShutdownKeeps, ClosedKeeps, StoppingSteps, GoneKeeps DEF MainStep, Exit
<1>4. CASE World
  BY <1>4, LaunchEndsKeeps, NodeStartsKeeps, ShownKeeps, TerminateKeeps, GoneKeeps DEF World, Crash
<1> QED BY <1>1, <1>2, <1>3, <1>4, ShownKeeps DEF Next

\* mode_lock orders the switches, and what is alive is what its last holder started.
THEOREM FollowInductiveHolds == Spec => []FollowInductive
  BY FollowStarts, FollowSteps, PTL DEF Spec

\* Until the server shuts down, what is alive belongs to the launch of the mode the pages
\* show: change_mode stops the old launch, with all its group, before it starts the next.
THEOREM FollowIsSafe == Spec => []FollowSafety
<1>1. FollowInductive => FollowSafety
  <2> SUFFICES ASSUME FollowInductive PROVE FollowSafety
    OBVIOUS
  <2>1. FollowTypes /\ LockOK /\ ForkedFirst /\ OneLaunch
    BY DEF FollowInductive
  <2>2. TypeOK
    BY <2>1 DEF FollowTypes, LockOK, ForkedFirst, TypeOK, Owns
  <2>3. OnlyCurrent
    BY <2>1 DEF OneLaunch, OnlyCurrent, Serving
  <2> QED BY <2>2, <2>3 DEF FollowSafety
<1> QED BY <1>1, FollowInductiveHolds, PTL
=============================================================================
