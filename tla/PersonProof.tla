------------------------------ MODULE PersonProof ------------------------------
(***************************************************************************)
(* Proofs about PersonDetector and TargetFollower.                         *)
(*                                                                         *)
(* What the gallery holds, the gesture that fills it, whom the detector    *)
(* finds with it, and what the pages hear: for any number of people with   *)
(* any looks, any thresholds and any timeouts.  And the follower's base    *)
(* moves for a target seen a moment ago, or for a search that ends,        *)
(* however the target and the transforms come and go.                      *)
(***************************************************************************)
EXTENDS PersonDetector, TargetFollower, SequenceTheorems, TLAPS

-----------------------------------------------------------------------------
(* PersonDetector *)

GalleryType == gallery \in [enrolled : SUBSET Embedding, recent : Seq(Embedding)]

\* The detector's clock of the gesture and what really happened: it has counted at least as
\* long as hands have been held up without a gap it does not forgive.
GestureTimed ==
  /\ quiet = lastUp
  /\ held \in {Never} \cup 0..EnrollDuration + 1
  /\ held # Never /\ quiet <= Forgive => start # Never /\ held <= start

\* Only a page that asked has a request, or is told anything.
ToldWhoAsked == \A p \in Page : told[p] # "nothing" \/ request[p] # "none" => asked[p] # "nothing"

PersonInductive ==
  PersonTypeOK /\ GalleryType /\ NothingOfBefore /\ GestureTimed /\ GestureEnrols /\ ToldWhoAsked

-----------------------------------------------------------------------------
(* The gallery. *)

LEMMA LooksAreNumbers == \A e \in Embedding : e.look \in Int
  BY PersonAssumption DEF Embedding

\* Who looks as on the day of the enrolment is alike to it.
LEMMA SelfIsAlike ==
  ASSUME NEW g, NEW e \in Embedding, e \in g.enrolled
  PROVE  Alike(g, e, Match)
<1>1. Apart(e, e) = 0
  BY LooksAreNumbers DEF Apart
<1> QED BY <1>1, PersonAssumption DEF Alike, Stored

LEMMA EnrolledGallery ==
  ASSUME NEW looks \in SUBSET Embedding
  PROVE  /\ Enrolled(looks) \in [enrolled : SUBSET Embedding, recent : Seq(Embedding)]
         /\ Enrolled(looks).enrolled = looks /\ Enrolled(looks).recent = <<>>
  BY DEF Enrolled

LEMMA NothingInEmpty == ToSet(<<>>) = {} /\ Len(<<>>) = 0
  BY DEF ToSet

\* A tail has nothing its sequence does not have.
LEMMA TailContents ==
  ASSUME NEW s \in Seq(Embedding), s # <<>>
  PROVE  /\ Tail(s) \in Seq(Embedding) /\ Len(Tail(s)) = Len(s) - 1
         /\ ToSet(Tail(s)) \subseteq ToSet(s)
<1>1. /\ Tail(s) \in Seq(Embedding) /\ Len(Tail(s)) = Len(s) - 1 /\ Len(s) \in Nat
      /\ \A i \in 1..Len(Tail(s)) : Tail(s)[i] = s[i + 1]
  BY HeadTailProperties
<1>2. \A i \in 1..Len(Tail(s)) : i + 1 \in 1..Len(s)
  BY <1>1
<1>3. DOMAIN s = 1..Len(s) /\ DOMAIN Tail(s) = 1..Len(Tail(s))
  BY <1>1
<1> QED BY <1>1, <1>2, <1>3 DEF ToSet

LEMMA AppendContents ==
  ASSUME NEW s \in Seq(Embedding), NEW e \in Embedding
  PROVE  /\ Append(s, e) \in Seq(Embedding) /\ Append(s, e) # <<>> /\ Len(Append(s, e)) = Len(s) + 1
         /\ ToSet(Append(s, e)) \subseteq ToSet(s) \cup {e}
<1>1. /\ Append(s, e) \in Seq(Embedding) /\ Append(s, e) # <<>> /\ Len(Append(s, e)) = Len(s) + 1
      /\ \A i \in 1..Len(s) : Append(s, e)[i] = s[i]
      /\ Append(s, e)[Len(s) + 1] = e /\ Len(s) \in Nat
  BY AppendProperties
<1>2. DOMAIN s = 1..Len(s) /\ DOMAIN Append(s, e) = 1..Len(s) + 1
  BY <1>1
<1>3. \A i \in 1..Len(s) + 1 : i \in 1..Len(s) \/ i = Len(s) + 1
  BY <1>1
<1> QED BY <1>1, <1>2, <1>3 DEF ToSet

\* Learning keeps the enrolment, and adds one look at most to what is not older than it.
LEMMA LearnedGallery ==
  ASSUME NEW g \in [enrolled : SUBSET Embedding, recent : Seq(Embedding)], Len(g.recent) <= RecentSize,
         NEW e \in Embedding
  PROVE  /\ Learned(g, e) \in [enrolled : SUBSET Embedding, recent : Seq(Embedding)]
         /\ Learned(g, e).enrolled = g.enrolled
         /\ Len(Learned(g, e).recent) <= RecentSize
         /\ ToSet(Learned(g, e).recent) \subseteq ToSet(g.recent) \cup {e}
<1> DEFINE all == Append(g.recent, e)
           kept == IF Len(all) > RecentSize THEN Tail(all) ELSE all
<1>1. /\ all \in Seq(Embedding) /\ all # <<>> /\ Len(all) = Len(g.recent) + 1
      /\ ToSet(all) \subseteq ToSet(g.recent) \cup {e}
  BY AppendContents
<1>2. /\ Tail(all) \in Seq(Embedding) /\ Len(Tail(all)) = Len(all) - 1 /\ ToSet(Tail(all)) \subseteq ToSet(all)
  BY <1>1, TailContents
<1>3. Len(g.recent) \in Nat /\ RecentSize \in Nat
  BY PersonAssumption, LenProperties
<1>4. kept \in Seq(Embedding) /\ Len(kept) <= RecentSize /\ ToSet(kept) \subseteq ToSet(g.recent) \cup {e}
  <2>1. CASE Len(all) > RecentSize
    BY <1>1, <1>2, <1>3, <2>1
  <2>2. CASE ~(Len(all) > RecentSize)
    BY <1>1, <1>3, <2>2
  <2> QED BY <2>1, <2>2
<1>5. Learned(g, e) = [g EXCEPT !.recent = kept]
  BY DEF Learned
<1> HIDE DEF kept
<1>6. Learned(g, e).recent = kept /\ Learned(g, e).enrolled = g.enrolled
  BY <1>5
<1>7. Learned(g, e) \in [enrolled : SUBSET Embedding, recent : Seq(Embedding)]
  BY <1>4, <1>5
<1> QED BY <1>4, <1>6, <1>7

-----------------------------------------------------------------------------
(* An image. *)

\* Whatever update_enrollment comes to: the clock runs while hands are up, and an enrolment
\* starts the gallery anew.
LEMMA Enrollments ==
  ASSUME PersonInductive, NEW raised \in SUBSET Embedding, NEW out \in UpdateEnrollment(raised)
  PROVE  /\ out.start \in {Never} \cup 0..EnrollDuration + 1 /\ out.lastUp \in 0..Forgive + 1
         /\ out.gathered \in SUBSET Embedding /\ out.enrols \in BOOLEAN
         /\ out.enrols => raised # {} /\ out.start = Never /\ out.gallery = Enrolled(out.gathered)
         /\ ~out.enrols => out.gallery = gallery
         /\ raised # {} => out.lastUp = 0
         /\ raised # {} /\ ~out.enrols =>
              /\ out.start \in 0..EnrollDuration /\ out.start < EnrollDuration
              /\ start # Never => out.start = start
         /\ raised = {} => out.lastUp = lastUp /\ (out.start = start \/ (lastUp > Forgive /\ out.start = Never))
<1> USE PersonAssumption
<1>1. /\ start \in {Never} \cup 0..EnrollDuration + 1 /\ lastUp \in 0..Forgive + 1 /\ gathered \subseteq Embedding
  BY DEF PersonInductive, PersonTypeOK
<1>2. CASE raised = {}
  <2>1. out = [start |-> IF start # Never /\ Cancelled THEN Never ELSE start, lastUp |-> lastUp,
               gathered |-> gathered, gallery |-> gallery, enrols |-> FALSE]
    BY <1>2 DEF UpdateEnrollment
  <2>2. out.enrols = FALSE /\ out.gallery = gallery /\ out.gathered = gathered /\ out.lastUp = lastUp
    BY <2>1
  <2>3. out.start = IF start # Never /\ Cancelled THEN Never ELSE start
    BY <2>1
  <2> QED BY <1>1, <1>2, <2>2, <2>3 DEF Cancelled
<1>3. CASE raised # {}
  <2> DEFINE since == IF start = Never THEN 0 ELSE start
             enrols == since >= EnrollDuration
             looks == [p \in raised |-> {p} \cup (IF start = Never THEN {} ELSE gathered)]
  <2>1. PICK p \in raised :
          out = [start |-> IF enrols THEN Never ELSE since, lastUp |-> 0, gathered |-> looks[p],
                 gallery |-> IF enrols THEN Enrolled(looks[p]) ELSE gallery, enrols |-> enrols]
    BY <1>3 DEF UpdateEnrollment
  <2>2. looks[p] \in SUBSET Embedding
    BY <1>1
  <2>3. since \in 0..EnrollDuration + 1
    BY <1>1 DEF Never
  <2>4. /\ out.start = (IF enrols THEN Never ELSE since) /\ out.lastUp = 0 /\ out.gathered = looks[p]
        /\ out.gallery = (IF enrols THEN Enrolled(looks[p]) ELSE gallery)
    BY <2>1
  <2>5. out.enrols = enrols
    BY <2>1
  <2>8. 0 \in 0..Forgive + 1
    OBVIOUS
  <2>6. CASE enrols
    <3>1. out.enrols = TRUE
      BY ONLY <2>5, <2>6
    <3>2. out.start = Never /\ out.lastUp = 0 /\ out.gathered = looks[p] /\ out.gallery = Enrolled(looks[p])
      BY <2>4, <2>6
    <3> HIDE DEF looks
    <3> QED BY ONLY <1>3, <2>2, <2>8, <3>1, <3>2
  <2>7. CASE ~enrols
    <3>1. out.enrols = FALSE
      <4>1. enrols = FALSE
        BY <2>3, <2>7
      <4> HIDE DEF enrols
      <4> QED BY <2>5, <4>1
    <3>2. out.start = since /\ out.lastUp = 0 /\ out.gathered = looks[p] /\ out.gallery = gallery
      BY <2>4, <2>7
    <3>3. since \in 0..EnrollDuration /\ since < EnrollDuration
      BY <2>3, <2>7
    <3>4. start # Never => since = start
      OBVIOUS
    <3>5. since \in {Never} \cup 0..EnrollDuration + 1
      BY <2>3
    <3> HIDE DEF looks, since
    <3> QED BY ONLY <1>3, <2>2, <2>8, <3>1, <3>2, <3>3, <3>4, <3>5
  <2> QED BY <2>6, <2>7
<1> QED BY <1>2, <1>3

\* A gallery of at most recent_size looks, learned since the enrolment of somebody.
GalleryOK(g, since) ==
  /\ g \in [enrolled : SUBSET Embedding, recent : Seq(Embedding)]
  /\ Len(g.recent) <= RecentSize
  /\ g.enrolled = {} => g.recent = <<>>
  /\ ToSet(g.recent) \subseteq since

LEMMA EnrolledIsOK ==
  ASSUME NEW looks \in SUBSET Embedding, NEW since
  PROVE  GalleryOK(Enrolled(looks), since)
  BY EnrolledGallery, NothingInEmpty, PersonAssumption DEF GalleryOK

LEMMA GalleryParts == PersonInductive => GalleryOK(gallery, fresh)
  BY DEF PersonInductive, PersonTypeOK, GalleryType, NothingOfBefore, GalleryOK

LEMMA FrameGallery ==
  ASSUME PersonInductive, NEW seen \in Groups, NEW raised \in SUBSET seen, Frame(seen, raised)
  PROVE  GalleryOK(gallery', fresh') /\ target' \subseteq seen
<1>1. seen \in SUBSET Embedding /\ raised \in SUBSET Embedding
  BY DEF Groups
<1> DEFINE kept(out) == IF out.enrols THEN {} ELSE fresh
<1>2. PICK out \in UpdateEnrollment(raised) :
        /\ \/ target' = {} /\ gallery' = out.gallery
           \/ \E p \in Best(Candidates(seen, out.gallery), out.gallery) :
                /\ target' = {p}
                /\ gallery' = IF Learns(p, Candidates(seen, out.gallery), out.gallery)
                              THEN Learned(out.gallery, p) ELSE out.gallery
        /\ fresh' = kept(out) \cup (IF gallery' = out.gallery THEN {} ELSE target')
  BY DEF Frame
<1> HIDE DEF kept
<1>3. GalleryOK(out.gallery, kept(out))
  <2>1. CASE out.enrols
    BY <1>1, <2>1, Enrollments, EnrolledIsOK
  <2>2. CASE ~out.enrols
    BY <1>1, <2>2, Enrollments, GalleryParts DEF kept
  <2> QED BY <2>1, <2>2
<1>4. CASE target' = {} /\ gallery' = out.gallery
  BY <1>2, <1>3, <1>4 DEF GalleryOK
<1>5. ASSUME NEW p \in Best(Candidates(seen, out.gallery), out.gallery), target' = {p},
             gallery' = IF Learns(p, Candidates(seen, out.gallery), out.gallery)
                        THEN Learned(out.gallery, p) ELSE out.gallery
      PROVE  GalleryOK(gallery', fresh') /\ target' \subseteq seen
  <2>1. p \in seen /\ out.gallery.enrolled # {} /\ p \in Embedding
    BY <1>1 DEF Best, Candidates
  <2>2. CASE gallery' = out.gallery
    BY <1>2, <1>3, <1>5, <2>1, <2>2 DEF GalleryOK
  <2>3. CASE gallery' # out.gallery
    <3>1. gallery' = Learned(out.gallery, p) /\ fresh' = kept(out) \cup {p}
      BY <1>2, <1>5, <2>3
    <3>2. /\ gallery' \in [enrolled : SUBSET Embedding, recent : Seq(Embedding)]
          /\ gallery'.enrolled = out.gallery.enrolled /\ Len(gallery'.recent) <= RecentSize
          /\ ToSet(gallery'.recent) \subseteq ToSet(out.gallery.recent) \cup {p}
      BY <1>3, <2>1, <3>1, LearnedGallery DEF GalleryOK
    <3> QED BY <1>3, <1>5, <2>1, <3>1, <3>2 DEF GalleryOK
  <2> QED BY <2>2, <2>3
<1> QED BY <1>2, <1>4, <1>5

\* While hands are up the clock runs as long as they were held up, or the person is enrolled.
LEMMA FrameGesture ==
  ASSUME PersonInductive, NEW seen \in Groups, NEW raised \in SUBSET seen, Frame(seen, raised)
  PROVE  /\ GestureTimed' /\ GestureEnrols'
         /\ start' \in {Never} \cup 0..EnrollDuration + 1 /\ lastUp' \in 0..Forgive + 1
         /\ gathered' \subseteq Embedding
<1> USE PersonAssumption
<1>1. raised \in SUBSET Embedding
  BY DEF Groups
<1>2. PICK out \in UpdateEnrollment(raised) :
        /\ start' = out.start /\ lastUp' = out.lastUp /\ gathered' = out.gathered
        /\ held' = IF out.enrols THEN Never
                   ELSE IF raised # {} /\ (held = Never \/ quiet > Forgive) THEN 0 ELSE held
        /\ quiet' = IF raised # {} THEN 0 ELSE quiet
  BY DEF Frame
<1>3. /\ out.start \in {Never} \cup 0..EnrollDuration + 1 /\ out.lastUp \in 0..Forgive + 1
      /\ out.gathered \in SUBSET Embedding
      /\ out.enrols => raised # {} /\ out.start = Never
      /\ raised # {} => out.lastUp = 0
      /\ raised # {} /\ ~out.enrols =>
           /\ out.start \in 0..EnrollDuration /\ out.start < EnrollDuration
           /\ start # Never => out.start = start
      /\ raised = {} => out.lastUp = lastUp /\ (out.start = start \/ (lastUp > Forgive /\ out.start = Never))
  BY <1>1, Enrollments
<1>4. /\ quiet = lastUp /\ held \in {Never} \cup 0..EnrollDuration + 1 /\ lastUp \in 0..Forgive + 1
      /\ held # Never /\ quiet <= Forgive => start # Never /\ held <= start
      /\ quiet = 0 => held < EnrollDuration
  BY DEF PersonInductive, PersonTypeOK, GestureTimed, GestureEnrols
<1>5. start' \in {Never} \cup 0..EnrollDuration + 1 /\ lastUp' \in 0..Forgive + 1 /\ gathered' \subseteq Embedding
  BY <1>2, <1>3
<1>6. CASE raised = {}
  <2>1. start' = start \/ (lastUp > Forgive /\ start' = Never)
    BY <1>2, <1>3, <1>6
  <2>2. quiet' = quiet /\ held' = held /\ lastUp' = lastUp
    BY <1>2, <1>3, <1>6
  <2>3. GestureTimed' /\ GestureEnrols'
    BY <1>4, <2>1, <2>2 DEF GestureTimed, GestureEnrols, Never
  <2> QED BY <1>5, <2>3
<1>7. CASE raised # {} /\ out.enrols
  <2>1. quiet' = 0 /\ held' = Never /\ lastUp' = 0
    BY <1>2, <1>3, <1>7
  <2>2. GestureTimed' /\ GestureEnrols'
    BY <2>1 DEF GestureTimed, GestureEnrols, Never
  <2> QED BY <1>5, <2>2
<1>8. CASE raised # {} /\ ~out.enrols
  <2>1. quiet' = 0 /\ lastUp' = 0 /\ start' \in 0..EnrollDuration /\ start' < EnrollDuration
    BY <1>2, <1>3, <1>8
  <2>2. held' \in 0..EnrollDuration + 1 /\ held' <= start'
    <3>1. CASE held = Never \/ quiet > Forgive
      <4>1. held' = 0
        BY ONLY <1>2, <1>8, <3>1
      <4> QED BY <2>1, <4>1
    <3>2. CASE held # Never /\ ~(quiet > Forgive)
      <4>1. start # Never /\ held <= start
        BY <1>4, <3>2
      <4> QED BY <1>2, <1>3, <1>4, <1>8, <2>1, <3>2, <4>1
    <3> QED BY <3>1, <3>2
  <2>3. GestureTimed' /\ GestureEnrols'
    BY <2>1, <2>2 DEF GestureTimed, GestureEnrols, Never
  <2> QED BY <1>5, <2>3
<1> QED BY <1>6, <1>7, <1>8

-----------------------------------------------------------------------------
(* The steps. *)

\* The part of the invariant that a step of the requests does not touch, and its own.
DetectorOK ==
  /\ up \in BOOLEAN /\ mode \in BOOLEAN /\ calibrated \in BOOLEAN
  /\ start \in {Never} \cup 0..EnrollDuration + 1 /\ lastUp \in 0..Forgive + 1
  /\ gathered \subseteq Embedding /\ people \in Groups /\ target \subseteq people
  /\ GestureTimed /\ GestureEnrols

RequestsOK ==
  /\ asked \in [Page -> {"nothing", "enroll", "forget"}]
  /\ request \in [Page -> {"none", "sent", "yes", "no", "gone"}] /\ waited \in [Page -> 0..Patience + 1]
  /\ told \in [Page -> {"nothing", "success", "failure", "refused", "no answer"}]
  /\ ToldWhoAsked

\* What the type invariant says of the gallery, said of its parts.
LEMMA GalleryFields ==
  ASSUME NEW g \in [enrolled : SUBSET Embedding, recent : Seq(Embedding)]
  PROVE  g.enrolled \subseteq Embedding /\ ToSet(g.recent) \subseteq Embedding
<1>1. g.enrolled \in SUBSET Embedding /\ g.recent \in Seq(Embedding)
  OBVIOUS
<1>2. \A i \in DOMAIN g.recent : g.recent[i] \in Embedding
  BY <1>1, ElementOfSeq
<1> QED BY <1>1, <1>2 DEF ToSet

LEMMA PersonSplits == PersonInductive <=> DetectorOK /\ RequestsOK /\ GalleryOK(gallery, fresh)
<1>1. GalleryOK(gallery, fresh) => gallery.enrolled \subseteq Embedding /\ ToSet(gallery.recent) \subseteq Embedding
  BY GalleryFields DEF GalleryOK
<1> QED BY <1>1 DEF PersonInductive, DetectorOK, RequestsOK, GalleryOK, PersonTypeOK, GalleryType, NothingOfBefore

LEMMA PersonSplitsNext == PersonInductive' <=> DetectorOK' /\ RequestsOK' /\ GalleryOK(gallery', fresh')
<1>1. GalleryOK(gallery', fresh') => gallery'.enrolled \subseteq Embedding /\ ToSet(gallery'.recent) \subseteq Embedding
  BY GalleryFields DEF GalleryOK
<1> QED BY <1>1 DEF PersonInductive, DetectorOK, RequestsOK, GalleryOK, PersonTypeOK, GalleryType, NothingOfBefore

LEMMA DetectorStays ==
  ASSUME DetectorOK, UNCHANGED <<up, mode, calibrated, gesture, people, target, held, quiet>>
  PROVE  DetectorOK'
  BY DEF DetectorOK, gesture, GestureTimed, GestureEnrols

LEMMA RequestsStay ==
  ASSUME RequestsOK, UNCHANGED requests
  PROVE  RequestsOK'
  BY DEF RequestsOK, requests, ToldWhoAsked

LEMMA GalleryStays ==
  ASSUME GalleryOK(gallery, fresh), UNCHANGED <<gallery, fresh>>
  PROVE  GalleryOK(gallery', fresh')
  BY DEF GalleryOK

LEMMA PersonStarts == PersonInit => PersonInductive
<1> SUFFICES ASSUME PersonInit PROVE PersonInductive
  OBVIOUS
<1> USE PersonAssumption DEF PersonInit
<1>1. {} \in Groups
  BY DEF Groups
<1>2. GestureTimed /\ GestureEnrols
  BY DEF GestureTimed, GestureEnrols, Never
<1>3. start \in {Never} \cup 0..EnrollDuration + 1 /\ lastUp \in 0..Forgive + 1
  OBVIOUS
<1>4. DetectorOK
  BY <1>1, <1>2, <1>3 DEF DetectorOK
<1>5. waited \in [Page -> 0..Patience + 1]
  OBVIOUS
<1>6. RequestsOK
  BY <1>5 DEF RequestsOK, ToldWhoAsked
<1>7. gallery = Enrolled({})
  BY DEF Enrolled
<1>8. GalleryOK(gallery, fresh)
  BY <1>7, EnrolledIsOK
<1> QED BY <1>4, <1>6, <1>8, PersonSplits

LEMMA FrameKeeps ==
  ASSUME PersonInductive, NEW seen \in Groups, NEW raised \in SUBSET seen, Frame(seen, raised)
  PROVE  PersonInductive'
<1>1. DetectorOK /\ RequestsOK
  BY PersonSplits
<1>2. GalleryOK(gallery', fresh') /\ target' \subseteq seen
  BY FrameGallery
<1>3. /\ GestureTimed' /\ GestureEnrols'
      /\ start' \in {Never} \cup 0..EnrollDuration + 1 /\ lastUp' \in 0..Forgive + 1
      /\ gathered' \subseteq Embedding
  BY FrameGesture
<1>4. people' = seen /\ UNCHANGED <<up, mode, calibrated, requests>>
  BY DEF Frame
<1>5. DetectorOK'
  BY <1>1, <1>2, <1>3, <1>4 DEF DetectorOK
<1>6. RequestsOK'
  BY <1>1, <1>4, RequestsStay
<1> QED BY <1>2, <1>5, <1>6, PersonSplitsNext

\* The services: an enrolment, or its opposite, starts the gallery anew.
LEMMA ServesKeep ==
  ASSUME PersonInductive, NEW page \in Page, OnEnroll(page) \/ OnForget(page)
  PROVE  PersonInductive'
<1>1. DetectorOK /\ RequestsOK /\ GalleryOK(gallery, fresh)
  BY PersonSplits
<1>2. PICK answer \in {"yes", "no"} : Serve(page, answer)
  BY DEF OnEnroll, OnForget
<1>3. DetectorOK'
  BY <1>1, <1>2, DetectorStays DEF Serve, gesture
<1>4. RequestsOK'
  <2>1. /\ request' = [request EXCEPT ![page] = answer] /\ UNCHANGED <<asked, waited, told>>
        /\ request[page] = "sent"
    BY <1>2 DEF Serve
  <2>2. request' \in [Page -> {"none", "sent", "yes", "no", "gone"}]
    BY <1>1, <2>1 DEF RequestsOK
  <2>3. \A p \in Page : request'[p] # "none" => request[p] # "none"
    BY <1>1, <2>1 DEF RequestsOK
  <2> QED BY <1>1, <2>1, <2>2, <2>3 DEF RequestsOK, ToldWhoAsked
<1>5. \/ \E looks \in SUBSET Embedding : gallery' = Enrolled(looks)
      \/ UNCHANGED <<gallery, fresh>>
  <2>1. people \subseteq Embedding
    BY <1>1 DEF DetectorOK, Groups
  <2>2. \A p \in people : {p} \in SUBSET Embedding
    BY <2>1
  <2>3. {} \in SUBSET Embedding
    OBVIOUS
  <2> QED BY <2>2, <2>3 DEF OnEnroll, OnForget
<1>6. GalleryOK(gallery', fresh')
  BY <1>1, <1>5, EnrolledIsOK, GalleryStays
<1> QED BY <1>3, <1>4, <1>6, PersonSplitsNext

\* What a page asks and hears.
LEMMA AsksKeep ==
  ASSUME PersonInductive, NEW page \in Page,
         Answer(page) \/ NoAnswer(page) \/ \E a \in {"enroll", "forget"} : Ask(page, a)
  PROVE  PersonInductive'
<1>1. DetectorOK /\ RequestsOK /\ GalleryOK(gallery, fresh)
  BY PersonSplits
<1>2. UNCHANGED <<up, mode, calibrated, gallery, gesture, people, target, ghosts, waited>>
  BY DEF Answer, NoAnswer, Ask
<1>3. DetectorOK' /\ GalleryOK(gallery', fresh')
  BY <1>1, <1>2, DetectorStays, GalleryStays DEF ghosts
<1> USE DEF RequestsOK, ToldWhoAsked, Tell
<1>4. CASE Answer(page)
  <2>1. /\ request' = [request EXCEPT ![page] = "gone"] /\ request[page] # "none" /\ asked' = asked
        /\ \/ told' = told
           \/ \E r \in {"success", "failure"} : told' = [told EXCEPT ![page] = r]
    BY <1>4 DEF Answer
  <2>2. request' \in [Page -> {"none", "sent", "yes", "no", "gone"}]
    BY <1>1, <2>1
  <2>3. told' \in [Page -> {"nothing", "success", "failure", "refused", "no answer"}]
    BY <1>1, <2>1
  <2>4. \A p \in Page : p # page => told'[p] = told[p] /\ request'[p] = request[p]
    BY <1>1, <2>1
  <2>5. asked[page] # "nothing"
    BY <1>1, <2>1
  <2>6. ToldWhoAsked'
    BY <1>1, <2>1, <2>4, <2>5
  <2>7. RequestsOK'
    BY <1>1, <1>2, <2>1, <2>2, <2>3, <2>6
  <2> QED BY <1>3, <2>7, PersonSplitsNext
<1>5. CASE NoAnswer(page)
  <2>1. /\ told' = [told EXCEPT ![page] = "no answer"] /\ asked[page] # "nothing"
        /\ UNCHANGED <<asked, request>>
    BY <1>5 DEF NoAnswer, GiveUp
  <2>2. told' \in [Page -> {"nothing", "success", "failure", "refused", "no answer"}]
    BY <1>1, <2>1
  <2>3. \A p \in Page : p # page => told'[p] = told[p]
    BY <1>1, <2>1
  <2>4. RequestsOK'
    BY <1>1, <1>2, <2>1, <2>2, <2>3
  <2> QED BY <1>3, <2>4, PersonSplitsNext
<1>6. ASSUME NEW a \in {"enroll", "forget"}, Ask(page, a) PROVE PersonInductive'
  <2>1. /\ asked' = [asked EXCEPT ![page] = a]
        /\ told' = told \/ told' = [told EXCEPT ![page] = "refused"]
        /\ request' = request \/ \E r \in {"sent", "gone"} : request' = [request EXCEPT ![page] = r]
    BY <1>6 DEF Ask
  <2>2. /\ asked' \in [Page -> {"nothing", "enroll", "forget"}]
        /\ asked'[page] # "nothing" /\ \A p \in Page : p # page => asked'[p] = asked[p]
    BY <1>1, <2>1
  <2>3. /\ told' \in [Page -> {"nothing", "success", "failure", "refused", "no answer"}]
        /\ \A p \in Page : p # page => told'[p] = told[p]
    BY <1>1, <2>1
  <2>4. /\ request' \in [Page -> {"none", "sent", "yes", "no", "gone"}]
        /\ \A p \in Page : p # page => request'[p] = request[p]
    BY <1>1, <2>1
  <2>5. RequestsOK'
    BY <1>1, <1>2, <2>2, <2>3, <2>4
  <2> QED BY <1>3, <2>5, PersonSplitsNext
<1> QED BY <1>4, <1>5, <1>6

LEMMA ProcessKeeps ==
  ASSUME PersonInductive, Process
  PROVE  PersonInductive'
<1>1. DetectorOK /\ RequestsOK /\ GalleryOK(gallery, fresh)
  BY PersonSplits
<1>2. CASE CameraInfo \/ ChangeMode \/ StartDetector
  <2>1. /\ UNCHANGED <<gallery, gesture, people, target, requests, ghosts>>
        /\ up' \in BOOLEAN /\ mode' \in BOOLEAN /\ calibrated' \in BOOLEAN
    BY <1>1, <1>2 DEF CameraInfo, ChangeMode, StartDetector, DetectorOK
  <2>2. DetectorOK'
    BY <1>1, <2>1 DEF DetectorOK, gesture, ghosts, GestureTimed, GestureEnrols
  <2>3. RequestsOK' /\ GalleryOK(gallery', fresh')
    BY <1>1, <2>1, RequestsStay, GalleryStays DEF ghosts
  <2> QED BY <2>2, <2>3, PersonSplitsNext
<1>3. CASE StopDetector
  <2>1. GalleryOK(gallery', fresh')
    BY <1>3, EnrolledIsOK DEF StopDetector, Fresh
  <2>2. {} \in Groups
    BY DEF Groups
  <2>3. /\ start' = Never /\ lastUp' = 0 /\ gathered' = {} /\ people' = {} /\ target' = {}
        /\ held' = Never /\ quiet' = 0 /\ up' = FALSE /\ calibrated' = FALSE /\ mode' = mode
    BY <1>3 DEF StopDetector, Fresh
  <2>4. GestureTimed' /\ GestureEnrols' /\ lastUp' \in 0..Forgive + 1
    BY <2>3, PersonAssumption DEF GestureTimed, GestureEnrols, Never
  <2>5. DetectorOK'
    BY <1>1, <2>2, <2>3, <2>4 DEF DetectorOK
  <2>6. /\ request' = [p \in Page |-> IF request[p] = "sent" THEN "gone" ELSE request[p]]
        /\ UNCHANGED <<asked, waited, told>>
    BY <1>3 DEF StopDetector
  <2>7. request' \in [Page -> {"none", "sent", "yes", "no", "gone"}]
    BY <1>1, <2>6 DEF RequestsOK
  <2>8. \A p \in Page : request'[p] # "none" => request[p] # "none"
    BY <2>6
  <2>9. RequestsOK'
    BY <1>1, <2>6, <2>7, <2>8 DEF RequestsOK, ToldWhoAsked
  <2> QED BY <2>1, <2>5, <2>9, PersonSplitsNext
<1> QED BY <1>2, <1>3 DEF Process

LEMMA OlderType ==
  ASSUME NEW bound \in Nat
  PROVE  /\ \A old \in {Never} \cup 0..bound + 1 : Older(old, bound) \in {Never} \cup 0..bound + 1
         /\ \A old \in 0..bound + 1 : Older(old, bound) \in 0..bound + 1 /\ Older(old, bound) # 0
                                     /\ old <= Older(old, bound)
         /\ \A old, older \in 0..bound + 1 : old <= older => Older(old, bound) <= Older(older, bound)
         /\ Older(Never, bound) = Never
  BY DEF Older, Never

LEMMA ElapseKeeps ==
  ASSUME PersonInductive, Elapse
  PROVE  PersonInductive'
<1>1. DetectorOK /\ RequestsOK /\ GalleryOK(gallery, fresh)
  BY PersonSplits
<1>2. /\ start' = Older(start, EnrollDuration) /\ lastUp' = Older(lastUp, Forgive)
      /\ held' = Older(held, EnrollDuration) /\ quiet' = Older(quiet, Forgive)
  BY DEF Elapse
<1>3. EnrollDuration \in Nat /\ Forgive \in Nat /\ Patience \in Nat
  BY PersonAssumption
<1>4. /\ start' \in {Never} \cup 0..EnrollDuration + 1 /\ held' \in {Never} \cup 0..EnrollDuration + 1
      /\ lastUp' \in 0..Forgive + 1 /\ quiet' = lastUp' /\ quiet' # 0 /\ quiet <= quiet'
  BY <1>1, <1>2, <1>3, OlderType DEF DetectorOK, GestureTimed
<1>5. GestureTimed' /\ GestureEnrols'
  <2> SUFFICES ASSUME held' # Never, quiet' <= Forgive PROVE start' # Never /\ held' <= start'
    BY <1>4 DEF GestureTimed, GestureEnrols
  <2>1. held # Never
    BY <1>2, <1>3, OlderType
  <2>2. quiet <= Forgive
    BY <1>1, <1>3, <1>4 DEF DetectorOK, GestureTimed
  <2>3. start # Never /\ held <= start
    BY <1>1, <2>1, <2>2 DEF DetectorOK, GestureTimed
  <2>4. start \in 0..EnrollDuration + 1 /\ held \in 0..EnrollDuration + 1
    BY <1>1, <2>1, <2>3 DEF DetectorOK, GestureTimed
  <2> QED BY <1>2, <1>3, <2>3, <2>4, OlderType DEF Never
<1>6. DetectorOK'
  BY <1>1, <1>4, <1>5 DEF DetectorOK, Elapse
<1>7. waited' \in [Page -> 0..Patience + 1]
  <2>1. \A p \in Page : waited[p] \in 0..Patience + 1 /\ Older(waited[p], Patience) \in 0..Patience + 1
    BY <1>1, <1>3, OlderType DEF RequestsOK
  <2> QED BY <2>1 DEF Elapse
<1>8. RequestsOK'
  BY <1>1, <1>7 DEF RequestsOK, ToldWhoAsked, Elapse
<1>9. GalleryOK(gallery', fresh')
  BY <1>1, GalleryStays DEF Elapse
<1> QED BY <1>6, <1>8, <1>9, PersonSplitsNext

LEMMA PersonSteps ==
  ASSUME PersonInductive, [PersonNext]_personVars
  PROVE  PersonInductive'
<1>1. CASE UNCHANGED personVars
  <2>1. DetectorOK /\ RequestsOK /\ GalleryOK(gallery, fresh)
    BY PersonSplits
  <2>2. DetectorOK' /\ RequestsOK' /\ GalleryOK(gallery', fresh')
    BY <1>1, <2>1, DetectorStays, RequestsStay, GalleryStays DEF personVars, ghosts
  <2> QED BY <2>2, PersonSplitsNext
<1>2. CASE \E seen \in Groups : \E raised \in SUBSET seen : Frame(seen, raised)
  BY <1>2, FrameKeeps
<1>3. CASE \E p \in Page : Pages(p)
  BY <1>3, ServesKeep, AsksKeep DEF Pages
<1> QED BY <1>1, <1>2, <1>3, ProcessKeeps, ElapseKeeps DEF PersonNext

-----------------------------------------------------------------------------

\* The gallery, the gesture's clock and the requests are always as the code means them.
THEOREM PersonInductiveHolds == PersonSpec => []PersonInductive
  BY PersonStarts, PersonSteps, PTL DEF PersonSpec

\* The gallery holds what the current enrolment and its own learning put there, and no more
\* than recent_size of it: Gallery.enroll, add and update_target.
THEOREM GalleryIsSafe == PersonSpec => []GallerySafety
<1>1. PersonInductive => GallerySafety
  BY DEF PersonInductive, GallerySafety
<1> QED BY <1>1, PersonInductiveHolds, PTL

\* Hands held up for enroll_duration enrol, however often the detection misses them for
\* less than it forgives: update_enrollment.
THEOREM HandsEnrol == PersonSpec => []GestureEnrols
<1>1. PersonInductive => GestureEnrols
  BY DEF PersonInductive
<1> QED BY <1>1, PersonInductiveHolds, PTL

\* Whatever was learned in between, an image with somebody who looks as on the day of the
\* enrolment is followed: find_target keeps the enrolled looks beside the recent ones.
THEOREM EnrolledAreFound == PersonSpec => FoundAsEnrolled
<1> DEFINE Found == people' # people /\ people' \cap gallery.enrolled # {}
                      /\ gallery'.enrolled = gallery.enrolled => target' # {}
<1>1. ASSUME PersonInductive, [PersonNext]_personVars PROVE Found
  <2> SUFFICES ASSUME people' # people, NEW e \in people' \cap gallery.enrolled,
                      gallery'.enrolled = gallery.enrolled
               PROVE  target' # {}
    OBVIOUS
  <2>1. PICK seen \in Groups : \E raised \in SUBSET seen : Frame(seen, raised)
    BY <1>1 DEF PersonNext, personVars, Pages, OnEnroll, OnForget, Serve, Answer, NoAnswer, Ask, Process,
                CameraInfo, ChangeMode, StartDetector, StopDetector, Fresh, Elapse
  <2>2. PICK raised \in SUBSET seen : Frame(seen, raised)
    BY <2>1
  <2>3. seen \in SUBSET Embedding /\ raised \in SUBSET Embedding /\ people' = seen
    BY <2>2 DEF Groups, Frame
  <2>4. PICK out \in UpdateEnrollment(raised) :
          \/ Candidates(seen, out.gallery) = {} /\ target' = {} /\ gallery' = out.gallery
          \/ \E p \in Best(Candidates(seen, out.gallery), out.gallery) : target' = {p}
    BY <2>2 DEF Frame
  <2>5. CASE Candidates(seen, out.gallery) = {} /\ gallery' = out.gallery
    <3>1. e \in out.gallery.enrolled /\ e \in seen /\ e \in Embedding
      BY <2>3, <2>5
    <3>2. Alike(out.gallery, e, Match)
      BY <3>1, SelfIsAlike
    <3>3. e \in Candidates(seen, out.gallery)
      BY <3>1, <3>2 DEF Candidates
    <3> QED BY <2>5, <3>3
  <2> QED BY <2>4, <2>5
<1>2. PersonInductive /\ [PersonNext]_personVars => [Found]_personVars
  BY <1>1
<1> QED BY <1>2, PersonInductiveHolds, PTL DEF PersonSpec, FoundAsEnrolled

\* For any pages and any timeout, an outcome that was set is never set again, also when the
\* answer comes as the page gives up: asyncio_future's transfer looks at the future first.
THEOREM PagesHearOnce == PersonSpec => ToldOnce
<1> DEFINE Once == \A p \in Page : told[p] # "nothing" => told'[p] = told[p]
<1>1. ASSUME PersonInductive, [PersonNext]_personVars PROVE Once
  <2>1. RequestsOK
    BY <1>1, PersonSplits
  <2>2. \/ told' = told
        \/ \E page \in Page, r \in {"success", "failure", "refused", "no answer"} :
             told[page] = "nothing" /\ told' = [told EXCEPT ![page] = r]
    <3>1. ASSUME NEW page \in Page, Answer(page) \/ NoAnswer(page) PROVE <2>2!1 \/ <2>2!2
      BY <3>1 DEF Answer, NoAnswer, GiveUp, Transfer, Tell
    <3>2. ASSUME NEW page \in Page, NEW a \in {"enroll", "forget"}, Ask(page, a) PROVE <2>2!1 \/ <2>2!2
      BY <2>1, <3>2 DEF Ask, Tell, RequestsOK, ToldWhoAsked
    <3>3. CASE ~(\E page \in Page : Answer(page) \/ NoAnswer(page) \/ \E a \in {"enroll", "forget"} : Ask(page, a))
      BY <1>1, <3>3
         DEF PersonNext, personVars, requests, Pages, OnEnroll, OnForget, Serve, Process, CameraInfo, ChangeMode,
             StartDetector, StopDetector, Elapse, Frame
    <3> QED BY <3>1, <3>2, <3>3
  <2> QED BY <2>1, <2>2 DEF RequestsOK
<1>2. PersonInductive /\ [PersonNext]_personVars => [Once]_personVars
  BY <1>1
<1> QED BY <1>2, PersonInductiveHolds, PTL DEF PersonSpec, ToldOnce

-----------------------------------------------------------------------------
(* TargetFollower *)

\* What moves the base is a command the controller has not timed out.
MovedByCommand == base # Rest => ever /\ age <= CmdVelTimeout

\* When the command was given, a target had been seen within lost_timeout, if it drives...
SeenForDriving == base.linear # 0 => unseen <= LostTimeout + age

\* ... and within search_timeout, whatever it is.
SeenForMoving == base # Rest => unseen < SearchTimeout + age

Commanded == MovedByCommand /\ SeenForDriving /\ SeenForMoving

FollowerInductive == FollowerTypeOK /\ Commanded

\* What makes up a record of two fields.
LEMMA Twists ==
  ASSUME NEW l \in -1..1, NEW a \in -1..1
  PROVE  /\ [linear |-> l, angular |-> a] \in [linear : -1..1, angular : -1..1]
         /\ [linear |-> l, angular |-> a].linear = l
OBVIOUS

LEMMA Spots ==
  ASSUME NEW b \in Bearings, NEW r \in Ranges
  PROVE  [bearing |-> b, range |-> r] \in [bearing : Bearings, range : Ranges]
OBVIOUS

LEMMA RestRests == Rest \in [linear : -1..1, angular : -1..1] /\ Rest.linear = 0
  BY DEF Rest

\* Where it is seen has a direction: the helpers of the tracking stay in their ranges.
LEMMA Directions ==
  /\ \A n \in Int : Sign(n) \in -1..1
  /\ \A n \in Int : Within(n, YawLimit) \in -YawLimit..YawLimit
  BY FollowerAssumption DEF Sign, Within

\* At the start nothing moves.
LEMMA FollowerStarts == FollowerInit => FollowerInductive
<1> SUFFICES ASSUME FollowerInit PROVE FollowerInductive
  OBVIOUS
<1>1. spot \in [bearing : Bearings, range : Ranges]
  BY Spots DEF FollowerInit, Bearings, Ranges
<1>2. Endless \in Nat
  BY FollowerAssumption DEF Endless
<1>3. gizmo.yaw = 0
  BY DEF FollowerInit
<1>4. gizmo.yaw \in -YawLimit..YawLimit
  BY <1>3, FollowerAssumption
<1>5. unseen \in 0..Endless /\ age \in 0..CmdVelTimeout + 1 /\ due \in 0..LoopPeriod
  BY <1>2, FollowerAssumption DEF FollowerInit
<1>6. FollowerTypeOK
  BY <1>1, <1>4, <1>5, RestRests DEF FollowerInit, FollowerTypeOK
<1>7. Commanded
  BY RestRests DEF FollowerInit, Commanded, MovedByCommand, SeenForDriving, SeenForMoving
<1> QED BY <1>6, <1>7 DEF FollowerInductive

\* A sighting makes what moves the base only more recent.
LEMMA TargetKeeps ==
  ASSUME FollowerInductive, NEW b \in Bearings, NEW r \in Ranges, OnTarget([bearing |-> b, range |-> r])
  PROVE  FollowerInductive'
<1>1. spot' \in [bearing : Bearings, range : Ranges]
  BY Spots DEF FollowerInductive, FollowerTypeOK, OnTarget
<1>2. /\ unseen' \in 0..Endless /\ unseen' <= unseen /\ unseen \in Int
  BY FollowerAssumption DEF FollowerInductive, FollowerTypeOK, OnTarget, Endless
<1>3. ever' \in BOOLEAN /\ (ever => ever')
  BY DEF FollowerInductive, FollowerTypeOK, OnTarget
<1>8. FollowerTypeOK'
  BY <1>1, <1>2, <1>3 DEF FollowerInductive, FollowerTypeOK, OnTarget
<1>4. LostTimeout + age \in Int /\ SearchTimeout + age \in Int
  BY FollowerAssumption DEF FollowerInductive, FollowerTypeOK
<1>5. UNCHANGED <<base, age>>
  BY DEF OnTarget
<1>6. Rest' = Rest
  BY DEF Rest
<1>7. Commanded'
  BY <1>2, <1>3, <1>4, <1>5, <1>6 DEF FollowerInductive, FollowerTypeOK, Commanded, MovedByCommand, SeenForDriving, SeenForMoving
<1> QED BY <1>8, <1>7 DEF FollowerInductive

\* The control loop gives a command that is new, or none.
LEMMA LoopKeeps ==
  ASSUME FollowerInductive, ControlLoop
  PROVE  FollowerInductive'
<1> USE FollowerAssumption
<1>1. CASE Lost
  <2>1. base' = [linear |-> 0, angular |-> IF Searching THEN lastBearing ELSE 0] /\ age' = 0
    BY <1>1 DEF ControlLoop, Search, Publish
  <2>2. base' \in [linear : -1..1, angular : -1..1] /\ base'.linear = 0
    BY <2>1 DEF FollowerInductive, FollowerTypeOK
  <2>3. FollowerTypeOK'
    BY <1>1, <2>1, <2>2 DEF FollowerInductive, FollowerTypeOK, ControlLoop, Search
  <2>4. base' # Rest => Searching
    BY <2>1 DEF Rest
  <2>5. Commanded'
    BY <1>1, <2>1, <2>2, <2>4
       DEF Commanded, MovedByCommand, SeenForDriving, SeenForMoving, ControlLoop, Searching, FollowerInductive,
           FollowerTypeOK, Endless
  <2> QED BY <2>3, <2>5 DEF FollowerInductive
<1>2. CASE ~Lost /\ tf
  <2>1. /\ age' = 0 /\ ever' = ever /\ unseen' = unseen
        /\ base' = [linear |-> IF spot.bearing \in -1..1 THEN Sign(spot.range) ELSE 0,
                    angular |-> Sign(spot.bearing)]
    BY <1>2 DEF ControlLoop, Track, Publish
  <2>2. spot.bearing \in Int /\ spot.range \in Int
    BY DEF FollowerInductive, FollowerTypeOK, Bearings, Ranges
  <2>3. base' \in [linear : -1..1, angular : -1..1]
    BY <2>1, <2>2, Directions
  <2>4. gizmo'.yaw \in -YawLimit..YawLimit
    BY <1>2, <2>2, Directions DEF ControlLoop, Track
  <2>5. FollowerTypeOK'
    BY <1>2, <2>1, <2>3, <2>4 DEF FollowerInductive, FollowerTypeOK, ControlLoop, Track
  <2>6. Commanded'
    BY <1>2, <2>1
       DEF Commanded, MovedByCommand, SeenForDriving, SeenForMoving, Lost, FollowerInductive,
           FollowerTypeOK, Endless
  <2> QED BY <2>5, <2>6 DEF FollowerInductive
<1>3. CASE ~Lost /\ ~tf
  BY <1>3 DEF ControlLoop, FollowerInductive, FollowerTypeOK, Commanded, MovedByCommand, SeenForDriving,
              SeenForMoving, Rest
<1> QED BY <1>1, <1>2, <1>3

\* As time passes the command ages with the sighting it was given for, until it is dropped.
LEMMA MoveKeeps ==
  ASSUME FollowerInductive, Move
  PROVE  FollowerInductive'
<1> USE FollowerAssumption
<1>1. FollowerTypeOK'
  BY RestRests DEF FollowerInductive, FollowerTypeOK, Move, Bearings, Ranges, Endless
<1>2. unseen \in Int /\ age \in Int /\ unseen' <= unseen + 1 /\ (age <= CmdVelTimeout => age' = age + 1)
  BY DEF FollowerInductive, FollowerTypeOK, Move, Endless
<1>3. base' = base \/ base' = Rest
  BY DEF Move
<1>4. base' # Rest => age' <= CmdVelTimeout /\ base' = base /\ ever' = ever
  BY <1>3, <1>1 DEF Move, FollowerTypeOK
<1>5. CASE base' # Rest
  <2>1. age' = age + 1
    BY <1>2, <1>4, <1>5 DEF FollowerInductive, Commanded, MovedByCommand
  <2>2. unseen' <= unseen + 1 /\ unseen' \in Int /\ unseen \in Int /\ age \in Int
    BY <1>1, <1>2 DEF FollowerTypeOK
  <2>3. UNCHANGED <<base, ever>>
    BY <1>4, <1>5
  <2>4. (unseen < SearchTimeout + age => unseen' < SearchTimeout + age') /\ (unseen <= LostTimeout + age => unseen' <= LostTimeout + age')
    BY <2>1, <2>2
  <2>5. Rest' = Rest
    BY DEF Rest
  <2> QED BY <1>1, <1>4, <1>5, <2>3, <2>4, <2>5
          DEF FollowerInductive, Commanded, MovedByCommand, SeenForDriving, SeenForMoving
<1>6. CASE base' = Rest
  <2>1. Rest' = Rest /\ base'.linear = 0
    BY <1>6, RestRests DEF Rest
  <2> QED BY <1>1, <1>6, <2>1 DEF FollowerInductive, Commanded, MovedByCommand, SeenForDriving, SeenForMoving
<1> QED BY <1>5, <1>6

LEMMA FollowerSteps ==
  ASSUME FollowerInductive, [FollowerNext]_followerVars
  PROVE  FollowerInductive'
<1>1. CASE \E b \in Bearings, r \in Ranges : OnTarget([bearing |-> b, range |-> r])
  BY <1>1, TargetKeeps
<1>2. CASE ControlLoop
  BY <1>2, LoopKeeps
<1>3. CASE Move
  BY <1>3, MoveKeeps
<1>4. CASE TfChanges \/ UNCHANGED followerVars
  BY <1>4 DEF TfChanges, followerVars, FollowerInductive, FollowerTypeOK, Commanded, MovedByCommand,
              SeenForDriving, SeenForMoving, Rest
<1> QED BY <1>1, <1>2, <1>3, <1>4 DEF FollowerNext

\* A command never outlives the sighting it was given for by more than its own timeouts.
THEOREM FollowerInductiveHolds == FollowerSpec => []FollowerInductive
  BY FollowerStarts, FollowerSteps, PTL DEF FollowerSpec

\* The base drives only for a target seen within lost_timeout and what the chain behind it
\* takes, and comes to rest when the search for it is over: target_follower's control_loop.
THEOREM FollowerIsSafe == FollowerSpec => []FollowerSafety
<1>1. FollowerInductive => FollowerSafety
  <2> SUFFICES ASSUME FollowerInductive PROVE FollowerSafety
    OBVIOUS
  <2>1. base.linear # 0 => base # Rest
    BY RestRests
  <2> QED BY <2>1, FollowerAssumption
          DEF FollowerInductive, FollowerTypeOK, Commanded, MovedByCommand, SeenForDriving, SeenForMoving,
              FollowerSafety, DrivesOnSight, GivesUp
<1> QED BY <1>1, FollowerInductiveHolds, PTL
================================================================================
