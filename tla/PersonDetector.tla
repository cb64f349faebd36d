----------------------------- MODULE PersonDetector -----------------------------
(***************************************************************************)
(* person_detector: who is enrolled, by gesture or by service, and whom    *)
(* the detector follows; with the pages' enroll and forget requests, which *)
(* web_controller waits for and gives up on.  Appearance is a point on a   *)
(* line: two looks are as similar as they are close.                       *)
(***************************************************************************)
EXTENDS Integers, Sequences, FiniteSets, SequencesExt

CONSTANTS
  Person,          \* people who may come into view
  Looks,           \* how each of them may look: sets of integers
  Match, Update,   \* match_threshold and update_threshold, as distances of looks
  EnrollDuration, Forgive,  \* in ticks
  RecentSize,
  Page,            \* the pages that ask, once each
  Patience         \* how long person_action waits, in ticks

ASSUME PersonAssumption ==
  /\ Looks \in [Person -> SUBSET Int] /\ Update \in Nat /\ Match \in Nat /\ Update <= Match
  /\ EnrollDuration \in Nat /\ Forgive \in Nat /\ RecentSize \in Nat \ {0} /\ Patience \in Nat

Never == -1

VARIABLES
  up,         \* the detector runs
  mode,       \* the web node's mode is PERSON
  calibrated, \* camera_matrix is not None
  gallery,    \* Gallery: enrolled, as a set, and recent
  start,      \* time since enroll_start, or Never
  lastUp,     \* time since hands_last_up
  gathered,   \* enroll_embeddings, as a set
  people,     \* the looks of the people in the latest image
  target,     \* the look that is followed, as a set of at most one
  asked,      \* what each page asked for, "nothing" before
  request,    \* where its request is: "none", "sent", "yes" or "no" on its way back, "gone"
  waited,     \* for how long the page has waited
  told,       \* its result: "nothing", "success", "failure", "refused", "no answer"
  fresh,      \* looks learned since the last enrolment
  held, quiet \* time since the first and the last image of hands held up

gesture == <<start, lastUp, gathered>>
requests == <<asked, request, waited, told>>
ghosts == <<fresh, held, quiet>>
personVars == <<up, mode, calibrated, gallery, gesture, people, target, requests, ghosts>>

Embedding == UNION {{[who |-> p, look |-> l] : l \in Looks[p]} : p \in Person}

-----------------------------------------------------------------------------
(* The gallery *)

\* recent is not cleared.
Enrolled_Adds(looks) == [gallery EXCEPT !.enrolled = looks]
Enrolled(looks) == [enrolled |-> looks, recent |-> <<>>]

Stored_Newest(g) == IF g.recent = <<>> THEN g.enrolled ELSE ToSet(g.recent)
Stored(g) == g.enrolled \cup ToSet(g.recent)

Apart(p, q) == IF p.look < q.look THEN q.look - p.look ELSE p.look - q.look

\* At least that similar to something stored.
Alike(g, p, distance) == \E q \in Stored(g) : Apart(p, q) <= distance

Learned(g, p) ==
  LET all == Append(g.recent, p)
  IN [g EXCEPT !.recent = IF Len(all) > RecentSize THEN Tail(all) ELSE all]

-----------------------------------------------------------------------------
(* An image *)

\* A single missed detection cancels.
Cancelled_AtOnce == TRUE
Cancelled == lastUp > Forgive

\* What update_enrollment may come to; of those who raise their hands any may be the largest.
UpdateEnrollment(raised) ==
  IF raised = {}
  THEN {[start |-> IF start # Never /\ Cancelled THEN Never ELSE start, lastUp |-> lastUp,
         gathered |-> gathered, gallery |-> gallery, enrols |-> FALSE]}
  ELSE LET since == IF start = Never THEN 0 ELSE start
           enrols == since >= EnrollDuration
           looks == [p \in raised |-> {p} \cup (IF start = Never THEN {} ELSE gathered)]
       IN {[start |-> IF enrols THEN Never ELSE since, lastUp |-> 0, gathered |-> looks[p],
            gallery |-> IF enrols THEN Enrolled(looks[p]) ELSE gallery, enrols |-> enrols] : p \in raised}

\* Those who look like the enrolled person, and the ones of them who do most.
Candidates(seen, g) == IF g.enrolled = {} THEN {} ELSE {p \in seen : Alike(g, p, Match)}
Best(candidates, g) ==
  {p \in candidates : \A q \in candidates, d \in 0..Match : Alike(g, q, d) => Alike(g, p, d)}

\* The best is learned when nobody else could be mistaken for the enrolled person.
Learns(p, candidates, g) == Alike(g, p, Update) /\ Cardinality(candidates) = 1

\* An image with those people, of whom some raise their hands.
Frame(seen, raised) ==
  /\ up /\ calibrated
  /\ people' = seen
  /\ \E out \in UpdateEnrollment(raised) :
       LET g == out.gallery
           candidates == Candidates(seen, g)
       IN /\ start' = out.start /\ lastUp' = out.lastUp /\ gathered' = out.gathered
          /\ \/ candidates = {} /\ target' = {} /\ gallery' = g
             \/ \E p \in Best(candidates, g) :
                  target' = {p} /\ gallery' = IF Learns(p, candidates, g) THEN Learned(g, p) ELSE g
          /\ fresh' = (IF out.enrols THEN {} ELSE fresh)
                      \cup (IF gallery' = g THEN {} ELSE target')
          /\ held' = IF out.enrols THEN Never
                     ELSE IF raised # {} /\ (held = Never \/ quiet > Forgive) THEN 0 ELSE held
          /\ quiet' = IF raised # {} THEN 0 ELSE quiet
  /\ UNCHANGED <<up, mode, calibrated, requests>>

CameraInfo ==
  /\ up /\ calibrated' = TRUE
  /\ UNCHANGED <<up, mode, gallery, gesture, people, target, requests, ghosts>>

-----------------------------------------------------------------------------
(* The services *)

Serve(page, answer) ==
  /\ up /\ request[page] = "sent" /\ request' = [request EXCEPT ![page] = answer]
  /\ UNCHANGED <<up, mode, calibrated, gesture, people, target, asked, waited, told, held, quiet>>

\* on_enroll, without a gesture: the person nearest the image centre, any of them here.
OnEnroll(page) ==
  /\ asked[page] = "enroll"
  /\ \/ people = {} /\ Serve(page, "no") /\ UNCHANGED <<gallery, fresh>>
     \/ \E p \in people : gallery' = Enrolled({p}) /\ fresh' = {} /\ Serve(page, "yes")

OnForget(page) ==
  /\ asked[page] = "forget" /\ Serve(page, "yes")
  /\ gallery' = Enrolled({}) /\ fresh' = {}

Tell(page, result) == told' = [told EXCEPT ![page] = result]

\* person_action: refused, or sent; a service may seem ready that has gone, or not yet.
Ask(page, action) ==
  /\ asked[page] = "nothing" /\ asked' = [asked EXCEPT ![page] = action]
  /\ \/ Tell(page, "refused") /\ UNCHANGED request
     \/ mode /\ request' = [request EXCEPT ![page] = IF up THEN "sent" ELSE "gone"] /\ UNCHANGED told
  /\ UNCHANGED <<up, mode, calibrated, gallery, gesture, people, target, waited, ghosts>>

\* The answer reaches the page, unless it waits no longer: asyncio_future.
Transfer(page) == told[page] = "nothing"

Answer(page) ==
  /\ request[page] \in {"yes", "no"} /\ request' = [request EXCEPT ![page] = "gone"]
  /\ IF Transfer(page) THEN Tell(page, IF request[page] = "yes" THEN "success" ELSE "failure")
     ELSE UNCHANGED told
  /\ UNCHANGED <<up, mode, calibrated, gallery, gesture, people, target, asked, waited, ghosts>>

\* Mutant: the wait has no timeout.
GiveUp_Never(page) == FALSE
\* wait_for has run out of time.
GiveUp(page) == told[page] = "nothing" /\ asked[page] # "nothing" /\ waited[page] >= Patience

NoAnswer(page) ==
  /\ GiveUp(page) /\ Tell(page, "no answer")
  /\ UNCHANGED <<up, mode, calibrated, gallery, gesture, people, target, asked, request, waited, ghosts>>

-----------------------------------------------------------------------------
(* The detector's process, and time *)

Fresh ==
  /\ calibrated' = FALSE /\ gallery' = Enrolled({}) /\ start' = Never /\ lastUp' = 0
  /\ gathered' = {} /\ people' = {} /\ target' = {} /\ fresh' = {} /\ held' = Never /\ quiet' = 0

ChangeMode ==
  /\ mode' = ~mode
  /\ UNCHANGED <<up, calibrated, gallery, gesture, people, target, requests, ghosts>>

StartDetector ==
  /\ mode /\ ~up /\ up' = TRUE
  /\ UNCHANGED <<mode, calibrated, gallery, gesture, people, target, requests, ghosts>>

\* Stopped with the mode, or by itself.
StopDetector ==
  /\ up /\ up' = FALSE /\ Fresh
  /\ request' = [p \in Page |-> IF request[p] = "sent" THEN "gone" ELSE request[p]]
  /\ UNCHANGED <<mode, asked, waited, told>>

Older(age, bound) == IF age = Never \/ age > bound THEN age ELSE age + 1

\* A page that has waited for Patience hears of it before more time passes.
Elapse ==
  /\ \A p \in Page : ~GiveUp(p)
  /\ start' = Older(start, EnrollDuration) /\ lastUp' = Older(lastUp, Forgive)
  /\ held' = Older(held, EnrollDuration) /\ quiet' = Older(quiet, Forgive)
  /\ waited' = [p \in Page |-> IF asked[p] # "nothing" /\ told[p] = "nothing"
                               THEN Older(waited[p], Patience) ELSE waited[p]]
  /\ UNCHANGED <<up, mode, calibrated, gallery, gathered, people, target, asked, request, told, fresh>>

PersonInit ==
  /\ up = FALSE /\ mode = FALSE /\ calibrated = FALSE /\ gallery = [enrolled |-> {}, recent |-> <<>>]
  /\ start = Never /\ lastUp = 0 /\ gathered = {} /\ people = {} /\ target = {}
  /\ asked = [p \in Page |-> "nothing"] /\ request = [p \in Page |-> "none"]
  /\ waited = [p \in Page |-> 0] /\ told = [p \in Page |-> "nothing"]
  /\ fresh = {} /\ held = Never /\ quiet = 0

Groups == {g \in SUBSET Embedding : \A p \in g, q \in g : p.who = q.who => p = q}

Pages(p) == OnEnroll(p) \/ OnForget(p) \/ Answer(p) \/ NoAnswer(p) \/ \E a \in {"enroll", "forget"} : Ask(p, a)

Process == CameraInfo \/ ChangeMode \/ StartDetector \/ StopDetector

PersonNext ==
  \/ \E seen \in Groups : \E raised \in SUBSET seen : Frame(seen, raised)
  \/ \E p \in Page : Pages(p)
  \/ Process \/ Elapse

PersonSpec == PersonInit /\ [][PersonNext]_personVars

\* Time passes; the web node's loop and the detector's executor run.
PersonFairness ==
  /\ WF_personVars(Elapse)
  /\ \A p \in Page : WF_personVars(Answer(p) \/ NoAnswer(p))

-----------------------------------------------------------------------------
(* Properties *)

\* The state is well formed; the gallery learns no more than it can hold, and only while
\* somebody is enrolled.
PersonTypeOK ==
  /\ up \in BOOLEAN /\ mode \in BOOLEAN /\ calibrated \in BOOLEAN
  /\ gallery.enrolled \subseteq Embedding /\ ToSet(gallery.recent) \subseteq Embedding
  /\ Len(gallery.recent) <= RecentSize /\ (gallery.enrolled = {} => gallery.recent = <<>>)
  /\ start \in {Never} \cup 0..EnrollDuration + 1 /\ lastUp \in 0..Forgive + 1
  /\ gathered \subseteq Embedding /\ people \in Groups /\ target \subseteq people
  /\ asked \in [Page -> {"nothing", "enroll", "forget"}]
  /\ request \in [Page -> {"none", "sent", "yes", "no", "gone"}] /\ waited \in [Page -> 0..Patience + 1]
  /\ told \in [Page -> {"nothing", "success", "failure", "refused", "no answer"}]

\* Nothing that was learned for one enrolment is kept for the next one, or after the person
\* was forgotten.
NothingOfBefore == ToSet(gallery.recent) \subseteq fresh

\* However much is learned, somebody who looks as on the day of the enrolment is never
\* ignored: an image with them is followed by following someone.
FoundAsEnrolled ==
  [][people' # people /\ people' \cap gallery.enrolled # {} /\ gallery'.enrolled = gallery.enrolled
     => target' # {}]_personVars

\* Hands held up for enroll_duration enrol, though the detection misses them for up to half
\* a second at a time.
GestureEnrols == quiet = 0 => held < EnrollDuration

\* What person_action awaits has one outcome: an answer that comes as the page gives up is never
\* set on the future that is done, which would raise InvalidStateError (asyncio_future).
ToldOnce == [][\A p \in Page : told[p] # "nothing" => told'[p] = told[p]]_personVars

\* Every request ends with a result, though the detector is stopped or hangs and its answer
\* never comes (person_action, wait_for).
Answered == \A p \in Page : asked[p] # "nothing" ~> told[p] # "nothing"

\* The gallery holds what the current enrolment and its own learning put there.
GallerySafety == PersonTypeOK /\ NothingOfBefore

\* A page that asks always hears a result, and only one outcome is ever set for it.
PagesTold == ToldOnce /\ Answered
=============================================================================
