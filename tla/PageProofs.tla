------------------------------ MODULE PageProofs ------------------------------
(***************************************************************************)
(* Proofs about the scripts of the pages for any number of slides, any     *)
(* options, any browser, any items and any number of clicks.               *)
(***************************************************************************)
EXTENDS Page, TLAPS

(* The slider object with its fields.                                      *)
SliderObject ==
  [animating : BOOLEAN, currentSlide : SlideNumbers,
   animatingTo : SlideNumbers, atEnd : BOOLEAN,
   direction : {"undefined", "next", "prev"}, playing : BOOLEAN,
   interval : BOOLEAN, leaked : BOOLEAN, manualPause : BOOLEAN,
   manualPlay : BOOLEAN, button : {"none", "pause", "play"},
   active : SlideNumbers, disabled : SUBSET {"next", "prev"},
   at : Positions, moving : BOOLEAN, bound : BOOLEAN]

OptionsTyped == opt \in Configurations /\ browser \in Browsers

(* Without an animation the slide shown is the one animated to last, ...   *)
Rests(s) == ~s.animating => s.currentSlide = s.animatingTo

(* ... and atEnd tells of it whether it is an end.                         *)
EndsKnown(s) == opt.startAt = 0 => (s.atEnd <=> s.animatingTo \in {0, last})

(* The slider goes round an end, onto a clone.                             *)
Wraps(s) ==
  /\ ~fade /\ opt.animationLoop
  /\ \/ s.currentSlide = 0 /\ s.animatingTo = last
     \/ s.currentSlide = last /\ s.animatingTo = 0

(* An animation under way ends, and leads to its slide or to the clone of  *)
(* it; without one the container stands at, or moves to, currentSlide.     *)
Placed(s) ==
  ~Draggable =>
    /\ s.animating => s.moving
    /\ s.animating => s.at = sliderOffset(s.animatingTo) \/ Wraps(s)
    /\ ~s.animating => s.at = sliderOffset(s.currentSlide)

Good(s) == s \in SliderObject /\ Rests(s) /\ EndsKnown(s) /\ Placed(s)

(* The fields that tell where the slider is, and those of the show.        *)
SamePlace(s, r) ==
  /\ r.animating = s.animating /\ r.currentSlide = s.currentSlide
  /\ r.animatingTo = s.animatingTo /\ r.atEnd = s.atEnd
  /\ r.direction = s.direction /\ r.at = s.at /\ r.moving = s.moving

SameManual(s, r) ==
  /\ r.leaked = s.leaked
  /\ r.manualPause = s.manualPause /\ r.manualPlay = s.manualPlay

SameShow(s, r) ==
  /\ SameManual(s, r)
  /\ r.playing = s.playing /\ r.interval = s.interval /\ r.button = s.button

Stopped(s, r) ==
  /\ SameManual(s, r)
  /\ r.playing = FALSE /\ r.interval = FALSE
  /\ opt.pausePlay => r.button = "play"

Quieter(s, r) == SameShow(s, r) \/ Stopped(s, r)
-------------------------------------------------------------------------------
(* Lemmas about the methods.                                               *)

(* pause stops the show and moves nothing.                                 *)
LEMMA PauseStops ==
  ASSUME NEW s \in SliderObject
  PROVE  /\ pause(s) \in SliderObject
         /\ SamePlace(s, pause(s)) /\ Stopped(s, pause(s))
<1> USE DEF pause, pausePlayUpdate, SliderObject
<1>1. pause(s) \in SliderObject
  OBVIOUS
<1>2. SamePlace(s, pause(s))
  BY DEF SamePlace
<1>3. Stopped(s, pause(s))
  BY DEF Stopped, SameManual
<1> QED
  BY <1>1, <1>2, <1>3

(* play starts an interval, and loses the one that runs.                   *)
LEMMA PlayStarts ==
  ASSUME NEW s \in SliderObject
  PROVE  /\ play(s) \in SliderObject
         /\ SamePlace(s, play(s))
         /\ play(s).manualPause = s.manualPause
         /\ play(s).manualPlay = s.manualPlay
         /\ play(s).playing = TRUE /\ play(s).interval = TRUE
         /\ play(s).leaked <=> s.leaked \/ s.interval
         /\ opt.pausePlay => play(s).button = "pause"
<1>1. PICK b \in BOOLEAN : b = (s.leaked \/ s.interval)
  OBVIOUS
<1>2. play(s) = pausePlayUpdate([s EXCEPT !.leaked = b, !.interval = TRUE,
                                          !.playing = TRUE], "pause")
  BY <1>1 DEF play, SliderObject
<1> USE DEF pausePlayUpdate, SliderObject
<1>3. play(s) \in SliderObject
  <2> DEFINE r == [s EXCEPT !.leaked = b, !.interval = TRUE, !.playing = TRUE]
  <2>1. r \in SliderObject
    OBVIOUS
  <2>2. [r EXCEPT !.button = "pause"] \in SliderObject
    BY <2>1
  <2> QED
    BY <1>2, <2>1, <2>2
<1>4. SamePlace(s, play(s))
  BY <1>2 DEF SamePlace
<1>5. /\ play(s).manualPause = s.manualPause
      /\ play(s).manualPlay = s.manualPlay
      /\ play(s).playing = TRUE /\ play(s).interval = TRUE
      /\ play(s).leaked = b
      /\ opt.pausePlay => play(s).button = "pause"
  BY <1>2
<1> QED
  BY <1>1, <1>3, <1>4, <1>5

(* Positions: every slide has its own, between the clones.                 *)
LEMMA Offsets ==
  ASSUME OptionsTyped
  PROVE  /\ cloneOffset \in {0, 1}
         /\ \A k \in SlideNumbers :
              sliderOffset(k) \in cloneOffset .. last + cloneOffset
         /\ \A j, k \in SlideNumbers : sliderOffset(j) = sliderOffset(k) => j = k
         /\ \A k \in SlideNumbers : sliderOffset(k) \in Positions
BY SlidesAssumption
   DEF OptionsTyped, cloneOffset, sliderOffset, SlideNumbers, last, Positions

(* What the container has there is the slide itself.                       *)
LEMMA StripShows ==
  ASSUME OptionsTyped, NEW k \in SlideNumbers
  PROVE  Strip[sliderOffset(k) + 1] = k
<1> DEFINE arr    == [i \in 1 .. Slides |-> i - 1]
           slides == IF opt.reverse /\ ~fade THEN Reverse(arr) ELSE arr
<1> USE SlidesAssumption
<1>1. arr \in Seq(Int) /\ Len(arr) = Slides
  OBVIOUS
<1>2. Reverse(arr) = [i \in 1 .. Slides |-> Slides - i]
  BY <1>1 DEF Reverse
<1>3. slides \in Seq(Int) /\ Len(slides) = Slides
  BY <1>1, <1>2
<1>4. slides[IF opt.reverse /\ ~fade THEN Slides - k ELSE k + 1] = k
  BY <1>2 DEF SlideNumbers, last
<1>5. CASE cloneOffset = 1
  <2>1. Strip = <<slides[Slides]>> \o slides \o <<slides[1]>>
    BY <1>5 DEF Strip
  <2> HIDE DEF slides
  <2>2. \A i \in 1 .. Slides : Strip[i + 1] = slides[i]
    BY <1>3, <2>1
  <2> QED
    BY <1>4, <1>5, <2>2 DEF sliderOffset, SlideNumbers, last
<1>6. CASE cloneOffset # 1
  <2>1. Strip = slides /\ cloneOffset = 0
    BY <1>6 DEF Strip, cloneOffset
  <2> QED
    BY <1>4, <2>1 DEF sliderOffset, SlideNumbers, last
<1> QED
  BY <1>5, <1>6

(* flexAnimate moves to the slide, or to the clone of an end slide, where  *)
(* no slide has its own position.                                          *)
LEMMA SlideString ==
  ASSUME OptionsTyped, ~fade, NEW s \in SliderObject, NEW target \in SlideNumbers
  PROVE  /\ slideString(s, target) \in Positions
         /\ \/ slideString(s, target) = sliderOffset(target)
            \/ /\ opt.animationLoop
               /\ \/ s.currentSlide = 0 /\ target = last
                  \/ s.currentSlide = last /\ target = 0
               /\ \A k \in SlideNumbers : slideString(s, target) # sliderOffset(k)
<1>1. /\ sliderOffset(target) \in Positions
      /\ \A k \in SlideNumbers :
           sliderOffset(k) \in cloneOffset .. last + cloneOffset
  BY Offsets
<1>2. opt.animationLoop => cloneOffset = 1
  BY DEF cloneOffset
<1> QED
  BY <1>1, <1>2, SlidesAssumption DEF slideString, Positions, last
(* The fields that setProps leaves alone.                                  *)
SameCourse(s, r) ==
  /\ r.animating = s.animating /\ r.currentSlide = s.currentSlide
  /\ r.animatingTo = s.animatingTo /\ r.atEnd = s.atEnd
  /\ r.direction = s.direction

(* setProps moves the container and leaves the rest alone.                 *)
LEMMA SetProps ==
  ASSUME NEW s \in SliderObject, NEW place \in Positions
  PROVE  LET r == setProps(s, place)
         IN  /\ r \in SliderObject /\ SameCourse(s, r) /\ SameShow(s, r)
             /\ r.at = place
             /\ ~(transitions /\ place = s.at) => r.moving
<1>1. PICK b \in BOOLEAN : b = (s.bound \/ transitions)
  OBVIOUS
<1>2. PICK m \in BOOLEAN :
        m = (IF transitions /\ place = s.at THEN s.moving ELSE TRUE)
  BY DEF SliderObject
<1> DEFINE r == [s EXCEPT !.at = place, !.moving = m, !.bound = b]
<1>3. setProps(s, place) = r
  BY <1>1, <1>2 DEF setProps, SliderObject
<1>4. r \in SliderObject
  BY DEF SliderObject
<1>5. SameCourse(s, r) /\ SameShow(s, r) /\ r.at = place /\ r.moving = m
  BY DEF SliderObject, SameCourse, SameShow, SameManual
<1> QED
  BY <1>2, <1>3, <1>4, <1>5

(* So does setProps without a duration, which ends a movement.             *)
LEMMA SetPropsNow ==
  ASSUME NEW s \in SliderObject, NEW place \in Positions
  PROVE  LET r == setPropsNow(s, place)
         IN  /\ r \in SliderObject /\ SameCourse(s, r) /\ SameShow(s, r)
             /\ r.at = place /\ r.moving = FALSE
BY DEF setPropsNow, SliderObject, SameCourse, SameShow, SameManual

(* fadeTo and slideTo, of a slider whose animation to target has begun.    *)
Begun(s, p, target) ==
  /\ p \in SliderObject
  /\ p.animating /\ p.animatingTo = target
  /\ p.atEnd <=> target \in {0, last}
  /\ p.currentSlide = s.currentSlide /\ p.direction = s.direction
  /\ p.at = s.at

(* A fading slider is at its slide at once.                                *)
LEMMA FadeTo ==
  ASSUME OptionsTyped, fade, NEW s, NEW target \in SlideNumbers, NEW p,
         Begun(s, p, target)
  PROVE  LET r == fadeTo(p, target)
         IN  /\ Good(r) /\ SameShow(p, r)
             /\ r.direction = p.direction /\ r.animatingTo = target
<1> DEFINE t == [p EXCEPT !.at = target, !.animating = FALSE,
                          !.currentSlide = target]
           u == [p EXCEPT !.at = target, !.moving = TRUE]
<1>1. p \in SliderObject /\ target \in Positions /\ target = sliderOffset(target)
  BY SlidesAssumption
     DEF Begun, Positions, SlideNumbers, last, sliderOffset, cloneOffset
<1>2. /\ t \in SliderObject /\ SameShow(p, t) /\ t.direction = p.direction
      /\ t.animatingTo = p.animatingTo /\ t.animating = FALSE
      /\ t.currentSlide = target /\ t.atEnd = p.atEnd /\ t.at = target
  BY <1>1 DEF SliderObject, SameShow, SameManual
<1>3. /\ u \in SliderObject /\ SameShow(p, u) /\ u.direction = p.direction
      /\ u.animatingTo = p.animatingTo /\ u.animating = p.animating
      /\ u.atEnd = p.atEnd /\ u.at = target /\ u.moving = TRUE
  BY <1>1 DEF SliderObject, SameShow, SameManual
<1>4. Good(t)
  BY <1>1, <1>2 DEF Begun, Good, Rests, EndsKnown, Placed
<1>5. Good(u)
  BY <1>1, <1>3 DEF Begun, Good, Rests, EndsKnown, Placed
<1>6. fadeTo(p, target) = t \/ fadeTo(p, target) = u
  BY DEF fadeTo
<1> HIDE DEF t, u
<1> QED
  BY <1>2, <1>3, <1>4, <1>5, <1>6 DEF Begun

(* A sliding one moves to the slide or onto a clone; on to a clone it waits *)
(* for the end of the animation, as atEnd tells it to.                     *)
LEMMA SlideTo ==
  ASSUME OptionsTyped, ~fade, NEW s \in SliderObject, Rests(s), Placed(s),
         ~s.animating, NEW target \in SlideNumbers,
         ~Draggable /\ transitions => target # s.currentSlide,
         NEW p, Begun(s, p, target)
  PROVE  LET r == slideTo(p, target)
         IN  /\ Good(r) /\ SameShow(p, r)
             /\ r.direction = p.direction /\ r.animatingTo = target
<1> DEFINE place == slideString(p, target)
           m     == setProps(p, place)
           n     == [m EXCEPT !.animating = FALSE, !.currentSlide = target]
<1>1. p \in SliderObject
  BY DEF Begun
<1>2. /\ place \in Positions
      /\ \/ place = sliderOffset(target)
         \/ /\ opt.animationLoop
            /\ \/ p.currentSlide = 0 /\ target = last
               \/ p.currentSlide = last /\ target = 0
            /\ \A k \in SlideNumbers : place # sliderOffset(k)
  BY <1>1, SlideString
<1> HIDE DEF place
<1>3. /\ m \in SliderObject /\ SameCourse(p, m) /\ SameShow(p, m)
      /\ m.at = place
      /\ ~(transitions /\ place = p.at) => m.moving
  BY <1>1, <1>2, SetProps
<1> HIDE DEF m
<1>4. /\ n \in SliderObject /\ SameShow(p, n) /\ n.direction = p.direction
      /\ n.animatingTo = target /\ n.animating = FALSE
      /\ n.currentSlide = target /\ n.atEnd = p.atEnd /\ n.at = place
  BY <1>3 DEF SliderObject, SameShow, SameManual, SameCourse, Begun
<1> HIDE DEF n
<1>5. CASE transitions /\ (~opt.animationLoop \/ ~p.atEnd)
  <2>1. slideTo(p, target) = n
    BY <1>5 DEF slideTo, m, n, place
  <2>2. place = sliderOffset(target)
    BY <1>2, <1>5 DEF Begun
  <2>3. Good(n)
    BY <1>4, <2>2 DEF Begun, Good, Rests, EndsKnown, Placed
  <2> QED
    BY <1>4, <2>1, <2>3
<1>6. CASE ~(transitions /\ (~opt.animationLoop \/ ~p.atEnd))
  <2>1. slideTo(p, target) = m
    BY <1>6 DEF slideTo, m, place
  <2>2. ~Draggable => m.moving
    <3>1. SUFFICES ASSUME ~Draggable, transitions PROVE place # p.at
      BY <1>3
    <3>2. target # s.currentSlide /\ s.currentSlide \in SlideNumbers
      BY <3>1 DEF SliderObject
    <3>3. p.at = sliderOffset(s.currentSlide)
      BY <3>1 DEF Begun, Placed
    <3>4. sliderOffset(target) # sliderOffset(s.currentSlide)
      BY <3>2, Offsets
    <3> QED
      BY <1>2, <3>2, <3>3, <3>4
  <2>3. m.at = sliderOffset(m.animatingTo) \/ Wraps(m)
    BY <1>2, <1>3 DEF Wraps, SameCourse, Begun
  <2>4. m.animating /\ m.animatingTo = target /\ m.atEnd = p.atEnd
    BY <1>3 DEF SameCourse, Begun
  <2>5. Good(m)
    BY <1>3, <2>2, <2>3, <2>4 DEF Begun, Good, Rests, EndsKnown, Placed
  <2> QED
    BY <1>3, <2>1, <2>4, <2>5 DEF SameCourse
<1> QED
  BY <1>5, <1>6
(* flexAnimate keeps the slider in order and at most stops the show.  It   *)
(* begins an animation only when none is under way, and to a slide that    *)
(* canAdvance lets it reach unless it is told to override it.              *)
LEMMA FlexAnimate ==
  ASSUME OptionsTyped, NEW s, Good(s), NEW target \in SlideNumbers,
         NEW pauses \in BOOLEAN, NEW override \in BOOLEAN,
         ~Draggable /\ transitions => ~override
  PROVE  LET r == flexAnimate(s, target, pauses, override)
         IN  /\ Good(r) /\ Quieter(s, r) /\ r.direction = s.direction
             /\ \/ r.animatingTo = s.animatingTo
                \/ /\ r.animatingTo = target /\ ~s.animating
                   /\ canAdvance(s, target) \/ override
<1>1. CASE s.animating \/ ~(canAdvance(s, target) \/ override) \/ ~visible
  <2>1. flexAnimate(s, target, pauses, override) = s
    BY <1>1 DEF flexAnimate
  <2> QED
    BY <2>1 DEF Quieter, SameShow, SameManual
<1>2. CASE ~s.animating /\ (canAdvance(s, target) \/ override) /\ visible
  <2>1. PICK e \in BOOLEAN : e = (target \in {0, last})
    <3>1. (target \in {0, last}) \in BOOLEAN
      OBVIOUS
    <3> QED
      BY <3>1, Zenon
  <2>2. PICK d \in SUBSET {"next", "prev"} : d = directionNavUpdate(target)
    BY DEF directionNavUpdate
  <2> DEFINE begun  == [s EXCEPT !.animating   = TRUE,
                                 !.animatingTo = target,
                                 !.active      = target,
                                 !.atEnd       = e,
                                 !.disabled    = d]
             stops  == pauses \/ (target = last /\ ~opt.animationLoop)
             paused == IF stops THEN pause(begun) ELSE begun
             r      == IF fade THEN fadeTo(paused, target)
                       ELSE slideTo(paused, target)
  <2>3. flexAnimate(s, target, pauses, override) = r
    BY <1>2, <2>1, <2>2 DEF flexAnimate
  <2>4. Begun(s, begun, target) /\ SameShow(s, begun)
    BY <2>1 DEF Good, SliderObject, Begun, SameShow, SameManual
  <2> HIDE DEF begun
  <2>5. Begun(s, paused, target) /\ Quieter(s, paused)
    <3>1. CASE stops
      <4>1. /\ pause(begun) \in SliderObject
            /\ SamePlace(begun, pause(begun)) /\ Stopped(begun, pause(begun))
        BY <2>4, PauseStops DEF Begun
      <4> QED
        BY <2>4, <3>1, <4>1
           DEF Begun, SamePlace, Quieter, Stopped, SameShow, SameManual
    <3>2. CASE ~stops
      BY <2>4, <3>2 DEF Quieter
    <3> QED
      BY <3>1, <3>2
  <2> HIDE DEF paused
  <2>6. /\ Good(r) /\ SameShow(paused, r)
        /\ r.direction = paused.direction /\ r.animatingTo = target
    <3>1. CASE fade
      BY <2>5, <3>1, FadeTo
    <3>2. CASE ~fade
      <4>1. ~Draggable /\ transitions => target # s.currentSlide
        BY <1>2 DEF canAdvance
      <4> QED
        BY <1>2, <2>5, <3>2, <4>1, SlideTo DEF Good
    <3> QED
      BY <3>1, <3>2
  <2> HIDE DEF r
  <2>7. Quieter(s, r)
    BY <2>5, <2>6 DEF Quieter, SameShow, SameManual, Stopped
  <2> QED
    BY <1>2, <2>3, <2>5, <2>6, <2>7 DEF Begun
<1> QED
  BY <1>1, <1>2

(* getTarget stores the direction and nothing else.                        *)
LEMMA TowardsKeeps ==
  ASSUME NEW s, Good(s), NEW dir \in Directions
  PROVE  LET r == Towards(s, dir)
         IN  /\ Good(r) /\ SameShow(s, r) /\ r.direction = dir
             /\ r.animating = s.animating /\ r.currentSlide = s.currentSlide
             /\ r.animatingTo = s.animatingTo /\ r.atEnd = s.atEnd
<1> DEFINE r == [s EXCEPT !.direction = dir]
<1>1. /\ r \in SliderObject /\ SameShow(s, r) /\ r.direction = dir
      /\ r.animating = s.animating /\ r.currentSlide = s.currentSlide
      /\ r.animatingTo = s.animatingTo /\ r.atEnd = s.atEnd
      /\ r.at = s.at /\ r.moving = s.moving
  BY DEF Good, SliderObject, SameShow, SameManual, Directions
<1>2. r = Towards(s, dir)
  BY DEF Towards
<1> HIDE DEF r
<1>3. Good(r)
  BY <1>1 DEF Good, Rests, EndsKnown, Placed, Wraps
<1> QED
  BY <1>1, <1>2, <1>3

(* The target is a slide.                                                  *)
LEMMA TargetSlide ==
  ASSUME NEW s, Good(s), NEW dir \in Directions
  PROVE  getTarget(s, dir) \in SlideNumbers
<1>1. s.currentSlide \in SlideNumbers
  BY DEF Good, SliderObject
<1> QED
  BY <1>1, SlidesAssumption DEF getTarget, SlideNumbers, last

(* The animation a step, a click or a swipe begins goes the way it says.   *)
Onwards(s, r) ==
  ~opt.animationLoop /\ opt.startAt = 0 =>
    \/ r.animatingTo = s.animatingTo
    \/ r.direction = "next" /\ r.animatingTo > s.currentSlide
    \/ r.direction = "prev" /\ r.animatingTo < s.currentSlide

(* A step to the next or the previous slide.                               *)
LEMMA StepKeeps ==
  ASSUME OptionsTyped, NEW s, Good(s), NEW dir \in Directions,
         NEW pauses \in BOOLEAN
  PROVE  LET r == Step(s, dir, pauses)
         IN  Good(r) /\ Quieter(s, r) /\ Onwards(s, r)
<1> DEFINE w      == Towards(s, dir)
           target == getTarget(s, dir)
           r      == flexAnimate(w, target, pauses, FALSE)
<1>1. /\ Good(w) /\ SameShow(s, w) /\ w.direction = dir
      /\ w.animating = s.animating /\ w.currentSlide = s.currentSlide
      /\ w.animatingTo = s.animatingTo /\ w.atEnd = s.atEnd
  BY TowardsKeeps
<1>2. target \in SlideNumbers
  BY TargetSlide
<1> HIDE DEF w, target
<1>3. /\ Good(r) /\ Quieter(w, r) /\ r.direction = w.direction
      /\ \/ r.animatingTo = w.animatingTo
         \/ r.animatingTo = target /\ ~w.animating /\ canAdvance(w, target)
  <2>1. FALSE \in BOOLEAN
    OBVIOUS
  <2> QED
    BY <1>1, <1>2, <2>1, FlexAnimate, ZenonT(40)
<1>4. r = Step(s, dir, pauses)
  BY DEF Step, w, target
<1> HIDE DEF r
<1>5. Quieter(s, r)
  BY <1>1, <1>3 DEF Quieter, SameShow, SameManual, Stopped
<1>6. Onwards(s, r)
  <2>1. SUFFICES ASSUME ~opt.animationLoop, opt.startAt = 0,
                        r.animatingTo = target, ~w.animating,
                        canAdvance(w, target)
                 PROVE  \/ dir = "next" /\ target > s.currentSlide
                        \/ dir = "prev" /\ target < s.currentSlide
    BY <1>1, <1>3 DEF Onwards
  <2>2. s.currentSlide \in SlideNumbers
    BY DEF Good, SliderObject
  <2>3. s.currentSlide \in {0, last} => w.atEnd
    BY <1>1, <2>1 DEF Good, Rests, EndsKnown
  <2>4. CASE dir = "next"
    BY <1>1, <2>1, <2>2, <2>3, <2>4, SlidesAssumption
       DEF canAdvance, getTarget, target, SlideNumbers, last
  <2>5. CASE dir = "prev"
    BY <1>1, <2>1, <2>2, <2>3, <2>5, SlidesAssumption
       DEF canAdvance, getTarget, target, SlideNumbers, last
  <2> QED
    BY <2>4, <2>5 DEF Directions
<1> QED
  BY <1>3, <1>4, <1>5, <1>6

(* The end of an animation, and of a transition inside a slide.            *)
LEMMA WrapupKeeps ==
  ASSUME OptionsTyped, NEW s, Good(s), NEW w \in SliderObject,
         SameCourse(s, w), SameShow(s, w), w.at = s.at
  PROVE  LET r == wrapup(w)
         IN  /\ Good(r) /\ SameShow(s, r)
             /\ r.animatingTo = s.animatingTo
<1> DEFINE j == Jumped(w)
           r == [j EXCEPT !.animating = FALSE, !.currentSlide = w.animatingTo]
<1> USE SlidesAssumption
<1>1. /\ j \in SliderObject /\ SameShow(w, j) /\ SameCourse(w, j)
      /\ ~Draggable => j.at = sliderOffset(w.animatingTo)
  <2> DEFINE jumps   == ~fade /\ opt.animationLoop
             toEnd   == jumps /\ w.currentSlide = 0 /\ w.animatingTo = last
             toStart == jumps /\ w.currentSlide = last /\ w.animatingTo = 0
             place   == IF toEnd THEN IF opt.reverse THEN 1 ELSE Slides
                        ELSE IF opt.reverse THEN Slides ELSE 1
  <2>1. CASE toEnd \/ toStart
    <3>1. j = setPropsNow(w, place)
      BY <2>1 DEF Jumped
    <3>2. place \in Positions
      BY DEF Positions
    <3>3. place = sliderOffset(w.animatingTo)
      BY <2>1 DEF sliderOffset, cloneOffset, last
    <3> HIDE DEF place, j
    <3> QED
      BY <3>1, <3>2, <3>3, SetPropsNow
  <2>2. CASE ~(toEnd \/ toStart)
    <3>1. j = w
      BY <2>2 DEF Jumped
    <3>2. ~Wraps(s)
      BY <2>2 DEF Wraps, SameCourse
    <3>3. ~Draggable => w.at = sliderOffset(w.animatingTo)
      BY <3>2 DEF Good, Rests, Placed, SameCourse
    <3> HIDE DEF j
    <3> QED
      BY <3>1, <3>3 DEF SameShow, SameManual, SameCourse
  <2> QED
    BY <2>1, <2>2
<1>2. r = wrapup(w)
  BY DEF wrapup
<1> HIDE DEF j
<1>3. /\ r \in SliderObject /\ r.animating = FALSE
      /\ r.currentSlide = w.animatingTo /\ r.animatingTo = w.animatingTo
      /\ r.atEnd = w.atEnd /\ r.at = j.at
      /\ SameShow(j, r)
  BY <1>1 DEF SliderObject, SameCourse, SameShow, SameManual
<1> HIDE DEF r
<1>4. Good(r)
  BY <1>1, <1>3 DEF Good, Rests, EndsKnown, Placed, SameCourse
<1>5. SameShow(s, r)
  BY <1>1, <1>3 DEF SameShow, SameManual
<1> QED
  BY <1>2, <1>3, <1>4, <1>5 DEF SameCourse
-------------------------------------------------------------------------------
(* The invariant of the slider.                                            *)

Finger ==
  [on : BOOLEAN, dx : {"undefined", "null", "next", "prev"},
   scrolling : BOOLEAN]

SliderInv ==
  /\ OptionsTyped /\ Good(slider)
  /\ finger \in Finger
  /\ finger.on => touch /\ opt.touch

(* The show: besides what PauseHolds says, nothing plays when the button   *)
(* offers to play, or when the mouse came and nobody used the button.      *)
Silent(s, over) ==
  /\ ~s.leaked
  /\ s.interval <=> s.playing
  /\ s.manualPause => ~s.playing
  /\ opt.pausePlay /\ s.button # "pause" => ~s.interval
  /\ over /\ ~s.manualPlay /\ ~s.manualPause => ~s.interval

ShowInv ==
  ~opt.initDelay /\ ~browser.api => ~initDelay /\ Silent(slider, hovered)

(* What a step of the slider does to animatingTo.                          *)
Directed == ~browser.api => Onwards(slider, slider')

(* The predicates above hold of the slider object after the step.          *)
LEMMA GoodNext ==
  ASSUME OptionsTyped, NEW r, Good(r), Becomes(r)
  PROVE  OptionsTyped' /\ Good(slider)'
<1>1. slider' = r /\ opt' = opt /\ browser' = browser
  BY DEF Becomes
<1> QED
  BY <1>1 DEF OptionsTyped, Good, SliderObject, Rests, EndsKnown, Placed,
    Draggable, transitions, touch, Wraps, fade, sliderOffset, cloneOffset

(* A slider that is not moved stays in order.                              *)
LEMMA GoodSame ==
  ASSUME NEW s, Good(s), NEW r \in SliderObject, SamePlace(s, r)
  PROVE  Good(r) /\ Onwards(s, r)
BY DEF Good, Rests, EndsKnown, Placed, Wraps, SamePlace, Onwards

(* A handler that at most stops the show keeps it in order.                *)
LEMMA SilentQuieter ==
  ASSUME NEW s, NEW r, NEW over, Silent(s, over), Quieter(s, r)
  PROVE  Silent(r, over)
<1>1. CASE SameShow(s, r)
  BY <1>1 DEF Silent, SameShow, SameManual
<1>2. CASE Stopped(s, r)
  BY <1>2 DEF Silent, Stopped, SameManual
<1> QED
  BY <1>1, <1>2 DEF Quieter

(* The same after the step.                                                *)
LEMMA SilentNext ==
  ASSUME NEW r, Becomes(r), NEW over, over = hovered',
         ~opt.initDelay /\ ~browser.api => ~initDelay' /\ Silent(r, over)
  PROVE  ShowInv'
BY DEF Becomes, ShowInv, Silent

(* A handler that only moves the slider and at most stops the show.        *)
Moves(r) ==
  Good(r) /\ Quieter(slider, r) /\ (~browser.api => Onwards(slider, r))

(* Such a handler keeps the invariant.                                     *)
LEMMA OnlyMoves ==
  ASSUME SliderInv, ShowInv, NEW r, Moves(r), Only(r)
  PROVE  SliderInv' /\ ShowInv' /\ Directed
<1>1. Becomes(r) /\ UNCHANGED <<initDelay, hovered, finger>>
  BY DEF Only
<1>2. OptionsTyped' /\ Good(slider)'
  BY <1>1, GoodNext DEF SliderInv, Moves
<1>3. SliderInv'
  BY <1>1, <1>2 DEF SliderInv, Becomes, touch
<1>4. ShowInv'
  BY <1>1, SilentQuieter, SilentNext DEF ShowInv, Moves
<1>5. Directed
  BY <1>1 DEF Moves, Directed, Becomes
<1> QED
  BY <1>3, <1>4, <1>5

(* The options have their types.                                           *)
LEMMA OptionsBoolean ==
  ASSUME OptionsTyped
  PROVE  opt \in Options /\ opt.pauseOnAction \in BOOLEAN
BY SlidesAssumption DEF OptionsTyped, Options

(* flexAnimate as the handlers call it: with the option pauseOnAction, ... *)
LEMMA AnimateOnAction ==
  ASSUME OptionsTyped, NEW s, Good(s), NEW target \in SlideNumbers
  PROVE  LET r == flexAnimate(s, target, opt.pauseOnAction, FALSE)
         IN  /\ Good(r) /\ Quieter(s, r) /\ r.direction = s.direction
             /\ \/ r.animatingTo = s.animatingTo
                \/ r.animatingTo = target /\ canAdvance(s, target)
<1>1. FALSE \in BOOLEAN
  OBVIOUS
<1>2. ASSUME NEW pauses \in BOOLEAN
      PROVE  LET r == flexAnimate(s, target, pauses, FALSE)
             IN  /\ Good(r) /\ Quieter(s, r) /\ r.direction = s.direction
                 /\ \/ r.animatingTo = s.animatingTo
                    \/ /\ r.animatingTo = target /\ ~s.animating
                       /\ canAdvance(s, target)
  BY <1>1, FlexAnimate, ZenonT(40)
<1>3. opt.pauseOnAction \in BOOLEAN
  BY OptionsBoolean
<1> QED
  BY <1>2, <1>3

(* ... and with override at the end of a touch.                            *)
LEMMA AnimateBack ==
  ASSUME OptionsTyped, NEW s, Good(s), NEW target \in SlideNumbers,
         ~Draggable => ~transitions
  PROVE  LET r == flexAnimate(s, target, opt.pauseOnAction, TRUE)
         IN  /\ Good(r) /\ Quieter(s, r)
             /\ r.animatingTo \in {s.animatingTo, target}
<1>1. TRUE \in BOOLEAN
  OBVIOUS
<1>2. ASSUME NEW pauses \in BOOLEAN
      PROVE  LET r == flexAnimate(s, target, pauses, TRUE)
             IN  /\ Good(r) /\ Quieter(s, r)
                 /\ r.animatingTo = s.animatingTo \/ r.animatingTo = target
  BY <1>1, FlexAnimate, ZenonT(40)
<1>3. opt.pauseOnAction \in BOOLEAN
  BY OptionsBoolean
<1> QED
  BY <1>2, <1>3

(* The interval, the keys, the wheel and the arrows.                       *)
LEMMA SteppingKeeps ==
  ASSUME SliderInv, ShowInv,
         \/ animateSlides
         \/ \E dir \in Directions :
              keyup(dir) \/ mousewheel(dir) \/ directionNavClick(dir)
  PROVE  SliderInv' /\ ShowInv' /\ Directed
<1>1. PICK dir \in Directions, pauses \in BOOLEAN :
        Only(Step(slider, dir, pauses))
  BY OptionsBoolean DEF SliderInv, animateSlides, keyup, mousewheel,
    directionNavClick, Directions
<1>2. Moves(Step(slider, dir, pauses))
  BY StepKeeps DEF SliderInv, Moves
<1> QED
  BY <1>1, <1>2, OnlyMoves

(* The end of an animation, or of a transition inside a slide.             *)
LEMMA EndKeeps ==
  ASSUME SliderInv, ShowInv, animationEnd \/ bubbledTransitionEnd
  PROVE  SliderInv' /\ ShowInv' /\ Directed
<1> DEFINE still == [slider EXCEPT !.moving = FALSE]
<1>1. PICK w \in {slider, still} : Only(wrapup(w))
  BY DEF animationEnd, bubbledTransitionEnd
<1>2. /\ w \in SliderObject
      /\ SameCourse(slider, w) /\ SameShow(slider, w) /\ w.at = slider.at
  <2>1. slider \in SliderObject
    BY DEF SliderInv, Good
  <2>2. CASE w = slider
    BY <2>1, <2>2, Zenon DEF SameCourse, SameShow, SameManual
  <2>3. CASE w = still
    <3>1. still \in SliderObject
      BY <2>1 DEF SliderObject
    <3>2. SameCourse(slider, still) /\ still.at = slider.at
      BY <2>1 DEF SliderObject, SameCourse
    <3>3. SameShow(slider, still)
      BY <2>1 DEF SliderObject, SameShow, SameManual
    <3> HIDE DEF still
    <3> QED
      BY <2>3, <3>1, <3>2, <3>3
  <2> QED
    BY <2>2, <2>3
<1>3. LET r == wrapup(w)
      IN  Good(r) /\ SameShow(slider, r) /\ r.animatingTo = slider.animatingTo
  BY <1>2, WrapupKeeps DEF SliderInv
<1>4. Moves(wrapup(w))
  BY <1>3 DEF Moves, Quieter, Onwards
<1> QED
  BY <1>1, <1>4, OnlyMoves

(* The controls below the slider.                                          *)
LEMMA ControlNavKeeps ==
  ASSUME SliderInv, ShowInv, NEW target \in SlideNumbers, controlNavClick(target)
  PROVE  SliderInv' /\ ShowInv' /\ Directed
<1> DEFINE dir == IF target > slider.currentSlide THEN "next" ELSE "prev"
           w   == Towards(slider, dir)
           r   == flexAnimate(w, target, opt.pauseOnAction, FALSE)
<1>1. Only(r)
  BY DEF controlNavClick
<1>2. /\ Good(w) /\ SameShow(slider, w) /\ w.direction = dir
      /\ w.currentSlide = slider.currentSlide
      /\ w.animatingTo = slider.animatingTo
  BY TowardsKeeps DEF SliderInv, Directions
<1> HIDE DEF w
<1>3. /\ Good(r) /\ Quieter(w, r) /\ r.direction = w.direction
      /\ \/ r.animatingTo = w.animatingTo
         \/ r.animatingTo = target /\ canAdvance(w, target)
  <2>1. OptionsTyped
    BY DEF SliderInv
  <2>2. Good(w)
    BY <1>2
  <2> QED
    BY <2>1, <2>2, AnimateOnAction
<1> HIDE DEF r
<1>4. Quieter(slider, r)
  BY <1>2, <1>3 DEF Quieter, SameShow, SameManual, Stopped
<1>5. slider.currentSlide \in SlideNumbers
  BY DEF SliderInv, Good, SliderObject
<1>6. Onwards(slider, r)
  BY <1>2, <1>3, <1>5, SlidesAssumption
     DEF Onwards, canAdvance, SlideNumbers, last
<1> QED
  BY <1>1, <1>3, <1>4, <1>6, OnlyMoves DEF Moves

(* The window is resized.                                                  *)
LEMMA ResizeKeeps ==
  ASSUME SliderInv, ShowInv, resize
  PROVE  SliderInv' /\ ShowInv' /\ Directed
<1> DEFINE place == sliderOffset(slider.currentSlide)
           r     == setPropsNow(slider, place)
<1>1. slider \in SliderObject /\ place \in Positions
  BY Offsets DEF SliderInv, Good, SliderObject
<1> HIDE DEF place
<1>2. /\ r \in SliderObject /\ SameCourse(slider, r) /\ SameShow(slider, r)
      /\ r.at = place
  BY <1>1, SetPropsNow
<1>3. ~slider.animating /\ Only(r)
  BY DEF resize, place
<1> HIDE DEF r
<1>4. Good(r)
  BY <1>2, <1>3
     DEF SliderInv, Good, Rests, EndsKnown, Placed, SameCourse, place
<1> QED
  BY <1>2, <1>3, <1>4, OnlyMoves DEF Moves, Quieter, Onwards, SameCourse
(* The timeout of initDelay, which the show is free of without the option. *)
LEMMA InitDelayKeeps ==
  ASSUME SliderInv, ShowInv, initDelayOver
  PROVE  SliderInv' /\ ShowInv' /\ Directed
<1> DEFINE r == play(slider)
<1>1. /\ r \in SliderObject /\ SamePlace(slider, r)
      /\ Becomes(r) /\ UNCHANGED <<hovered, finger>>
  BY PlayStarts DEF initDelayOver, SliderInv, Good
<1> HIDE DEF r
<1>2. Good(r) /\ Onwards(slider, r)
  BY <1>1, GoodSame DEF SliderInv
<1>3. OptionsTyped' /\ Good(slider)'
  BY <1>1, <1>2, GoodNext DEF SliderInv
<1>4. opt.initDelay \/ browser.api
  BY DEF ShowInv, initDelayOver
<1> QED
  BY <1>1, <1>2, <1>3, <1>4
     DEF SliderInv, ShowInv, Directed, Becomes, touch

(* The pause button; it says what the show does.                           *)
LEMMA PausePlayKeeps ==
  ASSUME SliderInv, ShowInv, pausePlayClick
  PROVE  SliderInv' /\ ShowInv' /\ Directed
<1> DEFINE asked(m) == [slider EXCEPT !.manualPause = m, !.manualPlay = ~m]
<1>1. slider \in SliderObject
  BY DEF SliderInv, Good
<1>2. ASSUME NEW m \in BOOLEAN
      PROVE  /\ asked(m) \in SliderObject /\ SamePlace(slider, asked(m))
             /\ asked(m).manualPause = m /\ asked(m).manualPlay = ~m
             /\ asked(m).interval = slider.interval
             /\ asked(m).leaked = slider.leaked
  <2>1. PICK n \in BOOLEAN : n = ~m
    OBVIOUS
  <2> QED
    BY <1>1, <2>1 DEF SliderObject, SamePlace
<1> HIDE DEF asked
<1>3. CASE slider.button = "pause"
  <2> DEFINE r == pause(asked(TRUE))
  <2>1. Only(r)
    <3>1. (slider.button = "pause") = TRUE
      BY <1>3
    <3> QED
      BY <3>1 DEF pausePlayClick, asked
  <2>2. /\ r \in SliderObject
        /\ SamePlace(asked(TRUE), r) /\ Stopped(asked(TRUE), r)
    BY <1>2, PauseStops
  <2> HIDE DEF r
  <2>3. SamePlace(slider, r)
    BY <1>2, <2>2 DEF SamePlace
  <2>4. Good(r) /\ Onwards(slider, r)
    BY <2>2, <2>3, GoodSame DEF SliderInv
  <2>5. ASSUME Silent(slider, hovered) PROVE Silent(r, hovered)
    BY <1>2, <2>2, <2>5 DEF Silent, Stopped, SameManual
  <2> QED
    BY <2>1, <2>4, <2>5, GoodNext, SilentNext
       DEF Only, Becomes, SliderInv, ShowInv, Directed, touch
<1>4. CASE slider.button # "pause"
  <2> DEFINE r == play(asked(FALSE))
  <2>1. Only(r)
    <3>1. (slider.button = "pause") = FALSE
      BY <1>4
    <3> QED
      BY <3>1 DEF pausePlayClick, asked
  <2>2. /\ r \in SliderObject /\ SamePlace(asked(FALSE), r)
        /\ r.manualPause = FALSE /\ r.manualPlay = TRUE
        /\ r.playing = TRUE /\ r.interval = TRUE
        /\ r.leaked <=> slider.leaked \/ slider.interval
        /\ opt.pausePlay => r.button = "pause"
    BY <1>2, PlayStarts
  <2> HIDE DEF r
  <2>3. SamePlace(slider, r)
    BY <1>2, <2>2 DEF SamePlace
  <2>4. Good(r) /\ Onwards(slider, r)
    BY <2>2, <2>3, GoodSame DEF SliderInv
  <2>5. ASSUME Silent(slider, hovered)
        PROVE  Silent(r, hovered)
    BY <1>4, <2>2, <2>5 DEF Silent, pausePlayClick
  <2> QED
    BY <2>1, <2>4, <2>5, GoodNext, SilentNext
       DEF Only, Becomes, SliderInv, ShowInv, Directed, touch
<1> QED
  BY <1>3, <1>4

(* The mouse comes and goes.                                               *)
LEMMA HoverKeeps ==
  ASSUME SliderInv, ShowInv, hover
  PROVE  SliderInv' /\ ShowInv' /\ Directed
<1> DEFINE manual == slider.manualPlay \/ slider.manualPause
           r      == IF manual THEN slider
                     ELSE IF hovered THEN play(slider) ELSE pause(slider)
<1>1. slider \in SliderObject
  BY DEF SliderInv, Good
<1>2. Becomes(r) /\ hovered' = ~hovered /\ UNCHANGED <<initDelay, finger>>
  BY DEF hover
<1>3. /\ r \in SliderObject /\ SamePlace(slider, r)
      /\ Silent(slider, hovered) => Silent(r, ~hovered)
  <2>1. CASE manual
    BY <1>1, <2>1 DEF SamePlace, Silent
  <2>2. CASE ~manual /\ hovered
    <3>1. r = play(slider)
      BY <2>2
    <3> HIDE DEF r
    <3> QED
      BY <1>1, <2>2, <3>1, PlayStarts DEF Silent
  <2>3. CASE ~manual /\ ~hovered
    <3>1. r = pause(slider)
      BY <2>3
    <3> HIDE DEF r
    <3> QED
      BY <1>1, <2>3, <3>1, PauseStops DEF Silent, Stopped, SameManual
  <2> QED
    BY <2>1, <2>2, <2>3
<1> HIDE DEF r
<1>4. Good(r) /\ Onwards(slider, r)
  BY <1>3, GoodSame DEF SliderInv
<1>5. OptionsTyped' /\ Good(slider)'
  BY <1>2, <1>4, GoodNext DEF SliderInv
<1>6. ShowInv'
  BY <1>2, <1>3, SilentNext DEF ShowInv
<1> QED
  BY <1>2, <1>4, <1>5, <1>6 DEF SliderInv, Directed, Becomes, touch

(* A finger comes down.                                                    *)
LEMMA TouchStartKeeps ==
  ASSUME SliderInv, ShowInv, onTouchStart
  PROVE  SliderInv' /\ ShowInv' /\ Directed
<1> DEFINE r == pause(slider)
<1>1. /\ Becomes(r) /\ UNCHANGED <<initDelay, hovered>>
      /\ finger' = [finger EXCEPT !.on = TRUE]
      /\ touch /\ opt.touch
  BY DEF onTouchStart
<1>2. /\ r \in SliderObject /\ SamePlace(slider, r) /\ Stopped(slider, r)
  BY PauseStops DEF SliderInv, Good
<1> HIDE DEF r
<1>3. Good(r) /\ Onwards(slider, r)
  BY <1>2, GoodSame DEF SliderInv
<1>4. OptionsTyped' /\ Good(slider)'
  BY <1>1, <1>3, GoodNext DEF SliderInv
<1>5. ShowInv'
  BY <1>1, <1>2, SilentQuieter, SilentNext DEF ShowInv, Quieter
<1>6. finger' \in Finger
  BY <1>1 DEF SliderInv, Finger
<1> QED
  BY <1>1, <1>3, <1>4, <1>5, <1>6 DEF SliderInv, Directed, Becomes, touch

(* A finger drags the slider away only if it slides by transitions.        *)
LEMMA TouchMoveKeeps ==
  ASSUME SliderInv, ShowInv, NEW dx \in Directions, NEW scrolling \in BOOLEAN,
         NEW late \in BOOLEAN, onTouchMove(dx, scrolling, late)
  PROVE  SliderInv' /\ ShowInv' /\ Directed
<1> DEFINE d == setPropsNow(slider, Dragged)
<1>1. PICK r : /\ r = IF transitions /\ (~scrolling \/ late) THEN d ELSE slider
               /\ Becomes(r) /\ UNCHANGED <<initDelay, hovered>>
               /\ finger' = [finger EXCEPT !.dx = dx, !.scrolling = scrolling]
  BY DEF onTouchMove
<1>2. slider \in SliderObject /\ Dragged \in Positions
  BY DEF SliderInv, Good, Positions
<1>3. d \in SliderObject /\ SameCourse(slider, d) /\ SameShow(slider, d)
  BY <1>2, SetPropsNow
<1> HIDE DEF d
<1>4. transitions => Draggable
  BY DEF onTouchMove, SliderInv, Draggable
<1>5. Draggable => Good(d)
  BY <1>3 DEF SliderInv, Good, Rests, EndsKnown, Placed, SameCourse
<1>6. Good(r) /\ SameShow(slider, r) /\ r.animatingTo = slider.animatingTo
  BY <1>1, <1>3, <1>4, <1>5 DEF SliderInv, SameShow, SameManual, SameCourse
<1>7. OptionsTyped' /\ Good(slider)'
  BY <1>1, <1>6, GoodNext DEF SliderInv
<1>8. ShowInv'
  BY <1>1, <1>6, SilentQuieter, SilentNext DEF ShowInv, Quieter
<1>9. finger' \in Finger /\ finger'.on = finger.on
  BY <1>1 DEF SliderInv, Finger, Directions
<1> QED
  BY <1>1, <1>6, <1>7, <1>8, <1>9
     DEF SliderInv, Directed, Onwards, Becomes, touch

(* A swipe goes where canAdvance lets it; the slide a short move returns   *)
(* to is the current one.                                                  *)
LEMMA TouchEndKeeps ==
  ASSUME SliderInv, ShowInv, NEW far \in BOOLEAN, onTouchEnd(far)
  PROVE  SliderInv' /\ ShowInv' /\ Directed
<1> DEFINE dir    == IF (finger.dx = "next") # opt.reverse
                        /\ finger.dx # "undefined"
                     THEN "next" ELSE "prev"
           w      == Towards(slider, dir)
           target == getTarget(slider, dir)
           counts == /\ slider.animatingTo = slider.currentSlide
                     /\ ~finger.scrolling /\ finger.dx # "null"
           swipe  == flexAnimate(w, target, opt.pauseOnAction, FALSE)
           back   == flexAnimate(w, slider.currentSlide, opt.pauseOnAction, TRUE)
<1>1. /\ UNCHANGED <<initDelay, hovered, opt, browser>>
      /\ finger' = [finger EXCEPT !.on = FALSE, !.dx = "null"]
      /\ touch /\ opt.touch
      /\ \/ Becomes(slider) \/ Becomes(swipe)
         \/ Becomes(w)
         \/ Becomes(back) /\ slider.animatingTo = slider.currentSlide
  BY DEF onTouchEnd, SliderInv, Becomes
<1>2. dir \in Directions
  BY DEF Directions
<1> HIDE DEF dir
<1>3. /\ Good(w) /\ SameShow(slider, w) /\ w.direction = dir
      /\ w.currentSlide = slider.currentSlide
      /\ w.animatingTo = slider.animatingTo
  BY <1>2, TowardsKeeps DEF SliderInv
<1>4. Moves(slider)
  BY DEF SliderInv, Moves, Quieter, SameShow, SameManual, Onwards
<1>5. Moves(w)
  BY <1>3 DEF Moves, Quieter, Onwards
<1>6. Moves(swipe)
  <2>1. swipe = Step(slider, dir, opt.pauseOnAction)
    BY DEF Step
  <2> QED
    BY <1>2, <2>1, StepKeeps, OptionsBoolean DEF SliderInv, Moves
<1>7. slider.animatingTo = slider.currentSlide => Moves(back)
  <2>1. slider.currentSlide \in SlideNumbers
    BY DEF SliderInv, Good, SliderObject
  <2>2. ~Draggable => ~transitions
    BY <1>1 DEF Draggable
  <2> HIDE DEF w
  <2>3. /\ Good(back) /\ Quieter(w, back)
        /\ back.animatingTo \in {w.animatingTo, slider.currentSlide}
    <3>1. OptionsTyped
      BY DEF SliderInv
    <3>2. Good(w)
      BY <1>3
    <3> QED
      BY <2>1, <2>2, <3>1, <3>2, AnimateBack
  <2> HIDE DEF back
  <2>4. Quieter(slider, back)
    BY <1>3, <2>3 DEF Quieter, SameShow, SameManual, Stopped
  <2> QED
    BY <1>3, <2>3, <2>4 DEF Moves, Onwards
<1> HIDE DEF w, swipe, back
<1>8. PICK r : Moves(r) /\ Becomes(r)
  BY <1>1, <1>4, <1>5, <1>6, <1>7
<1>9. OptionsTyped' /\ Good(slider)'
  BY <1>8, GoodNext DEF SliderInv, Moves
<1>10. ShowInv'
  BY <1>1, <1>8, SilentQuieter, SilentNext DEF ShowInv, Moves
<1>11. finger' \in Finger /\ ~finger'.on
  BY <1>1 DEF SliderInv, Finger
<1> QED
  BY <1>8, <1>9, <1>10, <1>11 DEF SliderInv, Directed, Moves, Becomes

(* Commands of other scripts: nothing is said of the show.                 *)
LEMMA CommandKeeps ==
  ASSUME SliderInv, ShowInv, command
  PROVE  SliderInv' /\ ShowInv' /\ Directed
<1>1. PICK r : Good(r) /\ Only(r)
  <2>1. CASE Only(play(slider))
    BY <2>1, PlayStarts, GoodSame DEF SliderInv, Good
  <2>2. CASE Only(pause(slider))
    BY <2>2, PauseStops, GoodSame DEF SliderInv, Good
  <2>3. ASSUME NEW dir \in {"next", "prev"}, Only(Step(slider, dir, TRUE))
        PROVE  \E r : Good(r) /\ Only(r)
    BY <2>3, StepKeeps DEF SliderInv, Directions
  <2>4. ASSUME NEW n \in SlideNumbers, Only(flexAnimate(slider, n, TRUE, FALSE))
        PROVE  \E r : Good(r) /\ Only(r)
    BY <2>4, FlexAnimate DEF SliderInv
  <2> QED
    BY <2>1, <2>2, <2>3, <2>4 DEF command
<1>2. browser.api
  BY DEF command
<1>3. OptionsTyped' /\ Good(slider)'
  BY <1>1, GoodNext DEF SliderInv, Only
<1> QED
  BY <1>1, <1>2, <1>3
     DEF Only, Becomes, SliderInv, ShowInv, Directed, touch

(* Every handler keeps the invariant of the slider.                        *)
LEMMA SliderStep ==
  ASSUME SliderInv, ShowInv, SliderNext
  PROVE  SliderInv' /\ ShowInv' /\ Directed
BY InitDelayKeeps, SteppingKeeps, EndKeeps, ControlNavKeeps, PausePlayKeeps,
   HoverKeeps, TouchStartKeeps, TouchMoveKeeps, TouchEndKeeps, ResizeKeeps,
   CommandKeeps
   DEF SliderNext

(* The slider as methods.init and setup leave it.                          *)
LEMMA SliderInitKeeps == ASSUME SliderInit PROVE SliderInv /\ ShowInv
<1>1. OptionsTyped /\ opt \in Options
  BY OptionsBoolean DEF SliderInit, OptionsTyped
<1>2. PICK first \in BOOLEAN : first = (opt.startAt = 0)
  OBVIOUS
<1>3. PICK button \in {"none", "pause", "play"} :
        /\ button = IF opt.pausePlay THEN "pause" ELSE "none"
        /\ opt.pausePlay => button = "pause"
  OBVIOUS
<1>4. PICK disabled \in SUBSET {"next", "prev"} :
        disabled = directionNavUpdate(opt.startAt)
  BY DEF directionNavUpdate
<1> DEFINE fresh == [animating |-> FALSE, currentSlide |-> opt.startAt,
                     animatingTo |-> opt.startAt, atEnd |-> first,
                     direction |-> "undefined", playing |-> FALSE,
                     interval |-> FALSE, leaked |-> FALSE,
                     manualPause |-> FALSE, manualPlay |-> FALSE,
                     button |-> button, active |-> opt.startAt,
                     disabled |-> disabled,
                     at |-> sliderOffset(opt.startAt), moving |-> FALSE,
                     bound |-> FALSE]
<1>5. slider = IF opt.slideshow /\ ~opt.initDelay THEN play(fresh) ELSE fresh
  BY <1>2, <1>3, <1>4 DEF SliderInit
<1>6. opt.startAt \in SlideNumbers /\ sliderOffset(opt.startAt) \in Positions
  <2>1. opt.startAt \in SlideNumbers
    BY <1>1 DEF Options, SlideNumbers, last
  <2> QED
    BY <1>1, <2>1, Offsets
<1>7. fresh \in SliderObject
  BY <1>6 DEF SliderObject
<1>8. Good(fresh)
  BY <1>2, <1>7, SlidesAssumption DEF Good, Rests, EndsKnown, Placed, last
<1>9. /\ ~fresh.leaked /\ ~fresh.interval /\ ~fresh.playing
      /\ ~fresh.manualPause
      /\ opt.pausePlay => fresh.button = "pause"
  BY <1>3
<1> HIDE DEF fresh
<1>10. /\ play(fresh) \in SliderObject /\ SamePlace(fresh, play(fresh))
       /\ play(fresh).manualPause = fresh.manualPause
       /\ play(fresh).playing = TRUE /\ play(fresh).interval = TRUE
       /\ play(fresh).leaked <=> fresh.leaked \/ fresh.interval
       /\ opt.pausePlay => play(fresh).button = "pause"
  BY <1>7, PlayStarts
<1>11. Good(slider)
  BY <1>5, <1>8, <1>10, GoodSame
<1>12. Silent(slider, FALSE)
  BY <1>5, <1>9, <1>10 DEF Silent
<1>13. finger \in Finger /\ ~finger.on
  BY DEF SliderInit, Finger
<1>14. ~opt.initDelay => ~initDelay
  BY DEF SliderInit
<1>15. hovered = FALSE
  BY DEF SliderInit
<1> QED
  BY <1>1, <1>11, <1>12, <1>13, <1>14, <1>15 DEF SliderInv, ShowInv

(* The other script does not touch the slider.                             *)
LEMMA SliderStutter ==
  ASSUME SliderInv, ShowInv, UNCHANGED sliderVars
  PROVE  SliderInv' /\ ShowInv'
<1>1. UNCHANGED <<opt, browser, slider, initDelay, hovered, finger>>
  BY DEF sliderVars
<1>2. Becomes(slider)
  BY <1>1 DEF Becomes
<1>3. OptionsTyped' /\ Good(slider)'
  BY <1>2, GoodNext DEF SliderInv
<1> QED
  BY <1>1, <1>3 DEF SliderInv, ShowInv, Silent, touch
-------------------------------------------------------------------------------
(* The invariant of the filter: a call that a later one has overtaken, or  *)
(* one still to come, has nothing animated that could run its callback;    *)
(* the last call holds the items of the entry that is highlighted.         *)
FilterInv ==
  /\ clicks \in 0 .. MaxClicks
  /\ DOMAIN dest = Calls /\ DOMAIN performed = Calls /\ DOMAIN animated = Calls
  /\ \A c \in Calls : c > clicks => ~performed[c]
  /\ \A c \in Calls : c # clicks /\ ~performed[c] => animated[c] = 0
  /\ clicks > 0 /\ ~performed[clicks] => dest[clicks] = filteredData(active)
  /\ FilterShown

(* The last class of an entry that is not highlighted is its own.          *)
LEMMA FilterClass == ASSUME NEW li PROVE filterClass(li) = li
BY DEF filterClass, classes, removeClass, Last

(* The page as it is loaded.                                               *)
LEMMA FilterInit == ASSUME QuicksandInit PROVE FilterInv
BY QuicksandAssumption DEF QuicksandInit, FilterInv, FilterShown, Settled

(* A click stops the animations of the calls before it.                    *)
LEMMA ClickKeeps ==
  ASSUME FilterInv, NEW li \in Filters, Click(li)
  PROVE  FilterInv'
<1> USE QuicksandAssumption DEF FilterInv, Calls
<1>1. /\ clicks < MaxClicks /\ clicks' = clicks + 1 /\ active' = li
      /\ performed' = performed
      /\ dest' = [dest EXCEPT ![clicks'] = filteredData(li)]
  BY FilterClass DEF Click
<1>2. PICK n : animated' = [stop EXCEPT ![clicks'] = n]
  BY DEF Click
<1>3. ~performed'[clicks']
  BY <1>1
<1>4. dest'[clicks'] = filteredData(active)'
  BY <1>1
<1>5. \A c \in Calls : c # clicks' /\ ~performed[c] => animated'[c] = 0
  BY <1>1, <1>2 DEF stop
<1>6. DOMAIN dest' = Calls /\ DOMAIN animated' = Calls
  BY <1>1, <1>2 DEF stop
<1>7. FilterShown'
  BY <1>3 DEF FilterShown, Settled
<1>8. \A c \in Calls : c > clicks' => ~performed'[c]
  BY <1>1
<1> HIDE DEF Calls
<1> QED
  BY <1>1, <1>3, <1>4, <1>5, <1>6, <1>7, <1>8

(* Only the last call has animations whose end runs its callback.          *)
LEMMA CompleteKeeps ==
  ASSUME FilterInv, NEW d \in Calls, Complete(d)
  PROVE  FilterInv'
<1> USE QuicksandAssumption DEF FilterInv
<1>1. /\ animated[d] > 0 /\ animated' = [animated EXCEPT ![d] = animated[d] - 1]
      /\ active' = active /\ clicks' = clicks
  BY DEF Complete
<1>2. filteredData(active)' = filteredData(active)
  BY <1>1
<1>3. CASE performed[d]
  <2>1. UNCHANGED <<children, dest, performed>>
    BY <1>3 DEF Complete, postCallback
  <2> QED
    BY <1>1, <1>2, <1>3, <2>1 DEF FilterShown, Settled
<1>4. CASE ~performed[d]
  <2>1. d = clicks
    BY <1>1, <1>4
  <2>2. /\ children' = Lightbox(dest[d])
        /\ dest' = [dest EXCEPT ![d] = <<>>]
        /\ performed' = [performed EXCEPT ![d] = TRUE]
    BY <1>4 DEF Complete, postCallback
  <2>3. clicks > 0
    BY <2>1 DEF Calls
  <2>4. children' = Copies(filteredData(active), TRUE)
    BY <1>4, <2>1, <2>2, <2>3 DEF Lightbox
  <2>5. FilterShown'
    BY <1>1, <1>2, <2>4 DEF FilterShown, Copies
  <2>6. \A c \in Calls : c # clicks => performed'[c] = performed[c]
                                       /\ animated'[c] = animated[c]
    BY <1>1, <2>1, <2>2
  <2>7. performed'[clicks']
    BY <1>1, <2>1, <2>2
  <2> QED
    BY <1>1, <2>2, <2>5, <2>6, <2>7
<1> QED
  BY <1>3, <1>4

(* The other script does not touch the filter.                             *)
LEMMA FilterStutter == ASSUME FilterInv, UNCHANGED quicksandVars PROVE FilterInv'
BY DEF FilterInv, quicksandVars, FilterShown, Settled, Copies
-------------------------------------------------------------------------------
(* The theorems.                                                           *)

PageInv == SliderInv /\ ShowInv /\ FilterInv

(* The two scripts together.                                               *)
LEMMA PageStep == ASSUME PageInv, [Next]_pageVars PROVE PageInv'
<1>1. CASE OnIndex(SliderNext)
  BY <1>1, SliderStep, FilterStutter DEF OnIndex, PageInv
<1>2. CASE OnPortfolio(QuicksandNext)
  BY <1>2, SliderStutter, ClickKeeps, CompleteKeeps
     DEF OnPortfolio, QuicksandNext, PageInv
<1>3. CASE UNCHANGED pageVars
  BY <1>3, SliderStutter, FilterStutter DEF pageVars, PageInv
<1> QED
  BY <1>1, <1>2, <1>3 DEF Next

(* The invariant of the page.                                              *)
LEMMA AlwaysPageInv == Spec => []PageInv
<1>1. Init => PageInv
  BY SliderInitKeeps, FilterInit DEF Init, PageInv
<1> QED
  BY <1>1, PageStep, PTL DEF Spec

(* However the interval, the visitor and the ends of animations interleave,*)
(* the slider at rest shows slider.currentSlide and not a clone of it      *)
(* (flexAnimate, wrapup and the resize handler of jquery.flexslider.js),   *)
(* for any number of slides and any options.                               *)
THEOREM ShownIsCurrentHolds == Spec => []ShownIsCurrent
<1>1. ASSUME PageInv, ~Draggable, ~slider.moving
      PROVE  /\ Strip[slider.at + 1] = slider.currentSlide
             /\ slider.at \in cloneOffset .. last + cloneOffset
  <2>1. /\ slider.currentSlide \in SlideNumbers
        /\ slider.at = sliderOffset(slider.currentSlide)
    BY <1>1 DEF PageInv, SliderInv, Good, SliderObject, Placed
  <2> QED
    BY <1>1, <2>1, StripShows, Offsets DEF PageInv, SliderInv
<1>2. PageInv => ShownIsCurrent
  BY <1>1 DEF ShownIsCurrent
<1> QED
  BY <1>2, AlwaysPageInv, PTL

(* Exactly one interval runs while the show plays and none while it is     *)
(* paused: none of the handlers calls slider.play while an interval runs.  *)
THEOREM PauseHoldsHolds == Spec => []PauseHolds
<1>1. PageInv => PauseHolds
  BY DEF PageInv, ShowInv, Silent, PauseHolds
<1> QED
  BY <1>1, AlwaysPageInv, PTL

(* Without animationLoop no handler leads round an end: the atEnd that     *)
(* flexAnimate stored is right whenever canAdvance looks at it.            *)
THEOREM NoWrapHolds == Spec => NoWrap
<1>1. ASSUME PageInv, [Next]_pageVars
      PROVE  [ (~opt.animationLoop /\ opt.startAt = 0 /\ ~browser.api)
               => \/ slider'.animatingTo = slider.animatingTo
                  \/ /\ slider'.direction = "next"
                     /\ slider'.animatingTo > slider.currentSlide
                  \/ /\ slider'.direction = "prev"
                     /\ slider'.animatingTo < slider.currentSlide
             ]_sliderVars
  <2>1. CASE SliderNext
    BY <1>1, <2>1, SliderStep DEF PageInv, Directed, Onwards
  <2>2. CASE UNCHANGED sliderVars
    BY <2>2
  <2> QED
    BY <1>1, <2>1, <2>2 DEF Next, OnIndex, OnPortfolio, pageVars
<1> QED
  BY <1>1, AlwaysPageInv, PTL DEF Spec, NoWrap

(* Once the last call of quicksand has put its items in place the page     *)
(* shows what the highlighted entry stands for: no call that was overtaken *)
(* runs its callback (postCallback and the stop() of jquery.quicksand.js). *)
THEOREM FilterShownHolds == Spec => []FilterShown
<1>1. PageInv => FilterShown
  BY DEF PageInv, FilterInv
<1> QED
  BY <1>1, AlwaysPageInv, PTL
===============================================================================
