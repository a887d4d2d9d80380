------------------------------ MODULE FlexSlider ------------------------------
(***************************************************************************)
(* src/public/js/jquery.flexslider.js, the slide show of the pages the     *)
(* server delivers.  One browser thread runs it, but its handlers come in  *)
(* any order: the interval of the show, the end of an animation or of a    *)
(* CSS transition, keys, wheel, clicks, hovering, touches, resizing and    *)
(* calls from other scripts.                                               *)
(*                                                                         *)
(* The methods are operators from the slider object to the slider object,  *)
(* an action is one event with everything its handler calls.  Positions    *)
(* are counted in slide widths.  Carousels (itemWidth), sync, asNavFor,    *)
(* addSlide and removeSlide, which no page uses, are left out.             *)
(***************************************************************************)
EXTENDS Integers, Sequences, SequencesExt

CONSTANTS
  Slides,          \* number of slides of the page, slider.count
  Configurations,  \* the options a page may pass, over the defaults
  Browsers         \* [touch, css, api, visible]: a touch device, 3D
                   \* transforms exist, other scripts send commands to the
                   \* slider, the style sheets of the page show it

(* The options $.flexslider.defaults lists, as far as they change what     *)
(* happens; startAt names a slide of the page.                             *)
Options ==
  [animation : {"fade", "slide"}, startAt : 0 .. Slides - 1,
   reverse : BOOLEAN, animationLoop : BOOLEAN, slideshow : BOOLEAN,
   initDelay : BOOLEAN, pauseOnAction : BOOLEAN, pauseOnHover : BOOLEAN,
   useCSS : BOOLEAN, touch : BOOLEAN, controlNav : BOOLEAN,
   directionNav : BOOLEAN, keyboard : BOOLEAN, mousewheel : BOOLEAN,
   pausePlay : BOOLEAN]

ASSUME SlidesAssumption ==
  /\ Slides \in Nat /\ Slides >= 2
  /\ Configurations \subseteq Options
  /\ Browsers \subseteq
       [touch : BOOLEAN, css : BOOLEAN, api : BOOLEAN, visible : BOOLEAN]

VARIABLES
  opt,             \* vars: the options in force
  browser,         \* the browser that shows the page
  slider,          \* the slider object and what the screen shows of it
  initDelay,       \* the timeout of vars.initDelay is pending
  hovered,         \* the mouse is over the slider
  finger           \* the variables of methods.touch: [on, dx, scrolling]

sliderVars == <<opt, browser, slider, initDelay, hovered, finger>>

(* $.flexslider.defaults, as far as they change what happens.              *)
Defaults ==
  [animation |-> "fade", reverse |-> FALSE, animationLoop |-> TRUE,
   startAt |-> 0, slideshow |-> TRUE, initDelay |-> FALSE,
   pauseOnAction |-> TRUE, pauseOnHover |-> FALSE, useCSS |-> TRUE,
   touch |-> TRUE, controlNav |-> TRUE, directionNav |-> TRUE,
   keyboard |-> TRUE, mousewheel |-> FALSE, pausePlay |-> FALSE]

(* custom.js: the slider of index.html, and the one for blog posts.        *)
mainSlider == Defaults

postSlider == [Defaults EXCEPT !.controlNav = FALSE]

(* doMath, without the carousel: slider.last and slider.pagingCount.       *)
last == Slides - 1

SlideNumbers == 0 .. last

fade        == opt.animation = "fade"
touch       == browser.touch
visible     == browser.visible
transitions == ~fade /\ opt.useCSS /\ browser.css

-------------------------------------------------------------------------------
(* What the screen shows.                                                  *)

cloneOffset == IF ~fade /\ opt.animationLoop THEN 1 ELSE 0

(* setup: the container from left to right, with a clone of the last slide *)
(* in front and of the first one behind when the animation loops.          *)
Strip ==
  LET arr    == [i \in 1 .. Slides |-> i - 1]
      slides == IF opt.reverse /\ ~fade THEN Reverse(arr) ELSE arr
  IN  IF cloneOffset = 1
      THEN <<slides[Slides]>> \o slides \o <<slides[1]>>
      ELSE slides

(* The position of a slide, as setup, setTotal and flexAnimate compute it. *)
(* A fading slider shows the slide itself.                                 *)
sliderOffset(k) ==
  IF opt.reverse /\ ~fade THEN Slides - 1 - k + cloneOffset
  ELSE k + cloneOffset

(* The container follows a finger and stands between two slides.           *)
Dragged == -1

Positions == {Dragged} \union (0 .. Slides + 1)

-------------------------------------------------------------------------------
(* The slide show.                                                         *)

(* methods.pausePlay.update                                                *)
pausePlayUpdate(s, state) ==
  IF opt.pausePlay THEN [s EXCEPT !.button = state] ELSE s

pause(s) ==
  pausePlayUpdate([s EXCEPT !.interval = FALSE, !.playing = FALSE], "play")

(* setInterval gives a new interval; an earlier one that still runs is out *)
(* of reach from here on.                                                  *)
play(s) ==
  pausePlayUpdate([s EXCEPT !.leaked   = @ \/ s.interval,
                            !.interval = TRUE,
                            !.playing  = TRUE], "pause")

(* getTarget also stores the direction.                                    *)
Towards(s, dir) == [s EXCEPT !.direction = dir]

getTarget(s, dir) ==
  IF dir = "next"
  THEN IF s.currentSlide = last THEN 0 ELSE s.currentSlide + 1
  ELSE IF s.currentSlide = 0 THEN last ELSE s.currentSlide - 1

(* Mutant of canAdvance: the first slide is not an end.                    *)
canAdvance_OneEnd(s, target) ==
  /\ target # s.currentSlide
  /\ \/ opt.animationLoop
     \/ ~(s.atEnd /\ s.currentSlide = last /\ target = 0 /\ s.direction = "next")

(* Mutant of canAdvance: the ends are ends although the animation loops.   *)
canAdvance_NoLoop(s, target) ==
  /\ target # s.currentSlide
  /\ ~(s.atEnd /\ s.currentSlide = 0 /\ target = last /\ s.direction # "next")
  /\ ~(s.atEnd /\ s.currentSlide = last /\ target = 0 /\ s.direction = "next")

canAdvance(s, target) ==
  /\ target # s.currentSlide
  /\ \/ opt.animationLoop
     \/ /\ ~(s.atEnd /\ s.currentSlide = 0 /\ target = last /\ s.direction # "next")
        /\ ~(s.atEnd /\ s.currentSlide = last /\ target = 0 /\ s.direction = "next")

-------------------------------------------------------------------------------
(* Animations.                                                             *)

(* Where flexAnimate moves the container: past an end, onto the clone, when*)
(* the direction says so.                                                  *)
slideString(s, target) ==
  LET onwards == opt.animationLoop /\ s.direction # "prev"
      back    == opt.animationLoop /\ s.direction # "next"
  IN  IF s.currentSlide = 0 /\ target = last /\ back
      THEN IF opt.reverse THEN Slides + cloneOffset ELSE 0
      ELSE IF s.currentSlide = last /\ target = 0 /\ onwards
      THEN IF opt.reverse THEN 0 ELSE Slides + 1
      ELSE sliderOffset(target)

(* setProps with a duration starts a transition unless the container is    *)
(* there already; jQuery's animate runs for its duration in any case.      *)
setProps(s, place) ==
  [s EXCEPT !.at     = place,
            !.moving = IF transitions /\ place = s.at THEN @ ELSE TRUE,
            !.bound  = @ \/ transitions]

(* setProps without a duration: the container is there at once.            *)
setPropsNow(s, place) == [s EXCEPT !.at = place, !.moving = FALSE]

(* A transition that loops round an end is waited for, any other is not.   *)
slideTo(s, target) ==
  LET moved == setProps(s, slideString(s, target))
  IN  IF transitions /\ (~opt.animationLoop \/ ~s.atEnd)
      THEN [moved EXCEPT !.animating = FALSE, !.currentSlide = target]
      ELSE moved

fadeTo(s, target) ==
  IF touch
  THEN [s EXCEPT !.at = target, !.animating = FALSE, !.currentSlide = target]
  ELSE [s EXCEPT !.at = target, !.moving = TRUE]

(* methods.directionNav.update: the arrows that are greyed out.            *)
directionNavUpdate(target) ==
  CASE opt.animationLoop -> {}
    [] target = 0        -> {"prev"}
    [] target = last     -> {"next"}
    [] OTHER             -> {}

flexAnimate(s, target, pauses, override) ==
  LET begun  == [s EXCEPT !.animating   = TRUE,
                          !.animatingTo = target,
                          !.active      = target,
                          !.atEnd       = target \in {0, last},
                          !.disabled    = directionNavUpdate(target)]
      paused == IF pauses \/ (target = last /\ ~opt.animationLoop)
                THEN pause(begun) ELSE begun
  IN  IF s.animating \/ ~(canAdvance(s, target) \/ override) \/ ~visible
      THEN s
      ELSE IF fade THEN fadeTo(paused, target)
      ELSE slideTo(paused, target)

(* getTarget and flexAnimate together, as most handlers call them.         *)
Step(s, dir, pauses) ==
  flexAnimate(Towards(s, dir), getTarget(s, dir), pauses, FALSE)

(* A slider that went past an end jumps from the clone to the slide it is  *)
(* a copy of.                                                              *)
Jumped(s) ==
  LET jumps   == ~fade /\ opt.animationLoop
      toEnd   == jumps /\ s.currentSlide = 0 /\ s.animatingTo = last
      toStart == jumps /\ s.currentSlide = last /\ s.animatingTo = 0
  IN  IF toEnd THEN setPropsNow(s, IF opt.reverse THEN 1 ELSE Slides)
      ELSE IF toStart THEN setPropsNow(s, IF opt.reverse THEN Slides ELSE 1)
      ELSE s

(* Mutant of wrapup: the slider stays on the clone.                        *)
wrapup_Stays(s) ==
  [s EXCEPT !.animating = FALSE, !.currentSlide = s.animatingTo]

(* Mutant of wrapup: the flag is not reset after the jump.                 *)
wrapup_Animating(s) ==
  [Jumped(s) EXCEPT !.animating = Jumped(s) # s, !.currentSlide = s.animatingTo]

(* The end of an animation.                                                *)
wrapup(s) ==
  [Jumped(s) EXCEPT !.animating = FALSE, !.currentSlide = s.animatingTo]

-------------------------------------------------------------------------------
(* methods.init and setup("init").  slider.last is still undefined when    *)
(* atEnd is computed, so only the first slide counts as an end.            *)
SliderInit ==
  /\ opt \in Configurations
  /\ browser \in Browsers
  /\ LET fresh == [animating |-> FALSE, currentSlide |-> opt.startAt,
                   animatingTo |-> opt.startAt, atEnd |-> opt.startAt = 0,
                   direction |-> "undefined", playing |-> FALSE,
                   interval |-> FALSE, leaked |-> FALSE,
                   manualPause |-> FALSE, manualPlay |-> FALSE,
                   button |-> IF opt.pausePlay THEN "pause" ELSE "none",
                   active |-> opt.startAt,
                   disabled |-> directionNavUpdate(opt.startAt),
                   at |-> sliderOffset(opt.startAt), moving |-> FALSE,
                   bound |-> FALSE]
     IN  slider = IF opt.slideshow /\ ~opt.initDelay THEN play(fresh)
                  ELSE fresh
  /\ initDelay = (opt.slideshow /\ opt.initDelay)
  /\ hovered = FALSE
  /\ finger = [on |-> FALSE, dx |-> "undefined", scrolling |-> FALSE]

SliderTypeOK ==
  /\ opt \in Configurations /\ browser \in Browsers
  /\ slider.currentSlide \in SlideNumbers
  /\ slider.animatingTo \in SlideNumbers /\ slider.active \in SlideNumbers
  /\ slider.direction \in {"undefined", "next", "prev"}
  /\ slider.button \in {"none", "pause", "play"}
  /\ slider.disabled \subseteq {"next", "prev"}
  /\ slider.at \in Positions
  /\ {slider[f] : f \in {"animating", "atEnd", "playing", "interval", "leaked",
                         "manualPause", "manualPlay", "moving", "bound"}}
       \subseteq BOOLEAN
  /\ {initDelay, hovered, finger.on, finger.scrolling} \subseteq BOOLEAN
  /\ finger.dx \in {"undefined", "null", "next", "prev"}

Becomes(s) == slider' = s /\ UNCHANGED <<opt, browser>>
Only(s)    == Becomes(s) /\ UNCHANGED <<initDelay, hovered, finger>>

(* setTimeout(slider.play, vars.initDelay)                                 *)
initDelayOver ==
  /\ initDelay
  /\ initDelay' = FALSE
  /\ Becomes(play(slider)) /\ UNCHANGED <<hovered, finger>>

(* An interval is over: the one slider.animatedSlides names or an earlier. *)
animateSlides ==
  /\ slider.interval \/ slider.leaked
  /\ ~slider.animating
  /\ Only(Step(slider, "next", FALSE))

(* The animation or the transition is complete.                            *)
animationEnd ==
  /\ slider.moving
  /\ Only(wrapup([slider EXCEPT !.moving = FALSE]))

(* The transition of something inside a slide ends; the event bubbles up   *)
(* to the container, whose handler does not look at its target.            *)
bubbledTransitionEnd ==
  /\ slider.bound
  /\ Only(wrapup(slider))

keyup(dir) ==
  /\ opt.keyboard /\ ~slider.animating
  /\ Only(Step(slider, dir, opt.pauseOnAction))

mousewheel(dir) ==
  /\ opt.mousewheel
  /\ Only(Step(slider, dir, opt.pauseOnAction))

directionNavClick(dir) ==
  /\ opt.directionNav
  /\ Only(Step(slider, dir, opt.pauseOnAction))

controlNavClick(target) ==
  /\ opt.controlNav /\ target # slider.active
  /\ LET dir == IF target > slider.currentSlide THEN "next" ELSE "prev"
     IN  Only(flexAnimate(Towards(slider, dir), target, opt.pauseOnAction, FALSE))

pausePlayClick ==
  /\ opt.pausePlay
  /\ LET stops == slider.button = "pause"
         asked == [slider EXCEPT !.manualPause = stops, !.manualPlay = ~stops]
     IN  Only(IF stops THEN pause(asked) ELSE play(asked))

(* Mutant of hover: leaving looks at manualPlay only.                      *)
hover_Resumes ==
  /\ opt.slideshow /\ opt.pauseOnHover
  /\ hovered' = ~hovered
  /\ Becomes(IF slider.manualPlay THEN slider
             ELSE IF hovered THEN play(slider) ELSE pause(slider))
  /\ UNCHANGED <<initDelay, finger>>

hover ==
  /\ opt.slideshow /\ opt.pauseOnHover
  /\ hovered' = ~hovered
  /\ Becomes(IF slider.manualPlay \/ slider.manualPause THEN slider
             ELSE IF hovered THEN play(slider) ELSE pause(slider))
  /\ UNCHANGED <<initDelay, finger>>

onTouchStart ==
  /\ touch /\ opt.touch /\ ~finger.on /\ ~slider.animating
  /\ finger' = [finger EXCEPT !.on = TRUE]
  /\ Becomes(pause(slider)) /\ UNCHANGED <<initDelay, hovered>>

(* Slides that move by transitions follow the finger, unless it scrolls    *)
(* the page and has done so for less than half a second.                   *)
onTouchMove(dx, scrolling, late) ==
  /\ finger.on
  /\ finger' = [finger EXCEPT !.dx = dx, !.scrolling = scrolling]
  /\ Becomes(IF transitions /\ (~scrolling \/ late)
             THEN setPropsNow(slider, Dragged) ELSE slider)
  /\ UNCHANGED <<initDelay, hovered>>

(* dx is undefined in the first touch and null in later ones that do not   *)
(* move; only null is recognised as a tap.                                 *)
onTouchEnd(far) ==
  /\ finger.on
  /\ finger' = [finger EXCEPT !.on = FALSE, !.dx = "null"]
  /\ LET dir     == IF (finger.dx = "next") # opt.reverse /\ finger.dx # "undefined"
                    THEN "next" ELSE "prev"
         towards == Towards(slider, dir)
         target  == getTarget(slider, dir)
         counts  == /\ slider.animatingTo = slider.currentSlide
                    /\ ~finger.scrolling /\ finger.dx # "null"
         swipes  == /\ far /\ finger.dx # "undefined"
                    /\ canAdvance(towards, target)
     IN  Becomes(IF ~counts THEN slider
                 ELSE IF swipes
                 THEN flexAnimate(towards, target, opt.pauseOnAction, FALSE)
                 ELSE IF fade THEN towards
                 ELSE flexAnimate(towards, slider.currentSlide,
                                  opt.pauseOnAction, TRUE))
  /\ UNCHANGED <<initDelay, hovered>>

(* Only sliders that slide listen; the position is set for currentSlide.   *)
resize ==
  /\ ~fade /\ ~slider.animating /\ visible
  /\ Only(setPropsNow(slider, sliderOffset(slider.currentSlide)))

(* $.fn.flexslider with a command.                                         *)
command ==
  /\ browser.api
  /\ \/ Only(play(slider))
     \/ Only(pause(slider))
     \/ \E dir \in {"next", "prev"} : Only(Step(slider, dir, TRUE))
     \/ \E n \in SlideNumbers : Only(flexAnimate(slider, n, TRUE, FALSE))

Directions == {"next", "prev"}

SliderNext ==
  \/ initDelayOver
  \/ animateSlides
  \/ animationEnd
  \/ bubbledTransitionEnd
  \/ \E dir \in Directions : keyup(dir)
  \/ \E dir \in Directions : mousewheel(dir)
  \/ \E dir \in Directions : directionNavClick(dir)
  \/ \E target \in SlideNumbers : controlNavClick(target)
  \/ pausePlayClick
  \/ hover
  \/ onTouchStart
  \/ \E dx \in Directions, scrolling, late \in BOOLEAN :
       onTouchMove(dx, scrolling, late)
  \/ \E far \in BOOLEAN : onTouchEnd(far)
  \/ resize
  \/ command

-------------------------------------------------------------------------------
(* Properties.  A touched slider that moves by transitions is excepted: a  *)
(* first tap, or a drag that turns into scrolling, leaves it stuck or      *)
(* between two slides.                                                     *)

Draggable == touch /\ opt.touch /\ transitions

(* Whenever nothing moves the screen shows slider.currentSlide, and the    *)
(* slide itself rather than the clone of it behind an end: flexAnimate     *)
(* picks the clone, wrapup or resize must leave it, whichever comes first. *)
ShownIsCurrent ==
  ~Draggable /\ ~slider.moving =>
    /\ Strip[slider.at + 1] = slider.currentSlide
    /\ slider.at \in cloneOffset .. last + cloneOffset

(* Exactly one interval runs while the show plays and none while it is     *)
(* paused, so that pause and the pause button really stop it.  play does   *)
(* not clear an earlier interval: the callers must never call it twice.    *)
(* Commands of other scripts and the timeout of initDelay do.              *)
PauseHolds ==
  ~opt.initDelay /\ ~browser.api =>
    /\ ~slider.leaked
    /\ slider.interval <=> slider.playing
    /\ slider.manualPause => ~slider.playing

(* Without animationLoop "next" never leads from the last slide to the     *)
(* first one and "prev" never from the first to the last: canAdvance       *)
(* relies on an atEnd that flexAnimate stored when it began an animation.  *)
NoWrap ==
  [][ (~opt.animationLoop /\ opt.startAt = 0 /\ ~browser.api)
      => \/ slider'.animatingTo = slider.animatingTo
         \/ slider'.direction = "next" /\ slider'.animatingTo > slider.currentSlide
         \/ slider'.direction = "prev" /\ slider'.animatingTo < slider.currentSlide
    ]_sliderVars
===============================================================================
