--------------------------------- MODULE Page ---------------------------------
(***************************************************************************)
(* The scripts of a page of the site.  Every page loads both FlexSlider    *)
(* and Quicksand (custom.js, portfolio/setting.js); index.html holds the   *)
(* slider and portfolio.html the filter, so one of them has work to do.    *)
(***************************************************************************)
EXTENDS FlexSlider, Quicksand

VARIABLE page

pageVars == <<page, sliderVars, quicksandVars>>

Init ==
  /\ page \in {"index", "portfolio"}
  /\ SliderInit /\ QuicksandInit
  /\ page = "portfolio" =>
       opt = mainSlider /\ browser = (CHOOSE b \in Browsers : TRUE)

TypeOK == SliderTypeOK /\ QuicksandTypeOK

OnIndex(A) == page = "index" /\ A /\ UNCHANGED <<page, quicksandVars>>

OnPortfolio(A) == page = "portfolio" /\ A /\ UNCHANGED <<page, sliderVars>>

Next == OnIndex(SliderNext) \/ OnPortfolio(QuicksandNext)

(* The browser keeps its timers: intervals and delays end, and so do       *)
(* animations and transitions.  Nothing is assumed of the visitor.         *)
Fairness ==
  /\ WF_pageVars(OnIndex(animateSlides))
  /\ WF_pageVars(OnIndex(animationEnd))
  /\ WF_pageVars(OnIndex(initDelayOver))
  /\ \A c \in Calls : WF_pageVars(OnPortfolio(Complete(c)))

Spec == Init /\ [][Next]_pageVars /\ Fairness

(* slider.animating, which makes every handler return at once, is reset in *)
(* the end: the animation that resets it is not cancelled and its end is   *)
(* not lost.                                                               *)
AnimationEnds ==
  ~Draggable => (slider.animating ~> ~slider.animating)

(* A show that is visible, plays and loops moves on from every slide.      *)
ShowGoesOn ==
  (page = "index" /\ ~Draggable /\ visible /\ opt.animationLoop) =>
    \A k \in SlideNumbers :
      (slider.playing /\ slider.currentSlide = k)
        ~> (~slider.playing \/ slider.currentSlide # k)

(* A click takes effect: its items are in place in the end, or those of a  *)
(* later click.                                                            *)
ClickTakesEffect == \A c \in Calls : clicks = c ~> (performed[c] \/ clicks > c)
===============================================================================
