-------------------------------- MODULE MCPage --------------------------------
(* The page as it is and sliders with other documented options.            *)
EXTENDS Page

Sliding == [Defaults EXCEPT !.animation = "slide"]

MCConfigurations ==
  {mainSlider, postSlider,
   Sliding,
   [Sliding EXCEPT !.reverse = TRUE, !.mousewheel = TRUE],
   [Sliding EXCEPT !.animationLoop = FALSE, !.pauseOnAction = FALSE],
   [Sliding EXCEPT !.animationLoop = FALSE, !.reverse = TRUE, !.startAt = 2],
   [Sliding EXCEPT !.useCSS = FALSE, !.pausePlay = TRUE, !.pauseOnHover = TRUE],
   [Defaults EXCEPT !.pausePlay = TRUE, !.pauseOnHover = TRUE,
                    !.pauseOnAction = FALSE],
   [Defaults EXCEPT !.initDelay = TRUE, !.pausePlay = TRUE,
                    !.pauseOnHover = TRUE],
   [Defaults EXCEPT !.slideshow = FALSE, !.pausePlay = TRUE, !.keyboard = FALSE]}

(* Every kind of browser that shows the slider, and one that does not.     *)
MCBrowsers ==
  [touch : BOOLEAN, css : BOOLEAN, api : BOOLEAN, visible : {TRUE}]
    \union {[touch |-> FALSE, css |-> TRUE, api |-> TRUE, visible |-> FALSE]}

(* portfolio.html, lines 84 to 160, data-id and data-type.                 *)
MCItems ==
  << [id |-> 0, type |-> "web"],  [id |-> 1, type |-> "icon"],
     [id |-> 2, type |-> "graphic"], [id |-> 0, type |-> "web"],
     [id |-> 4, type |-> "web"],  [id |-> 5, type |-> "icon"],
     [id |-> 0, type |-> "web"],  [id |-> 0, type |-> "graphic"] >>

MCFilters == {"all", "web", "icon", "graphic"}
===============================================================================
