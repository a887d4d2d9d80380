SPECIFICATION Spec
CONSTANTS
  Slides = 3
  Configurations <- MCConfigurations
  Browsers <- MCBrowsers
  Items <- MCItems
  Filters <- MCFilters
  MaxClicks = 3
INVARIANTS
  ShownIsCurrent
  PauseHolds
  FilterShown
PROPERTIES
  NoWrap
  AnimationEnds
  ShowGoesOn
  ClickTakesEffect
CHECK_DEADLOCK FALSE
