SPECIFICATION FairSpec
CONSTANTS
  MaxEarly = 3
  MaxTrouble = 2
  WireCap = 3
INVARIANTS TypeOK YamuxStartsClean BothSidesSwitched
PROPERTIES ConnectsWhenQuiet
