\* Is a shown dialog always hidden again when the waiting task is cancelled?
CONSTANTS
    MaxBlock <- MCMaxBlock
    MinShow <- MCMinShow
    Horizon <- MCHorizon
    HasHide = TRUE
    CanCancel = TRUE
    OuterCancel = TRUE
SPECIFICATION Spec
INVARIANT IndicatorHidden
