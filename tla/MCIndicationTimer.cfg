\* wait_with_text_dialog(..., can_cancel=True), whose task may itself be
\* cancelled; the work ends at any tick up to 1.5s.
CONSTANTS
    MaxBlock <- MCMaxBlock
    MinShow <- MCMinShow
    Horizon <- MCHorizon
    HasHide = TRUE
    CanCancel = TRUE
    OuterCancel = TRUE
SPECIFICATION Spec
INVARIANTS
    NoIndicationForQuickWork
    MinShowRespected
    InputBlockBounded
PROPERTIES
    ImplementsIndication
