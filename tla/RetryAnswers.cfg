SPECIFICATION Spec
CONSTANTS
    Anchors <- ShippedAnchors
    MaxDepth = 20
INVARIANTS
    LongerFlangeAnswers
