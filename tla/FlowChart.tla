------------------------------- MODULE FlowChart ------------------------------
(***************************************************************************)
(* What the design procedure promises (the flow chart of the design        *)
(* documentation): the footing is re-dimensioned, never made narrower,     *)
(* until ALL the criteria hold of the same footing, which is then final.   *)
(* How it is re-dimensioned is left open.                                  *)
(***************************************************************************)
EXTENDS Criteria

VARIABLES
    constants,  \* the site
    footing,    \* the barrier under design
    accepted    \* the design is final

Init ==
    /\ accepted = FALSE
    /\ footing = Unfooted(footing)

Sound(c, b) ==
    /\ fvertical(c, b) > 0
    /\ ~SlidingFails(c, b)
    /\ ~OverturningFails(c, b)
    /\ ~Lifts(c, b)
    /\ qmax(c, b) <= c.Sb * S

Redimension ==
    /\ ~accepted
    /\ footing'.base_width >= footing.base_width
    /\ Unfooted(footing') = Unfooted(footing)
    /\ UNCHANGED <<constants, accepted>>

Accept ==
    /\ ~accepted
    /\ Sound(constants, footing)
    /\ accepted' = TRUE
    /\ UNCHANGED <<constants, footing>>

Next == Redimension \/ Accept

Spec == Init /\ [][Next]_<<constants, footing, accepted>>
=============================================================================
