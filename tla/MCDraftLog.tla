----------------------------- MODULE MCDraftLog -----------------------------
(***************************************************************************)
(* DraftLog on small drafts.                                               *)
(***************************************************************************)
EXTENDS DraftLog

CONSTANTS p1, p2, p3

MCSnapshots == { Players, {p1} }
MCFormats ==
  { [ kind |-> "live", opponents |-> "manual" ],
    [ kind |-> "mock", opponents |-> "automatic" ] }

(* A roster without a slot for p1, a kicker, or for linebackers; p2 is     *)
(* eligible for one that it has.  So p1 is never suggested, and a second   *)
(* linebacker only when it is p2.                                          *)
MCPositionOf == [ p \in Players |-> IF p = p1 THEN "K" ELSE "LB" ]
MCDepthTarget == [ K |-> 0, LB |-> 1 ]
MCCapped == {"K"}
MCNeeds == { << p2, held >> : held \in SUBSET (Players \ {p2}) }

(* A draft is completed and reopened twice; it takes eight events to pick, *)
(* complete, reopen, correct and complete again.                           *)
MCRepeats ==
  [ type \in EventTypes |->
      CASE type \in {"pick_recorded", "pick_reversed"} -> 3
        [] type \in {"session_completed", "session_reopened", "pick_replaced"} -> 2
        [] OTHER -> 1 ]
=============================================================================
