----------------------- MODULE MCDraftReconciliation -----------------------
(***************************************************************************)
(* DraftReconciliation on a live draft of two picks that Yahoo follows.    *)
(***************************************************************************)
EXTENDS DraftReconciliation

CONSTANTS p1, p2, q1

MCSnapshots == { Players }
MCFormats == { [ kind |-> "live", opponents |-> "manual" ] }

(* Yahoo shows the first pick as placeholder q1 and then as p1, and p2 at  *)
(* the second pick.                                                        *)
MCReports ==
  { [ overall |-> 1, player |-> q1 ], [ overall |-> 1, player |-> p1 ],
    [ overall |-> 2, player |-> p2 ] }

(* Yahoo reports p1 at the second pick.                                    *)
MCShiftedReports == { [ overall |-> 2, player |-> p1 ] }

(* DraftLog's run covers the other session events. *)
MCRepeats ==
  [ type \in EventTypes |->
      CASE type \in { "session_started", "session_completed", "source_mode_changed",
                      "provider_confirmed", "pick_reversed", "pick_replaced" } -> 1
        [] type = "pick_recorded" -> 2
        [] OTHER -> 0 ]

(* No position is full: DraftLog's runs cover those that are. *)
MCPositionOf == [ p \in Players |-> "RB" ]
MCDepthTarget == [ RB |-> 3 ]

MCPlaceholders == { << q1, 1, p1 >> }

(* Bounds of the run.  Sessions are created with their projection, which   *)
(* stays bound, and advice is published with every operation: DraftLog's   *)
(* run covers later bindings and a stop before the publication.  At most   *)
(* two conflicts are on record at a time, and the session never goes back  *)
(* to manual mode, where only DraftLog's operations are left.              *)
CreatedWithInputs == inputs = [ projected |-> Players, ranked |-> {} ]
FollowsYahoo == sourceMode # ManualMode
AdvicePublished == log' # log /\ status' \in Active => advice' = Len(log')
TwoConflicts == Cardinality({ report \in Reports : conflicts[report] # NoConflict }) <= 2
=============================================================================
