--------------------------- MODULE MCNodeRuntime ---------------------------
(* Two recorded events that fit, one with two actions and one with one, a  *)
(* third whose record is too large, and a stateless event that asks for an *)
(* action and one that does not.                                           *)
EXTENDS NodeRuntime

CONSTANTS prepare, decide, bulk, query, tick

MCEvents == {prepare, decide, bulk, query, tick}
MCRecorded == {prepare, decide, bulk}
MCActionsOf == [e \in MCEvents |->
    CASE e = prepare -> 2
      [] e \in {decide, bulk, query} -> 1
      [] e = tick -> 0]
===========================================================================
