---------------------------- MODULE MCTutorDrawer ----------------------------
(***************************************************************************)
(* The drawer with two turns under way at a time; the usage is bounded by  *)
(* the cap and the turns, so no state constraint is needed.                *)
(***************************************************************************)
EXTENDS TutorDrawer
=============================================================================
