------------------------- MODULE MCCdcltPropagator -------------------------
(***************************************************************************)
(* Model checking of module CdcltPropagator, with a CaDiCaL that fixes     *)
(* variables at decision level 0 only (the constants of this module) and   *)
(* with one that fixes them anywhere.  The second has many more states, so *)
(* it is checked with one push less and no lemma waiting, and with one     *)
(* push less than that and waiting lemmas.                                 *)
(***************************************************************************)
EXTENDS CdcltPropagator

VARIABLE solver

Nested == INSTANCE CdcltPropagator WITH FixAnywhere <- TRUE,
                                        MaxPushes <- MaxPushes - 1,
                                        MaxPending <- 0

Waiting == INSTANCE CdcltPropagator WITH FixAnywhere <- TRUE,
                                         MaxPushes <- MaxPushes - 2

MCInit == Init /\ solver \in {"level0", "nested", "waiting"}

MCNext ==
    /\ \/ solver = "level0" /\ Next
       \/ solver = "nested" /\ Nested!Next
       \/ solver = "waiting" /\ Waiting!Next
    /\ UNCHANGED solver

MCSpec == MCInit /\ [][MCNext]_<<vars, solver>>

-----------------------------------------------------------------------------
(* If variables become fixed at decision level 0 only, no Assert of the    *)
(* propagator's callbacks, of user_pop and add_clause or of getNode fails. *)
AssertsHoldAtLevel0 == solver = "level0" => AssertsHold

(* If variables become fixed at decision level 0 only, the record of the   *)
(* propagator (d_assignments, d_assignment_control) is CaDiCaL's trail,    *)
(* but for what was assigned after a partial model was accepted.           *)
TrailRecordedAtLevel0 == solver = "level0" => TrailRecorded

(* If variables become fixed at decision level 0 only, every fixed atom    *)
(* has been sent to the theories in a context that is still open, also     *)
(* after pops of user levels, by renotify_fixed.                           *)
FixedResentAtLevel0 == solver = "level0" => FixedResent

=============================================================================
