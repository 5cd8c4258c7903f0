------------------------------ MODULE MCIntake ------------------------------
(* One webhook with two events and a keyed request, one poll of two pages, or *)
(* one schedule.                                                              *)
EXTENDS Intake
===============================================================================
