------------------------------ MODULE MCWorker ------------------------------
(* Worker for TLC, with the settings and grids of MCBookings. *)
EXTENDS Worker, MCBookings

=============================================================================
