-------------------------- MODULE MCAdminTestTasks --------------------------
(* Three tests, two of them active and two or three retained at a time; a    *)
(* record is one unit without a body, and the store has room for three units.*)
EXTENDS AdminTestTasks, TLC
=============================================================================
