-------------------------- MODULE MCTeacherWorker --------------------------
(* An instance of TeacherWorker for TLC.                                   *)
EXTENDS TeacherWorker

Pieces == 1..3
=============================================================================
