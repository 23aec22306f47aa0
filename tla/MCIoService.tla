---------------------------- MODULE MCIoService ----------------------------
(***************************************************************************)
(* A pool of up to two required threads out of three thread objects, so    *)
(* that after a shrink and a grow a lingering thread and its successor run *)
(* beside the first; one user handler and, per shrink, one empty task per  *)
(* thread.  The limit of threads_count_t is two, so that three requested   *)
(* threads exceed it.  A reload to another count also names another logger.*)
(***************************************************************************)
EXTENDS IoService, TLC

CONSTANTS th1, th2, th3, task, lg1, lg2

MCThread == {th1, th2, th3}
MCTask == {task}
MCLogger == {lg1, lg2}
MCConfig == [threads : {1}, logger : {lg1}] \cup [threads : {0, 3}, logger : {lg2}]
=============================================================================
