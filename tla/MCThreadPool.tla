---------------------------- MODULE MCThreadPool ----------------------------
(***************************************************************************)
(* ThreadPool with the arguments of threadpool_create.                     *)
(***************************************************************************)
EXTENDS ThreadPool

MCRequests == {<<2, 1>>, <<3, 3>>, <<0, 1>>}
MCDefaults == <<2, 2>>
=============================================================================
