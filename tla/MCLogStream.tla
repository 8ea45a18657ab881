---------------------------- MODULE MCLogStream ----------------------------
(***************************************************************************)
(* LogStream with the integers at which something changes: a digit more,   *)
(* the sign, the ends of the type.                                         *)
(***************************************************************************)
EXTENDS LogStream

MCValues == {-128, -10, 0}
=============================================================================
