------------------------------ MODULE MCController -------------------------------
(*****************************************************************************)
(* TLC instances of Controller.                                               *)
(*****************************************************************************)
EXTENDS Controller

CONSTANTS account, other, nilId, good, better, bad, none

MCIds == {account, other}
MCBodies == {good, better, bad}
NoBodies == {}
BadBodies == {bad}

\* Users who leave the identity out or write the one Glue takes by default, who
\* always write the same one, and who move the resource.
DatabaseIds == {nilId, account}
JobIds == {account}
MovedIds == {account, other}
=================================================================================
