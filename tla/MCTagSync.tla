------------------------------- MODULE MCTagSync --------------------------------
(*****************************************************************************)
(* TLC instances of TagSync: two keys of the user's, one of the controller's  *)
(* and one of AWS's.                                                          *)
(*****************************************************************************)
EXTENDS TagSync

CONSTANTS app, env, ctl, aws, empty, v

MCKeys == {app, env, ctl, aws}
MCValues == {empty, v}
MCAWSKeys == {aws}
MCDefaultTags == [k \in MCKeys |-> IF k = ctl THEN v ELSE Absent]

\* The keys users write: one that is theirs, one that is not.
MCUserKeys == {app, aws}
=================================================================================
