------------------------------ MODULE MCUpdatePass -------------------------------
(*****************************************************************************)
(* TLC instances of UpdatePass: a key of the user's, one of the controller's  *)
(* and one of AWS's; two bodies that read back as they are, one that leaves    *)
(* out a field every read shows, and one that is refused.                     *)
(*****************************************************************************)
EXTENDS UpdatePass

CONSTANTS app, ctl, aws, empty, v, good, better, bare, bad

MCKeys == {app, ctl, aws}
MCValues == {empty, v}
MCAWSKeys == {aws}
MCDefaultTags == [k \in MCKeys |-> IF k = ctl THEN v ELSE Absent]
MCUserKeys == {app, aws}
MCBodies == {good, better, bare, bad}
MCRefused == {bad}
MCObserved == [b \in MCBodies |-> IF b = bare THEN good ELSE b]
=================================================================================
