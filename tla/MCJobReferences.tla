----------------------------- MODULE MCJobReferences -----------------------------
(*****************************************************************************)
(* TLC instances of JobReferences: a user's role and two a Role may have.      *)
(*****************************************************************************)
EXTENDS JobReferences

CONSTANTS mine, arn1, arn2, noRole

MCArns == {mine, arn1, arn2}
MCUserRoles == {mine}
=================================================================================
