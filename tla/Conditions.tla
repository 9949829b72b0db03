------------------------------- MODULE Conditions --------------------------------
(*****************************************************************************)
(* How the outcome of a call becomes conditions on the custom resource:       *)
(* updateConditions and terminalAWSError of sdk.go, onError and onSuccess of   *)
(* manager.go (the same text for Database and Job).                           *)
(*****************************************************************************)

\* A condition that is not in Status.Conditions is "unset".
ConditionStatus == {"unset", "True", "False"}

Conditions == [terminal : ConditionStatus, recoverable : ConditionStatus]

NoConditions == [terminal |-> "unset", recoverable |-> "unset"]

\* What a call returns: no error, ackerr.NotFound, an error code of the service
\* (InvalidInputException or any other), an error that is not the service's (a
\* lost connection, a timeout) or an error of the request builder.
CallErrors == {"none", "NotFound", "InvalidInput", "OtherCode", "Transport", "Range"}

\* What a pass ends with; "Terminal" is ackerr.Terminal.
PassErrors == CallErrors \cup {"Terminal"}

\* The error chain holds a smithy.APIError (ackerr.AWSError).
AWSError(err) == err \in {"InvalidInput", "OtherCode"}

terminalAWSError(err) == err = "InvalidInput"

\* A condition is set to False only if it is already there.
Cleared(status) == IF status = "unset" THEN "unset" ELSE "False"

\* Mutant: an earlier terminal error is not cleared.
updateConditions_keepsTerminal(cond, err) ==
    IF terminalAWSError(err)
    THEN [cond EXCEPT !.terminal = "True"]
    ELSE [cond EXCEPT !.recoverable = IF err = "none" THEN Cleared(@) ELSE "True"]

\* A terminal error leaves the Recoverable condition as it was.
updateConditions(cond, err) ==
    IF terminalAWSError(err)
    THEN [cond EXCEPT !.terminal = "True"]
    ELSE [terminal    |-> Cleared(cond.terminal),
          recoverable |-> IF err = "none" THEN Cleared(cond.recoverable) ELSE "True"]

\* onError: the conditions, and the error the caller gets.
onError(cond, err) ==
    LET updated == updateConditions(cond, err)
    IN  [cond |-> updated,
         err  |-> IF updated.terminal = "True" THEN "Terminal" ELSE err]

\* Mutant: a success leaves the conditions alone.
onSuccess_keeps(cond) == cond

onSuccess(cond) == updateConditions(cond, "none")
=================================================================================
