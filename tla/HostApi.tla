------------------------------ MODULE HostApi ------------------------------
(***************************************************************************)
(* A host program on the blocking half of the library: its threads share   *)
(* the HTTP client, one of them builds JSON trees, and every failure comes *)
(* back through the last-error slot.                                       *)
(***************************************************************************)
EXTENDS HttpClient, JsonHandles

vars == <<errorVars, httpVars, jsonVars>>

HostInit == ErrorInit /\ HttpInit /\ JsonInit

Checks(t) == Raise(t) /\ UNCHANGED <<httpVars, jsonVars>>
Http(t) == HttpStep(t) /\ UNCHANGED jsonVars
Json == pc[Owner] = "idle" /\ JsonStep /\ UNCHANGED httpVars

Next == Json \/ \E t \in Threads : Checks(t) \/ Http(t)

Spec == HostInit /\ [][Next]_vars
FairSpec == Spec /\ HttpFairness

-----------------------------------------------------------------------------
(* Properties *)

\* The message that Check raises is that of the call that failed, whatever the other
\* threads have failed at since, if the call left one.
RaisedOwn ==
    \A t \in Threads : failing[t] \notin {Silent, NoError} => last_error[t] = failing[t]
=============================================================================
