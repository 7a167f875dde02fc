----------------------------- MODULE LastError -----------------------------
(***************************************************************************)
(* How a failure reaches the host: a call answers ZPR_ERR and leaves its   *)
(* message in a slot (crates/zpr/src/ffi.rs), and Check reads the slot in  *)
(* a second call, to raise it (pascal/Zpr.pas).  A message is named after  *)
(* the part of the library whose failure it describes.                     *)
(***************************************************************************)
CONSTANT Threads    \* of the host

VARIABLES
    last_error,     \* per thread: LAST_ERROR
    failing         \* per thread: the failure that Check is about to report

errorVars == <<last_error, failing>>

NoError == "none"
\* A failure that answers ZPR_ERR without a message
Silent == "silent"

ErrorInit ==
    /\ last_error = [t \in Threads |-> NoError]
    /\ failing = [t \in Threads |-> NoError]

\* Faulty: one slot for the process.
SetLastError_Shared(t, message) == last_error' = [u \in Threads |-> message]
SetLastError(t, message) == last_error' = [last_error EXCEPT ![t] = message]

\* A call on `t` answers ZPR_ERR.  A success leaves the slot as it is.
Fail(t, failure) ==
    /\ failing' = [failing EXCEPT ![t] = failure]
    /\ IF failure = Silent THEN UNCHANGED last_error ELSE SetLastError(t, failure)

\* Check raises what zpr_last_error answers.
Raise(t) ==
    /\ failing[t] # NoError
    /\ failing' = [failing EXCEPT ![t] = NoError]
    /\ UNCHANGED last_error

\* `t` is in a call of the library, or between two.
Calm(t) == failing[t] = NoError
=============================================================================
