--------------------------- MODULE CallLifecycle ---------------------------
(***************************************************************************)
(* What the queued gRPC server promises about one RPC, seen from outside:  *)
(* an RPC that is let in is opened once, gets at most one status, and the  *)
(* client either sees exactly that status or loses its connection.  Who    *)
(* answers (the host, the reaper, the final drain), and through which      *)
(* locks and lists, is left open; CallQueue fills that in.                 *)
(***************************************************************************)
CONSTANTS Ids,          \* the RPCs
          Authors       \* who may answer one: a status is known by its author

VARIABLES status,       \* per RPC: "absent", "open", or the author of its status
          client        \* per RPC: "absent", "waiting", what was seen,
                        \* "gone" (it left) or "lost" (the server did)

lifecycleVars == <<status, client>>

LifecycleInit == /\ status = [id \in Ids |-> "absent"]
                 /\ client = [id \in Ids |-> "absent"]

\* The server lets an RPC in.
Open(id) == /\ status[id] = "absent"
            /\ status' = [status EXCEPT ![id] = "open"]
            /\ client' = [client EXCEPT ![id] = "waiting"]

\* Some open RPCs get their one and only status.
Answer(S, by) == /\ \A id \in S : status[id] = "open"
                 /\ status' = [id \in Ids |-> IF id \in S THEN by ELSE status[id]]
                 /\ UNCHANGED client

\* A waiting client reads the trailers.
See(id) == /\ client[id] = "waiting"
           /\ status[id] \in Authors
           /\ client' = [client EXCEPT ![id] = status[id]]
           /\ UNCHANGED status

\* Some waiting clients lose, or drop, their connection.
Leave(S, how) == /\ \A id \in S : client[id] = "waiting"
                 /\ client' = [id \in Ids |-> IF id \in S THEN how ELSE client[id]]
                 /\ UNCHANGED status

LifecycleNext == \/ \E id \in Ids : Open(id) \/ See(id)
                 \/ \E S \in SUBSET Ids : \/ \E how \in {"gone", "lost"} : Leave(S, how)
                                           \/ \E by \in Authors : Answer(S, by)

LifecycleSpec == LifecycleInit /\ [][LifecycleNext]_lifecycleVars
=============================================================================
