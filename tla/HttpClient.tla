---------------------------- MODULE HttpClient ----------------------------
(***************************************************************************)
(* The HTTP client that is built once, by the first request, and the proxy *)
(* that has to be set before (crates/zpr/src/http.rs).  set_proxy tests    *)
(* that there is no client yet, and stores under a lock it takes later;    *)
(* the build reads the slot, and publishes the client later.               *)
(***************************************************************************)
EXTENDS Naturals, LastError

CONSTANTS
    Wishes,         \* what the host asks for: "nil" (no proxy) or the name of a proxy
    MaxSets,        \* bound: stores of set_proxy
    MaxPanics       \* bound: builds that fail

Unbuilt == "unbuilt"
Unset == "unset"
Direct == "direct"
FromEnv == "env"

ASSUME HttpAssumption == /\ MaxSets \in Nat /\ MaxPanics \in Nat
                         /\ Wishes \intersect {"", Unset, Unbuilt} = {}

VARIABLES
    client,     \* CLIENT: the proxy of the client, or Unbuilt
    slot,       \* PROXY_OVERRIDE
    pc,         \* per thread: "idle", "storing", "wanting", "reading", "publishing", "sending"
    wish,       \* per thread: the argument of its set_proxy, or what its build has read
    panics, sets,
    last, due,  \* history: the wish stored last; and last while no build was running
    raced,      \* history: those stored during the build
    late        \* history: stores of each thread that came after the client was published

asked == <<last, due, raced>>
httpVars == <<client, slot, pc, wish, panics, sets, asked, late>>

HttpInit ==
    /\ client = Unbuilt /\ slot = Unset
    /\ pc = [t \in Threads |-> "idle"] /\ wish = [t \in Threads |-> Unset]
    /\ panics = 0 /\ sets = 0
    /\ last = Unset /\ due = Unset /\ raced = {} /\ late = [t \in Threads |-> 0]

Building == \E u \in Threads : pc[u] \in {"reading", "publishing"}

Goto(t, where) == pc' = [pc EXCEPT ![t] = where]

-----------------------------------------------------------------------------
(* zpr_http_set_proxy *)

TooLate == client # Unbuilt

SetCheck(t) ==
    /\ pc[t] = "idle" /\ Calm(t)
    /\ \E w \in Wishes :
         IF TooLate THEN Fail(t, "http") /\ UNCHANGED <<pc, wish>>
         ELSE /\ Goto(t, "storing") /\ wish' = [wish EXCEPT ![t] = w]
              /\ UNCHANGED errorVars
    /\ UNCHANGED <<client, slot, panics, sets, asked, late>>

\* Faulty: nil empties the slot.
Stored_Cleared(w) == IF w = "nil" THEN Unset ELSE w
\* nil is kept as the empty text
Stored(w) == IF w = "nil" THEN "" ELSE w

SetStore(t) ==
    /\ pc[t] = "storing" /\ sets < MaxSets
    /\ slot' = Stored(wish[t]) /\ sets' = sets + 1
    /\ last' = wish[t]
    /\ due' = IF Building \/ client # Unbuilt THEN due ELSE wish[t]
    /\ raced' = IF Building THEN raced \union {wish[t]} ELSE raced
    /\ late' = IF client = Unbuilt THEN late ELSE [late EXCEPT ![t] = @ + 1]
    /\ Goto(t, "idle") /\ wish' = [wish EXCEPT ![t] = Unset]
    /\ UNCHANGED <<client, panics, errorVars>>

\* Text that is not UTF-8: the slot stays as it is.
SetRefused(t) ==
    /\ pc[t] = "storing"
    /\ Fail(t, "http")
    /\ Goto(t, "idle") /\ wish' = [wish EXCEPT ![t] = Unset]
    /\ UNCHANGED <<client, slot, panics, sets, asked, late>>

-----------------------------------------------------------------------------
(* zpr_http_request *)

\* Method, URL and headers are looked at before the client is.
Request(t) ==
    /\ pc[t] = "idle" /\ Calm(t)
    /\ \/ Goto(t, "wanting") /\ UNCHANGED errorVars
       \/ Fail(t, "http") /\ UNCHANGED pc
    /\ UNCHANGED <<client, slot, wish, panics, sets, asked, late>>

\* client(), with a client there
UseClient(t) ==
    /\ pc[t] = "wanting" /\ client # Unbuilt
    /\ Goto(t, "sending")
    /\ UNCHANGED <<client, slot, wish, panics, sets, asked, late, errorVars>>

\* Faulty: a build that failed spoils the cell.
MayBuild_Poisoned == client = Unbuilt /\ ~Building /\ panics = 0
\* get_or_init: one thread builds, the others wait for it.
MayBuild == client = Unbuilt /\ ~Building

BuildBegins(t) ==
    /\ pc[t] = "wanting" /\ MayBuild
    /\ Goto(t, "reading")
    /\ UNCHANGED <<client, slot, wish, panics, sets, asked, late, errorVars>>

BuildReads(t) ==
    /\ pc[t] = "reading"
    /\ wish' = [wish EXCEPT ![t] = slot]
    /\ Goto(t, "publishing")
    /\ UNCHANGED <<client, slot, panics, sets, asked, late, errorVars>>

\* The proxy of a client built with `s` in the slot; what is no proxy URL is passed over.
BuiltWith(s) == IF s = "" THEN Direct ELSE IF s \in {Unset, "garbage"} THEN FromEnv ELSE s

BuildEnds(t) ==
    /\ pc[t] = "publishing"
    /\ client' = BuiltWith(wish[t])
    /\ Goto(t, "sending") /\ wish' = [wish EXCEPT ![t] = Unset]
    /\ UNCHANGED <<slot, panics, sets, asked, late, errorVars>>

\* expect("failed to build"): guard catches the panic, and the next request tries again.
BuildPanics(t) ==
    /\ pc[t] = "publishing" /\ panics < MaxPanics
    /\ panics' = panics + 1
    /\ Fail(t, "http")
    /\ Goto(t, "idle") /\ wish' = [wish EXCEPT ![t] = Unset]
    /\ due' = last /\ raced' = {}
    /\ UNCHANGED <<client, slot, sets, last, late>>

Respond(t) ==
    /\ pc[t] = "sending"
    /\ Goto(t, "idle")
    /\ Fail(t, "http") \/ UNCHANGED errorVars
    /\ UNCHANGED <<client, slot, wish, panics, sets, asked, late>>

-----------------------------------------------------------------------------
Build(t) == UseClient(t) \/ BuildBegins(t) \/ BuildReads(t) \/ BuildEnds(t) \/ BuildPanics(t)
HttpStep(t) == SetCheck(t) \/ SetStore(t) \/ SetRefused(t) \/ Request(t) \/ Build(t) \/ Respond(t)

\* The threads of the host run; nothing is assumed of a server that has to respond.
HttpFairness == \A t \in Threads : WF_httpVars(Build(t))

-----------------------------------------------------------------------------
(* Properties *)

\* What a wish means to the host
Meaning(w) == CASE w = "nil" -> Direct [] w \in {Unset, "garbage"} -> FromEnv [] OTHER -> w

\* The client goes the way that was set last before its build began, or a way that was
\* set meanwhile, however often a build has failed before.  A thread is told OK for a
\* proxy that comes after the client at most once: by the call that had looked before.
ProxyInForce ==
    /\ client # Unbuilt => \E w \in {due} \union raced : client = Meaning(w)
    /\ \A t \in Threads : late[t] <= 1

\* Nobody waits for ever for the client: the build of another thread ends, or it fails
\* and the next one builds.
EveryRequestServed ==
    \A t \in Threads : pc[t] \in {"wanting", "reading", "publishing"}
                          ~> pc[t] \in {"sending", "idle"}
=============================================================================
