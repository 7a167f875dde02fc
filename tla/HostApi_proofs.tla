--------------------------- MODULE HostApi_proofs ---------------------------
(***************************************************************************)
(* What TLAPS proves of HostApi, for any threads, wrappers and proxies and *)
(* for any number of calls.                                                *)
(***************************************************************************)
EXTENDS HostApi, TLAPS

(* The slots are per thread.                                               *)
ErrorType ==
    /\ last_error = [t \in Threads |-> last_error[t]]
    /\ failing = [t \in Threads |-> failing[t]]

(* What a thread is about to raise is its own latest failure.              *)
ErrorInv == ErrorType /\ RaisedOwn

(* Only a failure on the same thread writes a thread's slot.               *)
LEMMA ErrorStep == ErrorInv /\ [Next]_vars => ErrorInv'
<1> SUFFICES ASSUME ErrorInv, [Next]_vars PROVE ErrorInv'
  OBVIOUS
<1> USE DEF ErrorInv, ErrorType, RaisedOwn, NoError, Silent
<1>0. ASSUME UNCHANGED errorVars PROVE ErrorInv'
  BY <1>0 DEF errorVars
<1>1. ASSUME NEW t \in Threads, NEW failure, Fail(t, failure) PROVE ErrorInv'
  BY <1>1 DEF Fail, SetLastError
<1>2. ASSUME NEW t \in Threads, Raise(t) PROVE ErrorInv'
  BY <1>2 DEF Raise
<1>3. ASSUME NEW t \in Threads, HttpStep(t) PROVE ErrorInv'
  <2>1. UNCHANGED errorVars \/ Fail(t, "http")
    BY <1>3 DEF HttpStep, SetCheck, SetStore, SetRefused, Request, Build, UseClient,
                BuildBegins, BuildReads, BuildEnds, BuildPanics, Respond
  <2> QED
    BY <1>0, <1>1, <2>1
<1>4. CASE JsonStep
  <2>0. Owner \in Threads /\ failing[Owner] = NoError
    BY <1>4, OwnerAssumption DEF JsonStep, Calm
  <2>1. ASSUME NEW i \in Wrappers, NewNull(i) PROVE ErrorInv'
    BY <2>0, <2>1 DEF NewNull, SetLastError
  <2>2. ASSUME NEW i \in Wrappers, New(i) \/ Destroy(i) PROVE ErrorInv'
    BY <1>0, <2>2 DEF New, Destroy, Succeeds
  <2>3. ASSUME NEW i \in Wrappers, NEW j \in Wrappers,
               Get(i, j) \/ PutNull(i, j) \/ Put(i, j)
        PROVE  ErrorInv'
    <3>1. UNCHANGED errorVars \/ \E failure : Fail(Owner, failure)
      BY <2>3 DEF Get, New, PutNull, Put, Succeeds, Fails
    <3> QED
      BY <1>0, <1>1, <2>0, <3>1
  <2>4. CASE Parse
    BY <1>1, <2>0, <2>4 DEF Parse, Fails
  <2> QED
    BY <1>4, <2>1, <2>2, <2>3, <2>4 DEF JsonStep
<1> QED
  BY <1>0, <1>2, <1>3, <1>4 DEF Next, Json, Checks, Http, vars

(* Check raises the message of the call that failed on its own thread,     *)
(* whatever other threads fail at in between.                              *)
THEOREM RaisesOwn == Spec => []RaisedOwn
<1>1. HostInit => ErrorInv
  BY DEF HostInit, ErrorInit, ErrorInv, ErrorType, RaisedOwn, NoError
<1>2. ErrorInv => RaisedOwn
  BY DEF ErrorInv
<1> QED
  BY <1>1, <1>2, ErrorStep, PTL DEF Spec

-----------------------------------------------------------------------------
(* Every variable of a wrapper has a value for each.                       *)
JsonType ==
    /\ box \in [Wrappers -> {"none", "null", "live", "freed"}]
    /\ kind \in [Wrappers -> Kinds]
    /\ wrapper \in [Wrappers -> {"none", "live"}]
    /\ owns \in [Wrappers -> BOOLEAN]
    /\ handed \in [Wrappers -> {"no", "yes", "vain"}]

(* Inductive for the ownership of JSON handles.                            *)
JsonInv == JsonType /\ OneOwner

(* A new handle gets a wrapper that owns it.                               *)
LEMMA WrapStep ==
    ASSUME JsonInv, NEW i \in Wrappers, NEW memory \in {"null", "live"}, NEW k \in Kinds,
           Wrap(i, memory, k)
    PROVE  JsonInv'
BY DEF JsonInv, JsonType, OneOwner, Wrap

(* Push, SetField and Destroy settle handle and wrapper in one step, also  *)
(* when they fail.                                                         *)
LEMMA JsonInvStep == JsonInv /\ [Next]_vars => JsonInv'
<1> SUFFICES ASSUME JsonInv, [Next]_vars PROVE JsonInv'
  OBVIOUS
<1>0. ASSUME UNCHANGED jsonVars PROVE JsonInv'
  BY <1>0 DEF jsonVars, JsonInv, JsonType, OneOwner
<1>1. ASSUME NEW i \in Wrappers, New(i) \/ NewNull(i) PROVE JsonInv'
  BY <1>1, WrapStep DEF New, NewNull, Kinds
<1>2. ASSUME NEW i \in Wrappers, Destroy(i) PROVE JsonInv'
  BY <1>2 DEF Destroy, JsonInv, JsonType, OneOwner, Kinds
<1>3. ASSUME NEW into \in Wrappers, NEW i \in Wrappers, Put(into, i) PROVE JsonInv'
  <2>1. PICK call \in {"push", "set"}, key_ok \in BOOLEAN :
          LET ok == key_ok /\ kind[into] = Target(call)
          IN  /\ box' = IF key_ok THEN [box EXCEPT ![i] = "freed"] ELSE box
              /\ kind' = IF key_ok THEN [kind EXCEPT ![i] = "scalar"] ELSE kind
              /\ owns' = [owns EXCEPT ![i] = ~ok]
              /\ handed' = [handed EXCEPT ![i] = IF ok THEN "yes"
                                                 ELSE IF key_ok THEN "vain" ELSE @]
    BY <1>3 DEF Put, Taken, Disowned
  <2>2. wrapper[i] = "live" /\ box[i] = "live" /\ wrapper' = wrapper
    BY <1>3 DEF Put, Usable
  <2>3. JsonType'
    BY <2>1, <2>2 DEF JsonInv, JsonType, Kinds
  <2>4. ASSUME NEW j \in Wrappers, j # i
        PROVE  /\ box'[j] = box[j] /\ owns'[j] = owns[j] /\ handed'[j] = handed[j]
    BY <2>1, <2>4 DEF JsonInv, JsonType
  <2>5. /\ box'[i] = "live" => owns'[i]
        /\ owns'[i] /\ handed'[i] # "vain" => box'[i] = "live"
    BY <2>1, <2>2 DEF JsonInv, JsonType
  <2> QED
    BY <2>2, <2>3, <2>4, <2>5 DEF JsonInv, OneOwner
<1>4. CASE JsonStep
  BY <1>0, <1>1, <1>2, <1>3, <1>4 DEF JsonStep, Parse, Get, PutNull
<1> QED
  BY <1>0, <1>4 DEF Next, Json, Checks, Http, vars

(* No value of the tree is owned twice, and none is left without an owner, *)
(* also after calls that fail: only a value consumed in vain leaves a      *)
(* wrapper without its handle.                                             *)
THEOREM OwnedOnce == Spec => []OneOwner
<1>1. HostInit => JsonInv
  BY DEF HostInit, JsonInit, JsonInv, JsonType, OneOwner, Kinds
<1>2. JsonInv => OneOwner
  BY DEF JsonInv
<1> QED
  BY <1>1, <1>2, JsonInvStep, PTL DEF Spec
-----------------------------------------------------------------------------
(* What the slot may have been asked to hold.                              *)
Asked == Wishes \union {Unset}

(* What of the types the build and the stores of set_proxy rest on.        *)
HttpType ==
    /\ pc \in [Threads -> {"idle", "storing", "wanting", "reading", "publishing", "sending"}]
    /\ wish = [t \in Threads |-> wish[t]]
    /\ late \in [Threads -> Nat]
    /\ last \in Asked /\ due \in Asked /\ raced \subseteq Asked
    /\ \A t \in Threads : pc[t] = "storing" => wish[t] \in Wishes

(* One thread builds at a time, and only while there is no client.         *)
OneBuilder ==
    /\ \A t, u \in Threads : {pc[t], pc[u]} \subseteq {"reading", "publishing"} => t = u
    /\ client # Unbuilt => ~Building

(* The slot holds the last wish; what a build has read was the wish of     *)
(* some moment since it began.                                             *)
SlotIsLast ==
    /\ client = Unbuilt => slot = Stored(last)
    /\ client = Unbuilt /\ ~Building => due = last /\ raced = {}
    /\ Building => last \in {due} \union raced
    /\ \A t \in Threads :
         pc[t] = "publishing" => \E w \in {due} \union raced : wish[t] = Stored(w)

(* A store that has not been made yet looked before there was a client.    *)
LateOnes ==
    \A t \in Threads : /\ late[t] # 0 => client # Unbuilt
                       /\ pc[t] = "storing" => late[t] = 0

(* Inductive for the shared client.                                        *)
HttpInv == HttpType /\ OneBuilder /\ SlotIsLast /\ LateOnes /\ ProxyInForce

(* The client is built the way the wish in the slot asks for.              *)
LEMMA BuiltAsMeant ==
    ASSUME NEW w \in Asked
    PROVE  BuiltWith(Stored(w)) = Meaning(w) /\ Meaning(w) # Unbuilt
BY HttpAssumption DEF Asked, BuiltWith, Stored, Meaning, Unset, Unbuilt, Direct, FromEnv

(* A store during a build, and a build that panics, keep the client's way  *)
(* among the wishes in force.                                              *)
LEMMA HttpInvStep == HttpInv /\ [Next]_vars => HttpInv'
<1> SUFFICES ASSUME HttpInv, [Next]_vars PROVE HttpInv'
  OBVIOUS
<1> USE DEF HttpInv, HttpType, OneBuilder, SlotIsLast, LateOnes, ProxyInForce, Building, asked
<1>0. CASE UNCHANGED httpVars
  BY <1>0 DEF httpVars, Asked
<1>1. ASSUME NEW t \in Threads, HttpStep(t) PROVE HttpInv'
  <2>1. CASE SetCheck(t)
    BY <2>1 DEF SetCheck, TooLate, Goto, Asked
  <2>2. CASE SetStore(t)
    BY <2>2 DEF SetStore, Goto, Asked
  <2>3. CASE SetRefused(t)
    BY <2>3 DEF SetRefused, Goto, Asked
  <2>4. CASE Request(t) \/ UseClient(t) \/ Respond(t)
    BY <2>4 DEF Request, UseClient, Respond, Goto, Asked
  <2>5. CASE BuildBegins(t)
    BY <2>5 DEF BuildBegins, MayBuild, Goto, Asked
  <2>6. CASE BuildReads(t)
    BY <2>6 DEF BuildReads, Goto, Asked
  <2>7. CASE BuildEnds(t)
    BY <2>7, BuiltAsMeant DEF BuildEnds, Goto
  <2>8. CASE BuildPanics(t)
    BY <2>8 DEF BuildPanics, Goto, Asked
  <2> QED
    BY <1>1, <2>1, <2>2, <2>3, <2>4, <2>5, <2>6, <2>7, <2>8 DEF HttpStep, Build
<1> QED
  BY <1>0, <1>1 DEF Next, Json, Checks, Http, vars

(* The client goes a way the host asked for, however set_proxy and the     *)
(* first requests race and however often a build fails; and no thread is   *)
(* told OK for a proxy that is too late more than once.                    *)
THEOREM ProxyWins == Spec => []ProxyInForce
<1>1. HostInit => HttpInv
  BY DEF HostInit, HttpInit, HttpInv, HttpType, OneBuilder, SlotIsLast, LateOnes,
         ProxyInForce, Building, Asked, Stored, Unset
<1>2. HttpInv => ProxyInForce
  BY DEF HttpInv
<1> QED
  BY <1>1, <1>2, HttpInvStep, PTL DEF Spec
=============================================================================
