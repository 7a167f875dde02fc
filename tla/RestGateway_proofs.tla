------------------------- MODULE RestGateway_proofs -------------------------
(***************************************************************************)
(* What TLAPS proves of RestGateway and the channel cache under it, for    *)
(* any callers, endpoints and environment.                                 *)
(***************************************************************************)
EXTENDS RestGateway, SequenceTheorems, FiniteSetTheorems, TLAPS

-----------------------------------------------------------------------------
(* What the steps of the gateway are to the channel cache                  *)

(* A request is a call, the drop of a task, or nothing.                    *)
LEMMA StepOfRequest ==
    ASSUME NEW t \in Rest, Request(t)
    PROVE  UNCHANGED gateVars /\ (UNCHANGED cvars \/ Dropped(t) \/ CallStep(t, gen))
BY DEF Request, Connect, ClientLeaves, TaskDropped, Dropped, Receive, RefuseBody, Forward,
       Unreachable, Connected, CallReturns, CallStep

(* Start and stop leave the cache and the calls alone.                     *)
LEMMA StepOfGateway == GatewayStep => UNCHANGED <<cacheVars, callVars, ep>>
BY DEF GatewayStep, Start, Stop, StopStep, LoopEnds, ChannelsDie, RuntimeDropped, StopReturns,
       cvars, callVars

-----------------------------------------------------------------------------
(* What serve_one tells the HTTP side                                      *)

(* What NoFalseSuccess asks of one request, and that one which is not at   *)
(* its call has no status of one.                                          *)
Fits(where, status, code, making) ==
    /\ where \in {"body", "forwarding"} => status = 0 /\ code = -1 /\ making = "nothing"
    /\ status = 200 <=> making = "rendered"
    /\ making # "nothing" => code = 0
    /\ code \in LostCodes \/ making \in Makings \ {"rendered"} => status \in 500..599

(* It holds of all of them.                                                *)
ReplyInv ==
    /\ reply = [t \in Rest |-> reply[t]] /\ grpc = [t \in Rest |-> grpc[t]]
    /\ stage = [t \in Rest |-> stage[t]] /\ made = [t \in Rest |-> made[t]]
    /\ \A t \in Rest : Fits(stage[t], reply[t], grpc[t], made[t])

(* A step that writes one request.                                         *)
Told(t, where, status, code, making) ==
    /\ stage' = [stage EXCEPT ![t] = where] /\ reply' = [reply EXCEPT ![t] = status]
    /\ grpc' = [grpc EXCEPT ![t] = code] /\ made' = [made EXCEPT ![t] = making]

(* The statuses of the calls that fail.                                    *)
LEMMA StatusOfFailure == HttpStatus(5) = 404 /\ HttpStatus(2) = 500 /\ HttpStatus(14) = 503
<1>1. HttpStatus(5) = 404
  <2>1. 5 # 0 /\ 5 # 3 /\ 5 # 7 /\ 5 # 16 /\ 5 # 8 /\ 5 # 12 /\ 5 # 14 /\ 5 # 4
    OBVIOUS
  <2> QED
    BY <2>1, ZenonT(60) DEF HttpStatus
<1>2. HttpStatus(2) = 500
  <2>1. 2 # 0 /\ 2 # 3 /\ 2 # 5 /\ 2 # 7 /\ 2 # 16 /\ 2 # 8 /\ 2 # 12 /\ 2 # 14 /\ 2 # 4
    OBVIOUS
  <2> QED
    BY <2>1, ZenonT(60) DEF HttpStatus
<1>3. HttpStatus(14) = 503
  <2>1. 14 # 0 /\ 14 # 3 /\ 14 # 5 /\ 14 # 7 /\ 14 # 16 /\ 14 # 8 /\ 14 # 12 /\ 14 # 4
    OBVIOUS
  <2> QED
    BY <2>1, ZenonT(60) DEF HttpStatus
<1> QED
  BY <1>1, <1>2, <1>3

(* What is told of an OK reply: 200 just if it was rendered.               *)
LEMMA StatusOfMaking ==
    ASSUME NEW making \in Makings
    PROVE  /\ MadeVerdict(making) \in {200, 500, 502}
           /\ MadeVerdict(making) = 200 <=> making = "rendered"
           /\ making # "nothing"
<1>1. making \in {"rendered", "undecodable", "unrenderable"}
  BY DEF Makings
<1>2. CASE making = "rendered"
  <2>1. MadeVerdict(making) = 200
    BY <1>2, ZenonT(60) DEF MadeVerdict
  <2> QED
    BY <1>2, <2>1
<1>3. CASE making = "undecodable"
  <2>1. MadeVerdict(making) = 502
    BY <1>3, ZenonT(60) DEF MadeVerdict
  <2> QED
    BY <1>3, <2>1
<1>4. CASE making = "unrenderable"
  <2>1. MadeVerdict(making) = 500
    BY <1>4, ZenonT(60) DEF MadeVerdict
  <2> QED
    BY <1>4, <2>1
<1> QED
  BY <1>1, <1>2, <1>3, <1>4

(* A verdict fits the call it is told of.                                  *)
LEMMA VerdictFits ==
    ASSUME NEW code \in KeptCodes \union LostCodes, NEW making \in Makings
    PROVE  Fits("answered", Verdict(code, making), code, IF code = 0 THEN making ELSE "nothing")
<1>1. code \in {0, 5, 2, 14}
  BY DEF KeptCodes, LostCodes
<1>2. CASE code = 0
  BY <1>2, StatusOfMaking DEF Verdict, Fits, LostCodes
<1>3. CASE code # 0
  <2>1. Verdict(code, making) \in {404, 500, 503} /\ (code \in LostCodes => code \in {2, 14})
    BY <1>1, <1>3, StatusOfFailure DEF Verdict, LostCodes
  <2>2. code = 5 \/ Verdict(code, making) \in {500, 503}
    BY <1>1, <1>3, StatusOfFailure DEF Verdict
  <2>3. "nothing" \notin Makings /\ "nothing" # "rendered" /\ 5 \notin LostCodes
    BY DEF Makings, LostCodes
  <2>4. \A n \in {404, 500, 503} : n # 200
    OBVIOUS
  <2>5. \A n \in {500, 503} : n \in 500..599
    OBVIOUS
  <2> QED
    BY <1>3, <2>1, <2>2, <2>3, <2>4, <2>5 DEF Fits
<1> QED
  BY <1>2, <1>3

(* A step that sets one request to values that fit.                        *)
LEMMA ReplyFits ==
    ASSUME ReplyInv, NEW t \in Rest, NEW where, NEW status, NEW code, NEW making,
           Told(t, where, status, code, making), Fits(where, status, code, making)
    PROVE  ReplyInv'
<1>1. /\ reply' = [u \in Rest |-> IF u = t THEN status ELSE reply[u]]
      /\ grpc' = [u \in Rest |-> IF u = t THEN code ELSE grpc[u]]
      /\ made' = [u \in Rest |-> IF u = t THEN making ELSE made[u]]
      /\ stage' = [u \in Rest |-> IF u = t THEN where ELSE stage[u]]
  BY DEF ReplyInv, Told
<1>2. ASSUME NEW u \in Rest PROVE Fits(stage'[u], reply'[u], grpc'[u], made'[u])
  <2>1. CASE u = t
    <3>1. reply'[u] = status /\ grpc'[u] = code /\ made'[u] = making /\ stage'[u] = where
      BY <1>1, <2>1
    <3> QED
      BY <3>1
  <2>2. CASE u # t
    <3>1. /\ reply'[u] = reply[u] /\ grpc'[u] = grpc[u] /\ made'[u] = made[u]
          /\ stage'[u] = stage[u]
      BY <1>1, <2>2
    <3>2. Fits(stage[u], reply[u], grpc[u], made[u])
      BY DEF ReplyInv
    <3> QED
      BY <3>1, <3>2
  <2> QED
    BY <2>1, <2>2
<1>3. (\A u \in Rest : Fits(stage[u], reply[u], grpc[u], made[u]))'
  BY <1>2 DEF Fits
<1> QED
  BY <1>1, <1>3 DEF ReplyInv

(* What is told of no call at all.                                         *)
LEMMA NoCallFits ==
    /\ \A where : Fits(where, 0, -1, "nothing")
    /\ \A status \in {400, 404, 405, 501} : Fits("answered", status, -1, "nothing")
<1>1. "nothing" \notin Makings /\ "nothing" # "rendered" /\ -1 \notin LostCodes
  BY DEF Makings, LostCodes
<1>2. \A status \in {0, 400, 404, 405, 501} : status # 200
  OBVIOUS
<1> QED
  BY <1>1, <1>2 DEF Fits

(* Only an answer writes a reply, from the status of its own call.         *)
LEMMA ReplyOfRequest == ASSUME ReplyInv, NEW t \in Rest, Request(t) PROVE ReplyInv'
<1>0. ASSUME UNCHANGED restVars PROVE ReplyInv'
  BY <1>0 DEF restVars, ReplyInv, Fits
<1>1. CASE Connect(t)
  <2>1. Told(t, "ready", reply[t], grpc[t], made[t])
    BY <1>1 DEF Connect, ReplyInv, Told
  <2>2. Fits("ready", reply[t], grpc[t], made[t])
    BY DEF ReplyInv, Fits
  <2> QED
    BY <2>1, <2>2, ReplyFits
<1>2. CASE ClientLeaves(t) \/ TaskDropped(t)
  <2>1. Told(t, "none", 0, -1, "nothing")
    BY <1>2 DEF ClientLeaves, TaskDropped, Dropped, Told
  <2> QED
    BY <2>1, NoCallFits, ReplyFits
<1>3. CASE Receive(t)
  <2>1. PICK faults \in SUBSET HeadFaults :
          IF HeadVerdict(faults) # 0
            THEN Reply(t, HeadVerdict(faults))
            ELSE /\ stage' = [stage EXCEPT ![t] = "body"]
                 /\ reply' = [reply EXCEPT ![t] = 0]
    BY <1>3 DEF Receive
  <2>2. HeadVerdict(faults) # 0 => HeadVerdict(faults) \in {405, 404, 501}
    BY DEF HeadVerdict
  <2>3. grpc' = [grpc EXCEPT ![t] = -1] /\ made' = [made EXCEPT ![t] = "nothing"]
    BY <1>3 DEF Receive
  <2>4. CASE HeadVerdict(faults) # 0
    <3>1. Told(t, "answered", HeadVerdict(faults), -1, "nothing")
      BY <2>1, <2>3, <2>4 DEF Reply, Told
    <3>2. Fits("answered", HeadVerdict(faults), -1, "nothing")
      BY <2>2, <2>4, NoCallFits
    <3> QED
      BY <3>1, <3>2, ReplyFits
  <2>5. CASE HeadVerdict(faults) = 0
    <3>1. Told(t, "body", 0, -1, "nothing")
      BY <2>1, <2>3, <2>5 DEF Told
    <3> QED
      BY <3>1, NoCallFits, ReplyFits
  <2> QED
    BY <2>4, <2>5
<1>4. CASE RefuseBody(t)
  <2>1. /\ reply' = [reply EXCEPT ![t] = 400] /\ stage' = [stage EXCEPT ![t] = "answered"]
        /\ stage[t] = "body" /\ grpc' = grpc /\ made' = made
    BY <1>4 DEF RefuseBody, BodyVerdict, Reply
  <2>2. grpc[t] = -1 /\ made[t] = "nothing"
    BY <2>1 DEF ReplyInv, Fits
  <2>3. Told(t, "answered", 400, -1, "nothing")
    BY <2>1, <2>2 DEF ReplyInv, Told
  <2>4. Fits("answered", 400, -1, "nothing")
    BY NoCallFits
  <2> QED
    BY <2>3, <2>4, ReplyFits
<1>5. CASE \E e \in Endpoints : Forward(t, e)
  <2>1. /\ stage' = [stage EXCEPT ![t] = "forwarding"] /\ stage[t] = "body"
        /\ UNCHANGED <<reply, grpc, made>>
    BY <1>5 DEF Forward
  <2>2. reply[t] = 0 /\ grpc[t] = -1 /\ made[t] = "nothing"
    BY <2>1 DEF ReplyInv, Fits
  <2>3. Told(t, "forwarding", 0, -1, "nothing")
    BY <2>1, <2>2 DEF ReplyInv, Told
  <2> QED
    BY <2>3, NoCallFits, ReplyFits
<1>6. CASE Unreachable(t)
  <2>1. /\ reply' = [reply EXCEPT ![t] = 503] /\ stage' = [stage EXCEPT ![t] = "answered"]
        /\ grpc' = [grpc EXCEPT ![t] = 14] /\ stage[t] = "forwarding" /\ made' = made
    BY <1>6, StatusOfFailure DEF Unreachable, Reply
  <2>2. made[t] = "nothing"
    BY <2>1 DEF ReplyInv, Fits
  <2>3. Told(t, "answered", 503, 14, "nothing")
    BY <2>1, <2>2 DEF ReplyInv, Told
  <2>4. Fits("answered", 503, 14, "nothing")
    <3>1. "nothing" # "rendered" /\ 503 # 200 /\ 503 \in 500..599
      OBVIOUS
    <3> QED
      BY <3>1 DEF Fits
  <2> QED
    BY <2>3, <2>4, ReplyFits
<1>7. CASE Connected(t)
  BY <1>0, <1>7 DEF Connected
<1>8. CASE CallReturns(t)
  <2>1. PICK code \in KeptCodes \union LostCodes, making \in Makings :
          /\ grpc' = [grpc EXCEPT ![t] = code]
          /\ made' = [made EXCEPT ![t] = IF code = 0 THEN making ELSE "nothing"]
          /\ Reply(t, Verdict(code, making))
    BY <1>8 DEF CallReturns
  <2>2. PICK m : m = IF code = 0 THEN making ELSE "nothing"
    OBVIOUS
  <2>3. Told(t, "answered", Verdict(code, making), code, m)
    BY <2>1, <2>2 DEF Reply, Told
  <2>4. Fits("answered", Verdict(code, making), code, m)
    BY <2>2, VerdictFits
  <2> QED
    BY <2>3, <2>4, ReplyFits
<1> QED
  BY <1>1, <1>2, <1>3, <1>4, <1>5, <1>6, <1>7, <1>8 DEF Request

(* The gateway itself and the other callers tell nobody anything.          *)
LEMMA ReplyStep == ReplyInv /\ [Next]_vars => ReplyInv'
<1> SUFFICES ASSUME ReplyInv, [Next]_vars PROVE ReplyInv'
  OBVIOUS
<1>1. CASE \E t \in Rest : Request(t)
  BY <1>1, ReplyOfRequest
<1>2. CASE SetsProxy \/ GatewayStep \/ UNCHANGED vars \/ \E t \in Unary \union Streams : HostCall(t)
  <2>1. UNCHANGED restVars
    BY <1>2 DEF SetsProxy, GatewayStep, Start, Stop, StopStep, LoopEnds, ChannelsDie,
                RuntimeDropped, StopReturns, HostCall, vars
  <2> QED
    BY <2>1 DEF restVars, ReplyInv, Fits
<1> QED
  BY <1>1, <1>2 DEF Next

(* HTTP 200 just for a gRPC OK whose reply was rendered; neither a failure *)
(* of the transport nor a reply that is no good is the caller's mistake.   *)
THEOREM OkIsOk == Spec => []NoFalseSuccess
<1>1. RestInit => ReplyInv
  BY NoCallFits DEF RestInit, ReplyInv
<1>2. ReplyInv => NoFalseSuccess
  BY DEF ReplyInv, Fits, NoFalseSuccess
<1> QED
  BY <1>1, <1>2, ReplyStep, PTL DEF Spec

-----------------------------------------------------------------------------
(* What stop leaves of a gateway                                           *)

(* A connection's task lives as long as the runtime, and the call it makes *)
(* is a part of it.                                                        *)
Quiet ==
    /\ pc = [t \in Callers |-> pc[t]] /\ stage = [t \in Rest |-> stage[t]]
    /\ \A t \in Rest : /\ stage[t] # "none" => Alive
                       /\ pc[t] # "idle" => stage[t] = "forwarding"

(* A call of one caller leaves where the others are.                       *)
LEMMA OneCaller ==
    ASSUME NEW t \in Callers, NEW r, CallStep(t, r), pc = [u \in Callers |-> pc[u]]
    PROVE  /\ pc' = [u \in Callers |-> pc'[u]]
           /\ \A u \in Callers \ {t} : pc'[u] = pc[u]
BY DEF CallStep, Hit, Miss, Insert, DialFails, NotReady, Answered, Lost, Evict, Finish

(* A task calls only from its place in serve_one, and is back, or dropped, *)
(* before it is anywhere else.                                             *)
LEMMA QuietOfRequest == ASSUME Quiet, NEW t \in Rest, Request(t) PROVE Quiet'
<1> USE DEF Quiet
<1>0. t \in Callers /\ Rest \subseteq Callers /\ t \notin Unary
  BY CallersAssumption DEF Callers
<1>f. ASSUME NEW where, stage' = [stage EXCEPT ![t] = where], Alive', Alive,
             pc' = [u \in Callers |-> pc'[u]], \A u \in Callers \ {t} : pc'[u] = pc[u],
             pc'[t] # "idle" => where = "forwarding"
      PROVE  Quiet'
  <2>1. ASSUME NEW u \in Rest PROVE pc'[u] # "idle" => stage'[u] = "forwarding"
    <3>1. CASE u = t
      BY <1>f, <3>1
    <3>2. CASE u # t
      BY <1>0, <1>f, <3>2
    <3> QED
      BY <3>1, <3>2
  <2> QED
    BY <1>f, <2>1
<1>g. UNCHANGED gateVars /\ (Alive' <=> Alive)
  BY StepOfRequest DEF gateVars, Alive
<1>1. CASE Connect(t)
  <2>1. /\ stage' = [stage EXCEPT ![t] = "ready"] /\ Alive /\ pc' = pc /\ pc[t] = "idle"
    BY <1>1 DEF Connect, Alive, cvars, callVars
  <2> QED
    BY <1>f, <1>g, <2>1
<1>2. CASE Dropped(t)
  <2>1. stage' = [stage EXCEPT ![t] = "none"] /\ pc' = [pc EXCEPT ![t] = "idle"]
    BY <1>2 DEF Dropped, Finish
  <2>2. \A u \in Rest : /\ stage'[u] # "none" => stage[u] # "none"
                        /\ pc'[u] # "idle" => pc[u] # "idle" /\ u # t
    BY <1>0, <2>1
  <2> QED
    BY <1>g, <2>1, <2>2
<1>3. CASE Receive(t)
  <2>1. /\ stage[t] \in {"ready", "answered"} /\ pc' = pc
        /\ stage' = [stage EXCEPT ![t] = stage'[t]]
    BY <1>3 DEF Receive, Reply, cvars, callVars
  <2> QED
    BY <1>f, <1>g, <2>1
<1>4. CASE RefuseBody(t)
  <2>1. stage[t] = "body" /\ pc' = pc /\ stage' = [stage EXCEPT ![t] = stage'[t]]
    BY <1>4 DEF RefuseBody, Reply, cvars, callVars
  <2> QED
    BY <1>f, <1>g, <2>1
<1>5. CASE \E e \in Endpoints : Forward(t, e)
  <2>1. stage[t] = "body" /\ stage' = [stage EXCEPT ![t] = "forwarding"] /\ CallStep(t, gen)
    BY <1>5 DEF Forward, CallStep
  <2> QED
    BY <1>0, <1>f, <1>g, <2>1, OneCaller
<1>6. CASE Unreachable(t) \/ CallReturns(t)
  <2>1. /\ stage[t] = "forwarding" /\ stage' = [stage EXCEPT ![t] = "answered"]
        /\ pc' = [pc EXCEPT ![t] = "idle"]
    BY <1>0, <1>6 DEF Unreachable, CallReturns, Reply, DialFails, NotReady, Answered, Lost, Finish
  <2> QED
    BY <1>0, <1>f, <1>g, <2>1
<1>7. CASE Connected(t)
  <2>1. CallStep(t, gen) /\ pc[t] # "idle" /\ stage' = stage
    BY <1>7 DEF Connected, CallStep, Insert, restVars
  <2>2. stage' = [stage EXCEPT ![t] = "forwarding"] /\ stage[t] = "forwarding"
    BY <2>1
  <2> QED
    BY <1>0, <1>f, <1>g, <2>1, <2>2, OneCaller
<1> QED
  BY <1>1, <1>2, <1>3, <1>4, <1>5, <1>6, <1>7 DEF Request, ClientLeaves, TaskDropped

(* The runtime is not gone before its tasks are.                           *)
LEMMA QuietStep == Quiet /\ [Next]_vars => Quiet'
<1> SUFFICES ASSUME Quiet, [Next]_vars PROVE Quiet'
  OBVIOUS
<1> USE DEF Quiet
<1>1. ASSUME NEW t \in Unary \union Streams, HostCall(t) PROVE Quiet'
  <2>1. t \in Callers /\ t \notin Rest /\ Rest \subseteq Callers
    BY CallersAssumption DEF Callers
  <2>2. CallStep(t, 0) /\ gateway' = gateway /\ stage' = stage
    BY <1>1 DEF HostCall, gateVars, restVars
  <2> QED
    BY <2>1, <2>2, OneCaller DEF Alive
<1>2. CASE \E t \in Rest : Request(t)
  BY <1>2, QuietOfRequest
<1>3. CASE SetsProxy \/ UNCHANGED vars
  BY <1>3 DEF SetsProxy, SetProxy, vars, cvars, callVars, gateVars, restVars, Alive
<1>4. CASE GatewayStep
  <2>1. pc' = pc /\ stage' = stage
    BY <1>4, StepOfGateway DEF callVars, GatewayStep, Start, Stop, StopStep, LoopEnds, ChannelsDie,
                RuntimeDropped, StopReturns, restVars
  <2>2. Alive => Alive' \/ TasksGone
    BY <1>4 DEF Alive, GatewayStep, Start, Stop, StopStep, LoopEnds, ChannelsDie,
                RuntimeDropped, StopReturns, gateVars
  <2> QED
    BY <2>1, <2>2 DEF TasksGone
<1> QED
  BY <1>1, <1>2, <1>3, <1>4 DEF Next

-----------------------------------------------------------------------------
(* The channels in the cache                                               *)

(* A channel, as the model knows it.                                       *)
Channels == [runtime : Nat, ep : Endpoints]

(* An entry holds a channel to its own endpoint, so that no channel is in  *)
(* two of them.                                                            *)
CacheInv ==
    /\ gen \in Nat /\ chans \in Seq(Channels)
    /\ ep \in [Callers -> Endpoints]
    /\ cache \in [Endpoints -> 0..Len(chans)]
    /\ removed \subseteq 1..Len(chans)
    /\ \A e \in Endpoints : cache[e] # None => chans[cache[e]].ep = e
    /\ EvictedStaysOut

(* What an entry may lose is a channel of its endpoint.                    *)
LEMMA OccupantKnown ==
    ASSUME CacheInv, NEW e \in Endpoints
    PROVE  /\ Occupant(e) \subseteq 1..Len(chans)
           /\ \A f \in Endpoints : cache[f] \in Occupant(e) => f = e
<1>0. Len(chans) \in Nat /\ cache[e] \in 0..Len(chans)
  BY LenProperties DEF CacheInv
<1>1. CASE cache[e] = None
  BY <1>1 DEF Occupant
<1>2. CASE cache[e] # None
  <2>1. Occupant(e) = {cache[e]} /\ cache[e] \in 1..Len(chans)
    BY <1>0, <1>2 DEF Occupant, None
  <2> QED
    BY <1>2, <2>1 DEF CacheInv
<1> QED
  BY <1>1, <1>2

(* What a call does to the cache: insert what it has connected, or evict   *)
(* by name.                                                                *)
LEMMA CacheOfCall ==
    ASSUME CacheInv, NEW t \in Callers, NEW r \in Nat, CallStep(t, r), gen' = gen
    PROVE  CacheInv'
<1> USE DEF CacheInv, EvictedStaysOut, InCache, None
<1>1. ASSUME NEW e \in Endpoints, Hit(t, e) \/ Miss(t, e) PROVE CacheInv'
  BY <1>1 DEF Hit, Miss, cacheVars
<1>2. CASE Insert(t, r)
  <2> DEFINE n == Len(chans) + 1
             fresh == [runtime |-> r, ep |-> ep[t]]
  <2>1. /\ chans' = Append(chans, fresh) /\ cache' = [cache EXCEPT ![ep[t]] = n]
        /\ removed' = removed \union Occupant(ep[t]) /\ ep' = ep
    BY <1>2 DEF Insert, Inserted
  <2>2. fresh \in Channels /\ ep[t] \in Endpoints /\ Len(chans) \in Nat
    BY LenProperties DEF Channels
  <2>3. /\ chans' \in Seq(Channels) /\ Len(chans') = n /\ chans'[n] = fresh
        /\ \A c \in 1..Len(chans) : chans'[c] = chans[c]
    BY <2>1, <2>2, AppendProperties
  <2>4. cache' \in [Endpoints -> 0..Len(chans')]
    BY <2>1, <2>2, <2>3
  <2>5. removed' \subseteq 1..Len(chans)
    BY <2>1, <2>2, OccupantKnown
  <2>6. ASSUME NEW e \in Endpoints, cache'[e] # None
        PROVE  chans'[cache'[e]].ep = e /\ cache'[e] \notin removed'
    <3>1. CASE e = ep[t]
      BY <2>1, <2>2, <2>3, <2>5, <3>1
    <3>2. CASE e # ep[t]
      <4>1. cache'[e] = cache[e] /\ cache[e] \in 1..Len(chans)
        BY <2>1, <2>2, <2>6, <3>2
      <4>2. cache[e] \notin removed /\ cache[e] \notin Occupant(ep[t])
        BY <2>2, <3>2, <4>1, OccupantKnown
      <4> QED
        BY <2>1, <2>3, <4>1, <4>2
    <3> QED
      BY <3>1, <3>2
  <2>7. EvictedStaysOut'
    BY <2>2, <2>5, <2>6
  <2> QED
    BY <2>1, <2>2, <2>3, <2>4, <2>5, <2>6, <2>7
<1>3. CASE DialFails(t) \/ NotReady(t) \/ Answered(t) \/ Lost(t)
  BY <1>3 DEF DialFails, NotReady, Answered, Lost, Kept, cacheVars
<1>4. CASE Evict(t)
  <2>1. /\ cache' = [cache EXCEPT ![ep[t]] = None] /\ chans' = chans
        /\ removed' = removed \union Occupant(ep[t]) /\ ep' = ep
    BY <1>4 DEF Evict
  <2>2. ep[t] \in Endpoints /\ Len(chans) \in Nat
    BY LenProperties
  <2>3. removed' \subseteq 1..Len(chans)
    BY <2>1, <2>2, OccupantKnown
  <2>4. ASSUME NEW e \in Endpoints, cache'[e] # None
        PROVE  chans[cache'[e]].ep = e /\ cache'[e] \notin removed'
    <3>1. e # ep[t] /\ cache'[e] = cache[e]
      BY <2>1, <2>4
    <3>2. cache[e] \notin removed /\ cache[e] \notin Occupant(ep[t])
      BY <2>2, <2>4, <3>1, OccupantKnown
    <3> QED
      BY <2>1, <2>4, <3>1, <3>2
  <2>5. cache' \in [Endpoints -> 0..Len(chans)]
    BY <2>1, <2>2
  <2> QED
    BY <2>1, <2>2, <2>3, <2>4, <2>5
<1> QED
  BY <1>1, <1>2, <1>3, <1>4 DEF CallStep

(* Only calls touch the cache.                                             *)
LEMMA CacheStep == CacheInv /\ [Next]_vars => CacheInv'
<1> SUFFICES ASSUME CacheInv, [Next]_vars PROVE CacheInv'
  OBVIOUS
<1>0. ASSUME UNCHANGED <<cacheVars, ep>>, gen' \in Nat PROVE CacheInv'
  BY <1>0 DEF cacheVars, CacheInv, EvictedStaysOut, InCache
<1>1. ASSUME NEW t \in Unary \union Streams, HostCall(t) PROVE CacheInv'
  BY <1>1, CacheOfCall DEF HostCall, Callers, gateVars
<1>2. ASSUME NEW t \in Rest, Request(t) PROVE CacheInv'
  <2>1. gen' = gen /\ gen \in Nat /\ t \in Callers
    BY <1>2, StepOfRequest DEF gateVars, CacheInv, Callers
  <2>2. CASE UNCHANGED cvars
    BY <1>0, <2>1, <2>2 DEF cvars, callVars
  <2>3. CASE Dropped(t)
    BY <1>0, <2>1, <2>3 DEF Dropped
  <2> QED
    BY <1>2, <2>1, <2>2, <2>3, StepOfRequest, CacheOfCall
<1>3. CASE SetsProxy \/ UNCHANGED vars
  BY <1>0, <1>3 DEF SetsProxy, SetProxy, vars, cvars, callVars, gateVars, CacheInv
<1>4. CASE GatewayStep
  <2>1. UNCHANGED <<cacheVars, ep>>
    BY <1>4, StepOfGateway
  <2>2. gen' \in {gen, gen + 1}
    BY <1>4 DEF GatewayStep, Start, Stop, StopStep, LoopEnds, ChannelsDie, RuntimeDropped,
                StopReturns, gateVars
  <2>3. gen' \in Nat
    BY <2>2 DEF CacheInv
  <2> QED
    BY <1>0, <2>1, <2>3
<1> QED
  BY <1>1, <1>2, <1>3, <1>4 DEF Next

(* It begins empty.                                                        *)
LEMMA CacheInit == RestInit => CacheInv
<1> SUFFICES ASSUME RestInit PROVE CacheInv
  OBVIOUS
<1>1. /\ chans = <<>> /\ removed = {} /\ gen = 0 /\ ep \in [Callers -> Endpoints]
      /\ cache = [e \in Endpoints |-> None]
  BY DEF RestInit, Init
<1>2. chans \in Seq(Channels) /\ Len(chans) = 0
  BY <1>1, EmptySeq
<1>3. cache \in [Endpoints -> 0..Len(chans)] /\ removed \subseteq 1..Len(chans)
  BY <1>1, <1>2 DEF None
<1> QED
  BY <1>1, <1>2, <1>3 DEF CacheInv, EvictedStaysOut, None

(* A channel that was evicted, or replaced by a second first call, is      *)
(* never handed out again.                                                 *)
THEOREM EvictedGone == Spec => []EvictedStaysOut
<1>1. RestInit => CacheInv
  BY CacheInit
<1>2. CacheInv => EvictedStaysOut
  BY DEF CacheInv
<1> QED
  BY <1>1, <1>2, CacheStep, PTL DEF Spec
-----------------------------------------------------------------------------
(* No channel of a gateway is connected when the gateway is gone.          *)
LEMMA LateStep ==
    ASSUME Quiet, CacheInv, [Next]_vars, ~Alive,
           NEW c \in (Len(chans) + 1)..Len(chans')
    PROVE  chans'[c].runtime = 0
<1>0. Len(chans) \in Nat
  BY LenProperties DEF CacheInv
<1>1. chans' # chans
  BY <1>0
<1>2. ASSUME NEW t \in Callers, NEW r \in Nat, CallStep(t, r)
      PROVE  r = chans'[c].runtime /\ pc[t] # "idle"
  <2>1. Insert(t, r)
    BY <1>1, <1>2 DEF CallStep, Hit, Miss, DialFails, NotReady, Answered, Lost, Evict, cacheVars
  <2>2. chans' = Append(chans, [runtime |-> r, ep |-> ep[t]]) /\ pc[t] # "idle"
    BY <2>1 DEF Insert
  <2>3. ep[t] \in Endpoints /\ [runtime |-> r, ep |-> ep[t]] \in Channels
    BY DEF CacheInv, Channels
  <2>4. /\ Len(chans') = Len(chans) + 1
        /\ chans'[Len(chans) + 1] = [runtime |-> r, ep |-> ep[t]]
    BY <2>2, <2>3, AppendProperties DEF CacheInv
  <2>5. c = Len(chans) + 1
    BY <1>0, <2>4
  <2> QED
    BY <2>2, <2>4, <2>5
<1>3. ASSUME NEW t \in Unary \union Streams, HostCall(t) PROVE chans'[c].runtime = 0
  BY <1>2, <1>3 DEF HostCall, Callers
<1>4. ASSUME NEW t \in Rest, Request(t) PROVE FALSE
  <2>1. t \in Callers /\ gen \in Nat
    BY DEF Callers, CacheInv
  <2>2. CallStep(t, gen) => pc[t] # "idle"
    BY <1>2, <2>1
  <2>3. UNCHANGED cvars \/ Dropped(t) => chans' = chans
    BY DEF cvars, cacheVars, Dropped
  <2>4. pc[t] = "idle"
    BY DEF Quiet
  <2> QED
    BY <1>1, <1>4, <2>2, <2>3, <2>4, StepOfRequest
<1>5. SetsProxy \/ GatewayStep \/ UNCHANGED vars => chans' = chans
  BY StepOfGateway DEF SetsProxy, SetProxy, vars, cvars, cacheVars
<1> QED
  BY <1>1, <1>3, <1>4, <1>5 DEF Next

(* When zpr_transcode_stop has returned, none of the gateway's requests is *)
(* left to come back from its connect: no channel of a dropped runtime     *)
(* gets into the cache.                                                    *)
THEOREM StopCuts == Spec => NoLateChannel
<1>1. RestInit => Quiet /\ CacheInv
  BY CacheInit DEF RestInit, Init, Quiet, Callers
<1>2. Quiet /\ CacheInv /\ [Next]_vars
        => [~Alive => \A c \in (Len(chans) + 1)..Len(chans') : chans'[c].runtime = 0]_vars
  BY LateStep
<1> QED
  BY <1>1, <1>2, QuietStep, CacheStep, PTL DEF Spec, NoLateChannel
-----------------------------------------------------------------------------
(* How often a connection is made                                          *)

Made(e) == {c \in 1..Len(chans) : chans[c].ep = e}
Dialing(e) == {t \in Callers : pc[t] = "dialing" /\ ep[t] = e}
Allowed(k) == Cardinality(Callers) * k

(* Whoever dials missed the entry; while it is empty, nobody has connected *)
(* since it was taken out.                                                 *)
DialInv ==
    /\ CacheInv
    /\ pc = [t \in Callers |-> pc[t]] /\ emptied \in [Endpoints -> Nat]
    /\ \A e \in Endpoints :
         /\ cache[e] = None => Cardinality(Made(e)) <= Allowed(emptied[e])
         /\ Cardinality(Made(e)) + Cardinality(Dialing(e)) <= Allowed(emptied[e] + 1)

(* Each time the entry was emptied allows every caller one connection      *)
(* more.                                                                   *)
LEMMA AllowedGrows ==
    ASSUME NEW k \in Nat
    PROVE  /\ Allowed(k) \in Nat /\ Cardinality(Callers) \in Nat
           /\ Allowed(k + 1) = Allowed(k) + Cardinality(Callers)
<1>1. Cardinality(Callers) \in Nat
  BY CallersAssumption, FS_CardinalityType
<1> DEFINE n == Cardinality(Callers)
<1> HIDE DEF n
<1>2. n \in Nat => n * k \in Nat /\ n * (k + 1) = n * k + n
  OBVIOUS
<1> QED
  BY <1>1, <1>2 DEF n, Allowed

(* The channels and the dialing callers of an endpoint are finitely many.  *)
LEMMA CountsFinite ==
    ASSUME CacheInv, NEW e \in Endpoints
    PROVE  /\ IsFiniteSet(Made(e)) /\ Cardinality(Made(e)) \in Nat
           /\ IsFiniteSet(Dialing(e)) /\ Cardinality(Dialing(e)) \in Nat
           /\ Cardinality(Dialing(e)) <= Cardinality(Callers)
<1>1. IsFiniteSet(1..Len(chans))
  BY FS_Interval, LenProperties DEF CacheInv
<1>2. Made(e) \subseteq 1..Len(chans) /\ Dialing(e) \subseteq Callers
  BY DEF Made, Dialing
<1> QED
  BY <1>1, <1>2, CallersAssumption, FS_Subset, FS_CardinalityType

(* A step that connects nobody new, and takes nobody's place.              *)
LEMMA FewerDialing ==
    ASSUME DialInv, CacheInv', UNCHANGED <<cache, chans, emptied>>,
           pc' = [t \in Callers |-> pc'[t]],
           \A e \in Endpoints : Dialing(e)' \subseteq Dialing(e)
    PROVE  DialInv'
<1> SUFFICES ASSUME NEW e \in Endpoints
             PROVE  Cardinality(Made(e)') + Cardinality(Dialing(e)') <= Allowed(emptied[e] + 1)
  BY DEF DialInv, Made, Allowed
<1>1. Cardinality(Dialing(e)') <= Cardinality(Dialing(e)) /\ Cardinality(Dialing(e)') \in Nat
  BY CountsFinite, FS_Subset, FS_CardinalityType DEF DialInv
<1>2. Made(e)' = Made(e)
  BY DEF Made
<1>3. Cardinality(Made(e)) \in Nat /\ Cardinality(Dialing(e)) \in Nat
  BY CountsFinite DEF DialInv
<1>4. emptied[e] \in Nat /\ Allowed(emptied[e] + 1) \in Nat
  BY AllowedGrows DEF DialInv
<1>5. Cardinality(Made(e)) + Cardinality(Dialing(e)) <= Allowed(emptied[e] + 1)
  BY DEF DialInv
<1> QED
  BY <1>1, <1>2, <1>3, <1>4, <1>5

(* A caller begins to connect only while the entry is empty.               *)
LEMMA DialOfMiss ==
    ASSUME DialInv, CacheInv', NEW t \in Callers, NEW e \in Endpoints, Miss(t, e)
    PROVE  DialInv'
<1>1. /\ UNCHANGED <<cache, chans, emptied>> /\ cache[e] = None
      /\ pc' = [u \in Callers |-> pc'[u]]
  BY DEF Miss, cacheVars, DialInv
<1>2. ASSUME NEW f \in Endpoints, f # e PROVE Dialing(f)' = Dialing(f)
  BY <1>2 DEF Miss, Dialing, DialInv, CacheInv
<1>3. Cardinality(Made(e)) + Cardinality(Dialing(e)') <= Allowed(emptied[e] + 1)
  <2>1. Cardinality(Dialing(e)') <= Cardinality(Callers) /\ Cardinality(Dialing(e)') \in Nat
    <3>1. Dialing(e)' \subseteq Callers
      BY DEF Dialing
    <3> QED
      BY <3>1, CallersAssumption, FS_Subset, FS_CardinalityType
  <2>2. Cardinality(Made(e)) <= Allowed(emptied[e]) /\ Cardinality(Made(e)) \in Nat
    BY <1>1, CountsFinite DEF DialInv
  <2>3. emptied[e] \in Nat
    BY DEF DialInv
  <2> QED
    BY <2>1, <2>2, <2>3, AllowedGrows
<1> QED
  BY <1>1, <1>2, <1>3 DEF DialInv, Made, Allowed

(* A caller that has connected is no longer dialing, and fills the entry.  *)
LEMMA DialOfInsert ==
    ASSUME DialInv, CacheInv', NEW t \in Callers, NEW r, Insert(t, r)
    PROVE  DialInv'
<1> DEFINE n == Len(chans) + 1
<1>e. PICK e \in Endpoints : ep[t] = e
  BY DEF DialInv, CacheInv
<1>0. e \in Endpoints /\ chans \in Seq(Channels) /\ Len(chans) \in Nat
  BY LenProperties DEF DialInv, CacheInv
<1>1. /\ chans' = Append(chans, [runtime |-> r, ep |-> e]) /\ ep' = ep /\ emptied' = emptied
      /\ cache' = [cache EXCEPT ![e] = n] /\ pc[t] = "dialing"
      /\ pc' = [pc EXCEPT ![t] = "calling"]
  BY <1>e DEF Insert, Inserted
<1>2. /\ Len(chans') = n /\ chans'[n].ep = e
      /\ \A c \in 1..Len(chans) : chans'[c] = chans[c]
  BY <1>0, <1>1
<1>3. Made(e)' = Made(e) \union {n} /\ n \notin Made(e)
  BY <1>0, <1>1, <1>2 DEF Made
<1>4. Dialing(e)' = Dialing(e) \ {t} /\ t \in Dialing(e)
  BY <1>e, <1>1 DEF Dialing, DialInv
<1>5. ASSUME NEW f \in Endpoints, f # e PROVE Made(f)' = Made(f) /\ Dialing(f)' = Dialing(f)
  BY <1>e, <1>0, <1>1, <1>2, <1>5 DEF Made, Dialing, DialInv
<1>6. /\ Cardinality(Made(e)') = Cardinality(Made(e)) + 1
      /\ Cardinality(Dialing(e)') = Cardinality(Dialing(e)) - 1
  <2>1. IsFiniteSet(Made(e)) /\ IsFiniteSet(Dialing(e))
    BY CountsFinite DEF DialInv
  <2>2. Cardinality(Made(e) \union {n}) = Cardinality(Made(e)) + 1
    BY <1>3, <2>1, FS_AddElement
  <2>3. Cardinality(Dialing(e) \ {t}) = Cardinality(Dialing(e)) - 1
    BY <1>4, <2>1, FS_RemoveElement
  <2> QED
    BY <1>3, <1>4, <2>2, <2>3
<1>7. Cardinality(Made(e)') + Cardinality(Dialing(e)') <= Allowed(emptied[e] + 1)
  <2>1. Cardinality(Made(e)) \in Nat /\ Cardinality(Dialing(e)) \in Nat
    BY <1>0, CountsFinite DEF DialInv
  <2>2. Cardinality(Made(e)) + Cardinality(Dialing(e)) <= Allowed(emptied[e] + 1)
    BY <1>0 DEF DialInv
  <2> QED
    BY <1>6, <2>1, <2>2
<1>8. cache'[e] # None /\ \A f \in Endpoints \ {e} : cache'[f] = cache[f]
  BY <1>0, <1>1 DEF DialInv, CacheInv, None
<1>9. pc' = [u \in Callers |-> pc'[u]]
  BY <1>1 DEF DialInv
<1> QED
  BY <1>0, <1>1, <1>5, <1>7, <1>8, <1>9 DEF DialInv, Allowed

(* An eviction empties the entry and allows one round more; nobody         *)
(* connects by it.                                                         *)
LEMMA DialOfEvict ==
    ASSUME DialInv, CacheInv', NEW t \in Callers, Evict(t)
    PROVE  DialInv'
<1>e. PICK e \in Endpoints : ep[t] = e
  BY DEF DialInv, CacheInv
<1>0. emptied[e] \in Nat
  BY DEF DialInv
<1>1. /\ UNCHANGED <<chans, ep>> /\ cache' = [cache EXCEPT ![e] = None]
      /\ emptied' = [emptied EXCEPT ![e] = @ + Cardinality(Occupant(e))]
      /\ pc[t] = "evicting" /\ pc' = [pc EXCEPT ![t] = "idle"]
  BY <1>e DEF Evict, Finish
<1>2. /\ \A f \in Endpoints : Made(f)' = Made(f) /\ Dialing(f)' = Dialing(f)
      /\ pc' = [u \in Callers |-> pc'[u]]
  BY <1>1 DEF Made, Dialing, DialInv
<1>3. CASE cache[e] = None
  <2>1. Cardinality(Occupant(e)) = 0
    BY <1>3, FS_EmptySet DEF Occupant
  <2>2. cache' = cache /\ emptied' = emptied
    BY <1>0, <1>1, <1>3, <2>1 DEF DialInv, CacheInv
  <2> QED
    BY <1>2, <2>2 DEF DialInv, Allowed
<1>4. CASE cache[e] # None
  <2>1. Cardinality(Occupant(e)) = 1
    BY <1>4, FS_Singleton DEF Occupant
  <2>2. /\ emptied' = [emptied EXCEPT ![e] = emptied[e] + 1]
        /\ emptied' \in [Endpoints -> Nat]
    BY <1>0, <1>1, <2>1 DEF DialInv
  <2>3. /\ Cardinality(Made(e)) \in Nat /\ Cardinality(Dialing(e)) \in Nat
        /\ Cardinality(Made(e)) + Cardinality(Dialing(e)) <= Allowed(emptied[e] + 1)
    BY <1>0, CountsFinite DEF DialInv
  <2>4. /\ Allowed(emptied[e] + 1) \in Nat /\ Cardinality(Callers) \in Nat
        /\ Allowed(emptied[e] + 1 + 1) = Allowed(emptied[e] + 1) + Cardinality(Callers)
    BY <1>0, AllowedGrows
  <2>5. /\ Cardinality(Made(e)) <= Allowed(emptied'[e])
        /\ Cardinality(Made(e)) + Cardinality(Dialing(e)) <= Allowed(emptied'[e] + 1)
    <3>1. emptied'[e] = emptied[e] + 1
      BY <1>0, <2>2 DEF DialInv
    <3> QED
      BY <2>3, <2>4, <3>1
  <2>6. \A f \in Endpoints \ {e} : cache'[f] = cache[f] /\ emptied'[f] = emptied[f]
    BY <1>1, <2>2 DEF DialInv, CacheInv
  <2> QED
    BY <1>2, <2>2, <2>5, <2>6 DEF DialInv, Allowed
<1> QED
  BY <1>3, <1>4

(* So every step of a call keeps the count.                                *)
LEMMA DialOfCall ==
    ASSUME DialInv, CacheInv', NEW t \in Callers, NEW r, CallStep(t, r)
    PROVE  DialInv'
<1>1. ASSUME NEW e \in Endpoints, Hit(t, e) PROVE DialInv'
  <2>1. /\ UNCHANGED <<cache, chans, emptied>>
        /\ pc' = [u \in Callers |-> pc'[u]]
        /\ \A f \in Endpoints : Dialing(f)' \subseteq Dialing(f)
    BY <1>1 DEF Hit, cacheVars, Dialing, DialInv, CacheInv
  <2> QED
    BY <2>1, FewerDialing
<1>2. CASE DialFails(t) \/ NotReady(t) \/ Answered(t) \/ Lost(t)
  <2>1. /\ UNCHANGED <<cache, chans, emptied, ep>> /\ pc' = [u \in Callers |-> pc'[u]]
        /\ \A u \in Callers : pc'[u] = "dialing" => pc[u] = "dialing"
    BY <1>2 DEF DialFails, NotReady, Answered, Lost, Kept, Finish, cacheVars, DialInv
  <2>2. \A f \in Endpoints : Dialing(f)' \subseteq Dialing(f)
    BY <2>1 DEF Dialing
  <2> QED
    BY <2>1, <2>2, FewerDialing
<1> QED
  BY <1>1, <1>2, DialOfMiss, DialOfInsert, DialOfEvict DEF CallStep

(* Only calls connect and evict.                                           *)
LEMMA DialStep == DialInv /\ [Next]_vars => DialInv'
<1> SUFFICES ASSUME DialInv, [Next]_vars PROVE DialInv'
  OBVIOUS
<1>0. CacheInv'
  BY CacheStep DEF DialInv
<1>f. ASSUME UNCHANGED <<cache, chans, emptied, ep>>, pc' = [u \in Callers |-> pc'[u]],
             \A u \in Callers : pc'[u] = "dialing" => pc[u] = "dialing"
      PROVE  DialInv'
  <2>1. \A f \in Endpoints : Dialing(f)' \subseteq Dialing(f)
    BY <1>f DEF Dialing
  <2> QED
    BY <1>0, <1>f, <2>1, FewerDialing
<1>c. ASSUME UNCHANGED cvars PROVE DialInv'
  BY <1>c, <1>f DEF cvars, cacheVars, callVars, DialInv
<1>1. ASSUME NEW t \in Unary \union Streams, HostCall(t) PROVE DialInv'
  BY <1>0, <1>1, DialOfCall DEF HostCall, Callers
<1>2. ASSUME NEW t \in Rest, Request(t) PROVE DialInv'
  <2>1. t \in Callers
    BY DEF Callers
  <2>2. CASE Dropped(t)
    <3>1. /\ UNCHANGED <<cache, chans, emptied, ep>> /\ pc' = [u \in Callers |-> pc'[u]]
          /\ \A u \in Callers : pc'[u] = "dialing" => pc[u] = "dialing"
      BY <2>2 DEF Dropped, Finish, cacheVars, DialInv
    <3> QED
      BY <1>f, <3>1
  <2> QED
    BY <1>0, <1>2, <1>c, <2>1, <2>2, StepOfRequest, DialOfCall
<1>3. CASE SetsProxy
  BY <1>3, <1>f DEF SetsProxy, SetProxy, cacheVars, callVars, DialInv
<1>4. CASE GatewayStep
  BY <1>4, <1>f, StepOfGateway DEF cacheVars, callVars, DialInv
<1> QED
  BY <1>c, <1>1, <1>2, <1>3, <1>4 DEF Next, vars

(* Concurrent first calls may connect twice, but the connections to an     *)
(* endpoint are bounded by its callers, for each time it was evicted.      *)
THEOREM FewHandshakes == Spec => []HandshakesBounded
<1>1. RestInit => DialInv
  <2> SUFFICES ASSUME RestInit PROVE DialInv
    OBVIOUS
  <2>1. CacheInv
    BY CacheInit
  <2>2. /\ chans = <<>> /\ emptied = [e \in Endpoints |-> 0]
        /\ pc = [t \in Callers |-> "idle"]
    BY DEF RestInit, Init
  <2>3. ASSUME NEW e \in Endpoints PROVE Cardinality(Made(e)) = 0 /\ Cardinality(Dialing(e)) = 0
    <3>1. Made(e) = {} /\ Dialing(e) = {}
      BY <2>2 DEF Made, Dialing
    <3> QED
      BY <3>1, FS_EmptySet
  <2>4. Allowed(0) \in Nat /\ Allowed(0 + 1) \in Nat
    BY AllowedGrows
  <2> QED
    BY <2>1, <2>2, <2>3, <2>4 DEF DialInv
<1>2. DialInv => HandshakesBounded
  <2> SUFFICES ASSUME DialInv, NEW e \in Endpoints
               PROVE  Cardinality(Made(e)) <= Cardinality(Callers) * (1 + emptied[e])
    BY DEF HandshakesBounded, Made
  <2>1. /\ Cardinality(Made(e)) \in Nat /\ Cardinality(Dialing(e)) \in Nat
        /\ Cardinality(Made(e)) + Cardinality(Dialing(e)) <= Allowed(emptied[e] + 1)
        /\ emptied[e] \in Nat /\ Allowed(emptied[e] + 1) \in Nat
    BY CountsFinite, AllowedGrows DEF DialInv
  <2>2. Cardinality(Made(e)) <= Allowed(emptied[e] + 1)
    BY <2>1
  <2>3. emptied[e] + 1 = 1 + emptied[e]
    BY <2>1
  <2> QED
    BY <2>2, <2>3 DEF Allowed
<1> QED
  BY <1>1, <1>2, DialStep, PTL DEF Spec
=============================================================================
