-------------------------- MODULE CallQueue_proofs --------------------------
(***************************************************************************)
(* What TLAPS proves of CallQueue, for any number of threads, calls and    *)
(* settings: who holds a call, the deadlines, the door, the order in which *)
(* RPCs are handed out, the counters, what stop and free leave behind, and *)
(* that each client sees one status at most.                               *)
(***************************************************************************)
EXTENDS CallQueue, FiniteSetTheorems, SequenceTheorems, TLAPS

USE DEF Ids, Authors

(* Putting the head of a queue back at the front restores the queue: what  *)
(* zpr_grpc_accept does when the path does not fit.                        *)
LEMMA PushFrontRestores ==
    ASSUME NEW S, NEW s \in Seq(S), s # <<>>
    PROVE  <<Head(s)>> \o Tail(s) = s
<1>1. Len(s) \in Nat \ {0}
  BY EmptySeq
<1>2. SubSeq(s, 1, Len(s)) = <<s[1]>> \o SubSeq(s, 2, Len(s))
  BY <1>1, SubSeqRecursiveFirst, 1 + 1 = 2
<1> QED
  BY <1>1, <1>2, SubSeqFull, TailIsSubSeq

(* A short buffer in zpr_grpc_accept leaves the queue as it was.           *)
LEMMA AcceptShortEffect ==
    ASSUME pending \in Seq(Ids), AcceptShort
    PROVE  UNCHANGED vars
<1>1. pending' = pending
  BY PushFrontRestores DEF AcceptShort, PushFront, PopFront
<1> QED
  BY <1>1 DEF AcceptShort, vars, queueVars, counters, workerVars, reaperVars, hostVars

(* Every variable keeps its type; in particular max_pending is never 0, so *)
(* zpr_grpc_queue_configure cannot make the server refuse every call.      *)
THEOREM TypeCorrect == Spec => []TypeOK
<1>1. Init => TypeOK
  BY SizesAssumption, SettingsAssumption DEF Init, TypeOK
<1>2. TypeOK /\ [Next]_vars => TypeOK'
  <2> SUFFICES ASSUME TypeOK, [Next]_vars PROVE TypeOK'
    OBVIOUS
  <2> USE SizesAssumption, SettingsAssumption DEF TypeOK
  <2>0. CASE UNCHANGED vars
    BY <2>0 DEF vars, queueVars, counters, workerVars, reaperVars, hostVars
  <2>1. ASSUME NEW w \in Workers, WorkerStep(w) PROVE TypeOK'
    <3>1. CASE Refuse(w)
      BY <3>1 DEF Refuse, queueVars, workerVars, reaperVars, hostVars
    <3>2. CASE Admit(w)
      BY <3>2 DEF Admit, queueVars, counters, reaperVars, hostVars
    <3>3. CASE Register(w)
      <4>1. Stamp \in 0..Forever
        BY DEF Stamp
      <4>2. next_id \in Ids /\ next_id # 0
        BY <3>3 DEF Register
      <4>3. ttl' \in [Ids -> 0..Forever]
        BY <3>3, <4>1, <4>2 DEF Register
      <4>4. /\ wpc' \in [Workers -> {"idle", "admitted", "registered"}]
            /\ wid' \in [Workers -> 0..MaxCalls]
            /\ \A v \in Workers : wid'[v] # 0 <=> wpc'[v] = "registered"
        BY <3>3, <4>2 DEF Register
      <4>5. /\ live' \subseteq Ids
            /\ next_id' \in 1..(MaxCalls + 1)
            /\ client' \in [Ids -> Authors \union {"absent", "waiting", "gone", "lost"}]
        BY <3>3, <4>2 DEF Register
      <4> QED
        BY <3>3, <4>3, <4>4, <4>5 DEF Register, counters, reaperVars, hostVars
    <3>4. CASE Enqueue(w)
      <4>1. wid[w] \in Ids
        BY <3>4 DEF Enqueue
      <4>2. pending' \in Seq(Ids) /\ arrived' \in Seq(Ids)
        BY <3>4, <4>1 DEF Enqueue, PushBack
      <4>3. /\ wpc' \in [Workers -> {"idle", "admitted", "registered"}]
            /\ wid' \in [Workers -> 0..MaxCalls]
            /\ \A v \in Workers : wid'[v] # 0 <=> wpc'[v] = "registered"
        BY <3>4 DEF Enqueue
      <4> QED
        BY <3>4, <4>2, <4>3 DEF Enqueue, counters, reaperVars, hostVars
    <3> QED
      BY <2>1, <3>1, <3>2, <3>3, <3>4 DEF WorkerStep
  <2>2. CASE Tick
    <3>1. ttl' \in [Ids -> 0..Forever]
      <4>1. ttl \in [Ids -> 0..Forever] /\ Forever \in Nat
        OBVIOUS
      <4>2. ttl' = [id \in Ids |-> IF id \in live /\ ttl[id] \in 1..(Forever - 1)
                                   THEN ttl[id] - 1 ELSE ttl[id]]
        BY <2>2 DEF Tick
      <4> HIDE DEF TypeOK, Ids
      <4>3. ASSUME NEW n \in 0..Forever
            PROVE  n \in 1..(Forever - 1) => n - 1 \in 0..Forever
        BY <4>1
      <4>4. \A id \in Ids : ttl[id] \in 0..Forever
        BY <4>1
      <4> QED
        BY <4>2, <4>3, <4>4
    <3>2. UNCHANGED <<pending, live, next_id, max_pending, deadline_ms, accepted, completed,
                      refused, reaped, wpc, wid, rpc, due, expired, hand, object, answered,
                      client, phase, arrived>>
      BY <2>2 DEF Tick, counters, workerVars, reaperVars, hostVars
    <3> QED
      BY <3>1, <3>2
  <2>3. CASE ReaperStep
    <3>1. CASE SweepBegin
      BY <3>1 DEF SweepBegin, queueVars, counters, workerVars, hostVars
    <3>2. CASE SweepCollect
      BY <3>2 DEF SweepCollect, Collected, counters, workerVars, hostVars
    <3>3. ASSUME NEW id \in Ids, SweepAnswer(id) PROVE TypeOK'
      BY <3>3 DEF SweepAnswer, queueVars, workerVars, hostVars
    <3>4. CASE SweepEnd
      BY <3>4 DEF SweepEnd, queueVars, counters, workerVars, hostVars
    <3>5. CASE ReaperStop
      BY <3>5 DEF ReaperStop, queueVars, counters, workerVars, hostVars
    <3> QED
      BY <2>3, <3>1, <3>2, <3>3, <3>4, <3>5 DEF ReaperStep
  <2>4. CASE HostStep
    <3>1. CASE Accept
      <4>1. Head(pending) \in Ids /\ Tail(pending) \in Seq(Ids)
        BY <3>1, HeadTailProperties DEF Accept
      <4>2. object' \in [Ids -> {"none", "open", "completed"}]
        BY <3>1, <4>1 DEF Accept
      <4>3. pending' \in Seq(Ids) /\ accepted' \in Nat
        BY <3>1, <4>1 DEF Accept, PopFront
      <4> QED
        BY <3>1, <4>2, <4>3 DEF Accept, workerVars, reaperVars
    <3>2. CASE AcceptShort
      BY <3>2, <2>0, AcceptShortEffect
    <3>3. ASSUME NEW h \in Hosts, NEW id \in Ids, CompleteRemove(h, id) PROVE TypeOK'
      <4>1. /\ object' \in [Ids -> {"none", "open", "completed"}]
            /\ hand' \in [Hosts -> 0..MaxCalls] /\ live' \subseteq Ids
        BY <3>3 DEF CompleteRemove, Removed
      <4> QED
        BY <3>3, <4>1 DEF CompleteRemove, counters, workerVars, reaperVars
    <3>4. ASSUME NEW id \in Ids, CompleteFails(id) PROVE TypeOK'
      <4>1. object' \in [Ids -> {"none", "open", "completed"}]
        BY <3>4 DEF CompleteFails
      <4>2. UNCHANGED <<pending, live, ttl, next_id, max_pending, deadline_ms, accepted,
                        completed, refused, reaped, wpc, wid, rpc, due, expired, hand,
                        answered, client, phase, arrived>>
        BY <3>4 DEF CompleteFails, queueVars, counters, workerVars, reaperVars
      <4> QED
        BY <4>1, <4>2
    <3>5. ASSUME NEW h \in Hosts, CompleteAnswer(h) PROVE TypeOK'
      <4>1. /\ answered' \in [Ids -> Authors \union {"none"}]
            /\ hand' \in [Hosts -> 0..MaxCalls] /\ completed' \in Nat
        BY <3>5 DEF CompleteAnswer
      <4> QED
        BY <3>5, <4>1 DEF CompleteAnswer, queueVars, workerVars, reaperVars
    <3>6. ASSUME NEW limit \in Limits, NEW ms \in Deadlines, Configure(limit, ms)
          PROVE  TypeOK'
      BY <3>6 DEF Configure, counters, workerVars, reaperVars, hostVars
    <3> QED
      BY <2>4, <3>1, <3>2, <3>3, <3>4, <3>5, <3>6 DEF HostStep
  <2>5. ASSUME NEW id \in Ids, Deliver(id) \/ HangUp(id) PROVE TypeOK'
    <3>1. client' \in [Ids -> Authors \union {"absent", "waiting", "gone", "lost"}]
      BY <2>5 DEF Deliver, HangUp
    <3>2. UNCHANGED <<pending, live, ttl, next_id, max_pending, deadline_ms, accepted,
                      completed, refused, reaped, wpc, wid, rpc, due, expired, hand, object,
                      answered, phase, arrived>>
      BY <2>5 DEF Deliver, HangUp, queueVars, counters, workerVars, reaperVars, hostVars
    <3> QED
      BY <3>1, <3>2
  <2>6. CASE StopStep
    <3>1. CASE StopSignal
      BY <3>1 DEF StopSignal, queueVars, counters, workerVars, reaperVars, hostVars
    <3>2. CASE StopJoin
      <4>1. client' \in [Ids -> Authors \union {"absent", "waiting", "gone", "lost"}]
        BY <3>2 DEF StopJoin
      <4> QED
        BY <3>2, <4>1 DEF StopJoin, queueVars, counters, workerVars, hostVars
    <3>3. CASE Free
      <4>1. answered' \in [Ids -> Authors \union {"none"}] /\ live' \subseteq Ids
        BY <3>3 DEF Free
      <4> QED
        BY <3>3, <4>1 DEF Free, counters, workerVars, reaperVars, hostVars
    <3> QED
      BY <2>6, <3>1, <3>2, <3>3 DEF StopStep
  <2> QED
    BY <2>1, <2>2, <2>3, <2>4, <2>5, <2>6, <2>0 DEF Next, ClientStep, Gone
<1> QED
  BY <1>1, <1>2, PTL DEF Spec

-----------------------------------------------------------------------------
(* The sweep's locals: its list is empty outside the answering loop, and   *)
(* what it found due was issued and is still due, since only Register      *)
(* writes a deadline and it writes that of a fresh id.                     *)
SweepLocals ==
    /\ rpc # "answering" => expired = {}
    /\ due \subseteq Issued
    /\ \A id \in due : ttl[id] = 0

(* Custody is inductive together with the types and the locals of the      *)
(* sweep.                                                                  *)
CustodyInv == TypeOK /\ Custody /\ SweepLocals

(* What Custody and SweepLocals speak of                                   *)
custodyVars == <<live, hand, expired, answered, next_id>>
sweepVars == <<rpc, due, expired, ttl, next_id>>

(* A step that touches none of it keeps them.                              *)
LEMMA CustodyFrame == Custody /\ UNCHANGED custodyVars => Custody'
BY DEF Custody, InHand, Answered, Issued, custodyVars

(* Nor does one that leaves the sweep, `live` and next_id alone.           *)
LEMMA SweepFrame == SweepLocals /\ UNCHANGED sweepVars => SweepLocals'
BY DEF SweepLocals, Issued, sweepVars

(* The steps that move a call from one place to the next, one lemma each.  *)

(* handle_queued puts a fresh id into `live`.                              *)
LEMMA RegisterCustody ==
    ASSUME CustodyInv, NEW w \in Workers, Register(w)
    PROVE  Custody' /\ SweepLocals'
<1> USE SizesAssumption, SettingsAssumption DEF CustodyInv, TypeOK
<1>1. /\ next_id \in Ids /\ next_id \notin Issued
      /\ Issued' = Issued \union {next_id}
      /\ live' = live \union {next_id}
  BY DEF Register, Issued
<1>2. InHand' = InHand /\ Answered' = Answered /\ UNCHANGED <<expired, hand>>
  BY DEF Register, InHand, Answered, hostVars, reaperVars
<1>3. Custody'
  BY <1>1, <1>2 DEF Custody
<1>4. SweepLocals'
  BY <1>1 DEF SweepLocals, Register, reaperVars
<1> QED
  BY <1>3, <1>4

(* reap_loop moves the due calls that are still live into its own list.    *)
LEMMA SweepCustody ==
    ASSUME CustodyInv, SweepBegin \/ SweepCollect \/ SweepEnd \/ ReaperStop
    PROVE  Custody' /\ SweepLocals'
<1>1. CASE SweepBegin
  <2>1. live \subseteq Issued
    BY DEF CustodyInv, Custody
  <2>2. SweepLocals'
    BY <1>1, <2>1 DEF CustodyInv, SweepLocals, SweepBegin, Expired, Issued, queueVars
  <2> QED
    BY <1>1, <2>2, CustodyFrame
       DEF CustodyInv, SweepBegin, custodyVars, queueVars, hostVars
<1>2. CASE SweepCollect
  <2>1. InHand' = InHand /\ Answered' = Answered /\ Issued' = Issued /\ UNCHANGED hand
    BY <1>2 DEF SweepCollect, InHand, Answered, Issued, hostVars
  <2>2. live' = live \ due /\ expired' = due \intersect live /\ expired = {}
    BY <1>2 DEF SweepCollect, Collected, CustodyInv, SweepLocals
  <2>3. Custody'
    BY <2>1, <2>2 DEF Custody, CustodyInv
  <2> QED
    BY <1>2, <2>3 DEF SweepCollect, SweepLocals
<1>3. CASE SweepEnd \/ ReaperStop
  <2>1. UNCHANGED custodyVars
    BY <1>3 DEF SweepEnd, ReaperStop, custodyVars, queueVars, hostVars
  <2>2. SweepLocals'
    BY <1>3 DEF SweepEnd, ReaperStop, CustodyInv, SweepLocals, Issued, queueVars
  <2> QED
    BY <2>1, <2>2, CustodyFrame DEF CustodyInv
<1> QED
  BY <1>1, <1>2, <1>3

(* reap_loop answers one call of its list.                                 *)
LEMMA SweepAnswerCustody ==
    ASSUME CustodyInv, NEW id \in Ids, SweepAnswer(id)
    PROVE  Custody' /\ SweepLocals'
<1>1. InHand' = InHand /\ Issued' = Issued /\ UNCHANGED <<live, hand>>
  BY DEF SweepAnswer, InHand, Issued, queueVars, hostVars
<1>2. Answered' = Answered \union {id} /\ expired' = expired \ {id} /\ id \in expired
  BY DEF SweepAnswer, Answered, CustodyInv, TypeOK
<1>3. Custody'
  BY <1>1, <1>2 DEF Custody, CustodyInv
<1> QED
  BY <1>3 DEF SweepAnswer, CustodyInv, SweepLocals, Issued, queueVars

(* zpr_grpc_call_complete takes one call out of `live`.                    *)
LEMMA CompleteRemoveCustody ==
    ASSUME CustodyInv, NEW h \in Hosts, NEW id \in Ids, CompleteRemove(h, id)
    PROVE  Custody' /\ SweepLocals'
<1> USE SizesAssumption
<1>1. Answered' = Answered /\ Issued' = Issued /\ UNCHANGED expired
  BY DEF CompleteRemove, Answered, Issued, reaperVars
<1>2. live' = live \ {id} /\ id \in live /\ id # 0
  BY DEF CompleteRemove, Removed
<1>3. hand' = [hand EXCEPT ![h] = id] /\ hand[h] = 0 /\ id \notin InHand
  BY <1>2 DEF CompleteRemove, CustodyInv, Custody
<1>4. InHand' = InHand \union {id}
  BY <1>2, <1>3 DEF InHand, CustodyInv, TypeOK
<1>5. \A h1, h2 \in Hosts : hand'[h1] = hand'[h2] /\ hand'[h1] # 0 => h1 = h2
  BY <1>2, <1>3 DEF InHand, CustodyInv, TypeOK, Custody
<1>6. Custody'
  BY <1>1, <1>2, <1>4, <1>5 DEF Custody, CustodyInv
<1> QED
  BY <1>6, SweepFrame DEF CompleteRemove, CustodyInv, sweepVars, reaperVars

(* zpr_grpc_call_complete answers the call it took.                        *)
LEMMA CompleteAnswerCustody ==
    ASSUME CustodyInv, NEW h \in Hosts, CompleteAnswer(h)
    PROVE  Custody' /\ SweepLocals'
<1> USE SizesAssumption
<1>1. Issued' = Issued /\ UNCHANGED <<live, expired>>
  BY DEF CompleteAnswer, Issued, queueVars, reaperVars
<1>2. hand[h] \in Ids /\ hand[h] \in InHand /\ hand' = [hand EXCEPT ![h] = 0]
  BY DEF CompleteAnswer, CustodyInv, TypeOK, InHand
<1>3. Answered' = Answered \union {hand[h]}
  BY <1>2 DEF CompleteAnswer, Answered, CustodyInv, TypeOK
<1>4. InHand' = InHand \ {hand[h]}
  BY <1>2 DEF InHand, CustodyInv, TypeOK, Custody
<1>5. \A h1, h2 \in Hosts : hand'[h1] = hand'[h2] /\ hand'[h1] # 0 => h1 = h2
  BY <1>2 DEF CustodyInv, TypeOK, Custody
<1>6. Custody'
  BY <1>1, <1>2, <1>3, <1>4, <1>5 DEF Custody, CustodyInv
<1> QED
  BY <1>6, SweepFrame DEF CompleteAnswer, CustodyInv, sweepVars, queueVars, reaperVars

(* zpr_grpc_queue_free answers whatever is still live.                     *)
LEMMA FreeCustody ==
    ASSUME CustodyInv, Free
    PROVE  Custody' /\ SweepLocals'
<1>1. Issued' = Issued /\ UNCHANGED <<expired, hand>> /\ live' = {} /\ InHand' = InHand
  BY DEF Free, Issued, InHand, reaperVars, hostVars
<1>2. Answered' = Answered \union live
  BY DEF Free, Answered, CustodyInv, TypeOK
<1>3. Custody'
  BY <1>1, <1>2 DEF Custody, CustodyInv
<1> QED
  BY <1>3, SweepFrame DEF Free, CustodyInv, sweepVars, reaperVars

(* Every step keeps Custody and the sweep's locals.                        *)
LEMMA CustodyStep == CustodyInv /\ [Next]_vars => Custody' /\ SweepLocals'
<1> SUFFICES ASSUME CustodyInv, [Next]_vars PROVE Custody' /\ SweepLocals'
  OBVIOUS
<1> USE DEF CustodyInv
<1>0. ASSUME UNCHANGED custodyVars, UNCHANGED sweepVars PROVE Custody' /\ SweepLocals'
  BY <1>0, CustodyFrame, SweepFrame
<1>1. CASE UNCHANGED vars
  BY <1>1, <1>0 DEF vars, queueVars, reaperVars, hostVars, custodyVars, sweepVars
<1>2. ASSUME NEW w \in Workers, WorkerStep(w) PROVE Custody' /\ SweepLocals'
  <2>1. CASE Register(w)
    BY <2>1, RegisterCustody
  <2>2. CASE Refuse(w) \/ Admit(w) \/ Enqueue(w)
    BY <2>2, <1>0 DEF Refuse, Admit, Enqueue, queueVars, reaperVars, hostVars,
                      custodyVars, sweepVars
  <2> QED
    BY <1>2, <2>1, <2>2 DEF WorkerStep
<1>3. CASE Tick
  <2>1. \A id \in Ids : ttl[id] = 0 => ttl'[id] = 0
    BY <1>3, SettingsAssumption DEF Tick, TypeOK
  <2>2. SweepLocals'
    BY <1>3, <2>1 DEF Tick, TypeOK, SweepLocals, Issued, reaperVars
  <2> QED
    BY <1>3, <2>2, CustodyFrame DEF Tick, custodyVars, reaperVars, hostVars
<1>4. CASE ReaperStep
  BY <1>4, SweepCustody, SweepAnswerCustody DEF ReaperStep
<1>5. CASE HostStep
  <2>1. CASE Accept
    BY <2>1, <1>0 DEF Accept, reaperVars, custodyVars, sweepVars
  <2>2. CASE AcceptShort
    BY <2>2, <1>1, AcceptShortEffect DEF TypeOK
  <2>3. ASSUME NEW id \in Ids, CompleteFails(id) PROVE Custody' /\ SweepLocals'
    BY <2>3, <1>0 DEF CompleteFails, queueVars, reaperVars, custodyVars, sweepVars
  <2>4. ASSUME NEW limit \in Limits, NEW ms \in Deadlines, Configure(limit, ms)
        PROVE  Custody' /\ SweepLocals'
    BY <2>4, <1>0 DEF Configure, reaperVars, hostVars, custodyVars, sweepVars
  <2> QED
    BY <1>5, <2>1, <2>2, <2>3, <2>4, CompleteRemoveCustody, CompleteAnswerCustody
       DEF HostStep
<1>6. ASSUME NEW id \in Ids, Deliver(id) \/ HangUp(id) PROVE Custody' /\ SweepLocals'
  BY <1>6, <1>0 DEF Deliver, HangUp, queueVars, reaperVars, hostVars, custodyVars, sweepVars
<1>7. CASE StopStep
  <2>1. CASE StopSignal
    BY <2>1, <1>0 DEF StopSignal, queueVars, reaperVars, hostVars, custodyVars, sweepVars
  <2>2. CASE StopJoin
    <3>1. SweepLocals'
      BY <2>2 DEF StopJoin, PollsEnded, SweepLocals, Issued, queueVars
    <3> QED
      BY <2>2, <3>1, CustodyFrame DEF StopJoin, custodyVars, queueVars, hostVars
  <2> QED
    BY <1>7, <2>1, <2>2, FreeCustody DEF StopStep
<1> QED
  BY <1>1, <1>2, <1>3, <1>4, <1>5, <1>6, <1>7 DEF Next, ClientStep, Gone

(* The invariant is inductive.                                             *)
LEMMA CustodyInvariant == Spec => []CustodyInv
<1>1. Init => Custody /\ SweepLocals
  BY DEF Init, Custody, SweepLocals, InHand, Answered, Issued
<1> QED
  BY <1>1, TypeCorrect, CustodyStep, PTL DEF Spec, CustodyInv

(* No call is lost and none is answered twice, however complete, reap_loop *)
(* and queue_free race for it: Custody is an invariant.                    *)
THEOREM CustodyHolds == Spec => []Custody
BY CustodyInvariant, PTL DEF CustodyInv

-----------------------------------------------------------------------------
(* The reaper answers only calls whose own deadline has run out.           *)
reapVars == <<expired, answered, ttl>>

(* A call in the sweep's list, or answered by it, is and stays out of time. *)
LEMMA ReapStep == CustodyInv /\ NeverReapedEarly /\ [Next]_vars => NeverReapedEarly'
<1> SUFFICES ASSUME CustodyInv, NeverReapedEarly, [Next]_vars PROVE NeverReapedEarly'
  OBVIOUS
<1> USE DEF CustodyInv, NeverReapedEarly, AnsweredBy
<1>0. ASSUME UNCHANGED reapVars PROVE NeverReapedEarly'
  BY <1>0 DEF reapVars
<1>1. CASE UNCHANGED vars
  BY <1>1, <1>0 DEF vars, queueVars, reaperVars, reapVars
<1>2. ASSUME NEW w \in Workers, WorkerStep(w) PROVE NeverReapedEarly'
  <2>1. CASE Register(w)
    <3>1. next_id \notin expired /\ next_id \notin Answered
      BY SizesAssumption DEF TypeOK, Custody, Issued
    <3>2. UNCHANGED <<expired, answered>> /\ ttl' = [ttl EXCEPT ![next_id] = Stamp]
      BY <2>1 DEF Register, reaperVars
    <3> QED
      BY <3>1, <3>2 DEF TypeOK, Answered
  <2>2. CASE Refuse(w) \/ Admit(w) \/ Enqueue(w)
    BY <2>2, <1>0 DEF Refuse, Admit, Enqueue, queueVars, reaperVars, reapVars
  <2> QED
    BY <1>2, <2>1, <2>2 DEF WorkerStep
<1>3. CASE Tick
  <2>1. \A id \in Ids : ttl[id] = 0 => ttl'[id] = 0
    BY <1>3, SettingsAssumption DEF Tick, TypeOK
  <2> QED
    BY <1>3, <2>1 DEF Tick, TypeOK, reaperVars
<1>4. CASE ReaperStep
  <2>1. CASE SweepCollect
    BY <2>1 DEF SweepCollect, Collected, SweepLocals
  <2>2. ASSUME NEW id \in Ids, SweepAnswer(id) PROVE NeverReapedEarly'
    BY <2>2 DEF SweepAnswer, queueVars, TypeOK
  <2>3. CASE SweepBegin \/ SweepEnd \/ ReaperStop
    BY <2>3, <1>0 DEF SweepBegin, SweepEnd, ReaperStop, queueVars, reapVars
  <2> QED
    BY <1>4, <2>1, <2>2, <2>3 DEF ReaperStep
<1>5. CASE HostStep
  <2>1. CASE Accept
    BY <2>1, <1>0 DEF Accept, reaperVars, reapVars
  <2>2. CASE AcceptShort
    BY <2>2, <1>1, AcceptShortEffect DEF TypeOK
  <2>3. ASSUME NEW id \in Ids, CompleteFails(id) PROVE NeverReapedEarly'
    BY <2>3, <1>0 DEF CompleteFails, queueVars, reaperVars, reapVars
  <2>4. ASSUME NEW h \in Hosts, NEW id \in Ids, CompleteRemove(h, id)
        PROVE  NeverReapedEarly'
    BY <2>4, <1>0 DEF CompleteRemove, reaperVars, reapVars
  <2>5. ASSUME NEW h \in Hosts, CompleteAnswer(h) PROVE NeverReapedEarly'
    BY <2>5, SizesAssumption DEF CompleteAnswer, queueVars, reaperVars, TypeOK
  <2>6. ASSUME NEW limit \in Limits, NEW ms \in Deadlines, Configure(limit, ms)
        PROVE  NeverReapedEarly'
    BY <2>6, <1>0 DEF Configure, reaperVars, reapVars
  <2> QED
    BY <1>5, <2>1, <2>2, <2>3, <2>4, <2>5, <2>6 DEF HostStep
<1>6. ASSUME NEW id \in Ids, Deliver(id) \/ HangUp(id) PROVE NeverReapedEarly'
  BY <1>6, <1>0 DEF Deliver, HangUp, queueVars, reaperVars, reapVars
<1>7. CASE StopStep
  BY <1>7 DEF StopStep, StopSignal, StopJoin, Free, queueVars, reaperVars
<1> QED
  BY <1>1, <1>2, <1>3, <1>4, <1>5, <1>6, <1>7 DEF Next, ClientStep, Gone

(* DEADLINE_EXCEEDED is sent only to a call whose stamped deadline has run *)
(* out, whatever is registered or configured while a sweep is on its way.  *)
THEOREM ReapedOnTime == Spec => []NeverReapedEarly
<1>1. Init => NeverReapedEarly
  BY DEF Init, NeverReapedEarly, AnsweredBy
<1> QED
  BY <1>1, CustodyInvariant, ReapStep, PTL DEF Spec

-----------------------------------------------------------------------------
(* The door: `pending` overshoots the limit by less than the threads.      *)
(* The threads past the door are finitely many.                            *)
LEMMA PastTheDoorFinite ==
    /\ IsFiniteSet(PastTheDoor)
    /\ Cardinality(PastTheDoor) \in Nat
    /\ Cardinality(Workers) \in Nat
    /\ Cardinality(PastTheDoor) <= Cardinality(Workers)
<1>1. PastTheDoor \in SUBSET Workers
  BY DEF PastTheDoor
<1> QED
  BY <1>1, SizesAssumption, FS_Subset, FS_CardinalityType

(* Only the door, the push and the pop matter.                             *)
doorVars == <<pending, wpc>>

(* No step pushes `pending` and the threads past the door over the bound.  *)
LEMMA DoorStep == TypeOK /\ OvershootBounded /\ [Next]_vars => OvershootBounded'
<1> SUFFICES ASSUME TypeOK, OvershootBounded, [Next]_vars PROVE OvershootBounded'
  OBVIOUS
<1> USE DEF TypeOK
<1> DEFINE n == Cardinality(PastTheDoor)
           N == Cardinality(Workers)
<1>a. /\ n \in Nat /\ N \in Nat /\ IsFiniteSet(PastTheDoor)
      /\ Len(pending) \in Nat /\ Limits \subseteq Nat
  BY PastTheDoorFinite, LenProperties, SettingsAssumption
<1>b. n' \in Nat /\ n' <= N /\ N' = N
  <2>1. PastTheDoor' \in SUBSET Workers
    BY DEF PastTheDoor
  <2> QED
    BY <2>1, SizesAssumption, FS_Subset, FS_CardinalityType
<1>0. ASSUME UNCHANGED doorVars PROVE OvershootBounded'
  BY <1>0 DEF doorVars, OvershootBounded, PastTheDoor
<1>1. CASE UNCHANGED vars
  BY <1>1, <1>0 DEF vars, queueVars, workerVars, doorVars
<1>2. ASSUME NEW w \in Workers, WorkerStep(w) PROVE OvershootBounded'
  <2>1. CASE Admit(w)
    <3>1. Len(pending) <= max_pending - 1 /\ max_pending \in Limits
      BY <2>1, <1>a, SettingsAssumption DEF Admit, Full
    <3>2. pending' = pending
      BY <2>1 DEF Admit, queueVars
    <3>3. max_pending \in Nat
      BY <1>a, <3>1
    <3> HIDE DEF TypeOK, n, N
    <3>4. Len(pending') + n' <= max_pending + N - 1
      BY <3>1, <3>2, <3>3, <1>a, <1>b
    <3> QED
      BY <3>1, <3>4, <1>b DEF OvershootBounded, n, N
  <2>2. CASE Enqueue(w)
    <3>1. /\ w \in PastTheDoor
          /\ PastTheDoor' = PastTheDoor \ {w}
      BY <2>2 DEF Enqueue, PastTheDoor
    <3>2. n' = n - 1
      BY <3>1, <1>a, FS_RemoveElement
    <3>3. Len(pending') = Len(pending) + 1
      <4>1. wid[w] \in Ids
        BY <2>2, SizesAssumption DEF Enqueue
      <4> QED
        BY <2>2, <4>1, AppendProperties DEF Enqueue, PushBack
    <3> QED
      BY <3>2, <3>3, <1>a DEF OvershootBounded
  <2>3. CASE Register(w)
    <3>1. PastTheDoor' = PastTheDoor /\ pending' = pending
      BY <2>3 DEF Register, PastTheDoor
    <3> QED
      BY <3>1 DEF OvershootBounded
  <2>4. CASE Refuse(w)
    BY <2>4, <1>0 DEF Refuse, queueVars, workerVars, doorVars
  <2> QED
    BY <1>2, <2>1, <2>2, <2>3, <2>4 DEF WorkerStep
<1>3. CASE Tick
  BY <1>3, <1>0 DEF Tick, workerVars, doorVars
<1>4. CASE ReaperStep
  BY <1>4, <1>0 DEF ReaperStep, SweepBegin, SweepCollect, SweepAnswer, SweepEnd, ReaperStop,
                    queueVars, workerVars, doorVars
<1>5. CASE HostStep
  <2>1. CASE Accept
    <3>1. PastTheDoor' = PastTheDoor
      BY <2>1 DEF Accept, PastTheDoor, workerVars
    <3>2. Len(pending') = Len(pending) - 1
      BY <2>1, HeadTailProperties DEF Accept, PopFront
    <3> QED
      BY <3>1, <3>2, <1>a DEF OvershootBounded
  <2>2. CASE AcceptShort
    BY <2>2, <1>1, AcceptShortEffect
  <2>3. CASE HostStep /\ ~Accept /\ ~AcceptShort
    BY <2>3, <1>0 DEF HostStep, CompleteRemove, CompleteFails, CompleteAnswer, Configure,
                      queueVars, workerVars, doorVars
  <2> QED
    BY <1>5, <2>1, <2>2, <2>3
<1>6. CASE ClientStep
  BY <1>6, <1>0 DEF ClientStep, Deliver, HangUp, queueVars, workerVars, doorVars
<1>7. CASE StopStep
  BY <1>7, <1>0 DEF StopStep, StopSignal, StopJoin, Free, queueVars, workerVars, doorVars
<1> QED
  BY <1>1, <1>2, <1>3, <1>4, <1>5, <1>6, <1>7 DEF Next, Gone

(* For any number of threads in handle_queued, the queue of waiting RPCs   *)
(* never exceeds the largest limit by as many RPCs as there are threads.   *)
THEOREM DoorHolds == Spec => []OvershootBounded
<1>1. Init => OvershootBounded
  <2> SUFFICES ASSUME Init PROVE OvershootBounded
    OBVIOUS
  <2>1. PastTheDoor = {}
    BY DEF Init, PastTheDoor
  <2>2. Cardinality(PastTheDoor) = 0 /\ Len(pending) = 0
    BY <2>1, FS_EmptySet DEF Init
  <2>3. DefaultLimit \in Limits /\ DefaultLimit \in Nat \ {0} /\ Cardinality(Workers) \in Nat
    BY SettingsAssumption, PastTheDoorFinite
  <2> QED
    BY <2>2, <2>3 DEF OvershootBounded
<1> QED
  BY <1>1, TypeCorrect, DoorStep, PTL DEF Spec

-----------------------------------------------------------------------------
(* The order in which RPCs are handed out                                  *)

(* What of the types the order speaks of                                   *)
OrderTypes ==
    /\ pending \in Seq(Ids) /\ arrived \in Seq(Ids)
    /\ accepted \in Nat /\ next_id \in Nat \ {0}
    /\ wid \in [Workers -> Ids \union {0}]
    /\ object \in [Ids -> {"none", "open", "completed"}]

(* They follow from the type invariant.                                    *)
LEMMA TypesOfOrder == TypeOK => OrderTypes
BY SizesAssumption DEF TypeOK, OrderTypes

(* What is in the two sequences are ids.                                   *)
LEMMA ElementsOfOrder ==
    ASSUME OrderTypes
    PROVE  /\ Len(pending) \in Nat /\ Len(arrived) \in Nat
           /\ \A i \in 1..Len(pending) : pending[i] \in Ids
           /\ \A i \in 1..Len(arrived) : arrived[i] \in Ids
BY LenProperties, ElementOfSeq DEF OrderTypes

(* Which ids handle_queued holds, has queued, and zpr_grpc_accept handed   *)
(* out: an id in a thread's hands is its alone and not yet queued.         *)
HeldApart ==
    /\ \A w \in Workers : wid[w] # 0 =>
          /\ object[wid[w]] = "none"
          /\ \A i \in 1..Len(arrived) : arrived[i] # wid[w]
    /\ \A v, w \in Workers : wid[v] = wid[w] /\ wid[v] # 0 => v = w

(* An id that was not issued is nobody's object.                           *)
UnissuedApart == \A id \in Ids : object[id] # "none" => id < next_id

(* Inductive for the hand-out.                                             *)
OrderInv == HandedOutInOrder /\ EveryCallQueued /\ HeldApart /\ UnissuedApart

(* All of it that the other operations could disturb                       *)
orderVars == <<pending, arrived, accepted, wid, next_id>>

(* A step that moves no RPC and hands none out keeps the order.            *)
LEMMA OrderFrame ==
    ASSUME OrderTypes, OrderInv, UNCHANGED orderVars,
           \A id \in Ids : object'[id] = "none" <=> object[id] = "none"
    PROVE  OrderInv'
<1> USE DEF orderVars
<1>1. HandedOutInOrder'
  BY ElementsOfOrder DEF OrderInv, HandedOutInOrder
<1>2. EveryCallQueued'
  BY DEF OrderInv, EveryCallQueued, Issued
<1>3. HeldApart'
  BY DEF OrderInv, HeldApart, OrderTypes
<1>4. UnissuedApart'
  BY DEF OrderInv, UnissuedApart
<1> QED
  BY <1>1, <1>2, <1>3, <1>4 DEF OrderInv

(* What EveryCallQueued says of single ids                                 *)
LEMMA QueuedIssued ==
    ASSUME OrderTypes, EveryCallQueued
    PROVE  /\ \A i \in 1..Len(arrived) : arrived[i] < next_id
           /\ \A w \in Workers : wid[w] # 0 => wid[w] < next_id
<1>1. \A i \in 1..Len(arrived) : arrived[i] \in Issued
  BY DEF EveryCallQueued
<1>2. \A w \in Workers : wid[w] # 0 => wid[w] \in Issued
  BY DEF EveryCallQueued
<1>3. \A id \in Issued : id < next_id
  BY DEF Issued, OrderTypes
<1> QED
  BY <1>1, <1>2, <1>3

(* handle_queued takes a fresh id.                                         *)
LEMMA RegisterOrder ==
    ASSUME OrderTypes, OrderInv, NEW w \in Workers, Register(w), wid[w] = 0
    PROVE  OrderInv'
<1>1. /\ next_id \in Ids /\ next_id # 0 /\ next_id' = next_id + 1
      /\ wid' = [wid EXCEPT ![w] = next_id]
      /\ UNCHANGED <<pending, arrived, accepted, object>>
  BY SizesAssumption DEF Register, counters, hostVars, OrderTypes
<1>2. /\ \A i \in 1..Len(arrived) : arrived[i] # next_id
      /\ \A v \in Workers : wid[v] # next_id
  BY <1>1, QueuedIssued DEF OrderInv, OrderTypes
<1>3. HandedOutInOrder'
  BY <1>1 DEF OrderInv, HandedOutInOrder
<1>4. EveryCallQueued'
  <2>1. Issued' = Issued \union {next_id}
    BY <1>1 DEF Issued
  <2>2. {wid'[v] : v \in Workers} \ {0} = ({wid[v] : v \in Workers} \ {0}) \union {next_id}
    BY <1>1 DEF OrderTypes
  <2> QED
    BY <1>1, <2>1, <2>2 DEF OrderInv, EveryCallQueued
<1>5. object[next_id] = "none"
  BY <1>1 DEF OrderInv, UnissuedApart, OrderTypes
<1>6. HeldApart'
  BY <1>1, <1>2, <1>5 DEF OrderInv, HeldApart, OrderTypes
<1>7. UnissuedApart'
  BY <1>1 DEF OrderInv, UnissuedApart, OrderTypes
<1> QED
  BY <1>3, <1>4, <1>6, <1>7 DEF OrderInv

(* handle_queued pushes its id behind all others.                          *)
LEMMA EnqueueOrder ==
    ASSUME OrderTypes, OrderInv, NEW w \in Workers, Enqueue(w), wid[w] # 0
    PROVE  OrderInv'
<1>1. PICK id \in Ids : id = wid[w] /\ id # 0
  BY DEF OrderTypes
<1>2. /\ arrived' = Append(arrived, id) /\ pending' = Append(pending, id)
      /\ wid' = [wid EXCEPT ![w] = 0]
      /\ UNCHANGED <<accepted, object, next_id>>
  BY <1>1 DEF Enqueue, PushBack, counters, hostVars
<1> DEFINE a == Len(arrived)
           p == Len(pending)
<1>3. a \in Nat /\ p \in Nat /\ accepted \in Nat /\ a = accepted + p
  BY ElementsOfOrder DEF OrderInv, HandedOutInOrder, OrderTypes
<1>4. /\ Len(arrived') = a + 1 /\ arrived'[a + 1] = id
      /\ \A i \in 1..a : arrived'[i] = arrived[i]
  BY <1>2, AppendProperties DEF OrderTypes
<1>5. /\ Len(pending') = p + 1 /\ pending'[p + 1] = id
      /\ \A i \in 1..p : pending'[i] = pending[i]
  BY <1>2, AppendProperties DEF OrderTypes
<1>6. /\ object[id] = "none"
      /\ \A i \in 1..a : arrived[i] # id
      /\ \A v \in Workers : wid[v] = id => v = w
  BY <1>1 DEF OrderInv, HeldApart
<1>7. HandedOutInOrder'
  <2>0. /\ \A i \in 1..p : pending[i] = arrived[accepted + i]
        /\ \A i \in 1..a : object[arrived[i]] # "none" <=> i <= accepted
        /\ \A i, j \in 1..a : arrived[i] = arrived[j] => i = j
    BY DEF OrderInv, HandedOutInOrder
  <2> HIDE DEF a, p
  <2>1. \A i \in 1..(p + 1) : pending'[i] = arrived'[accepted + i]
    <3> TAKE i \in 1..(p + 1)
    <3>1. CASE i \in 1..p
      <4>1. accepted + i \in 1..a
        BY <1>3, <3>1
      <4> QED
        BY <1>4, <1>5, <2>0, <3>1, <4>1
    <3>2. CASE i = p + 1
      <4>1. accepted + i = a + 1
        BY <1>3, <3>2
      <4> QED
        BY <1>4, <1>5, <3>2, <4>1
    <3> QED
      BY <1>3, <3>1, <3>2
  <2>2. \A i \in 1..(a + 1) : object[arrived'[i]] # "none" <=> i <= accepted
    <3> TAKE i \in 1..(a + 1)
    <3>1. CASE i \in 1..a
      BY <1>4, <2>0, <3>1
    <3>2. CASE i = a + 1
      <4>1. ~(i <= accepted)
        BY <1>3, <3>2
      <4> QED
        BY <1>4, <1>6, <3>2, <4>1
    <3> QED
      BY <1>3, <3>1, <3>2
  <2>3. \A i, j \in 1..(a + 1) : arrived'[i] = arrived'[j] => i = j
    <3>1. \A i \in 1..(a + 1) : i \in 1..a \/ i = a + 1
      BY <1>3
    <3> QED
      BY <1>4, <1>6, <2>0, <3>1
  <2>4. Len(arrived') = accepted' + Len(pending')
    BY <1>2, <1>3, <1>4, <1>5
  <2> QED
    BY <1>2, <1>4, <1>5, <2>1, <2>2, <2>3, <2>4 DEF HandedOutInOrder
<1>8. EveryCallQueued'
  <2>1. ({wid'[v] : v \in Workers} \ {0}) \union {id} = {wid[v] : v \in Workers} \ {0}
    BY <1>1, <1>2, <1>6 DEF OrderTypes
  <2>2. 1..(a + 1) = (1..a) \union {a + 1}
    BY <1>3
  <2>3. \A x : x \in {arrived'[i] : i \in 1..(a + 1)}
                 <=> x \in {arrived[i] : i \in 1..a} \/ x = id
    BY <1>4, <2>2
  <2> QED
    BY <1>2, <1>4, <2>1, <2>3 DEF OrderInv, EveryCallQueued, Issued
<1>9. HeldApart'
  <2>0. \A i \in 1..(a + 1) : i \in 1..a \/ i = a + 1
    BY <1>3
  <2>1. ASSUME NEW v \in Workers, wid'[v] # 0
        PROVE  /\ object'[wid'[v]] = "none"
               /\ \A i \in 1..Len(arrived') : arrived'[i] # wid'[v]
    <3>1. wid'[v] = wid[v] /\ wid[v] # id /\ wid[v] # 0
      BY <1>2, <1>6, <2>1 DEF OrderTypes
    <3> QED
      BY <1>2, <1>4, <2>0, <3>1 DEF OrderInv, HeldApart
  <2>2. \A u, v \in Workers : wid'[u] = wid'[v] /\ wid'[u] # 0 => u = v
    BY <1>2 DEF OrderInv, HeldApart, OrderTypes
  <2> QED
    BY <2>1, <2>2 DEF HeldApart
<1>10. UnissuedApart'
  BY <1>2 DEF OrderInv, UnissuedApart
<1> QED
  BY <1>7, <1>8, <1>9, <1>10 DEF OrderInv

(* zpr_grpc_accept hands out the oldest.                                   *)
LEMMA AcceptOrder ==
    ASSUME OrderTypes, OrderInv, Accept
    PROVE  OrderInv'
<1> DEFINE a == Len(arrived)
           p == Len(pending)
<1>1. /\ a \in Nat /\ p \in Nat \ {0} /\ accepted \in Nat /\ next_id \in Nat
      /\ a = accepted + p /\ accepted + 1 \in 1..a
  <2>1. p # 0
    BY EmptySeq DEF Accept, OrderTypes
  <2> QED
    BY <2>1, ElementsOfOrder DEF OrderInv, HandedOutInOrder, OrderTypes
<1>2. /\ \A i \in 1..p : pending[i] = arrived[accepted + i]
      /\ \A i \in 1..a : object[arrived[i]] # "none" <=> i <= accepted
      /\ \A i, j \in 1..a : arrived[i] = arrived[j] => i = j
  BY DEF OrderInv, HandedOutInOrder
<1>3. PICK id \in Ids : id = pending[1] /\ id = arrived[accepted + 1] /\ id < next_id
  BY <1>1, <1>2, ElementsOfOrder, QueuedIssued DEF OrderInv
<1>4. /\ accepted' = accepted + 1 /\ pending' = Tail(pending)
      /\ object' = [object EXCEPT ![id] = "open"]
      /\ UNCHANGED <<arrived, wid, next_id>>
  <2>1. Head(pending) = id
    <3>1. pending \in Seq(Ids) /\ pending # <<>>
      BY DEF Accept, OrderTypes
    <3>2. Head(pending) = pending[1]
      BY <3>1
    <3> QED
      BY <1>3, <3>2
  <2> QED
    BY <2>1 DEF Accept, PopFront, workerVars
<1>5. /\ Len(pending') = p - 1
      /\ \A i \in 1..(p - 1) : pending'[i] = pending[i + 1]
  BY <1>1, <1>4, HeadTailProperties DEF OrderTypes
<1>6. HandedOutInOrder'
  <2>0. \A i \in 1..a : arrived[i] \in Ids
    BY ElementsOfOrder
  <2> HIDE DEF a, p
  <2>1. \A i \in 1..(p - 1) : pending'[i] = arrived[(accepted + 1) + i]
    <3> TAKE i \in 1..(p - 1)
    <3>1. i + 1 \in 1..p /\ accepted + (i + 1) = (accepted + 1) + i
      BY <1>1
    <3> QED
      BY <1>2, <1>5, <3>1
  <2>2. \A i \in 1..a : object'[arrived[i]] # "none" <=> i <= accepted + 1
    <3> TAKE i \in 1..a
    <3>1. CASE i = accepted + 1
      <4>1. object'[arrived[i]] = "open" /\ i <= accepted + 1
        BY <1>1, <1>3, <1>4, <3>1 DEF OrderTypes
      <4> QED
        BY <4>1
    <3>2. CASE i # accepted + 1
      <4>1. object'[arrived[i]] = object[arrived[i]]
        BY <1>1, <1>2, <1>3, <1>4, <2>0, <3>2 DEF OrderTypes
      <4>2. i <= accepted <=> i <= accepted + 1
        BY <1>1, <3>2
      <4> QED
        BY <1>2, <4>1, <4>2
    <3> QED
      BY <3>1, <3>2
  <2>3. a = (accepted + 1) + (p - 1)
    BY <1>1
  <2> QED
    BY <1>2, <1>4, <1>5, <2>1, <2>2, <2>3 DEF HandedOutInOrder, a
<1>7. EveryCallQueued'
  BY <1>4 DEF OrderInv, EveryCallQueued, Issued
<1>8. HeldApart'
  <2>1. \A w \in Workers : wid[w] # 0 => wid[w] \in Ids /\ wid[w] # id
    BY <1>1, <1>3 DEF OrderInv, HeldApart, OrderTypes
  <2> QED
    BY <1>4, <2>1 DEF OrderInv, HeldApart, OrderTypes
<1>9. UnissuedApart'
  BY <1>3, <1>4 DEF OrderInv, UnissuedApart, OrderTypes
<1> QED
  BY <1>6, <1>7, <1>8, <1>9 DEF OrderInv

(* Nothing else touches it.                                                *)
LEMMA OrderStep == TypeOK /\ OrderInv /\ [Next]_vars => OrderInv'
<1> SUFFICES ASSUME TypeOK, OrderInv, [Next]_vars PROVE OrderInv'
  OBVIOUS
<1>t. OrderTypes
  BY TypesOfOrder
<1>0. ASSUME UNCHANGED <<pending, arrived, accepted, wid, next_id, object>> PROVE OrderInv'
  BY <1>0, <1>t, OrderFrame DEF orderVars
<1>1. CASE UNCHANGED vars
  BY <1>1, <1>0 DEF vars, queueVars, counters, workerVars, hostVars
<1>2. ASSUME NEW w \in Workers, WorkerStep(w) PROVE OrderInv'
  <2>1. CASE Refuse(w) \/ Admit(w)
    BY <2>1, <1>0 DEF Refuse, Admit, queueVars, counters, workerVars, hostVars
  <2>2. CASE Register(w)
    <3>1. wid[w] = 0
      BY <2>2 DEF Register, TypeOK
    <3> QED
      BY <1>t, <2>2, <3>1, RegisterOrder
  <2>3. CASE Enqueue(w)
    <3>1. wid[w] # 0
      BY <2>3 DEF Enqueue, TypeOK
    <3> QED
      BY <1>t, <2>3, <3>1, EnqueueOrder
  <2> QED
    BY <1>2, <2>1, <2>2, <2>3 DEF WorkerStep
<1>3. CASE Tick
  BY <1>3, <1>0 DEF Tick, counters, workerVars, hostVars
<1>4. CASE ReaperStep
  BY <1>4, <1>0 DEF ReaperStep, SweepBegin, SweepCollect, SweepAnswer, SweepEnd, ReaperStop,
                    queueVars, counters, workerVars, hostVars
<1>5. CASE HostStep
  <2>1. CASE AcceptShort
    BY <2>1, <1>1, AcceptShortEffect DEF TypeOK
  <2>2. ASSUME NEW h \in Hosts, NEW id \in Ids, CompleteRemove(h, id) PROVE OrderInv'
    BY <1>t, <2>2, OrderFrame DEF CompleteRemove, OrderTypes, orderVars, counters, workerVars
  <2>3. ASSUME NEW id \in Ids, CompleteFails(id) PROVE OrderInv'
    BY <1>t, <2>3, OrderFrame
       DEF CompleteFails, OrderTypes, orderVars, queueVars, counters, workerVars
  <2>4. ASSUME NEW h \in Hosts, CompleteAnswer(h) PROVE OrderInv'
    BY <2>4, <1>0 DEF CompleteAnswer, queueVars, workerVars
  <2>5. ASSUME NEW limit \in Limits, NEW ms \in Deadlines, Configure(limit, ms)
        PROVE  OrderInv'
    BY <2>5, <1>0 DEF Configure, counters, workerVars, hostVars
  <2> QED
    BY <1>t, <1>5, AcceptOrder, <2>1, <2>2, <2>3, <2>4, <2>5 DEF HostStep
<1>6. CASE ClientStep
  BY <1>6, <1>0 DEF ClientStep, Deliver, HangUp, queueVars, counters, workerVars, hostVars
<1>7. CASE StopStep
  BY <1>7, <1>0 DEF StopStep, StopSignal, StopJoin, Free, queueVars, counters, workerVars,
                    hostVars
<1> QED
  BY <1>1, <1>2, <1>3, <1>4, <1>5, <1>6, <1>7 DEF Next, Gone

(* It holds in every state.                                                *)
LEMMA OrderInvariant == Spec => []OrderInv
<1>1. Init => OrderInv
  <2> SUFFICES ASSUME Init PROVE OrderInv
    OBVIOUS
  <2>1. /\ arrived = <<>> /\ pending = <<>> /\ accepted = 0 /\ Len(arrived) = 0
        /\ Len(pending) = 0
    BY DEF Init
  <2>2. HandedOutInOrder
    BY <2>1 DEF HandedOutInOrder
  <2>3. EveryCallQueued
    BY <2>1 DEF Init, EveryCallQueued, Issued
  <2> QED
    BY <2>1, <2>2, <2>3 DEF Init, OrderInv, HeldApart, UnissuedApart
<1> QED
  BY <1>1, TypeCorrect, OrderStep, PTL DEF Spec

(* zpr_grpc_accept hands RPCs out in the order they were queued, each once, *)
(* however many short buffers come in between.                             *)
THEOREM AcceptsInOrder == Spec => []HandedOutInOrder
BY OrderInvariant, PTL DEF OrderInv

(* An RPC that was given an id is queued, or about to be: none is forgotten *)
(* in `live`.                                                              *)
THEOREM NoneForgotten == Spec => []EveryCallQueued
BY OrderInvariant, PTL DEF OrderInv

-----------------------------------------------------------------------------
(* The counters of zpr_grpc_queue_counters.                                *)

(* Finitely many calls have been answered.                                 *)
LEMMA AnsweredFinite == \A by : IsFiniteSet(AnsweredBy(by))
<1>1. IsFiniteSet(Ids)
  BY SizesAssumption, FS_Interval
<1>2. \A by : AnsweredBy(by) \in SUBSET Ids
  BY DEF AnsweredBy
<1> QED
  BY <1>1, <1>2, FS_Subset

(* Each answer is counted once, because a call that is in a host's hands or *)
(* in the sweep's list has none yet.                                       *)
LEMMA CountStep == CustodyInv /\ CountersExact /\ [Next]_vars => CountersExact'
<1> SUFFICES ASSUME CustodyInv, CountersExact, [Next]_vars PROVE CountersExact'
  OBVIOUS
<1>a. answered \in [Ids -> Authors \union {"none"}]
  BY DEF CustodyInv, TypeOK
<1>0. ASSUME UNCHANGED <<answered, completed, reaped>> PROVE CountersExact'
  BY <1>0 DEF CountersExact, AnsweredBy
<1>1. CASE UNCHANGED vars
  BY <1>1, <1>0 DEF vars, counters
<1>2. ASSUME NEW w \in Workers, WorkerStep(w) PROVE CountersExact'
  BY <1>2, <1>0 DEF WorkerStep, Refuse, Admit, Register, Enqueue, counters
<1>3. CASE Tick
  BY <1>3, <1>0 DEF Tick, counters
<1>4. CASE ReaperStep
  <2>1. ASSUME NEW id \in Ids, SweepAnswer(id) PROVE CountersExact'
    <3>1. answered[id] = "none"
      BY <2>1, <1>a DEF SweepAnswer, CustodyInv, Custody, Answered
    <3>2. /\ AnsweredBy("deadline")' = AnsweredBy("deadline") \union {id}
          /\ id \notin AnsweredBy("deadline")
          /\ AnsweredBy("host")' = AnsweredBy("host")
      BY <2>1, <1>a, <3>1 DEF SweepAnswer, AnsweredBy
    <3>3. Cardinality(AnsweredBy("deadline")') = Cardinality(AnsweredBy("deadline")) + 1
      BY <3>2, AnsweredFinite, FS_AddElement
    <3> QED
      BY <2>1, <3>2, <3>3 DEF SweepAnswer, CountersExact
  <2>2. CASE SweepBegin \/ SweepCollect \/ SweepEnd \/ ReaperStop
    BY <2>2, <1>0 DEF SweepBegin, SweepCollect, SweepEnd, ReaperStop, counters
  <2> QED
    BY <1>4, <2>1, <2>2 DEF ReaperStep
<1>5. CASE HostStep
  <2>1. ASSUME NEW h \in Hosts, CompleteAnswer(h) PROVE CountersExact'
    <3>1. PICK id \in Ids : id = hand[h]
      BY <2>1, SizesAssumption DEF CompleteAnswer, CustodyInv, TypeOK
    <3>2. answered[id] = "none"
      <4>1. id \in InHand
        BY <2>1, <3>1 DEF CompleteAnswer, InHand
      <4> QED
        BY <4>1, <1>a DEF CustodyInv, Custody, Answered
    <3>3. /\ AnsweredBy("host")' = AnsweredBy("host") \union {id}
          /\ id \notin AnsweredBy("host")
          /\ AnsweredBy("deadline")' = AnsweredBy("deadline")
      BY <2>1, <1>a, <3>1, <3>2 DEF CompleteAnswer, AnsweredBy
    <3>4. Cardinality(AnsweredBy("host")') = Cardinality(AnsweredBy("host")) + 1
      BY <3>3, AnsweredFinite, FS_AddElement
    <3> QED
      BY <2>1, <3>3, <3>4 DEF CompleteAnswer, CountersExact
  <2>2. CASE AcceptShort
    BY <2>2, <1>1, AcceptShortEffect DEF CustodyInv, TypeOK
  <2>3. ASSUME NEW h \in Hosts, NEW id \in Ids, CompleteRemove(h, id) PROVE CountersExact'
    BY <2>3, <1>0 DEF CompleteRemove, counters
  <2>4. CASE Accept
    BY <2>4, <1>0 DEF Accept
  <2>5. ASSUME NEW id \in Ids, CompleteFails(id) PROVE CountersExact'
    BY <2>5, <1>0 DEF CompleteFails, counters
  <2>6. ASSUME NEW limit \in Limits, NEW ms \in Deadlines, Configure(limit, ms)
        PROVE  CountersExact'
    BY <2>6, <1>0 DEF Configure, counters
  <2> QED
    BY <1>5, <2>1, <2>2, <2>3, <2>4, <2>5, <2>6 DEF HostStep
<1>6. CASE ClientStep
  BY <1>6, <1>0 DEF ClientStep, Deliver, HangUp, counters
<1>7. CASE StopStep
  <2>1. CASE Free
    <3>1. \A id \in live : answered[id] = "none"
      BY <1>a DEF CustodyInv, TypeOK, Custody, Answered
    <3>2. \A by \in {"host", "deadline"} : AnsweredBy(by)' = AnsweredBy(by)
      BY <2>1, <1>a, <3>1 DEF Free, AnsweredBy
    <3> QED
      BY <2>1, <3>2 DEF Free, CountersExact, counters
  <2>2. CASE StopSignal \/ StopJoin
    BY <2>2, <1>0 DEF StopSignal, StopJoin, counters
  <2> QED
    BY <1>7, <2>1, <2>2 DEF StopStep
<1> QED
  BY <1>1, <1>2, <1>3, <1>4, <1>5, <1>6, <1>7 DEF Next, Gone

(* `completed` and `reaped` count exactly the calls the host and the reaper *)
(* have answered.                                                          *)
THEOREM CountsAreExact == Spec => []CountersExact
<1>1. Init => CountersExact
  <2> SUFFICES ASSUME Init PROVE CountersExact
    OBVIOUS
  <2>1. AnsweredBy("host") = {} /\ AnsweredBy("deadline") = {}
    BY DEF Init, AnsweredBy
  <2> QED
    BY <2>1, FS_EmptySet DEF Init, CountersExact
<1> QED
  BY <1>1, CustodyInvariant, CountStep, PTL DEF Spec

-----------------------------------------------------------------------------
(* What stop and free leave behind                                         *)

(* Once the runtime is joined nothing runs that could add a call, and once *)
(* the queue is freed no call is on its map or in the hands of a thread.   *)
Quiet ==
    /\ phase \in {"stopped", "freed"} =>
         /\ rpc = "stopped"
         /\ \A w \in Workers : wpc[w] = "idle"
         /\ \A id \in Ids : client[id] # "waiting"
    /\ phase = "freed" => live = {} /\ \A h \in Hosts : hand[h] = 0

(* Whoever could disturb that needs a runtime, or a queue.                 *)
LEMMA QuietStep == TypeOK /\ Quiet /\ [Next]_vars => Quiet'
<1> SUFFICES ASSUME TypeOK, Quiet, [Next]_vars PROVE Quiet'
  OBVIOUS
<1> USE DEF Quiet
<1>0. ASSUME UNCHANGED <<phase, rpc, wpc, client, live, hand>> PROVE Quiet'
  BY <1>0
<1>1. ASSUME NEW w \in Workers, WorkerStep(w) PROVE Quiet'
  <2>1. phase' = phase /\ phase \notin {"stopped", "freed"}
    BY <1>1 DEF WorkerStep, Refuse, Admit, Register, Enqueue, Running
  <2> QED
    BY <2>1
<1>2. CASE ReaperStep
  <2>1. phase' = phase /\ phase \notin {"stopped", "freed"}
    BY <1>2 DEF ReaperStep, SweepBegin, SweepCollect, SweepAnswer, SweepEnd, ReaperStop
  <2> QED
    BY <2>1
<1>3. CASE HostStep
  <2>1. CASE Accept
    BY <1>0, <2>1 DEF Accept, workerVars, reaperVars
  <2>2. CASE AcceptShort
    BY <1>0, <2>2 DEF AcceptShort, workerVars, reaperVars, hostVars
  <2>3. ASSUME NEW id \in Ids, CompleteFails(id) PROVE Quiet'
    BY <1>0, <2>3 DEF CompleteFails, queueVars, workerVars, reaperVars
  <2>4. ASSUME NEW limit \in Limits, NEW ms \in Deadlines, Configure(limit, ms) PROVE Quiet'
    BY <1>0, <2>4 DEF Configure, workerVars, reaperVars, hostVars
  <2>5. ASSUME NEW h \in Hosts, NEW id \in Ids, CompleteRemove(h, id) PROVE Quiet'
    <3>1. phase # "freed" /\ UNCHANGED <<phase, rpc, wpc, client>>
      BY <2>5 DEF CompleteRemove, Usable, workerVars, reaperVars
    <3> QED
      BY <3>1
  <2>6. ASSUME NEW h \in Hosts, CompleteAnswer(h) PROVE Quiet'
    <3>1. phase # "freed" /\ UNCHANGED <<phase, rpc, wpc, client>>
      BY <2>6 DEF CompleteAnswer, workerVars, reaperVars
    <3> QED
      BY <3>1
  <2> QED
    BY <1>3, <2>1, <2>2, <2>3, <2>4, <2>5, <2>6 DEF HostStep
<1>4. CASE Tick \/ ClientStep
  <2>1. phase' = phase /\ phase \notin {"stopped", "freed"}
    BY <1>4 DEF Tick, ClientStep, Deliver, HangUp, Running
  <2> QED
    BY <2>1
<1>5. CASE StopStep
  <2>1. CASE StopSignal
    BY <2>1 DEF StopSignal
  <2>2. CASE StopJoin
    BY <2>2 DEF StopJoin, PollsEnded, workerVars, queueVars, TypeOK
  <2>3. CASE Free
    BY <2>3 DEF Free, workerVars, reaperVars, hostVars
  <2> QED
    BY <1>5, <2>1, <2>2, <2>3 DEF StopStep
<1>6. CASE Gone \/ UNCHANGED vars
  BY <1>0, <1>6 DEF Gone, vars, queueVars, workerVars, reaperVars, hostVars
<1> QED
  BY <1>1, <1>2, <1>3, <1>4, <1>5, <1>6 DEF Next

(* After the join no thread registers a call and no client waits; after    *)
(* the free every RPC that was let in has its answer.                      *)
THEOREM StopLeavesNothing == Spec => []NothingLeft
<1>1. Init => Quiet
  BY DEF Init, Quiet
<1>2. Spec => []Quiet
  BY <1>1, TypeCorrect, QuietStep, PTL DEF Spec
<1>3. CustodyInv /\ Quiet => NothingLeft
  <2> SUFFICES ASSUME CustodyInv, Quiet PROVE NothingLeft
    OBVIOUS
  <2> USE DEF Quiet
  <2>1. phase \in {"stopped", "freed"} => PastTheDoor = {}
    BY DEF PastTheDoor
  <2>2. phase \in {"stopped", "freed"} => expired = {}
    BY DEF CustodyInv, SweepLocals
  <2>3. ASSUME phase = "freed" PROVE Answered = Issued
    <3>1. live = {} /\ expired = {} /\ InHand = {}
      BY <2>2, <2>3 DEF InHand
    <3> QED
      BY <3>1 DEF CustodyInv, Custody
  <2> QED
    BY <2>1, <2>2, <2>3 DEF NothingLeft
<1> QED
  BY <1>2, <1>3, CustodyInvariant, PTL

-----------------------------------------------------------------------------
(* The queued server implements CallLifecycle, under the mapping StatusOf. *)

(* Every critical section is a step of the lifecycle, or changes nothing a *)
(* client can tell.                                                        *)
LEMMA LifecycleStep ==
    CustodyInv /\ [Next]_vars => [Lifecycle!LifecycleNext]_(Lifecycle!lifecycleVars)
<1> SUFFICES ASSUME CustodyInv, [Next]_vars
             PROVE  [Lifecycle!LifecycleNext]_(Lifecycle!lifecycleVars)
  OBVIOUS
<1>a. /\ answered \in [Ids -> Authors \union {"none"}] /\ next_id \in Nat \ {0}
      /\ client \in [Ids -> Authors \union {"absent", "waiting", "gone", "lost"}]
  BY DEF CustodyInv, TypeOK
<1>b. \A id \in Ids : /\ id < next_id <=> id \in Issued
                      /\ answered[id] # "none" <=> id \in Answered
  BY <1>a DEF Issued, Answered
<1>c. \A id \in live \union InHand \union expired :
         id \in Ids /\ StatusOf[id] = "open"
  <2>1. \A id \in live \union InHand \union expired :
           id \in Issued /\ id \notin Answered /\ id \in Ids
    BY SizesAssumption DEF CustodyInv, TypeOK, Custody, Issued
  <2> QED
    BY <1>b, <2>1 DEF StatusOf
<1>0. ASSUME UNCHANGED <<answered, next_id, client>>
      PROVE  UNCHANGED Lifecycle!lifecycleVars
  BY <1>0 DEF StatusOf, Lifecycle!lifecycleVars
<1>m. ASSUME NEW S \in SUBSET Ids, NEW by \in Authors, UNCHANGED <<next_id, client>>,
             \A id \in S : StatusOf[id] = "open",
             answered' = [id \in Ids |-> IF id \in S THEN by ELSE answered[id]]
      PROVE  Lifecycle!LifecycleNext
  <2>1. StatusOf' = [id \in Ids |-> IF id \in S THEN by ELSE StatusOf[id]]
    <3>1. \A id \in Ids : StatusOf'[id] = IF id \in S THEN by ELSE StatusOf[id]
      BY <1>m, <1>a DEF StatusOf
    <3> QED
      BY <3>1 DEF StatusOf
  <2>2. Lifecycle!Answer(S, by)
    BY <1>m, <2>1 DEF Lifecycle!Answer
  <2> QED
    BY <2>2 DEF Lifecycle!LifecycleNext
<1>n. ASSUME NEW S \in SUBSET Ids, NEW how \in {"gone", "lost"},
             UNCHANGED <<answered, next_id>>, \A id \in S : client[id] = "waiting",
             client' = [id \in Ids |-> IF id \in S THEN how ELSE client[id]]
      PROVE  Lifecycle!LifecycleNext
  <2>1. Lifecycle!Leave(S, how)
    BY <1>n DEF Lifecycle!Leave, StatusOf
  <2> QED
    BY <2>1 DEF Lifecycle!LifecycleNext
<1>1. CASE UNCHANGED vars
  BY <1>1, <1>0 DEF vars, queueVars
<1>2. ASSUME NEW w \in Workers, WorkerStep(w)
      PROVE  [Lifecycle!LifecycleNext]_(Lifecycle!lifecycleVars)
  <2>1. CASE Register(w)
    <3>1. /\ next_id \in Ids /\ next_id' = next_id + 1 /\ UNCHANGED answered
          /\ client' = [client EXCEPT ![next_id] = "waiting"]
      BY <2>1, <1>a, SizesAssumption DEF Register
    <3>2. answered[next_id] = "none"
      BY <1>a, <1>b, <3>1 DEF CustodyInv, Custody
    <3>3. \A id \in Ids : StatusOf'[id] = IF id = next_id THEN "open" ELSE StatusOf[id]
      BY <1>a, <3>1, <3>2 DEF StatusOf
    <3>4. StatusOf[next_id] = "absent"
      BY <1>a, <3>1, <3>2 DEF StatusOf
    <3>5. StatusOf' = [StatusOf EXCEPT ![next_id] = "open"]
      BY <3>3 DEF StatusOf
    <3>6. Lifecycle!Open(next_id)
      BY <3>1, <3>4, <3>5 DEF Lifecycle!Open
    <3> QED
      BY <3>1, <3>6 DEF Lifecycle!LifecycleNext
  <2>2. CASE Refuse(w) \/ Admit(w) \/ Enqueue(w)
    BY <2>2, <1>0 DEF Refuse, Admit, Enqueue, queueVars
  <2> QED
    BY <1>2, <2>1, <2>2 DEF WorkerStep
<1>3. CASE Tick
  BY <1>3, <1>0 DEF Tick
<1>4. CASE ReaperStep
  <2>1. ASSUME NEW id \in Ids, SweepAnswer(id) PROVE Lifecycle!LifecycleNext
    <3>1. answered' = [i \in Ids |-> IF i \in {id} THEN "deadline" ELSE answered[i]]
      BY <2>1, <1>a DEF SweepAnswer
    <3>2. {id} \in SUBSET Ids /\ StatusOf[id] = "open" /\ UNCHANGED <<next_id, client>>
      BY <2>1, <1>c DEF SweepAnswer, queueVars
    <3> QED
      BY <3>1, <3>2, <1>m
  <2>2. CASE SweepBegin \/ SweepCollect \/ SweepEnd \/ ReaperStop
    BY <2>2, <1>0 DEF SweepBegin, SweepCollect, SweepEnd, ReaperStop, queueVars
  <2> QED
    BY <1>4, <2>1, <2>2 DEF ReaperStep
<1>5. CASE HostStep
  <2>1. ASSUME NEW h \in Hosts, CompleteAnswer(h) PROVE Lifecycle!LifecycleNext
    <3>1. PICK id \in Ids : id = hand[h]
      BY <2>1, SizesAssumption DEF CompleteAnswer, CustodyInv, TypeOK
    <3>2. id \in InHand
      BY <2>1, <3>1 DEF CompleteAnswer, InHand
    <3>3. answered' = [i \in Ids |-> IF i \in {id} THEN "host" ELSE answered[i]]
      BY <2>1, <1>a, <3>1 DEF CompleteAnswer
    <3>4. {id} \in SUBSET Ids /\ StatusOf[id] = "open" /\ UNCHANGED <<next_id, client>>
      BY <2>1, <3>2, <1>c DEF CompleteAnswer, queueVars
    <3> QED
      BY <3>3, <3>4, <1>m
  <2>2. CASE AcceptShort
    BY <2>2, <1>1, AcceptShortEffect DEF CustodyInv, TypeOK
  <2>3. CASE Accept
    BY <2>3, <1>0 DEF Accept
  <2>4. ASSUME NEW h \in Hosts, NEW id \in Ids, CompleteRemove(h, id)
        PROVE  UNCHANGED Lifecycle!lifecycleVars
    BY <2>4, <1>0 DEF CompleteRemove
  <2>5. ASSUME NEW id \in Ids, CompleteFails(id) PROVE UNCHANGED Lifecycle!lifecycleVars
    BY <2>5, <1>0 DEF CompleteFails, queueVars
  <2>6. ASSUME NEW limit \in Limits, NEW ms \in Deadlines, Configure(limit, ms)
        PROVE  UNCHANGED Lifecycle!lifecycleVars
    BY <2>6, <1>0 DEF Configure
  <2> QED
    BY <1>5, <2>1, <2>2, <2>3, <2>4, <2>5, <2>6 DEF HostStep
<1>6. ASSUME NEW id \in Ids, Deliver(id) \/ HangUp(id) PROVE Lifecycle!LifecycleNext
  <2>1. CASE Deliver(id)
    <3>1. StatusOf' = StatusOf /\ StatusOf[id] = answered[id] /\ answered[id] \in Authors
      BY <2>1, <1>a DEF Deliver, StatusOf, queueVars
    <3>2. Lifecycle!See(id)
      BY <2>1, <3>1 DEF Deliver, Lifecycle!See
    <3> QED
      BY <3>2 DEF Lifecycle!LifecycleNext
  <2>2. CASE HangUp(id)
    <3>1. client' = [i \in Ids |-> IF i \in {id} THEN "gone" ELSE client[i]]
      BY <2>2, <1>a DEF HangUp
    <3>2. {id} \in SUBSET Ids /\ client[id] = "waiting" /\ UNCHANGED <<answered, next_id>>
      BY <2>2 DEF HangUp, queueVars
    <3> QED
      BY <3>1, <3>2, <1>n
  <2> QED
    BY <1>6, <2>1, <2>2
<1>7. CASE StopStep
  <2>1. CASE StopSignal
    BY <2>1, <1>0 DEF StopSignal, queueVars
  <2>2. CASE StopJoin
    <3>1. PICK S \in SUBSET Ids : \A id \in Ids : id \in S <=> client[id] = "waiting"
      <4>1. {id \in Ids : client[id] = "waiting"} \in SUBSET Ids
        OBVIOUS
      <4> QED
        BY <4>1
    <3>2. client' = [id \in Ids |-> IF id \in S THEN "lost" ELSE client[id]]
      BY <2>2, <3>1 DEF StopJoin
    <3>3. UNCHANGED <<answered, next_id>>
      BY <2>2 DEF StopJoin, queueVars
    <3> QED
      BY <3>1, <3>2, <3>3, <1>n
  <2>3. CASE Free
    <3>1. /\ answered' = [id \in Ids |-> IF id \in live THEN "unavailable" ELSE answered[id]]
          /\ UNCHANGED <<next_id, client>>
      BY <2>3 DEF Free
    <3>2. live \in SUBSET Ids /\ \A id \in live : StatusOf[id] = "open"
      BY <1>c
    <3> QED
      BY <3>1, <3>2, <1>m
  <2> QED
    BY <1>7, <2>1, <2>2, <2>3 DEF StopStep
<1> QED
  BY <1>1, <1>2, <1>3, <1>4, <1>5, <1>6, <1>7 DEF Next, ClientStep, Gone

(* The queued server, with its locks, lists and three authors of a status, *)
(* implements CallLifecycle: each RPC is opened once and gets at most one  *)
(* status, which is what its client sees if it sees any.                   *)
THEOREM QueueImplements == Spec => ImplementsLifecycle
<1>1. Init => Lifecycle!LifecycleInit
  BY DEF Init, Lifecycle!LifecycleInit, StatusOf
<1> QED
  BY <1>1, CustodyInvariant, LifecycleStep, PTL
     DEF Spec, ImplementsLifecycle, Lifecycle!LifecycleSpec
=============================================================================
