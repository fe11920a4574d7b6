-------------------------- MODULE LdSessionProofs --------------------------
(***************************************************************************)
(* Proofs about LdSession for every clock, interval, session and ring: its  *)
(* types, the sequence number, the heartbeat timer, and that it implements  *)
(* LdGateway.                                                               *)
(***************************************************************************)
EXTENDS LdSession, TLAPS

(***************************************************************************)
(* Payloads and the ring                                                    *)
(***************************************************************************)

\* A heartbeat says that it is one, and carries its number.
LEMMA HeartbeatFields ==
    ASSUME NEW n \in Nat
    PROVE  /\ CreatePayload("HEARTBEAT", n, NULL, NULL).op = "HEARTBEAT"
           /\ CreatePayload("HEARTBEAT", n, NULL, NULL).d = n
  <1> DEFINE f == [op |-> "HEARTBEAT", d |-> n, t |-> NULL, s |-> NULL]
  <1>1. n # NULL /\ "HEARTBEAT" # NULL
    BY JsonAssumption, SessionAssumption
  <1>2. "op" \in DOMAIN f /\ "d" \in DOMAIN f /\ f["op"] = "HEARTBEAT" /\ f["d"] = n
    OBVIOUS
  <1> HIDE DEF f
  <1>3. Object(f)["op"] = "HEARTBEAT" /\ Object(f)["d"] = n
    BY <1>1, <1>2 DEF Object
  <1>4. CreatePayload("HEARTBEAT", n, NULL, NULL) = Object(f)
    BY DEF CreatePayload, f
  <1>5. Object(f).op = "HEARTBEAT" /\ Object(f).d = n
    BY <1>3
  <1> QED
    BY <1>4, <1>5

\* An IDENTIFY says that it is one.
LEMMA IdentifyFields ==
    ASSUME NEW d
    PROVE  Identify(d).op = "IDENTIFY"
  <1> DEFINE f == [op |-> "IDENTIFY", d |-> d, t |-> NULL, s |-> NULL]
  <1>1. "IDENTIFY" # NULL
    BY SessionAssumption
  <1>2. "op" \in DOMAIN f /\ f["op"] = "IDENTIFY"
    OBVIOUS
  <1> HIDE DEF f
  <1>3. Object(f)["op"] = "IDENTIFY"
    BY <1>1, <1>2 DEF Object
  <1>4. Identify(d) = Object(f)
    BY DEF Identify, CreatePayload, f
  <1>5. Object(f).op = "IDENTIFY"
    BY <1>3
  <1> QED
    BY <1>4, <1>5

\* What may lie in the ring.
TxPayload ==
    {CreatePayload("HEARTBEAT", n, NULL, NULL) : n \in 0..MaxSeq}
        \cup {Identify(d) : d \in {Garbage, UnpackIdentify(SetIdentify(Context))} \ {NULL}}

\* A payload in the ring is of one of two kinds, and a heartbeat carries a number.
LEMMA TxPayloadOps ==
    ASSUME NEW p \in TxPayload
    PROVE  /\ p.op \in {"HEARTBEAT", "IDENTIFY"}
           /\ p.op = "HEARTBEAT" => p.d \in 0..MaxSeq
  <1>1. CASE \E n \in 0..MaxSeq : p = CreatePayload("HEARTBEAT", n, NULL, NULL)
    BY <1>1, HeartbeatFields, SessionAssumption
  <1>2. CASE \E d : p = Identify(d)
    BY <1>2, IdentifyFields
  <1> QED
    BY <1>1, <1>2 DEF TxPayload

RingOK == ring \in Seq(TxPayload) /\ Len(ring) <= Capacity

\* Inserting into the ring, and what LdGateway sees of it.
LEMMA Insert ==
    ASSUME NEW r \in Seq(TxPayload), Len(r) <= Capacity, NEW p \in TxPayload
    PROVE  /\ RingInsert(r, p) \in Seq(TxPayload)
           /\ Len(RingInsert(r, p)) <= Capacity
           /\ Ops(RingInsert(r, p)) = RingInsert(Ops(r), p.op)
           /\ \A i \in DOMAIN RingInsert(r, p) :
                  \/ i \in DOMAIN r /\ RingInsert(r, p)[i] = r[i]
                  \/ i = Len(r) + 1 /\ RingInsert(r, p)[i] = p
  <1>1. Ops(r) \in Seq({"HEARTBEAT", "IDENTIFY"}) /\ Len(Ops(r)) = Len(r)
    BY TxPayloadOps DEF Ops
  <1>2. Ops(Append(r, p)) = Append(Ops(r), p.op)
    BY <1>1, TxPayloadOps DEF Ops
  <1>3. \A i \in DOMAIN Append(r, p) :
            \/ i \in DOMAIN r /\ Append(r, p)[i] = r[i]
            \/ i = Len(r) + 1 /\ Append(r, p)[i] = p
    OBVIOUS
  <1>4. CASE RingFree(r) = 0
    <2>1. RingFree(Ops(r)) = 0
      BY <1>1, <1>4 DEF RingFree
    <2> QED
      BY <1>4, <2>1 DEF RingInsert
  <1>5. CASE RingFree(r) # 0
    <2>1. RingFree(Ops(r)) # 0
      BY <1>1, <1>5 DEF RingFree
    <2>2. Append(r, p) \in Seq(TxPayload) /\ Len(Append(r, p)) <= Capacity
      BY <1>5, RingAssumption DEF RingFree
    <2> QED
      BY <1>2, <1>3, <1>5, <2>1, <2>2 DEF RingInsert
  <1> QED
    BY <1>4, <1>5

\* Consuming from the ring.
LEMMA Rest ==
    ASSUME NEW r \in Seq(TxPayload), Len(r) <= Capacity, RingWaiting(r) # 0
    PROVE  /\ RingRest(r) \in Seq(TxPayload)
           /\ Len(RingRest(r)) <= Capacity
           /\ Ops(RingRest(r)) = RingRest(Ops(r))
           /\ RingOldest(r) = r[1] /\ r[1] \in TxPayload /\ 1 \in DOMAIN r
           /\ RingOldest(Ops(r)) = RingOldest(r).op
           /\ \A i \in DOMAIN RingRest(r) : i + 1 \in DOMAIN r /\ RingRest(r)[i] = r[i + 1]
  <1>1. r # <<>> /\ Len(r) \in Nat \ {0}
    BY DEF RingWaiting
  <1>2. Ops(r) \in Seq({"HEARTBEAT", "IDENTIFY"}) /\ Len(Ops(r)) = Len(r)
    BY TxPayloadOps DEF Ops
  <1>3. Ops(Tail(r)) = Tail(Ops(r))
    BY <1>1, <1>2 DEF Ops
  <1>4. Head(Ops(r)) = Head(r).op
    BY <1>1, <1>2 DEF Ops
  <1> QED
    BY <1>1, <1>3, <1>4, RingAssumption DEF RingRest, RingOldest

\* LdGateway sees as many payloads as there are.
LEMMA OpsLength ==
    ASSUME NEW r \in Seq(TxPayload)
    PROVE  RingWaiting(Ops(r)) = RingWaiting(r) /\ RingFree(Ops(r)) = RingFree(r)
  BY TxPayloadOps DEF Ops, RingWaiting, RingFree

\* Every function of the ring that RingInsert and RingRest make of it, in one place: the
\* heartbeats among the payloads.
Beats(r) == {i \in DOMAIN r : r[i].op = "HEARTBEAT"}

\* An IDENTIFY adds no heartbeat, a heartbeat at most one at the end.
LEMMA InsertBeats ==
    ASSUME NEW r \in Seq(TxPayload), Len(r) <= Capacity, NEW p \in TxPayload
    PROVE  /\ p.op = "IDENTIFY" => Beats(RingInsert(r, p)) \subseteq Beats(r)
           /\ Beats(RingInsert(r, p)) \subseteq Beats(r) \cup {Len(r) + 1}
  BY Insert DEF Beats

\* Consuming moves the heartbeats by one place, and takes out the first payload.
LEMMA RestBeats ==
    ASSUME NEW r \in Seq(TxPayload), Len(r) <= Capacity, RingWaiting(r) # 0
    PROVE  /\ \A i \in Beats(RingRest(r)) : i \in Nat \ {0} /\ i + 1 \in Beats(r)
           /\ RingOldest(r).op = "HEARTBEAT" => 1 \in Beats(r)
  <1>1. RingRest(r) \in Seq(TxPayload)
    BY Rest
  <1> QED
    BY <1>1, Rest DEF Beats

(***************************************************************************)
(* Types and the accounting of heartbeats                                   *)
(***************************************************************************)

\* A heartbeat that can still be acknowledged is the only one, and is counted.
Accounting ==
    /\ \A i, j \in Beats(ring) : i = j
    /\ Beats(ring) # {} => hb_count >= 1 /\ unacked = 0
    /\ unacked > 0 => unacked = 1 /\ hb_count >= 1

TypeInv == TypeOK /\ RingOK /\ Accounting

\* What an "s" leaves in last_seq.
LEMMA SeqValues ==
    /\ \A x : ParsedSeq([s |-> JsonNull], x) = 0
    /\ \A n \in Nat : \A x : ParsedSeq([s |-> n], x) = n
  <1>1. \A n \in Nat : n # JsonNull
    BY JsonAssumption
  <1> QED
    BY <1>1 DEF ParsedSeq, IntegerValue

\* A HELLO leaves an interval that is not 0.
LEMMA IntervalType == \A i \in Intervals : IntervalOf(i) \in Nat \ {0}
  BY SessionAssumption DEF IntervalOf

\* At the start the ring is empty and nothing is owed.
LEMMA InitType == Init => TypeInv
  <1> SUFFICES ASSUME Init PROVE TypeInv
    OBVIOUS
  <1>0. DOMAIN ring = {} /\ Len(ring) = 0
    BY DEF Init
  <1>f. FlagsOK
    BY Zenon DEF Init, FlagsOK
  <1>1. TypeOK
    BY <1>0, <1>f, SessionAssumption, RingAssumption DEF Init, TypeOK
  <1>2. RingOK /\ Accounting
    BY RingAssumption DEF Init, RingOK, Accounting, Beats
  <1> QED
    BY <1>1, <1>2 DEF TypeInv

\* The steps that leave the ring, the counter and the acknowledgements alone.
LEMMA CalmStep ==
    ASSUME TypeInv, TypeOK', UNCHANGED <<ring, hb_count, unacked>>
    PROVE  TypeInv'
  BY DEF TypeInv, RingOK, Accounting

\* Queueing the one heartbeat keeps the types and the accounting.
LEMMA QueueStep ==
    ASSUME TypeInv, QueuesHeartbeat, UNCHANGED unacked
    PROVE  /\ RingOK' /\ Accounting'
           /\ \A i \in DOMAIN ring' : ring'[i].op = "HEARTBEAT" => ring'[i].d \in 0..MaxSeq
           /\ Len(ring') <= Capacity
  <1>1. Heartbeat \in TxPayload
    BY DEF Heartbeat, TxPayload, TypeInv, TypeOK
  <1>2. ring' = RingInsert(ring, Heartbeat) /\ hb_count = 0 /\ hb_count' = 1
    BY DEF QueuesHeartbeat
  <1>3. RingOK'
    BY <1>1, <1>2, Insert DEF RingOK, TypeInv
  <1>4. Beats(ring) = {} /\ unacked = 0
    BY <1>2 DEF TypeInv, Accounting, TypeOK
  <1>5. Accounting'
    BY <1>1, <1>2, <1>4, InsertBeats DEF Accounting, TypeInv, RingOK
  <1>6. \A i \in DOMAIN ring' : ring'[i] \in TxPayload
    BY <1>3 DEF RingOK
  <1> QED
    BY <1>3, <1>5, <1>6, TxPayloadOps DEF RingOK

\* So does a HELLO, whose IDENTIFY goes into the ring.
LEMMA HelloStep ==
    ASSUME TypeInv, ReceiveHello
    PROVE  TypeInv'
  <1>1. last_seq' = 0 /\ heartbeat_interval' \in Nat
    BY SeqValues, IntervalType DEF ReceiveHello, ReceivesSeq
  <1>2. /\ \/ ring' = ring
           \/ IdentifyData # NULL /\ ring' = RingInsert(ring, Identify(IdentifyData))
        /\ UNCHANGED <<hb_count, unacked>>
    BY DEF ReceiveHello
  <1>3. IdentifyData # NULL => Identify(IdentifyData) \in TxPayload
    BY DEF IdentifyData, TxPayload
  <1>4. RingOK' /\ Accounting'
    <2>1. CASE ring' = ring
      BY <1>2, <2>1 DEF TypeInv, RingOK, Accounting
    <2>2. CASE IdentifyData # NULL /\ ring' = RingInsert(ring, Identify(IdentifyData))
      <3>1. RingOK'
        BY <1>3, <2>2, Insert DEF TypeInv, RingOK
      <3>2. Identify(IdentifyData).op = "IDENTIFY"
        BY IdentifyFields
      <3>3. Beats(ring') \subseteq Beats(ring)
        BY <1>3, <2>2, <3>2, InsertBeats DEF TypeInv, RingOK
      <3>4. Accounting'
        BY <1>2, <3>3 DEF TypeInv, Accounting
      <3> QED
        BY <3>1, <3>4
    <2> QED
      BY <1>2, <2>1, <2>2
  <1>5. \A i \in DOMAIN ring' : ring'[i].op = "HEARTBEAT" => ring'[i].d \in 0..MaxSeq
    <2>1. \A i \in DOMAIN ring' : ring'[i] \in TxPayload
      BY <1>4 DEF RingOK
    <2> QED
      BY <2>1, TxPayloadOps
  <1>6. /\ phase' \in {"app", "service", "crashed"}
        /\ wsi' \in {"free", "connecting", "open", "closing"}
        /\ last_hb' \in Nat /\ clock' \in 0..MaxClock /\ age' \in Nat /\ idle' \in 0..ServiceGap
    BY DEF ReceiveHello, Receiving, SetsTimer, time_vars, TypeInv, TypeOK
  <1>f. FlagsOK'
    <2>1. stepped' \in BOOLEAN
      BY Zenon DEF ReceiveHello, SetsTimer, time_vars, TypeInv, TypeOK, FlagsOK
    <2> QED
      BY Zenon, <2>1 DEF ReceiveHello, TypeInv, TypeOK, FlagsOK
  <1>7. TypeOK'
    BY <1>1, <1>2, <1>4, <1>5, <1>6, <1>f, SessionAssumption
       DEF ReceiveHello, TypeInv, TypeOK, RingOK
  <1> QED
    BY <1>4, <1>7 DEF TypeInv

\* So does a payload that is written, or lost.
LEMMA WriteStep ==
    ASSUME TypeInv, Writeable
    PROVE  TypeInv'
  <1>1. FlagsOK'
    BY Zenon DEF Writeable, GatewayReceives, WriteFails, time_vars, TypeInv, TypeOK, FlagsOK
  <1>2. /\ UNCHANGED <<heartbeat_interval, last_hb, hb_count, last_seq, gw_seq, phase>>
        /\ UNCHANGED <<clock, age, idle>>
        /\ wsi' \in {wsi, "closing"}
    BY DEF Writeable, GatewayReceives, WriteFails, time_vars
  <1>3. CASE RingWaiting(ring) = 0
    BY <1>1, <1>2, <1>3 DEF Writeable, TypeInv, TypeOK, RingOK, Accounting
  <1>4. CASE RingWaiting(ring) # 0
    <2>1. RingOK'
      BY <1>4, Rest DEF Writeable, TypeInv, RingOK
    <2>2. \A i \in Beats(ring') : i \in Nat \ {0} /\ i + 1 \in Beats(ring)
      BY <1>4, RestBeats DEF Writeable, TypeInv, RingOK
    <2>3. \A i, j \in Beats(ring') : i = j
      <3>1. SUFFICES ASSUME NEW i \in Beats(ring'), NEW j \in Beats(ring') PROVE i = j
        OBVIOUS
      <3>2. i + 1 = j + 1
        BY <2>2 DEF TypeInv, Accounting
      <3> QED
        BY <2>2, <3>2
    <2>4. RingOldest(ring).op = "HEARTBEAT" => 1 \in Beats(ring)
      BY <1>4, RestBeats DEF TypeInv, RingOK
    <2>5. \/ unacked' = unacked
          \/ RingOldest(ring).op = "HEARTBEAT" /\ unacked' = unacked + 1
      BY <1>4 DEF Writeable, GatewayReceives, WriteFails
    <2>8. Accounting'
      <3>1. CASE unacked' = unacked
        BY <1>2, <2>2, <2>3, <3>1 DEF TypeInv, Accounting, TypeOK
      <3>2. CASE RingOldest(ring).op = "HEARTBEAT" /\ unacked' = unacked + 1
        <4>1. 1 \in Beats(ring) /\ unacked = 0 /\ hb_count >= 1
          BY <2>4, <3>2 DEF TypeInv, Accounting
        <4>2. Beats(ring') = {}
          <5>1. SUFFICES ASSUME NEW i \in Beats(ring') PROVE FALSE
            OBVIOUS
          <5>2. i \in Nat \ {0} /\ i + 1 = 1
            BY <2>2, <4>1 DEF TypeInv, Accounting
          <5> QED
            BY <5>2
        <4> QED
          BY <1>2, <3>2, <4>1, <4>2 DEF Accounting
      <3> QED
        BY <2>5, <3>1, <3>2
    <2>9. \A i \in DOMAIN ring' : ring'[i].op = "HEARTBEAT" => ring'[i].d \in 0..MaxSeq
      <3>1. \A i \in DOMAIN ring' : ring'[i] \in TxPayload
        BY <2>1 DEF RingOK
      <3> QED
        BY <3>1, TxPayloadOps
    <2>10. unacked' \in Nat
      BY <2>5 DEF TypeInv, TypeOK
    <2> QED
      BY <1>1, <1>2, <2>1, <2>8, <2>9, <2>10 DEF TypeInv, TypeOK, RingOK
  <1> QED
    BY <1>3, <1>4

\* One step keeps the types and the accounting.
LEMMA TypeStep ==
    ASSUME TypeInv, [Next]_vars
    PROVE  TypeInv'
  <1> USE SessionAssumption
  <1>0. TypeOK /\ FlagsOK
    BY DEF TypeInv, TypeOK
  <1>1. UNCHANGED vars => TypeInv'
    BY DEF vars, context_vars, wsi_vars, gateway_vars, time_vars, TypeInv, TypeOK, FlagsOK,
           RingOK, Accounting
  <1>2. ASSUME Connects PROVE TypeInv'
    <2>1. FlagsOK'
      BY Zenon, <1>0, <1>2 DEF Connects, FlagsOK, context_vars, gateway_vars
    <2> QED
      BY <1>0, <1>2, <2>1, CalmStep DEF Connects, TypeOK, context_vars, gateway_vars
  <1>3. ASSUME ServiceMissedAck PROVE TypeInv'
    <2>1. FlagsOK'
      BY Zenon, <1>0, <1>3 DEF ServiceMissedAck, FlagsOK, wsi_vars, gateway_vars
    <2>2. TypeOK' /\ hb_count' >= 1
      BY <1>0, <1>3, <2>1 DEF ServiceMissedAck, TypeOK, wsi_vars, gateway_vars
    <2> QED
      BY <1>3, <2>2 DEF ServiceMissedAck, gateway_vars, TypeInv, RingOK, Accounting
  <1>4. ASSUME ServiceCantFit PROVE TypeInv'
    <2>1. FlagsOK'
      BY Zenon, <1>0, <1>4 DEF ServiceCantFit, FlagsOK, context_vars, wsi_vars, gateway_vars
    <2> QED
      BY <1>0, <1>4, <2>1, CalmStep
         DEF ServiceCantFit, TypeOK, context_vars, wsi_vars, gateway_vars
  <1>5. ASSUME ServicePolls PROVE TypeInv'
    <2>1. FlagsOK'
      <3>1. stepped' \in BOOLEAN /\ pollout' \in BOOLEAN
        BY Zenon, <1>0, <1>5 DEF ServicePolls, QueuesHeartbeat, NoHeartbeatNeeded, FlagsOK
      <3> QED
        BY Zenon, <1>0, <1>5, <3>1 DEF ServicePolls, FlagsOK, gateway_vars
    <2>2. CASE QueuesHeartbeat
      <3>1. UNCHANGED unacked
        BY <1>5 DEF ServicePolls, gateway_vars
      <3>2. /\ RingOK' /\ Accounting' /\ Len(ring') <= Capacity
            /\ \A i \in DOMAIN ring' : ring'[i].op = "HEARTBEAT" => ring'[i].d \in 0..MaxSeq
        BY <2>2, <3>1, QueueStep
      <3>3. /\ hb_count' \in 0..HbMax /\ last_hb' \in Nat /\ age' \in Nat
            /\ clock' = clock /\ idle' \in 0..ServiceGap
        BY <1>0, <2>2 DEF QueuesHeartbeat, TypeOK
      <3>4. TypeOK'
        BY <1>0, <1>5, <2>1, <3>2, <3>3 DEF ServicePolls, TypeOK, gateway_vars
      <3> QED
        BY <3>2, <3>4 DEF TypeInv
    <2>3. CASE NoHeartbeatNeeded
      BY <1>0, <1>5, <2>1, <2>3, CalmStep DEF ServicePolls, NoHeartbeatNeeded, TypeOK, gateway_vars
    <2> QED
      BY <1>5, <2>2, <2>3 DEF ServicePolls
  <1>6. ASSUME ServiceReturns PROVE TypeInv'
    <2>1. FlagsOK'
      BY Zenon, <1>0, <1>6
         DEF ServiceReturns, FlagsOK, context_vars, wsi_vars, gateway_vars, time_vars
    <2> QED
      BY <1>0, <1>6, <2>1, CalmStep
         DEF ServiceReturns, TypeOK, context_vars, wsi_vars, gateway_vars, time_vars
  <1>7. ASSUME Gone PROVE TypeInv'
    <2>1. FlagsOK'
      BY Zenon, <1>0, <1>7 DEF Gone, FlagsOK, context_vars, time_vars
    <2>2. TypeOK'
      BY <1>0, <1>7, <2>1 DEF Gone, TypeOK, context_vars, time_vars
    <2> QED
      BY <1>7, <2>2 DEF Gone, context_vars, TypeInv, RingOK, Accounting
  <1>8. ASSUME Established PROVE TypeInv'
    <2>1. FlagsOK'
      BY Zenon, <1>0, <1>8
         DEF Established, EstablishedTimer, EstablishedCount, SetsTimer, FlagsOK, gateway_vars
    <2> QED
      BY <1>0, <1>8, <2>1, CalmStep
         DEF Established, EstablishedTimer, EstablishedCount, SetsTimer, TypeOK, gateway_vars
  <1>9. ASSUME Drop PROVE TypeInv'
    <2>1. FlagsOK'
      BY Zenon, <1>0, <1>9 DEF Drop, FlagsOK, context_vars, gateway_vars, time_vars
    <2> QED
      BY <1>0, <1>9, <2>1, CalmStep DEF Drop, TypeOK, context_vars, gateway_vars, time_vars
  <1>10. ASSUME ReceiveAck PROVE TypeInv'
    <2>1. FlagsOK'
      BY Zenon, <1>0, <1>10 DEF ReceiveAck, FlagsOK, wsi_vars, time_vars
    <2>2. hb_count >= 1 /\ unacked = 1 /\ Beats(ring) = {}
      BY <1>0, <1>10 DEF ReceiveAck, TypeInv, Accounting, TypeOK
    <2>3. last_seq' = 0 /\ hb_count' = hb_count - 1 /\ unacked' = 0
      BY <1>10, <2>2, SeqValues DEF ReceiveAck, ReceivesSeq, CountedDown
    <2>4. TypeOK'
      BY <1>0, <1>10, <2>1, <2>2, <2>3 DEF ReceiveAck, TypeOK, wsi_vars, time_vars
    <2> QED
      BY <1>10, <2>2, <2>3, <2>4 DEF ReceiveAck, TypeInv, RingOK, Accounting
  <1>11. ASSUME ReceiveDispatch PROVE TypeInv'
    <2>1. FlagsOK'
      BY Zenon, <1>0, <1>11 DEF ReceiveDispatch, FlagsOK, time_vars
    <2>2. gw_seq' \in 0..MaxSeq /\ last_seq' = gw_seq'
      BY <1>0, <1>11, SeqValues DEF ReceiveDispatch, ReceivesSeq, TypeOK
    <2> QED
      BY <1>0, <1>11, <2>1, <2>2, CalmStep DEF ReceiveDispatch, TypeOK, time_vars
  <1>12. ASSUME ReceiveInvalid PROVE TypeInv'
    <2>1. FlagsOK'
      BY Zenon, <1>0, <1>12 DEF ReceiveInvalid, FlagsOK, wsi_vars, time_vars
    <2> QED
      BY <1>0, <1>12, <2>1, CalmStep DEF ReceiveInvalid, TypeOK, wsi_vars, time_vars
  <1>13. ASSUME ReceiveControl PROVE TypeInv'
    <2>1. FlagsOK'
      BY Zenon, <1>0, <1>13 DEF ReceiveControl, FlagsOK, wsi_vars, gateway_vars, time_vars
    <2> QED
      BY <1>0, <1>13, <2>1, CalmStep, SeqValues
         DEF ReceiveControl, ReceivesSeq, TypeOK, wsi_vars, gateway_vars, time_vars
  <1>14. ASSUME ReceiveBad PROVE TypeInv'
    <2>1. FlagsOK'
      BY Zenon, <1>0, <1>14 DEF ReceiveBad, FlagsOK, gateway_vars, time_vars
    <2> QED
      BY <1>0, <1>14, <2>1, CalmStep, SeqValues
         DEF ReceiveBad, ReceivesSeq, TypeOK, gateway_vars, time_vars
  <1>15. ASSUME Tick PROVE TypeInv'
    <2>1. FlagsOK'
      BY Zenon, <1>0, <1>15 DEF Tick, FlagsOK, context_vars, wsi_vars, gateway_vars
    <2> QED
      BY <1>0, <1>15, <2>1, CalmStep DEF Tick, TypeOK, context_vars, wsi_vars, gateway_vars
  <1>16. ASSUME SetBack PROVE TypeInv'
    <2>1. FlagsOK'
      BY Zenon, <1>0, <1>16 DEF SetBack, FlagsOK, context_vars, wsi_vars, gateway_vars
    <2> QED
      BY <1>0, <1>16, <2>1, CalmStep DEF SetBack, TypeOK, context_vars, wsi_vars, gateway_vars
  <1> QED
    BY <1>1, <1>2, <1>3, <1>4, <1>5, <1>6, <1>7, <1>8, <1>9, <1>10, <1>11, <1>12, <1>13, <1>14,
       <1>15, <1>16, HelloStep, WriteStep
       DEF Next, Service, Connection, Receive, ConnectionError, Destroy, Crashed

\* The types hold of every reachable state; hb_count never falls below zero, and last_seq
\* is always a number the gateway may have given.
THEOREM SessionTypeCorrect == Spec => []TypeOK
  <1>1. TypeInv => TypeOK
    BY DEF TypeInv
  <1> QED
    BY <1>1, InitType, TypeStep, PTL DEF Spec

(***************************************************************************)
(* The sequence number                                                      *)
(***************************************************************************)

\* SeqIsCurrent is inductive: what a connection leaves behind in last_seq is gone before
\* the next one is greeted.
LEMMA SeqStep ==
    ASSUME TypeInv, SeqIsCurrent, [Next]_vars
    PROVE  SeqIsCurrent'
  <1>1. CASE UNCHANGED <<last_seq, gw_seq, greeted>>
    BY <1>1 DEF SeqIsCurrent
  <1>2. CASE ~greeted'
    BY <1>2 DEF SeqIsCurrent
  <1>3. CASE last_seq' = 0
    BY <1>3 DEF SeqIsCurrent
  <1>4. ASSUME ReceiveDispatch PROVE SeqIsCurrent'
    BY <1>4, SeqValues DEF ReceiveDispatch, ReceivesSeq, SeqIsCurrent, TypeInv, TypeOK
  <1>5. ASSUME UNCHANGED vars \/ Service \/ ServiceReturns \/ Tick \/ SetBack \/ Crashed
        PROVE  UNCHANGED <<last_seq, gw_seq, greeted>>
    BY <1>5 DEF vars, context_vars, gateway_vars, Service, Connects, ServiceMissedAck,
                ServiceCantFit, ServicePolls, ServiceReturns, Tick, SetBack, Crashed
  <1>6. ASSUME Connection \/ Writeable
        PROVE  UNCHANGED <<last_seq, gw_seq, greeted>> \/ ~greeted'
    BY <1>6 DEF Connection, ConnectionError, Destroy, Gone, Established, Drop, Writeable,
                context_vars, gateway_vars
  <1>7. ASSUME Receive, ~ReceiveDispatch
        PROVE  UNCHANGED <<last_seq, gw_seq, greeted>> \/ last_seq' = 0
    BY <1>7, SeqValues
       DEF Receive, ReceiveHello, ReceiveAck, ReceiveInvalid, ReceiveControl, ReceiveBad,
           ReceivesSeq, gateway_vars
  <1> QED
    BY <1>1, <1>2, <1>3, <1>4, <1>5, <1>6, <1>7 DEF Next

\* On a greeted connection last_seq is the gateway's number or 0, never another session's.
THEOREM SequenceIsOwn == Spec => []SeqIsCurrent
  <1>1. Init => SeqIsCurrent
    BY DEF Init, SeqIsCurrent
  <1> QED
    BY <1>1, InitType, TypeStep, SeqStep, PTL DEF Spec

(***************************************************************************)
(* The heartbeat timer                                                      *)
(***************************************************************************)

\* While the clock only advances the unsigned difference is the time that has passed; and
\* what that exceeds the interval by is no more than the time since ld_service was called.
TimeInv ==
    /\ ~stepped => last_hb + age = clock
    /\ greeted => heartbeat_interval # 0
    /\ wsi = "open" /\ greeted /\ phase # "crashed" /\ ~stepped =>
           age <= Seconds(heartbeat_interval) + idle \/ Stalled

\* As long as the clock is not set back, the difference of the two unsigned numbers is the
\* time that has passed.
LEMMA SinceIsAge ==
    ASSUME TypeOK, TimeInv, ~stepped
    PROVE  Since = age
  BY DEF TypeOK, TimeInv, Since

\* The division is a natural number.
LEMMA SecondsType == \A i \in Nat : Seconds(i) \in Nat
  BY DEF Seconds

\* A step that touches none of what the timer reads, in "service", where nothing is stalled.
LEMMA TimerUntouched ==
    ASSUME TimeInv, phase = "service", phase' # "crashed",
           UNCHANGED <<heartbeat_interval, time_vars, last_hb>>,
           wsi' = "open" => wsi = "open", greeted' => greeted
    PROVE  TimeInv'
  BY DEF TimeInv, Stalled, time_vars

\* Every step keeps what the timer relies on.
LEMMA TimeStep ==
    ASSUME TypeInv, TypeInv', TimeInv, [Next]_vars
    PROVE  TimeInv'
  <1> USE SessionAssumption
  <1>0. TypeOK /\ Seconds(heartbeat_interval) \in Nat
    BY SecondsType DEF TypeInv, TypeOK
  <1>1. UNCHANGED vars => TimeInv'
    BY DEF vars, context_vars, wsi_vars, gateway_vars, time_vars, TimeInv, Stalled, Due, Since
  <1>2. ASSUME Connects PROVE TimeInv'
    BY <1>2 DEF Connects, context_vars, gateway_vars, TimeInv
  <1>3. ASSUME ServiceMissedAck PROVE TimeInv'
    <2>1. Stalled'
      BY <1>0, <1>3
         DEF ServiceMissedAck, Stalled, Due, Since, TypeOK
    <2> QED
      BY <1>3, <2>1 DEF ServiceMissedAck, wsi_vars, gateway_vars, TimeInv
  <1>4. ASSUME ServiceCantFit PROVE TimeInv'
    <2>1. Stalled'
      BY <1>4 DEF ServiceCantFit, Stalled, Due, Since, context_vars
    <2> QED
      BY <1>4, <2>1 DEF ServiceCantFit, context_vars, wsi_vars, gateway_vars, TimeInv
  <1>5. ASSUME ServicePolls PROVE TimeInv'
    <2>1. CASE QueuesHeartbeat
      BY <1>0, <1>5, <2>1 DEF ServicePolls, QueuesHeartbeat, gateway_vars, TimeInv, TypeOK
    <2>2. CASE NoHeartbeatNeeded
      <3>1. ~stepped /\ greeted => age <= Seconds(heartbeat_interval)
        BY <1>0, <2>2, SinceIsAge DEF NoHeartbeatNeeded, Due, TimeInv, TypeOK
      <3> QED
        BY <1>0, <1>5, <2>2, <3>1
           DEF ServicePolls, NoHeartbeatNeeded, gateway_vars, TimeInv, TypeOK
    <2> QED
      BY <1>5, <2>1, <2>2 DEF ServicePolls
  <1>6. ASSUME ServiceReturns PROVE TimeInv'
    BY <1>6 DEF ServiceReturns, context_vars, wsi_vars, gateway_vars, time_vars, TimeInv, Stalled
  <1>7. ASSUME Gone PROVE TimeInv'
    BY <1>7 DEF Gone, context_vars, time_vars, TimeInv
  <1>8. ASSUME Established PROVE TimeInv'
    BY <1>0, <1>8 DEF Established, EstablishedTimer, EstablishedCount, SetsTimer, gateway_vars, TimeInv, TypeOK
  <1>9. ASSUME Drop PROVE TimeInv'
    BY <1>9 DEF Drop, context_vars, gateway_vars, time_vars, TimeInv
  <1>10. ASSUME ReceiveHello PROVE TimeInv'
    <2>1. heartbeat_interval' \in Nat \ {0} /\ Seconds(heartbeat_interval') \in Nat
      BY <1>10, IntervalType, SecondsType DEF ReceiveHello
    <2>2. CASE SetsTimer
      <3>1. last_hb' + age' = clock'
        BY <1>0, <2>2 DEF SetsTimer, TypeOK
      <3>2. age' <= Seconds(heartbeat_interval') + idle'
        BY <1>0, <2>1, <2>2 DEF SetsTimer, TypeOK
      <3> QED
        BY <2>1, <3>1, <3>2 DEF TimeInv
    <2>3. CASE UNCHANGED <<last_hb, time_vars>> /\ (wsi' = "closing" \/ phase' = "crashed")
      BY <2>1, <2>3 DEF time_vars, TimeInv
    <2> QED
      BY <1>10, <2>2, <2>3 DEF ReceiveHello
  <1>11. ASSUME ReceiveAck \/ ReceiveDispatch \/ ReceiveInvalid \/ ReceiveControl \/ ReceiveBad
                    \/ Writeable
         PROVE  TimeInv'
    <2>1. /\ phase = "service" /\ phase' = phase
          /\ UNCHANGED <<heartbeat_interval, time_vars, last_hb, greeted>>
          /\ wsi = "open"
      BY <1>11 DEF ReceiveAck, ReceiveDispatch, ReceiveInvalid, ReceiveControl, ReceiveBad,
                   Writeable, Receiving, wsi_vars, gateway_vars
    <2> QED
      BY <2>1, TimerUntouched
  <1>12. ASSUME Tick PROVE TimeInv'
    <2>1. /\ clock' = clock + 1 /\ age' = age + 1
          /\ wsi = "open" => idle' = idle + 1
          /\ UNCHANGED <<phase, heartbeat_interval, last_hb, hb_count, ring, wsi, greeted, stepped>>
      BY <1>12 DEF Tick, context_vars, wsi_vars, gateway_vars
    <2>2. ~stepped => last_hb' + age' = clock'
      BY <1>0, <2>1 DEF TimeInv, TypeOK
    <2>3. ~stepped /\ Stalled => Stalled'
      <3>1. ~stepped => Since' = age' /\ Since = age
        BY <1>0, <2>1, <2>2, SinceIsAge DEF Since, TypeOK
      <3> QED
        BY <1>0, <2>1, <3>1 DEF Stalled, Due, TypeOK
    <2>4. wsi = "open" /\ age <= Seconds(heartbeat_interval) + idle
              => age' <= Seconds(heartbeat_interval') + idle'
      BY <1>0, <2>1 DEF TypeOK
    <2> QED
      BY <2>1, <2>2, <2>3, <2>4 DEF TimeInv
  <1>13. ASSUME SetBack PROVE TimeInv'
    BY <1>13 DEF SetBack, context_vars, gateway_vars, TimeInv
  <1> QED
    BY <1>1, <1>2, <1>3, <1>4, <1>5, <1>6, <1>7, <1>8, <1>9, <1>10, <1>11, <1>12, <1>13
       DEF Next, Service, Connection, Receive, ConnectionError, Destroy, Crashed

\* A heartbeat is queued on time, for every interval, gap between calls and history of
\* connections, unless the client has stalled or the clock was set back.
THEOREM HeartbeatsInTime == Spec => []HeartbeatsOnTime
  <1>1. Init => TimeInv
    BY DEF Init, TimeInv
  <1>2. TypeInv /\ TimeInv => HeartbeatsOnTime
    BY SecondsType, SessionAssumption DEF TypeInv, TypeOK, TimeInv, HeartbeatsOnTime
  <1>3. TypeInv /\ TimeInv /\ [Next]_vars => (TypeInv /\ TimeInv)'
    BY TypeStep, TimeStep
  <1> QED
    BY <1>1, <1>2, <1>3, InitType, PTL DEF Spec

(***************************************************************************)
(* LdSession implements LdGateway                                           *)
(***************************************************************************)

\* What LdGateway asks of a gateway that speaks of a session.
SessionInv == in_session => identified

\* Every step keeps what the session flag says.
LEMMA SessionStep ==
    ASSUME SessionInv, [Next]_vars
    PROVE  SessionInv'
  BY DEF SessionInv, Next, Service, Connects, ServiceMissedAck, ServiceCantFit, ServicePolls,
         ServiceReturns, Connection, ConnectionError, Destroy, Gone, Established, Drop, Receive,
         ReceiveHello, ReceiveAck, ReceiveDispatch, ReceiveInvalid, ReceiveControl, ReceiveBad,
         Writeable, GatewayReceives, WriteFails, Tick, SetBack, Crashed, vars, gateway_vars

GatewayStep == (clock' # clock /\ stepped') \/ Gateway!Next \/ UNCHANGED Gateway!vars

\* hb_elapsed of LdGateway.
Elapsed == Since > Seconds(heartbeat_interval)

\* Setting the timer turns it off.
LEMMA SetMeansOff ==
    ASSUME TypeInv, TypeInv', last_hb' = clock, clock' = clock
    PROVE  Elapsed' = FALSE
  <1>1. Seconds(heartbeat_interval') \in Nat
    BY SecondsType DEF TypeInv, TypeOK
  <1>2. Since' = 0
    BY DEF Since, TypeInv, TypeOK
  <1> QED
    BY <1>1, <1>2 DEF Elapsed

\* ld_connect, from within ld_service.
LEMMA ConnectsImplements ==
    ASSUME TypeInv, Connects
    PROVE  Gateway!Next
  <1>1. Gateway!ServiceConnects
    BY SessionAssumption
       DEF Connects, context_vars, gateway_vars, Gateway!ServiceConnects, Gateway!ld_connect,
           Gateway!ConnectStarts, Gateway!gateway_vars, Since
  <1> QED
    BY <1>1 DEF Gateway!Next, Gateway!Service

\* A missed acknowledgement.
LEMMA MissedAckImplements ==
    ASSUME TypeInv, ServiceMissedAck
    PROVE  Gateway!Next
  <1>1. Gateway!ServiceMissedAck
    BY SessionAssumption
       DEF ServiceMissedAck, Due, wsi_vars, gateway_vars, Gateway!ServiceMissedAck,
           Gateway!HeartbeatDue, Gateway!MissedAck, Gateway!CountedAgain, Gateway!DeadlineStands,
           Gateway!wsi_vars, Gateway!gateway_vars, Since, TypeInv, TypeOK
  <1> QED
    BY <1>1 DEF Gateway!Next, Gateway!Service

\* A heartbeat that finds no room.
LEMMA CantFitImplements ==
    ASSUME TypeInv, ServiceCantFit
    PROVE  Gateway!Next
  <1>1. Gateway!RingFree(Ops(ring)) = 0
    BY OpsLength DEF ServiceCantFit, TypeInv, RingOK, RingFree, Gateway!RingFree
  <1>2. Gateway!ServiceCantFitHeartbeat
    BY <1>1, SessionAssumption
       DEF ServiceCantFit, Due, context_vars, wsi_vars, gateway_vars,
           Gateway!ServiceCantFitHeartbeat, Gateway!HeartbeatDue, Gateway!MissedAck,
           Gateway!CountTakenBack, Gateway!wsi_vars, Gateway!gateway_vars, Since
  <1> QED
    BY <1>2 DEF Gateway!Next, Gateway!Service

\* An ld_service that gets as far as lws_service.
LEMMA PollsImplements ==
    ASSUME TypeInv, TypeInv', ServicePolls
    PROVE  Gateway!Next
  <1>1. Gateway!RingWaiting(Ops(ring')) = RingWaiting(ring')
    BY OpsLength DEF TypeInv, RingOK, RingWaiting, Gateway!RingWaiting
  <1>2. ring \in Seq(TxPayload) /\ Len(ring) <= Capacity /\ Heartbeat \in TxPayload
    BY DEF TypeInv, RingOK, TypeOK, Heartbeat, TxPayload
  <1>3. Heartbeat.op = "HEARTBEAT"
    <2>1. last_seq \in Nat
      BY SessionAssumption DEF TypeInv, TypeOK
    <2> QED
      BY <2>1, HeartbeatFields DEF Heartbeat
  <1>4. Gateway!QueuesHeartbeat \/ Gateway!NoHeartbeatNeeded
    <2>1. CASE QueuesHeartbeat
      <3>1. Gateway!RingFree(Ops(ring)) # 0
        BY <1>2, <2>1, OpsLength DEF QueuesHeartbeat, RingFree, Gateway!RingFree
      <3>2. Ops(ring') = Gateway!RingInsert(Ops(ring), "HEARTBEAT")
        BY <1>2, <1>3, <2>1, Insert
           DEF QueuesHeartbeat, RingInsert, RingFree, Gateway!RingInsert, Gateway!RingFree
      <3>3. Elapsed' = FALSE
        BY <2>1, SetMeansOff DEF QueuesHeartbeat
      <3>4. hb_count = 0 /\ hb_count' = 1 /\ Due
        BY <2>1 DEF QueuesHeartbeat
      <3> QED
        BY <3>1, <3>2, <3>3, <3>4
           DEF Elapsed, Due, Gateway!QueuesHeartbeat, Gateway!HeartbeatDue, Gateway!MissedAck
    <2>2. CASE NoHeartbeatNeeded
      BY <1>2, <2>2 DEF ServicePolls, NoHeartbeatNeeded, Due, Since, Gateway!NoHeartbeatNeeded,
                        Gateway!HeartbeatDue
    <2> QED
      BY <2>1, <2>2 DEF ServicePolls
  <1>5. Gateway!WriteableRequest
    BY <1>1, SessionAssumption DEF ServicePolls, Gateway!WriteableRequest, TypeInv, TypeOK, FlagsOK
  <1>6. Gateway!ServicePolls
    BY <1>4, <1>5, SessionAssumption
       DEF ServicePolls, gateway_vars, Gateway!ServicePolls, Gateway!EntersService,
           Gateway!gateway_vars
  <1> QED
    BY <1>6 DEF Gateway!Next, Gateway!Service

\* Its return.
LEMMA ReturnsImplements ==
    ASSUME ServiceReturns
    PROVE  Gateway!Next
  <1>1. Gateway!ServiceReturns
    BY DEF ServiceReturns, context_vars, wsi_vars, gateway_vars, time_vars, Since,
           Gateway!ServiceReturns, Gateway!context_vars, Gateway!wsi_vars, Gateway!gateway_vars
  <1> QED
    BY <1>1 DEF Gateway!Next

\* What LdGateway's callback does is a step of LdGateway.
LEMMA CallbackIsStep ==
    ASSUME Gateway!Callback("wsi")
    PROVE  Gateway!Next
  BY DEF Gateway!Next

\* The end of the connection.
LEMMA GoneImplements ==
    ASSUME TypeInv, Gone
    PROVE  Gateway!Gone("wsi") /\ (IF wsi = "free" THEN NULL ELSE "wsi")' = NULL
  BY SessionAssumption
     DEF Gone, context_vars, time_vars, Since, Gateway!Gone, Gateway!NoMessage

\* A connection that is made, fails, breaks or goes away.
LEMMA ConnectionImplements ==
    ASSUME TypeInv, TypeInv', Connection
    PROVE  Gateway!Next
  <1>1. ASSUME ConnectionError PROVE Gateway!ConnectionError("wsi")
    BY <1>1, GoneImplements DEF ConnectionError, Gateway!ConnectionError
  <1>2. ASSUME Destroy PROVE Gateway!WsiDestroy("wsi")
    BY <1>2, GoneImplements DEF Destroy, Gateway!WsiDestroy
  <1>3. ASSUME Established PROVE Gateway!Established("wsi")
    <2>1. Elapsed' = FALSE
      BY <1>3, SetMeansOff DEF Established, EstablishedTimer, EstablishedCount, SetsTimer
    <2> QED
      BY <1>3, <2>1
         DEF Established, EstablishedCount, gateway_vars, Elapsed, Gateway!Established, Gateway!gateway_vars
  <1>4. ASSUME Drop PROVE Gateway!Drop("wsi")
    BY <1>4
       DEF Drop, context_vars, gateway_vars, time_vars, Since, Gateway!Drop, Gateway!Hangup,
           Gateway!context_vars, Gateway!gateway_vars
  <1> QED
    BY <1>1, <1>2, <1>3, <1>4, CallbackIsStep DEF Connection, Gateway!Callback

\* A payload that LdGateway parses in one piece.
LEMMA WholeImplements ==
    ASSUME NEW p \in Gateway!RxPayload,
           Receiving, Gateway!GatewaySends("wsi", p), Gateway!Parse("wsi", p),
           UNCHANGED <<pollout, identified>>, wsi' # "free"
    PROVE  Gateway!Next
  <1>1. Gateway!ReceiveWhole("wsi", p)
    BY DEF Receiving, Gateway!ReceiveWhole, Gateway!Receiving, Gateway!NoMessage
  <1> QED
    BY <1>1, CallbackIsStep DEF Gateway!Callback

\* HELLO.
LEMMA HelloImplements ==
    ASSUME TypeInv, TypeInv', ReceiveHello
    PROVE  Gateway!Next
  <1>1. Gateway!GatewaySends("wsi", "HELLO")
    BY DEF ReceiveHello, Gateway!GatewaySends
  <1>2. heartbeat_interval' # 0
    BY IntervalType DEF ReceiveHello
  <1>3. IdentifyData # NULL
    BY SessionAssumption, JsonAssumption DEF IdentifyData
  <1>b. (Since > Seconds(heartbeat_interval))' \in BOOLEAN
    OBVIOUS
  <1>4. Gateway!ParseHello("wsi")
    <2>1. CASE /\ "identify" \in IdentifyOutcomes
               /\ ring' = RingInsert(ring, Identify(IdentifyData)) /\ SetsTimer
               /\ UNCHANGED <<phase, wsi>>
      <3>1. Elapsed' = FALSE
        BY <2>1, SetMeansOff DEF SetsTimer
      <3>2. Identify(IdentifyData) \in TxPayload /\ Identify(IdentifyData).op = "IDENTIFY"
        BY <1>3, IdentifyFields DEF IdentifyData, TxPayload
      <3>3. Ops(ring') = Gateway!RingInsert(Ops(ring), "IDENTIFY")
        BY <2>1, <3>2, Insert
           DEF RingInsert, RingFree, Gateway!RingInsert, Gateway!RingFree, TypeInv, RingOK
      <3> QED
        BY <1>2, <2>1, <3>1, <3>3
           DEF ReceiveHello, IdentifyOutcomes, Elapsed, Gateway!ParseHello, Gateway!WithIdentify,
               Gateway!IdentifyOutcomes
    <2>2. CASE "error" \in IdentifyOutcomes /\ wsi' = "closing" /\ UNCHANGED <<phase, ring>>
      BY <1>2, <1>b, <2>2
         DEF ReceiveHello, IdentifyOutcomes, Gateway!ParseHello, Gateway!IdentifyOutcomes,
             Gateway!Hangup
    <2>3. CASE "crash" \in IdentifyOutcomes /\ phase' = "crashed" /\ UNCHANGED <<wsi, ring>>
      BY <1>2, <1>b, <2>3
         DEF ReceiveHello, IdentifyOutcomes, Gateway!ParseHello, Gateway!IdentifyOutcomes
    <2> QED
      BY <1>3, <2>1, <2>2, <2>3 DEF ReceiveHello
  <1>5. Gateway!Parse("wsi", "HELLO") /\ "HELLO" \in Gateway!RxPayload
    BY <1>4 DEF Gateway!Parse, Gateway!RxPayload
  <1>6. wsi' # "free"
    BY DEF ReceiveHello, Receiving
  <1> QED
    BY <1>1, <1>5, <1>6, WholeImplements DEF ReceiveHello

\* Every payload that comes in.
LEMMA ReceiveImplements ==
    ASSUME TypeInv, TypeInv', SessionInv, Receive
    PROVE  Gateway!Next
  <1>1. ASSUME ReceiveAck PROVE Gateway!Next
    <2>1. Gateway!GatewaySends("wsi", "ACK")
      BY <1>1 DEF ReceiveAck, Gateway!GatewaySends
    <2>2. Gateway!ParseAck
      BY <1>1 DEF ReceiveAck, CountedDown, wsi_vars, time_vars, Since, Gateway!ParseAck,
                  Gateway!CountedDown
    <2>3. Gateway!Parse("wsi", "ACK") /\ "ACK" \in Gateway!RxPayload
      BY <2>2 DEF Gateway!Parse, Gateway!RxPayload
    <2> QED
      BY <1>1, <2>1, <2>3, WholeImplements DEF ReceiveAck, Receiving, wsi_vars
  <1>2. in_session => identified
    BY DEF SessionInv
  <1>3. ASSUME ReceiveDispatch PROVE Gateway!Next
    <2> DEFINE p == IF gw_seq = 0 THEN "READY" ELSE "DISPATCH"
    <2>1. Gateway!GatewaySends("wsi", p)
      BY <1>2, <1>3 DEF ReceiveDispatch, Gateway!GatewaySends
    <2>2. Gateway!ParseDispatch("wsi", p)
      BY <1>3 DEF ReceiveDispatch, Receiving, time_vars, Since, Gateway!ParseDispatch,
                  Gateway!MayHangup, Gateway!Hangup, TypeInv, TypeOK, FlagsOK
    <2>3. Gateway!Parse("wsi", p) /\ p \in Gateway!RxPayload
      BY <2>2 DEF Gateway!Parse, Gateway!RxPayload
    <2> QED
      BY <1>3, <2>1, <2>3, WholeImplements DEF ReceiveDispatch
  <1>4. ASSUME ReceiveInvalid PROVE Gateway!Next
    <2>1. Gateway!GatewaySends("wsi", "INVALID")
      BY <1>2, <1>4 DEF ReceiveInvalid, Gateway!GatewaySends
    <2>2. Gateway!ParseInvalidSession
      BY <1>4 DEF ReceiveInvalid, wsi_vars, time_vars, Since, Gateway!ParseInvalidSession
    <2>3. Gateway!Parse("wsi", "INVALID") /\ "INVALID" \in Gateway!RxPayload
      BY <2>2 DEF Gateway!Parse, Gateway!RxPayload
    <2> QED
      BY <1>4, <2>1, <2>3, WholeImplements DEF ReceiveInvalid, Receiving, wsi_vars
  <1>5. ASSUME ReceiveControl PROVE Gateway!Next
    <2>1. Gateway!GatewaySends("wsi", "CONTROL")
      BY <1>5 DEF ReceiveControl, gateway_vars, Gateway!GatewaySends
    <2>2. UNCHANGED Gateway!parser_vars
      BY <1>5 DEF ReceiveControl, wsi_vars, gateway_vars, time_vars, Since, Gateway!parser_vars
    <2>3. Gateway!Parse("wsi", "CONTROL") /\ "CONTROL" \in Gateway!RxPayload
      BY <2>2 DEF Gateway!Parse, Gateway!RxPayload
    <2> QED
      BY <1>5, <2>1, <2>3, WholeImplements DEF ReceiveControl, Receiving, wsi_vars, gateway_vars
  <1>6. ASSUME ReceiveBad PROVE Gateway!Next
    <2>1. Gateway!GatewaySends("wsi", "BAD")
      BY <1>6 DEF ReceiveBad, gateway_vars, Gateway!GatewaySends
    <2>2. Gateway!ParseBad("wsi")
      BY <1>6 DEF ReceiveBad, gateway_vars, time_vars, Since, Gateway!ParseBad, Gateway!Hangup
    <2>3. Gateway!Parse("wsi", "BAD") /\ "BAD" \in Gateway!RxPayload
      BY <2>2 DEF Gateway!Parse, Gateway!RxPayload
    <2> QED
      BY <1>6, <2>1, <2>3, WholeImplements DEF ReceiveBad, gateway_vars
  <1> QED
    BY <1>1, <1>3, <1>4, <1>5, <1>6, HelloImplements DEF Receive

\* The payload that goes out.
LEMMA WriteImplements ==
    ASSUME TypeInv, Writeable
    PROVE  Gateway!Next
  <1>1. ring \in Seq(TxPayload) /\ Len(ring) <= Capacity
    BY DEF TypeInv, RingOK
  <1>2. Gateway!RingWaiting(Ops(ring)) = RingWaiting(ring)
    BY <1>1, OpsLength DEF RingWaiting, Gateway!RingWaiting
  <1>3. Gateway!Writeable("wsi")
    <2>1. CASE RingWaiting(ring) = 0
      BY <1>2, <2>1 DEF Writeable, Gateway!Writeable, time_vars, Since
    <2>2. CASE RingWaiting(ring) # 0
      <3>1. /\ Ops(ring') = Gateway!RingRest(Ops(ring))
            /\ Gateway!RingOldest(Ops(ring)) = RingOldest(ring).op
        BY <1>1, <2>2, Rest
           DEF Writeable, RingRest, RingOldest, Gateway!RingRest, Gateway!RingOldest
      <3>2. CASE GatewayReceives(RingOldest(ring)) /\ UNCHANGED wsi
        <4>1. Gateway!OnTheWire("wsi", RingOldest(ring).op)
          BY <3>2 DEF GatewayReceives, Gateway!OnTheWire
        <4> QED
          BY <1>2, <2>2, <3>1, <3>2, <4>1 DEF Writeable, Gateway!Writeable, time_vars, Since
      <3>3. CASE WriteFails
        <4>1. Gateway!WriteFails("wsi")
          BY <3>3 DEF WriteFails, Gateway!WriteFails, Gateway!Hangup
        <4> QED
          BY <1>2, <2>2, <3>1, <3>3, <4>1
             DEF Writeable, WriteFails, Gateway!Writeable, time_vars, Since
      <3> QED
        BY <2>2, <3>2, <3>3 DEF Writeable
    <2> QED
      BY <2>1, <2>2
  <1> QED
    BY <1>3, CallbackIsStep DEF Gateway!Callback

\* A second that passes is a timer that runs out, or nothing.
LEMMA TickImplements ==
    ASSUME TypeInv, TypeInv', TimeInv, TimeInv', Tick
    PROVE  GatewayStep
  <1>1. CASE stepped
    BY <1>1 DEF Tick, GatewayStep, TypeInv, TypeOK
  <1>2. CASE ~stepped
    <2>1. Since = age /\ Since' = age + 1 /\ UNCHANGED heartbeat_interval
      <3>1. /\ last_hb' = last_hb /\ clock' = clock + 1
            /\ age' = age + 1 /\ UNCHANGED heartbeat_interval
        BY DEF Tick, context_vars
      <3>2. Since = age /\ last_hb + age = clock
        BY <1>2, SinceIsAge DEF TimeInv, TypeInv
      <3>3. last_hb \in Nat /\ age \in Nat /\ clock \in Nat
        BY SessionAssumption DEF TypeInv, TypeOK
      <3>4. last_hb <= clock + 1 /\ clock + 1 - last_hb = age + 1
        BY <3>2, <3>3
      <3>5. Since' = age + 1
        BY <3>1, <3>3, <3>4 DEF Since
      <3> QED
        BY <3>1, <3>2, <3>5
    <2>2. Seconds(heartbeat_interval) \in Nat /\ age \in Nat
      BY SecondsType DEF TypeInv, TypeOK
    <2>3. CASE Elapsed'
      <3>1. Gateway!Elapse
        BY <2>3
           DEF Tick, Elapsed, context_vars, wsi_vars, gateway_vars, Gateway!Elapse,
               Gateway!wsi_vars, Gateway!gateway_vars
      <3> QED
        BY <3>1 DEF GatewayStep, Gateway!Next
    <2>4. CASE ~Elapsed'
      <3>1. ~Elapsed
        BY <2>1, <2>2, <2>4 DEF Elapsed
      <3>2. UNCHANGED Gateway!vars
        BY <2>4, <3>1
           DEF Tick, Elapsed, context_vars, wsi_vars, gateway_vars, Gateway!vars,
               Gateway!context_vars, Gateway!wsi_vars, Gateway!gateway_vars
      <3> QED
        BY <3>2 DEF GatewayStep
    <2> QED
      BY <2>3, <2>4
  <1> QED
    BY <1>1, <1>2

\* Every step.
LEMMA StepImplements ==
    ASSUME TypeInv, TypeInv', TimeInv, TimeInv', SessionInv, [Next]_vars
    PROVE  GatewayStep
  <1>1. UNCHANGED vars => GatewayStep
    BY DEF vars, context_vars, wsi_vars, gateway_vars, time_vars, Since, GatewayStep,
           Gateway!vars, Gateway!context_vars, Gateway!wsi_vars, Gateway!gateway_vars
  <1>2. SetBack => GatewayStep
    BY DEF SetBack, GatewayStep, TypeInv, TypeOK
  <1> QED
    BY <1>1, <1>2, ConnectsImplements, MissedAckImplements, CantFitImplements, PollsImplements,
       ReturnsImplements, ConnectionImplements, ReceiveImplements, WriteImplements, TickImplements
       DEF Next, Service, Crashed, GatewayStep

\* The client with its clock, numbers and payloads implements the client of LdGateway.
THEOREM SessionImplementsGateway == Spec => ImplementsGateway
  <1>1. Init => TimeInv /\ SessionInv
    BY DEF Init, TimeInv, SessionInv
  <1>2. TypeInv /\ TimeInv /\ SessionInv /\ [Next]_vars => (TypeInv /\ TimeInv /\ SessionInv)'
    BY TypeStep, TimeStep, SessionStep
  <1>3. TypeInv /\ TimeInv /\ SessionInv /\ TypeInv' /\ TimeInv' /\ [Next]_vars
            => [(clock' # clock /\ stepped') \/ Gateway!Next]_(Gateway!vars)
    BY StepImplements DEF GatewayStep
  <1> QED
    BY <1>1, <1>2, <1>3, InitType, PTL DEF Spec, ImplementsGateway

(***************************************************************************)
(* What is proved of LdGateway holds of LdSession                           *)
(***************************************************************************)

\* The theorems about the abstract client, read in the terms of this one.
Proved == INSTANCE LdGatewaySafetyProofs WITH
    Wsis <- {"wsi"}, Mixed <- Garbage, CloseCodes <- {4000}, Fragmented <- {},
    AppMayConnect <- FALSE,
    lws_wsi <- IF wsi = "free" THEN NULL ELSE "wsi",
    hb_armed <- heartbeat_interval # 0,
    hb_elapsed <- Since > Seconds(heartbeat_interval),
    ring <- Ops(ring),
    rx_buffer <- NULL,
    wsi_state <- [w \in {"wsi"} |-> wsi],
    pollout <- IF pollout THEN {"wsi"} ELSE {},
    rx_message <- [w \in {"wsi"} |-> "none"],
    greeted <- [w \in {"wsi"} |-> greeted],
    hello_parsed <- [w \in {"wsi"} |-> greeted],
    identified <- [w \in {"wsi"} |-> identified],
    unacked <- [w \in {"wsi"} |-> unacked]

\* It is the same abstract client.
LEMMA SameNext ==
    ASSUME Gateway!Next
    PROVE  Proved!Next
  BY DEF Gateway!RingWaiting, Proved!RingWaiting, Gateway!RingFree, Proved!RingFree, Gateway!RingInsert,
         Proved!RingInsert, Gateway!RingOldest, Proved!RingOldest, Gateway!RingRest,
         Proved!RingRest, Gateway!TxPayload, Proved!TxPayload, Gateway!RxPayload,
         Proved!RxPayload, Gateway!NoMessage, Proved!NoMessage, Gateway!FatalCloseCodes,
         Proved!FatalCloseCodes, Gateway!context_vars, Proved!context_vars, Gateway!wsi_vars,
         Proved!wsi_vars, Gateway!gateway_vars, Proved!gateway_vars, Gateway!vars, Proved!vars,
         Gateway!parser_vars, Proved!parser_vars, Gateway!ConnectStarts, Proved!ConnectStarts,
         Gateway!ConnectFails, Proved!ConnectFails, Gateway!ld_connect, Proved!ld_connect,
         Gateway!ServiceConnects, Proved!ServiceConnects, Gateway!ServiceCantConnect,
         Proved!ServiceCantConnect, Gateway!HeartbeatDue, Proved!HeartbeatDue,
         Gateway!CountedAgain, Proved!CountedAgain, Gateway!MissedAck, Proved!MissedAck,
         Gateway!DeadlineStands, Proved!DeadlineStands, Gateway!ServiceMissedAck,
         Proved!ServiceMissedAck, Gateway!CountTakenBack, Proved!CountTakenBack,
         Gateway!ServiceCantFitHeartbeat, Proved!ServiceCantFitHeartbeat,
         Gateway!QueuesHeartbeat, Proved!QueuesHeartbeat, Gateway!NoHeartbeatNeeded,
         Proved!NoHeartbeatNeeded, Gateway!WriteableRequest, Proved!WriteableRequest,
         Gateway!EntersService, Proved!EntersService, Gateway!ServicePolls,
         Proved!ServicePolls, Gateway!ServiceReturns, Proved!ServiceReturns, Gateway!Hangup,
         Proved!Hangup, Gateway!MayHangup, Proved!MayHangup, Gateway!Gone, Proved!Gone,
         Gateway!ConnectionError, Proved!ConnectionError, Gateway!Established,
         Proved!Established, Gateway!Drop, Proved!Drop, Gateway!WsiWhileClosing,
         Proved!WsiWhileClosing, Gateway!PeerInitiatedClose, Proved!PeerInitiatedClose,
         Gateway!WsiDestroy, Proved!WsiDestroy, Gateway!WithIdentify, Proved!WithIdentify,
         Gateway!IdentifyOutcomes, Proved!IdentifyOutcomes, Gateway!ParseHello,
         Proved!ParseHello, Gateway!CountedDown, Proved!CountedDown, Gateway!ParseAck,
         Proved!ParseAck, Gateway!ParseDispatch, Proved!ParseDispatch,
         Gateway!ParseInvalidSession, Proved!ParseInvalidSession, Gateway!ParseBad,
         Proved!ParseBad, Gateway!Parse, Proved!Parse, Gateway!GatewaySends,
         Proved!GatewaySends, Gateway!Receiving, Proved!Receiving, Gateway!ReceiveWhole,
         Proved!ReceiveWhole, Gateway!BufferAfterFirst, Proved!BufferAfterFirst,
         Gateway!ReceiveFirst, Proved!ReceiveFirst, Gateway!ReceiveMiddle,
         Proved!ReceiveMiddle, Gateway!ReceiveLast, Proved!ReceiveLast, Gateway!OnTheWire,
         Proved!OnTheWire, Gateway!WriteFails, Proved!WriteFails, Gateway!Writeable,
         Proved!Writeable, Gateway!AppConnects, Proved!AppConnects, Gateway!AppCantConnect,
         Proved!AppCantConnect, Gateway!Elapse, Proved!Elapse, Gateway!Crashed, Proved!Crashed,
         Gateway!Service, Proved!Service, Gateway!Callback, Proved!Callback, Gateway!Next,
         Proved!Next

LEMMA SameVars ==
    ASSUME UNCHANGED Gateway!vars
    PROVE  UNCHANGED Proved!vars
  BY DEF Gateway!vars, Proved!vars, Gateway!context_vars, Proved!context_vars,
         Gateway!wsi_vars, Proved!wsi_vars, Gateway!gateway_vars, Proved!gateway_vars

\* Its instance is one it was proved for.
LEMMA Applies ==
    /\ NULL \notin {"wsi"} /\ Garbage \notin {"wsi"} /\ Garbage # NULL
    /\ HbMax \in Nat /\ HbMax >= 2
    /\ {} \subseteq Proved!RxPayload
    /\ UninitOutcomes \subseteq {"identify", "error", "crash"}
    /\ FALSE \in BOOLEAN
    /\ Capacity \in Nat
  BY JsonAssumption, SessionAssumption, RingAssumption

\* It begins where LdGateway begins.
LEMMA GatewayInit == Init => Gateway!Init /\ Proved!Init
  <1> SUFFICES ASSUME Init PROVE Gateway!Init /\ Proved!Init
    OBVIOUS
  <1>1. Ops(ring) = <<>>
    BY DEF Init, Ops
  <1>2. (Since > Seconds(heartbeat_interval)) = FALSE
    BY SessionAssumption DEF Init, Since, Seconds
  <1>3. Gateway!Init
    BY <1>1, <1>2 DEF Init, Gateway!Init, Gateway!NoMessage
  <1> QED
    BY <1>3 DEF Gateway!Init, Proved!Init, Gateway!NoMessage, Proved!NoMessage

\* As long as nobody sets the clock back, every run of it is one of LdGateway, from the
\* first step on.
THEOREM SteadySessionImplements == Spec /\ []~stepped => Gateway!Spec
  <1>1. ~stepped' /\ [(clock' # clock /\ stepped') \/ Gateway!Next]_(Gateway!vars)
            => [Gateway!Next]_(Gateway!vars)
    OBVIOUS
  <1> QED
    BY <1>1, GatewayInit, SessionImplementsGateway, PTL DEF Spec, ImplementsGateway, Gateway!Spec

\* So it has its promises, and is a HeartbeatMonitor.
THEOREM SteadySessionMonitored ==
    Spec /\ []~stepped => []Gateway!MissedAckStopsService /\ Gateway!HeartbeatsAreMonitored
  <1>1. Gateway!Spec => Proved!Spec
    <2>1. Gateway!Init => Proved!Init
      BY DEF Gateway!Init, Proved!Init, Gateway!NoMessage, Proved!NoMessage
    <2>2. [Gateway!Next]_(Gateway!vars) => [Proved!Next]_(Proved!vars)
      BY SameNext, SameVars
    <2> QED
      BY <2>1, <2>2, PTL DEF Gateway!Spec, Proved!Spec
  <1>2. Proved!Spec => []Proved!MissedAckStopsService
    BY Applies, Proved!MissedAckIsFinal
  <1>3. Proved!Spec => Proved!HeartbeatsAreMonitored
    BY Applies, Proved!ImplementsMonitor
  <1>4. Proved!MissedAckStopsService => Gateway!MissedAckStopsService
    BY DEF Proved!MissedAckStopsService, Gateway!MissedAckStopsService, Proved!HeartbeatDue,
           Gateway!HeartbeatDue
  <1>5. Proved!HeartbeatsAreMonitored => Gateway!HeartbeatsAreMonitored
    <2>1. Proved!Monitor!Init => Gateway!Monitor!Init
      BY DEF Proved!Monitor!Init, Gateway!Monitor!Init, Proved!Monitor!Next, Gateway!Monitor!Next,
             Proved!Monitor!Send, Gateway!Monitor!Send, Proved!Monitor!Answer,
             Gateway!Monitor!Answer, Proved!Monitor!Lose, Gateway!Monitor!Lose,
             Proved!Monitor!Miss, Gateway!Monitor!Miss, Proved!Monitor!vars,
             Gateway!Monitor!vars, Proved!Outstanding, Gateway!Outstanding,
             Proved!HeartbeatsIn, Gateway!HeartbeatsIn
    <2>2. [Proved!Monitor!Next]_(Proved!Monitor!vars)
             => [Gateway!Monitor!Next]_(Gateway!Monitor!vars)
      BY DEF Proved!Monitor!Init, Gateway!Monitor!Init, Proved!Monitor!Next, Gateway!Monitor!Next,
             Proved!Monitor!Send, Gateway!Monitor!Send, Proved!Monitor!Answer,
             Gateway!Monitor!Answer, Proved!Monitor!Lose, Gateway!Monitor!Lose,
             Proved!Monitor!Miss, Gateway!Monitor!Miss, Proved!Monitor!vars,
             Gateway!Monitor!vars, Proved!Outstanding, Gateway!Outstanding,
             Proved!HeartbeatsIn, Gateway!HeartbeatsIn
    <2> QED
      BY <2>1, <2>2, PTL DEF Proved!HeartbeatsAreMonitored, Gateway!HeartbeatsAreMonitored,
                             Proved!Monitor!Spec, Gateway!Monitor!Spec
  <1> QED
    BY <1>1, <1>2, <1>3, <1>4, <1>5, SteadySessionImplements, PTL

\* The inductive invariant of LdGateway's promises.  None of it is about the timer.
GatewayInv ==
    /\ Proved!TypeOK /\ Proved!Accounting
    /\ Proved!OneGatewayConnection /\ Proved!NothingBeforeFirstHello /\ Proved!Answered

\* Setting the clock back, and what the time does after that, touch nothing but the timer.
LEMMA ClockIsTimer ==
    ASSUME [Next]_vars, clock' # clock
    PROVE  UNCHANGED <<phase, context_vars, wsi_vars, gateway_vars>>
  BY DEF Next, Service, Connects, ServiceMissedAck, ServiceCantFit, ServicePolls,
         QueuesHeartbeat, NoHeartbeatNeeded, ServiceReturns, Connection, ConnectionError, Destroy,
         Gone, Established, EstablishedTimer, SetsTimer, Drop, Receive, ReceiveHello, ReceiveAck,
         ReceiveDispatch, ReceiveInvalid, ReceiveControl, ReceiveBad, Writeable, Tick, SetBack,
         Crashed, vars, time_vars

LEMMA TimerIsApart ==
    ASSUME GatewayInv, UNCHANGED <<phase, context_vars, wsi_vars, gateway_vars>>
    PROVE  GatewayInv'
  <1>1. /\ phase' = phase /\ heartbeat_interval' = heartbeat_interval
        /\ hb_count' = hb_count /\ ring' = ring /\ session' = session
        /\ wsi' = wsi /\ pollout' = pollout
        /\ greeted' = greeted /\ identified' = identified /\ unacked' = unacked
    BY DEF context_vars, wsi_vars, gateway_vars
  <1>2. Ops(ring)' = Ops(ring)
    BY <1>1 DEF Ops
  <1>3. Proved!TypeOK'
    BY <1>1, <1>2 DEF GatewayInv, Proved!TypeOK
  <1>4. Proved!Accounting'
    BY <1>1, <1>2
       DEF GatewayInv, Proved!Accounting, Proved!OneQueued, Proved!OneSent, Proved!OneEach,
           Proved!OneAnswered, Proved!QueuedAlone, Proved!SentAlone, Proved!AnswerCounted,
           Proved!HeartbeatsIn
  <1>5. Proved!OneGatewayConnection' /\ Proved!NothingBeforeFirstHello'
    BY <1>1, <1>2 DEF GatewayInv, Proved!OneGatewayConnection, Proved!NothingBeforeFirstHello
  <1>6. Proved!Answered'
    BY <1>1, <1>2 DEF GatewayInv, Proved!Answered, Proved!AnsweredFor, Proved!HasIdentify
  <1> QED
    BY <1>3, <1>4, <1>5, <1>6 DEF GatewayInv

\* A step of LdGateway keeps it.
LEMMA GatewayInvStep ==
    ASSUME Capacity >= 2, GatewayInv, [Proved!Next]_(Proved!vars)
    PROVE  GatewayInv'
  <1>1. Proved!TypeOK'
    BY Applies, Proved!TypeStep DEF GatewayInv
  <1>2. Proved!Accounting'
    BY Applies, <1>1, Proved!AccountingStep DEF GatewayInv
  <1>3. Proved!OneGatewayConnection'
    BY Applies, Proved!OneConnectionStep DEF GatewayInv
  <1>4. Proved!NothingBeforeFirstHello'
    BY Applies, <1>1, Proved!NothingBeforeStep DEF GatewayInv
  <1>5. Proved!Answered'
    BY Applies, Proved!AnsweredStep DEF GatewayInv
  <1> QED
    BY <1>1, <1>2, <1>3, <1>4, <1>5 DEF GatewayInv

\* GatewayPromises: with the clock set back at will, too.
THEOREM SessionKeepsPromises == Capacity >= 2 /\ Spec => []GatewayPromises
  <1> SUFFICES ASSUME Capacity >= 2 PROVE Spec => []GatewayPromises
    OBVIOUS
  <1>1. Proved!Init => GatewayInv
    <2>1. Proved!Init => Proved!TypeOK /\ Proved!Accounting
      BY Applies, Proved!InitType, Proved!InitAccounting
    <2>2. Proved!Init => /\ Proved!OneGatewayConnection /\ Proved!NothingBeforeFirstHello
                         /\ Proved!Answered
      BY DEF Proved!Init, Proved!OneGatewayConnection, Proved!NothingBeforeFirstHello,
             Proved!Answered
    <2> QED
      BY <2>1, <2>2 DEF GatewayInv
  <1>2. (/\ GatewayInv /\ [Next]_vars
         /\ [(clock' # clock /\ stepped') \/ Gateway!Next]_(Gateway!vars))
            => GatewayInv'
    <2>1. ASSUME GatewayInv, [Next]_vars, clock' # clock PROVE GatewayInv'
      BY <2>1, ClockIsTimer, TimerIsApart
    <2>2. ASSUME GatewayInv, Gateway!Next \/ UNCHANGED Gateway!vars PROVE GatewayInv'
      BY <2>2, SameNext, SameVars, GatewayInvStep
    <2> QED
      BY <2>1, <2>2
  <1>3. GatewayInv => GatewayPromises
    <2>1. GatewayInv => Proved!OneHeartbeatOutstanding
      BY Applies, Proved!AccountingMeaning DEF GatewayInv
    <2>2. GatewayInv => Proved!HelloAnswered
      BY DEF GatewayInv, Proved!Answered, Proved!HelloAnswered, Proved!HasIdentify
    <2>3. Proved!OneHeartbeatOutstanding => Gateway!OneHeartbeatOutstanding
      BY DEF Proved!OneHeartbeatOutstanding, Gateway!OneHeartbeatOutstanding,
             Proved!Outstanding, Gateway!Outstanding, Proved!HeartbeatsIn, Gateway!HeartbeatsIn
    <2>4. Proved!NothingBeforeFirstHello => Gateway!NothingBeforeFirstHello
      BY DEF Proved!NothingBeforeFirstHello, Gateway!NothingBeforeFirstHello
    <2>5. Proved!HelloAnswered => Gateway!HelloAnswered
      BY DEF Proved!HelloAnswered, Gateway!HelloAnswered
    <2> QED
      BY <2>1, <2>2, <2>3, <2>4, <2>5 DEF GatewayInv, GatewayPromises
  <1> QED
    BY <1>1, <1>2, <1>3, GatewayInit, SessionImplementsGateway, PTL DEF Spec, ImplementsGateway

=============================================================================
