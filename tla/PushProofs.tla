----------------------------- MODULE PushProofs -----------------------------
(***************************************************************************)
(* Theorems about the push (SyncPush), for any devices, records, requests  *)
(* and operations.                                                         *)
(*                                                                         *)
(* A device sends one entry at a time, by entity and age, and forgets the  *)
(* rest of its list as soon as it hears an error or gives up.  So a change *)
(* that is not settled is sent or still to be sent before whatever builds  *)
(* on it.                                                                  *)
(***************************************************************************)
EXTENDS SyncPush, TLAPS

Settled == {"SYNCED", "CONFLICT", "FAILED"}

\* Device d waits for the answer to o.
InFlight(d, o) == awaiting[d] # NoOp /\ request[awaiting[d]].op = o

\* p may build on o: the same device queued o before, for a record of the same or an
\* earlier entity.
Builds(p, o) ==
    /\ o <= p
    /\ {Target(o), Target(p)} \subseteq Records
    /\ Rank[Target(o)] <= Rank[Target(p)]
    /\ outbox[p].device = outbox[o].device

\* The ids of the outbox are given out in their order.
OutboxInv ==
    /\ \A o \in Ops : IF outbox[o].status = "none" THEN outbox[o] = NoEntry
                      ELSE outbox[o].record \in Records /\ outbox[o].device \in Devices
    /\ \A o, p \in Ops : o <= p /\ outbox[o].status = "none" => outbox[p].status = "none"

\* A request works on an entry; what is answered as done has been written.
RequestsInv ==
    /\ \A q \in Requests : request[q].pc # "idle" =>
        /\ request[q].op \in Ops
        /\ outbox[request[q].op].status # "none"
        /\ request[q].pc = "done" => wrote[request[q].op] > 0
    /\ \A o \in Ops :
        /\ answers[o] = "done" => wrote[o] > 0
        /\ outbox[o].status = "SYNCED" => wrote[o] > 0 \/ answers[o] = "refused"

\* A device's list holds pending entries of its own, and so does its request.
LoopsInv ==
    /\ \A d \in Devices :
        /\ \A o \in todo[d] : outbox[o].status = "PENDING" /\ outbox[o].device = d
        /\ awaiting[d] # NoOp => request[awaiting[d]].pc # "idle"
        /\ \A o \in Ops : InFlight(d, o) =>
            outbox[o].status = "PENDING" /\ outbox[o].device = d /\ o \notin todo[d]
    /\ \A o, p \in Ops : Builds(p, o) /\ outbox[o].status = "PENDING" =>
        /\ outbox[p].status \notin Settled
        /\ \A d \in Devices :
            /\ p \in todo[d] => o \in todo[d] \/ InFlight(d, o)
            /\ InFlight(d, p) => o = p

PushInv == SyncTypeOK /\ OutboxInv /\ RequestsInv /\ LoopsInv

-----------------------------------------------------------------------------

\* What the types say of an entry, a row and a request.
LEMMA PushTypes ==
    ASSUME SyncTypeOK
    PROVE  /\ \A o \in Ops : /\ outbox[o] \in Entry /\ o \in Nat
                             /\ wrote[o] \in Nat /\ NoOp \notin Ops
           /\ \A q \in Requests : request[q] \in Request /\ q # NoOp
           /\ \A d \in Devices : todo[d] \subseteq Ops /\ awaiting[d] \in Requests \cup {NoOp}
BY SyncPushAssumption DEF SyncTypeOK, Ops

LEMMA BasesAreNumbers == \A b \in BaseVersions \cup {0} : b \in Nat
BY SyncPushAssumption

LEMMA PushInitInv == SyncInit => PushInv
<1> SUFFICES ASSUME SyncInit PROVE PushInv
  OBVIOUS
<1>1. /\ NoEntry \in Entry /\ NoEntry.status = "none" /\ NoEntry.record = NoOp
      /\ NoEntry.kind = "none"
  BY DEF NoEntry, Entry
<1>2. /\ NoRow \in Row /\ IdleRequest \in Request /\ IdleRequest.pc = "idle"
  BY DEF NoRow, Row, IdleRequest, Request
<1>3. /\ \A o \in Ops : outbox[o] = NoEntry /\ answers[o] = "none"
      /\ \A q \in Requests : request[q] = IdleRequest
      /\ \A d \in Devices : todo[d] = {} /\ awaiting[d] = NoOp
  BY DEF SyncInit
<1>4. SyncTypeOK
  <2>1. 0 \in 0..Edits
    BY SyncPushAssumption
  <2>2. rows \in [Records -> Row] /\ request \in [Requests -> Request] /\ outbox \in [Ops -> Entry]
    BY <1>1, <1>2 DEF SyncInit
  <2>3. QED
    BY <1>1, <1>2, <1>3, <2>1, <2>2 DEF SyncInit, SyncTypeOK
<1>5. OutboxInv
  BY <1>1, <1>3 DEF OutboxInv, Kind
<1>6. RequestsInv
  BY <1>1, <1>2, <1>3 DEF RequestsInv
<1>7. LoopsInv
  BY <1>1, <1>3 DEF LoopsInv, InFlight, Builds, Target
<1>8. QED
  BY <1>4, <1>5, <1>6, <1>7 DEF PushInv

-----------------------------------------------------------------------------
(* The device                                                              *)

LEMMA MakeChangeKeepsInv ==
    ASSUME PushInv, NEW d \in Devices, NEW k \in Kinds, NEW r \in Records, NEW b \in BaseVersions,
           MakeChange(d, k, r, b)
    PROVE  PushInv'
<1>1. PICK n \in Ops :
        /\ outbox[n].status = "none"
        /\ \A p \in Ops : outbox[p].status = "none" => n <= p
        /\ outbox' = [outbox EXCEPT ![n] =
               [status |-> "PENDING", device |-> d, kind |-> k, record |-> r, base |-> b]]
        /\ UNCHANGED <<serverVars, onlineVars, todo, awaiting>>
  BY DEF MakeChange
<1> DEFINE new == [status |-> "PENDING", device |-> d, kind |-> k, record |-> r, base |-> b]
<1>2. /\ new \in Entry /\ new.status = "PENDING" /\ new.device = d /\ new.kind = k /\ new.record = r
  BY SyncPushAssumption DEF Entry
<1>3. outbox' = [outbox EXCEPT ![n] = new] /\ outbox \in [Ops -> Entry]
  BY <1>1 DEF PushInv, SyncTypeOK
<1> HIDE DEF new
<1>4. \A o \in Ops : outbox'[o] = IF o = n THEN new ELSE outbox[o]
  BY <1>3
<1>5. /\ UNCHANGED <<rows, answers, request, wrote, editor, edits, todo, awaiting>>
      /\ outbox[n].status = "none" /\ \A p \in Ops : outbox[p].status = "none" => n <= p
  BY <1>1 DEF serverVars, onlineVars
<1>6. k = "CREATE" => \A o \in Ops : outbox[o].record # r
  BY DEF MakeChange, Unused
<1>7. SyncTypeOK /\ OutboxInv /\ RequestsInv /\ LoopsInv
  BY DEF PushInv
<1>8. outbox[n] = NoEntry /\ NoEntry.kind = "none" /\ NoEntry.record = NoOp /\ NoOp \notin Records
  BY <1>5, <1>7, SyncPushAssumption DEF OutboxInv, NoEntry
<1>9. SyncTypeOK'
  <2>1. outbox' \in [Ops -> Entry]
    BY <1>2, <1>3
  <2>2. \A q \in Requests : request[q].pc # "idle" => outbox'[request[q].op].record \in Records
    BY <1>2, <1>4, <1>7 DEF SyncTypeOK, RequestsInv
  <2>3. \A o \in Ops : answers[o] # "none" => outbox'[o].status # "none"
    BY <1>2, <1>4, <1>7 DEF SyncTypeOK
  <2>4. QED
    BY <1>5, <1>7, <2>1, <2>2, <2>3 DEF SyncTypeOK
<1>10. OutboxInv'
  <2>1. \A o \in Ops : IF outbox'[o].status = "none" THEN outbox'[o] = NoEntry
                       ELSE outbox'[o].record \in Records /\ outbox'[o].device \in Devices
    BY <1>2, <1>4, <1>7 DEF OutboxInv
  <2>2. ASSUME NEW o \in Ops, NEW p \in Ops, o <= p, outbox'[o].status = "none"
        PROVE  outbox'[p].status = "none"
    <3>1. o # n /\ outbox[o].status = "none" /\ outbox[p].status = "none"
      BY <1>2, <1>4, <1>7, <2>2 DEF OutboxInv
    <3>2. n <= o /\ o \in Nat /\ p \in Nat /\ n \in Nat
      BY <1>5, <1>7, <3>1, PushTypes
    <3>3. p # n
      BY <2>2, <3>1, <3>2
    <3>4. QED
      BY <1>4, <3>1, <3>3
  <2>3. QED
    BY <2>1, <2>2 DEF OutboxInv
<1>11. RequestsInv'
  BY <1>2, <1>4, <1>5, <1>7 DEF RequestsInv
<1>12. LoopsInv'
  <2>1. \A e \in Devices, o \in Ops : InFlight(e, o)' = InFlight(e, o)
    BY <1>5 DEF InFlight
  <2>2. \A e \in Devices :
            /\ n \notin todo[e] /\ ~InFlight(e, n)
            /\ todo[e] \subseteq Ops
    BY <1>5, <1>7, PushTypes DEF LoopsInv
  <2>3. ASSUME NEW e \in Devices
        PROVE  /\ \A o \in todo[e] : outbox'[o].status = "PENDING" /\ outbox'[o].device = e
               /\ awaiting[e] # NoOp => request[awaiting[e]].pc # "idle"
               /\ \A o \in Ops : InFlight(e, o) =>
                    outbox'[o].status = "PENDING" /\ outbox'[o].device = e /\ o \notin todo[e]
    <3>1. \A o \in Ops \ {n} : outbox'[o] = outbox[o]
      BY <1>4
    <3>2. QED
      BY <1>7, <2>2, <3>1 DEF LoopsInv
  <2>4. ASSUME NEW o \in Ops, NEW p \in Ops, Builds(p, o)', outbox'[o].status = "PENDING"
        PROVE  /\ outbox'[p].status \notin Settled
               /\ \A e \in Devices :
                    /\ p \in todo[e] => o \in todo[e] \/ InFlight(e, o)
                    /\ InFlight(e, p) => o = p
    <3>1. CASE o = n
      <4>1. n <= p /\ outbox'[p].record \in Records
        BY <2>4, <3>1 DEF Builds, Target
      <4>2. p # n => outbox[p].status = "none" /\ outbox[p].record = NoOp
        BY <1>4, <1>5, <1>7, <1>8, <4>1 DEF OutboxInv
      <4>3. p = n
        BY <1>4, <1>8, <4>1, <4>2
      <4>4. QED
        BY <1>2, <1>4, <2>2, <3>1, <4>3 DEF Settled
    <3>2. CASE o # n /\ p = n
      BY <1>2, <1>4, <2>2, <3>2 DEF Settled
    <3>3. CASE o # n /\ p # n
      <4>1. outbox'[o] = outbox[o] /\ outbox'[p] = outbox[p]
        BY <1>4, <3>3
      <4>2. Builds(p, o) /\ outbox[o].status = "PENDING"
        BY <2>4, <4>1 DEF Builds, Target
      <4>3. QED
        BY <1>7, <4>1, <4>2 DEF LoopsInv
    <3>4. QED
      BY <3>1, <3>2, <3>3
  <2>5. QED
    BY <1>5, <2>1, <2>3, <2>4 DEF LoopsInv
<1>13. QED
  BY <1>9, <1>10, <1>11, <1>12 DEF PushInv

\* The entries and the tables do not change: what is left of the types and the outbox.
LEMMA OutboxStays ==
    ASSUME PushInv, UNCHANGED outbox
    PROVE  /\ OutboxInv'
           /\ \A o, p \in Ops : Builds(p, o)' = Builds(p, o)
BY DEF PushInv, OutboxInv, Builds, Target

LEMMA StartPushKeepsInv ==
    ASSUME PushInv, NEW d \in Devices, StartPush(d)
    PROVE  PushInv'
<1>1. /\ UNCHANGED <<rows, answers, request, wrote, editor, edits, outbox, awaiting>>
      /\ todo' = [todo EXCEPT ![d] = Pending(d)]
      /\ awaiting[d] = NoOp
      /\ todo \in [Devices -> SUBSET Ops]
      /\ Pending(d) \in SUBSET Ops
  BY DEF StartPush, serverVars, onlineVars, PushInv, SyncTypeOK, Pending
<1>2. /\ todo' \in [Devices -> SUBSET Ops]
      /\ \A e \in Devices : todo'[e] = IF e = d THEN Pending(d) ELSE todo[e]
  BY <1>1
<1>3. SyncTypeOK'
  BY <1>1, <1>2 DEF PushInv, SyncTypeOK
<1>4. RequestsInv'
  BY <1>1 DEF PushInv, RequestsInv
<1>5. \A e \in Devices, o \in Ops : /\ InFlight(e, o)' = InFlight(e, o)
                                    /\ ~InFlight(d, o)
  BY <1>1 DEF InFlight
<1>6. \A o \in Ops : o \in Pending(d) <=> outbox[o].status = "PENDING" /\ outbox[o].device = d
  BY DEF Pending
<1>7. LoopsInv'
  <2>1. ASSUME NEW e \in Devices
        PROVE  /\ \A o \in todo'[e] : outbox[o].status = "PENDING" /\ outbox[o].device = e
               /\ awaiting[e] # NoOp => request[awaiting[e]].pc # "idle"
               /\ \A o \in Ops : InFlight(e, o) =>
                    outbox[o].status = "PENDING" /\ outbox[o].device = e /\ o \notin todo'[e]
    BY <1>1, <1>2, <1>5, <1>6 DEF PushInv, LoopsInv
  <2>2. ASSUME NEW o \in Ops, NEW p \in Ops, Builds(p, o), outbox[o].status = "PENDING"
        PROVE  /\ outbox[p].status \notin Settled
               /\ \A e \in Devices :
                    /\ p \in todo'[e] => o \in todo'[e] \/ InFlight(e, o)
                    /\ InFlight(e, p) => o = p
    BY <1>2, <1>6, <2>2 DEF PushInv, LoopsInv, Builds
  <2>3. QED
    BY <1>1, <1>5, <2>1, <2>2, OutboxStays DEF LoopsInv
<1>8. QED
  BY <1>1, <1>3, <1>4, <1>7, OutboxStays DEF PushInv

LEMMA SendKeepsInv ==
    ASSUME PushInv, NEW d \in Devices, NEW q \in Requests, Send(d, q)
    PROVE  PushInv'
<1>1. PICK n \in todo[d] :
        /\ \A p \in todo[d] : Before(n, p)
        /\ todo' = [todo EXCEPT ![d] = @ \ {n}]
        /\ request' = [request EXCEPT ![q] = [IdleRequest EXCEPT !.pc = "received", !.op = n]]
  BY DEF Send
<1>2. SyncTypeOK /\ OutboxInv /\ RequestsInv /\ LoopsInv
  BY DEF PushInv
<1> DEFINE new == [IdleRequest EXCEPT !.pc = "received", !.op = n]
<1>3. /\ n \in Ops /\ outbox[n].status = "PENDING" /\ outbox[n].device = d
      /\ outbox[n].record \in Records
  BY <1>1, <1>2, PushTypes DEF LoopsInv, OutboxInv
<1>4. /\ new \in Request /\ new.pc = "received" /\ new.op = n
  BY <1>3 DEF IdleRequest, Request, NoRow, Row
<1>5. /\ request' = [request EXCEPT ![q] = new] /\ request \in [Requests -> Request]
      /\ awaiting' = [awaiting EXCEPT ![d] = q] /\ awaiting \in [Devices -> Requests \cup {NoOp}]
      /\ todo \in [Devices -> SUBSET Ops]
      /\ awaiting[d] = NoOp /\ request[q].pc = "idle" /\ q # NoOp
      /\ UNCHANGED <<rows, answers, wrote, outbox, editor, edits>>
  BY <1>1, <1>2, PushTypes DEF Send, onlineVars, SyncTypeOK
<1> HIDE DEF new
<1>6. /\ \A p \in Requests : request'[p] = IF p = q THEN new ELSE request[p]
      /\ \A e \in Devices : awaiting'[e] = IF e = d THEN q ELSE awaiting[e]
      /\ \A e \in Devices : todo'[e] = IF e = d THEN todo[d] \ {n} ELSE todo[e]
      /\ request' \in [Requests -> Request] /\ awaiting' \in [Devices -> Requests \cup {NoOp}]
      /\ todo' \in [Devices -> SUBSET Ops]
  BY <1>1, <1>4, <1>5
<1>7. SyncTypeOK'
  <2>1. \A p \in Requests : request'[p].pc # "idle" => outbox[request'[p].op].record \in Records
    BY <1>2, <1>3, <1>4, <1>6 DEF SyncTypeOK
  <2>2. QED
    BY <1>2, <1>5, <1>6, <2>1 DEF SyncTypeOK
<1>8. RequestsInv'
  BY <1>2, <1>3, <1>4, <1>5, <1>6 DEF RequestsInv
<1>9. \A e \in Devices \ {d} : awaiting[e] # q
  BY <1>2, <1>5 DEF LoopsInv
<1>10. \A e \in Devices, o \in Ops : InFlight(e, o)' <=> IF e = d THEN o = n ELSE InFlight(e, o)
  <2>1. ASSUME NEW e \in Devices \ {d}, NEW o \in Ops PROVE InFlight(e, o)' <=> InFlight(e, o)
    BY <1>5, <1>6, <1>9 DEF InFlight
  <2>2. ASSUME NEW o \in Ops PROVE InFlight(d, o)' <=> o = n
    BY <1>4, <1>5, <1>6 DEF InFlight
  <2>3. QED
    BY <2>1, <2>2
<1>11. LoopsInv'
  <2>1. ASSUME NEW e \in Devices
        PROVE  /\ \A o \in todo'[e] : outbox[o].status = "PENDING" /\ outbox[o].device = e
               /\ awaiting'[e] # NoOp => request'[awaiting'[e]].pc # "idle"
               /\ \A o \in Ops : InFlight(e, o)' =>
                    outbox[o].status = "PENDING" /\ outbox[o].device = e /\ o \notin todo'[e]
    <3>1. CASE e = d
      <4>1. awaiting'[e] = q /\ request'[q] = new /\ todo'[e] = todo[d] \ {n}
        BY <1>6, <3>1
      <4>2. \A o \in todo[d] : outbox[o].status = "PENDING" /\ outbox[o].device = d
        BY <1>2 DEF LoopsInv
      <4>3. QED
        BY <1>3, <1>4, <1>10, <3>1, <4>1, <4>2
    <3>2. CASE e # d
      <4>1. awaiting'[e] = awaiting[e] /\ todo'[e] = todo[e]
        BY <1>6, <3>2
      <4>2. awaiting[e] # NoOp => awaiting[e] \in Requests /\ request'[awaiting[e]] = request[awaiting[e]]
        BY <1>5, <1>6, <1>9, <3>2
      <4>3. QED
        BY <1>2, <1>10, <3>2, <4>1, <4>2 DEF LoopsInv
    <3>3. QED
      BY <3>1, <3>2
  <2>2. ASSUME NEW o \in Ops, NEW p \in Ops, Builds(p, o), outbox[o].status = "PENDING", NEW e \in Devices
        PROVE  /\ p \in todo'[e] => o \in todo'[e] \/ InFlight(e, o)'
               /\ InFlight(e, p)' => o = p
    <3>1. /\ p \in todo[e] => o \in todo[e] \/ InFlight(e, o)
          /\ InFlight(e, p) => o = p
      BY <1>2, <2>2 DEF LoopsInv
    <3>2. CASE e # d
      BY <1>6, <1>10, <3>1, <3>2
    <3>3. CASE e = d
      <4>1. ~InFlight(d, o)
        BY <1>5 DEF InFlight
      <4>2. p \in todo[d] => o \in todo[d]
        BY <3>1, <3>3, <4>1
      <4>3. p = n => o = n
        <5>1. SUFFICES ASSUME p = n PROVE o = n
          OBVIOUS
        <5>2. /\ Before(n, o) /\ o <= n /\ o \in Nat /\ n \in Nat
              /\ Target(o) \in Records /\ Target(n) \in Records
              /\ Rank[Target(o)] <= Rank[Target(n)]
          BY <1>1, <1>2, <1>3, <2>2, <4>2, <5>1, PushTypes DEF Builds
        <5>3. Rank[Target(o)] \in Nat /\ Rank[Target(n)] \in Nat
          BY <5>2, SyncPushAssumption
        <5>4. n <= o
          BY <5>2, <5>3 DEF Before
        <5>5. QED
          BY <5>2, <5>4
      <4>4. QED
        BY <1>6, <1>10, <3>3, <4>2, <4>3
    <3>4. QED
      BY <3>2, <3>3
  <2>3. \A o, p \in Ops : Builds(p, o) /\ outbox[o].status = "PENDING" => outbox[p].status \notin Settled
    BY <1>2 DEF LoopsInv
  <2>4. QED
    BY <1>5, <2>1, <2>2, <2>3, OutboxStays DEF LoopsInv
<1>12. QED
  BY <1>5, <1>7, <1>8, <1>11, OutboxStays DEF PushInv

\* A device hears an error, or stops waiting: the loops of some devices end.
LEMMA LoopsEnd ==
    ASSUME PushInv, NEW D \in SUBSET Devices,
           UNCHANGED <<rows, answers, wrote, outbox, editor, edits>>,
           awaiting' = [d \in Devices |-> IF d \in D THEN NoOp ELSE awaiting[d]],
           todo' \in [Devices -> SUBSET Ops],
           \A d \in Devices : todo'[d] = todo[d] \/ (d \in D /\ todo'[d] = {}),
           \A d \in D : awaiting[d] # NoOp => todo'[d] = {},
           \/ request' = request
           \/ request' = [q \in Requests |-> IdleRequest] /\ \A d \in Devices \ D : awaiting[d] = NoOp
    PROVE  PushInv'
<1>1. SyncTypeOK /\ OutboxInv /\ RequestsInv /\ LoopsInv
  BY DEF PushInv
<1>2. /\ IdleRequest \in Request /\ IdleRequest.pc = "idle"
      /\ awaiting \in [Devices -> Requests \cup {NoOp}]
  BY <1>1 DEF IdleRequest, Request, NoRow, Row, SyncTypeOK
<1>3. /\ awaiting' \in [Devices -> Requests \cup {NoOp}]
      /\ \A d \in Devices : awaiting'[d] = IF d \in D THEN NoOp ELSE awaiting[d]
  BY <1>2
<1>4. SyncTypeOK'
  BY <1>1, <1>2, <1>3 DEF SyncTypeOK
<1>5. RequestsInv'
  BY <1>1, <1>2 DEF RequestsInv
<1>6. \A d \in Devices, o \in Ops : InFlight(d, o)' <=> d \notin D /\ InFlight(d, o)
  BY <1>3 DEF InFlight
<1>7. LoopsInv'
  <2>1. ASSUME NEW e \in Devices
        PROVE  /\ \A o \in todo'[e] : outbox[o].status = "PENDING" /\ outbox[o].device = e
               /\ awaiting'[e] # NoOp => request'[awaiting'[e]].pc # "idle"
               /\ \A o \in Ops : InFlight(e, o)' =>
                    outbox[o].status = "PENDING" /\ outbox[o].device = e /\ o \notin todo'[e]
    BY <1>1, <1>3, <1>6 DEF LoopsInv
  <2>2. ASSUME NEW o \in Ops, NEW p \in Ops, Builds(p, o), outbox[o].status = "PENDING", NEW e \in Devices
        PROVE  /\ p \in todo'[e] => o \in todo'[e] \/ InFlight(e, o)'
               /\ InFlight(e, p)' => o = p
    <3>1. /\ p \in todo[e] => o \in todo[e] \/ InFlight(e, o)
          /\ InFlight(e, p) => o = p
      BY <1>1, <2>2 DEF LoopsInv
    <3>2. e \in D /\ InFlight(e, o) => todo'[e] = {}
      BY DEF InFlight
    <3>3. QED
      BY <1>6, <3>1, <3>2
  <2>3. \A o, p \in Ops : Builds(p, o) /\ outbox[o].status = "PENDING" => outbox[p].status \notin Settled
    BY <1>1 DEF LoopsInv
  <2>4. QED
    BY <2>1, <2>2, <2>3, OutboxStays DEF LoopsInv
<1>8. QED
  BY <1>4, <1>5, <1>7, OutboxStays DEF PushInv

LEMMA GiveUpKeepsInv ==
    ASSUME PushInv, NEW d \in Devices, GiveUp(d)
    PROVE  PushInv'
<1>1. /\ awaiting \in [Devices -> Requests \cup {NoOp}] /\ todo \in [Devices -> SUBSET Ops]
      /\ awaiting' = [awaiting EXCEPT ![d] = NoOp] /\ todo' = [todo EXCEPT ![d] = {}]
      /\ UNCHANGED <<rows, answers, wrote, request, outbox, editor, edits>>
  BY DEF GiveUp, PushInv, SyncTypeOK, serverVars, onlineVars
<1>2. awaiting' = [e \in Devices |-> IF e \in {d} THEN NoOp ELSE awaiting[e]]
  BY <1>1
<1>3. todo' \in [Devices -> SUBSET Ops] /\ \A e \in Devices : todo'[e] = IF e = d THEN {} ELSE todo[e]
  BY <1>1
<1>4. /\ {d} \in SUBSET Devices
      /\ \A e \in Devices : todo'[e] = todo[e] \/ (e \in {d} /\ todo'[e] = {})
      /\ \A e \in {d} : awaiting[e] # NoOp => todo'[e] = {}
  BY <1>3
<1>5. QED
  BY <1>1, <1>2, <1>3, <1>4, LoopsEnd

LEMMA CrashKeepsInv ==
    ASSUME PushInv, Crash
    PROVE  PushInv'
<1>1. /\ awaiting \in [Devices -> Requests \cup {NoOp}] /\ todo \in [Devices -> SUBSET Ops]
      /\ request' = [q \in Requests |-> IdleRequest]
      /\ awaiting' = [d \in Devices |-> NoOp]
      /\ todo' = [d \in Devices |-> IF awaiting[d] = NoOp THEN todo[d] ELSE {}]
      /\ UNCHANGED <<rows, answers, wrote, outbox, editor, edits>>
  BY DEF Crash, PushInv, SyncTypeOK, onlineVars
<1>2. awaiting' = [e \in Devices |-> IF e \in Devices THEN NoOp ELSE awaiting[e]]
  BY <1>1
<1>3. /\ todo' \in [Devices -> SUBSET Ops]
      /\ \A e \in Devices : todo'[e] = IF awaiting[e] = NoOp THEN todo[e] ELSE {}
  BY <1>1
<1>4. QED
  BY <1>1, <1>2, <1>3, LoopsEnd

-----------------------------------------------------------------------------
(* The push endpoint and the work online                                   *)

\* The server works on its requests and its rows, and the devices wait.
LEMMA ServerStepKeepsInv ==
    ASSUME PushInv, UNCHANGED <<answers, outbox, todo, awaiting>>,
           rows' \in [Records -> Row], request' \in [Requests -> Request], wrote' \in [Ops -> Nat],
           editor' \in [record : Records \cup {NoOp}, row : Row], edits' \in 0..Edits,
           \A q \in Requests :
               /\ request'[q].op = request[q].op
               /\ request'[q].pc = "idle" <=> request[q].pc = "idle"
               /\ request'[q].pc = "done" => request[q].pc = "done" \/ wrote'[request[q].op] > 0,
           \A o \in Ops : wrote[o] <= wrote'[o]
    PROVE  PushInv'
<1>1. SyncTypeOK /\ OutboxInv /\ RequestsInv /\ LoopsInv
  BY DEF PushInv
<1>2. SyncTypeOK'
  BY <1>1 DEF SyncTypeOK
<1>3. \A o \in Ops : wrote[o] > 0 => wrote'[o] > 0
  BY <1>1, PushTypes
<1>4. RequestsInv'
  <2>1. ASSUME NEW q \in Requests, request'[q].pc # "idle"
        PROVE  /\ request'[q].op \in Ops
               /\ outbox[request'[q].op].status # "none"
               /\ request'[q].pc = "done" => wrote'[request'[q].op] > 0
    BY <1>1, <1>3, <2>1 DEF RequestsInv
  <2>2. \A o \in Ops :
           /\ answers[o] = "done" => wrote'[o] > 0
           /\ outbox[o].status = "SYNCED" => wrote'[o] > 0 \/ answers[o] = "refused"
    BY <1>1, <1>3 DEF RequestsInv
  <2>3. QED
    BY <2>1, <2>2 DEF RequestsInv
<1>5. \A d \in Devices : awaiting[d] # NoOp => awaiting[d] \in Requests
  BY <1>1, PushTypes
<1>6. \A d \in Devices, o \in Ops : InFlight(d, o)' = InFlight(d, o)
  BY <1>5 DEF InFlight
<1>7. LoopsInv'
  BY <1>1, <1>5, <1>6, OutboxStays DEF LoopsInv
<1>8. QED
  BY <1>2, <1>4, <1>7, OutboxStays DEF PushInv

\* Only one request goes on, on the operation it has.
LEMMA RequestStepKeepsInv ==
    ASSUME PushInv, NEW q \in Requests, NEW new \in Request,
           UNCHANGED <<rows, answers, wrote, outbox, todo, awaiting, editor, edits>>,
           request' = [request EXCEPT ![q] = new],
           request[q].pc # "idle", new.op = request[q].op, new.pc \notin {"idle", "done"}
    PROVE  PushInv'
<1>1. /\ rows \in [Records -> Row] /\ request \in [Requests -> Request] /\ wrote \in [Ops -> Nat]
      /\ editor \in [record : Records \cup {NoOp}, row : Row] /\ edits \in 0..Edits
  BY DEF PushInv, SyncTypeOK
<1>2. /\ request' \in [Requests -> Request]
      /\ \A p \in Requests : request'[p] = IF p = q THEN new ELSE request[p]
  BY <1>1
<1>3. \A o \in Ops : wrote[o] <= wrote'[o]
  BY <1>1
<1>4. QED
  BY <1>1, <1>2, <1>3, ServerStepKeepsInv

LEMMA EndpointKeepsInv ==
    ASSUME PushInv, NEW q \in Requests, Lookup(q) \/ Read(q) \/ Refuse(q) \/ Write(q)
    PROVE  PushInv'
<1>1. /\ rows \in [Records -> Row] /\ request \in [Requests -> Request] /\ wrote \in [Ops -> Nat]
      /\ editor \in [record : Records \cup {NoOp}, row : Row] /\ edits \in 0..Edits
      /\ request[q] \in Request
  BY DEF PushInv, SyncTypeOK
<1>2. request[q].pc # "idle" => /\ request[q].op \in Ops /\ Target(request[q].op) \in Records
  BY DEF PushInv, SyncTypeOK, RequestsInv, Target
<1>3. ASSUME NEW pc \in {"new", "refused", "done"}
      PROVE  /\ [request[q] EXCEPT !.pc = pc] \in Request
             /\ [request[q] EXCEPT !.pc = pc].op = request[q].op
             /\ [request[q] EXCEPT !.pc = pc].pc = pc
             /\ [request EXCEPT ![q].pc = pc] = [request EXCEPT ![q] = [request[q] EXCEPT !.pc = pc]]
  BY <1>1 DEF Request
<1>4. CASE Lookup(q)
  <2>1. /\ request' = [request EXCEPT ![q] = [request[q] EXCEPT !.pc = "new"]]
        /\ request[q].pc # "idle"
        /\ UNCHANGED <<rows, answers, wrote, outbox, todo, awaiting, editor, edits>>
    BY <1>3, <1>4 DEF Lookup, clientVars, onlineVars
  <2>2. QED
    BY <1>3, <2>1, RequestStepKeepsInv
<1>5. CASE Refuse(q)
  <2>1. /\ request' = [request EXCEPT ![q] = [request[q] EXCEPT !.pc = "refused"]]
        /\ request[q].pc # "idle"
        /\ UNCHANGED <<rows, answers, wrote, outbox, todo, awaiting, editor, edits>>
    BY <1>3, <1>5 DEF Refuse, clientVars, onlineVars
  <2>2. QED
    BY <1>3, <2>1, RequestStepKeepsInv
<1>6. CASE Read(q)
  <2> DEFINE o == request[q].op
             new == [pc |-> Judge(o, rows[Target(o)]), op |-> o, row |-> rows[Target(o)]]
  <2>1. /\ request' = [request EXCEPT ![q] = new]
        /\ request[q].pc # "idle"
        /\ UNCHANGED <<rows, answers, wrote, outbox, todo, awaiting, editor, edits>>
    BY <1>6 DEF Read, clientVars, onlineVars
  <2>2. Judge(o, rows[Target(o)]) \in {"ready", "refused", "conflict"}
    BY DEF Judge
  <2>3. new \in Request /\ new.op = request[q].op /\ new.pc \notin {"idle", "done"}
    BY <1>1, <1>2, <2>1, <2>2 DEF Request
  <2> HIDE DEF new
  <2>4. QED
    BY <2>1, <2>3, RequestStepKeepsInv
<1>7. CASE Write(q)
  <2>1. PICK o : o = request[q].op
    OBVIOUS
  <2>2. /\ request[q].pc = "ready" /\ o \in Ops /\ Target(o) \in Records
        /\ UNCHANGED <<answers, outbox, todo, awaiting, editor, edits>>
    BY <1>2, <1>7, <2>1 DEF Write, clientVars, onlineVars
  <2>3. CASE Kind(o) = "CREATE" /\ rows[Target(o)].version # 0
    <3>1. /\ request' = [request EXCEPT ![q] = [request[q] EXCEPT !.pc = "refused"]]
          /\ UNCHANGED <<rows, wrote>>
      BY <1>3, <1>7, <2>1, <2>3 DEF Write
    <3>2. QED
      BY <1>3, <2>2, <3>1, RequestStepKeepsInv
  <2>4. CASE ~(Kind(o) = "CREATE" /\ rows[Target(o)].version # 0)
    <3> DEFINE row == [version |-> IF Kind(o) = "CREATE" THEN 1 ELSE request[q].row.version + 1,
                       content |-> o,
                       life |-> IF Kind(o) = "DELETE" THEN "deleted" ELSE "live"]
               new == [request[q] EXCEPT !.pc = "done"]
    <3>1. /\ rows' = [rows EXCEPT ![Target(o)] = row]
          /\ wrote' = [wrote EXCEPT ![o] = @ + 1]
          /\ request' = [request EXCEPT ![q] = new]
      BY <1>3, <1>7, <2>1, <2>4 DEF Write
    <3>2. row \in Row
      BY <1>1, <2>2 DEF Row, Request
    <3>3. new \in Request /\ new.op = o /\ new.pc = "done"
      BY <1>3, <2>1
    <3> HIDE DEF row, new
    <3>4. rows' \in [Records -> Row]
      BY <1>1, <3>1, <3>2
    <3>5. /\ wrote' \in [Ops -> Nat] /\ wrote'[o] > 0
          /\ \A p \in Ops : wrote[p] <= wrote'[p]
      BY <1>1, <2>2, <3>1
    <3>6. /\ request' \in [Requests -> Request]
          /\ \A p \in Requests : request'[p] = IF p = q THEN new ELSE request[p]
      BY <1>1, <3>1, <3>3
    <3>7. \A p \in Requests :
               /\ request'[p].op = request[p].op
               /\ request'[p].pc = "idle" <=> request[p].pc = "idle"
               /\ request'[p].pc = "done" => request[p].pc = "done" \/ wrote'[request[p].op] > 0
      BY <2>1, <2>2, <3>3, <3>5, <3>6
    <3>8. QED
      BY <1>1, <2>2, <3>4, <3>5, <3>6, <3>7, ServerStepKeepsInv
  <2>5. QED
    BY <2>3, <2>4
<1>8. QED
  BY <1>4, <1>5, <1>6, <1>7

LEMMA OnlineKeepsInv ==
    ASSUME PushInv,
           \/ \E r \in Records : OnlineCreate(r) \/ OnlineRead(r) \/ OnlineDelete(r)
           \/ OnlineSave
           \/ UNCHANGED pushVars
    PROVE  PushInv'
<1>1. /\ rows \in [Records -> Row] /\ request \in [Requests -> Request] /\ wrote \in [Ops -> Nat]
      /\ editor \in [record : Records \cup {NoOp}, row : Row] /\ edits \in 0..Edits
      /\ Edits \in Nat
  BY SyncPushAssumption DEF PushInv, SyncTypeOK
<1>2. /\ UNCHANGED <<answers, outbox, todo, awaiting, request, wrote>>
      /\ edits' \in {edits, edits + 1} /\ (edits' # edits => edits < Edits)
  BY DEF OnlineCreate, OnlineRead, OnlineDelete, OnlineSave, pushVars, serverVars, clientVars, onlineVars
<1>3. edits' \in 0..Edits
  BY <1>1, <1>2
<1>4. /\ [version |-> 1, content |-> Online, life |-> "live"] \in Row
      /\ [record |-> NoOp, row |-> NoRow] \in [record : Records \cup {NoOp}, row : Row]
  BY DEF Row, NoRow
<1>5. /\ rows' \in [Records -> Row]
      /\ editor' \in [record : Records \cup {NoOp}, row : Row]
  <2>1. ASSUME NEW r \in Records, OnlineCreate(r)
        PROVE  rows' \in [Records -> Row] /\ editor' = editor
    BY <1>1, <1>4, <2>1 DEF OnlineCreate
  <2>2. ASSUME NEW r \in Records, OnlineRead(r)
        PROVE  /\ rows' = rows
               /\ editor' \in [record : Records \cup {NoOp}, row : Row]
    BY <1>1, <2>2 DEF OnlineRead, serverVars
  <2>3. ASSUME NEW r \in Records, OnlineDelete(r)
        PROVE  rows' \in [Records -> Row] /\ editor' = editor
    <3>1. [rows[r] EXCEPT !.life = "removed"] \in Row
      BY <1>1 DEF Row
    <3>2. rows' = [rows EXCEPT ![r] = [rows[r] EXCEPT !.life = "removed"]]
      BY <1>1, <2>3 DEF OnlineDelete
    <3>3. QED
      BY <1>1, <2>3, <3>1, <3>2 DEF OnlineDelete
  <2>4. CASE OnlineSave
    <3>1. [editor.row EXCEPT !.content = Online] \in Row
      BY <1>1 DEF Row
    <3>2. editor.record \in Records
      BY <1>1, <2>4 DEF OnlineSave
    <3>3. QED
      BY <1>1, <1>4, <2>4, <3>1, <3>2 DEF OnlineSave
  <2>5. CASE UNCHANGED pushVars
    BY <1>1, <2>5 DEF pushVars, serverVars, onlineVars
  <2>6. QED
    BY <1>1, <2>1, <2>2, <2>3, <2>4, <2>5
<1>6. /\ request' \in [Requests -> Request] /\ wrote' \in [Ops -> Nat]
      /\ \A o \in Ops : wrote[o] <= wrote'[o]
      /\ \A q \in Requests : request'[q] = request[q]
  BY <1>1, <1>2
<1>7. QED
  BY <1>2, <1>3, <1>5, <1>6, ServerStepKeepsInv

\* A request ends with an answer that says what has happened.
LEMMA ReplyKeepsInv ==
    ASSUME PushInv, NEW q \in Requests, request[q].pc # "idle",
           NEW answer \in {"done", "refused", "conflict", "bad", "error"}, Reply(q, answer),
           UNCHANGED <<rows, wrote, editor, edits>>,
           answers' \in [Ops -> {"none", "done", "refused", "conflict"}],
           \A o \in Ops : answers'[o] # answers[o] =>
               /\ o = request[q].op /\ answers[o] = "none"
               /\ answers'[o] = "done" => wrote[o] > 0,
           answer = "done" => wrote[request[q].op] > 0,
           answer = "refused" => wrote[request[q].op] > 0 \/ answers'[request[q].op] = "refused"
    PROVE  PushInv'
<1>1. SyncTypeOK /\ OutboxInv /\ RequestsInv /\ LoopsInv
  BY DEF PushInv
<1>2. PICK n, D, status : n = request[q].op /\ D = {d \in Devices : awaiting[d] = q} /\ status = StatusFor(answer)
  OBVIOUS
<1>3. /\ request' = [request EXCEPT ![q] = IdleRequest]
      /\ awaiting' = [d \in Devices |-> IF d \in D THEN NoOp ELSE awaiting[d]]
      /\ outbox' = IF D = {} THEN outbox ELSE [outbox EXCEPT ![n].status = status]
      /\ todo' = IF answer # "error" THEN todo
                 ELSE [d \in Devices |-> IF d \in D THEN {} ELSE todo[d]]
  BY <1>2 DEF Reply
<1>4. /\ status \in {"SYNCED", "CONFLICT", "FAILED", "PENDING"}
      /\ status = "PENDING" => answer = "error"
      /\ status = "SYNCED" => answer \in {"done", "refused"}
  BY <1>2 DEF StatusFor
<1>5. /\ n \in Ops /\ outbox[n].status # "none" /\ q # NoOp /\ outbox[n] \in Entry
      /\ request \in [Requests -> Request] /\ outbox \in [Ops -> Entry]
      /\ awaiting \in [Devices -> Requests \cup {NoOp}] /\ todo \in [Devices -> SUBSET Ops]
  BY <1>1, <1>2, PushTypes DEF RequestsInv, SyncTypeOK
<1>6. IdleRequest \in Request /\ IdleRequest.pc = "idle"
  BY DEF IdleRequest, Request, NoRow, Row
<1>7. /\ request' \in [Requests -> Request]
      /\ \A p \in Requests : request'[p] = IF p = q THEN IdleRequest ELSE request[p]
  BY <1>3, <1>5, <1>6
<1>8. /\ awaiting' \in [Devices -> Requests \cup {NoOp}]
      /\ \A d \in Devices : awaiting'[d] = IF d \in D THEN NoOp ELSE awaiting[d]
  BY <1>3, <1>5
<1>9. /\ todo' \in [Devices -> SUBSET Ops]
      /\ \A d \in Devices : todo'[d] = IF answer = "error" /\ d \in D THEN {} ELSE todo[d]
  BY <1>3, <1>5
<1>10. /\ outbox' \in [Ops -> Entry]
       /\ \A o \in Ops : /\ outbox'[o].record = outbox[o].record /\ outbox'[o].kind = outbox[o].kind
                         /\ outbox'[o].device = outbox[o].device
                         /\ outbox'[o].status = IF o = n /\ D # {} THEN status ELSE outbox[o].status
                         /\ o # n => outbox'[o] = outbox[o]
  <2> DEFINE new == [outbox[n] EXCEPT !.status = status]
  <2>1. /\ new \in Entry /\ new.status = status /\ new.record = outbox[n].record
        /\ new.kind = outbox[n].kind /\ new.device = outbox[n].device
    BY <1>4, <1>5 DEF Entry
  <2>2. outbox' = IF D = {} THEN outbox ELSE [outbox EXCEPT ![n] = new]
    BY <1>3, <1>5
  <2> HIDE DEF new
  <2>3. \A o \in Ops : outbox'[o] = IF o = n /\ D # {} THEN new ELSE outbox[o]
    BY <1>5, <2>2
  <2>4. outbox' \in [Ops -> Entry]
    BY <1>5, <2>1, <2>2
  <2>5. QED
    BY <2>1, <2>3, <2>4
<1>11. SyncTypeOK'
  <2>1. \A p \in Requests : request'[p].pc # "idle" => outbox'[request'[p].op].record \in Records
    BY <1>1, <1>6, <1>7, <1>10 DEF SyncTypeOK, RequestsInv
  <2>2. \A o \in Ops : answers'[o] # "none" => outbox'[o].status # "none"
    BY <1>1, <1>2, <1>4, <1>5, <1>10 DEF SyncTypeOK
  <2>3. QED
    BY <1>1, <1>7, <1>8, <1>9, <1>10, <2>1, <2>2 DEF SyncTypeOK
<1>12. \A o \in Ops : outbox'[o].status = "none" <=> outbox[o].status = "none"
  BY <1>4, <1>5, <1>10
<1>13. OutboxInv'
  <2>1. \A o \in Ops : IF outbox'[o].status = "none" THEN outbox'[o] = NoEntry
                       ELSE outbox'[o].record \in Records /\ outbox'[o].device \in Devices
    BY <1>1, <1>5, <1>10, <1>12 DEF OutboxInv
  <2>2. QED
    BY <1>1, <1>10, <1>12, <2>1 DEF OutboxInv, Kind, Target
<1>14. RequestsInv'
  <2>1. \A p \in Requests : request'[p].pc # "idle" =>
            /\ request'[p].op \in Ops
            /\ outbox'[request'[p].op].status # "none"
            /\ request'[p].pc = "done" => wrote[request'[p].op] > 0
    BY <1>1, <1>6, <1>7, <1>12 DEF RequestsInv
  <2>2. ASSUME NEW o \in Ops
        PROVE  /\ answers'[o] = "done" => wrote[o] > 0
               /\ outbox'[o].status = "SYNCED" => wrote[o] > 0 \/ answers'[o] = "refused"
    <3>1. answers'[o] = "done" => wrote[o] > 0
      BY <1>1 DEF RequestsInv
    <3>2. outbox[o].status = "SYNCED" => wrote[o] > 0 \/ answers'[o] = "refused"
      BY <1>1 DEF RequestsInv
    <3>3. o = n /\ status = "SYNCED" => wrote[o] > 0 \/ answers'[o] = "refused"
      BY <1>2, <1>4
    <3>4. QED
      BY <1>10, <3>1, <3>2, <3>3
  <2>3. QED
    BY <2>1, <2>2 DEF RequestsInv
<1>15. \A d \in Devices, o \in Ops : InFlight(d, o)' <=> d \notin D /\ InFlight(d, o)
  BY <1>2, <1>5, <1>7, <1>8 DEF InFlight
<1>16. \A d \in D : InFlight(d, n) /\ outbox[n].status = "PENDING" /\ outbox[n].device = d /\ n \notin todo[d]
  BY <1>1, <1>2, <1>5 DEF InFlight, LoopsInv
<1>17. \A o, p \in Ops : Builds(p, o)' = Builds(p, o)
  BY <1>10 DEF Builds, Target
<1>18. LoopsInv'
  <2>1. ASSUME NEW e \in Devices
        PROVE  /\ \A o \in todo'[e] : outbox'[o].status = "PENDING" /\ outbox'[o].device = e
               /\ awaiting'[e] # NoOp => request'[awaiting'[e]].pc # "idle"
               /\ \A o \in Ops : InFlight(e, o)' =>
                    outbox'[o].status = "PENDING" /\ outbox'[o].device = e /\ o \notin todo'[e]
    <3>1. n \in todo[e] => D = {}
      <4>1. ASSUME n \in todo[e], D # {} PROVE FALSE
        <5>1. PICK d \in D : TRUE
          BY <4>1
        <5>2. outbox[n].device = e
          BY <1>1, <4>1 DEF LoopsInv
        <5>3. QED
          BY <1>16, <4>1, <5>1, <5>2
      <4>2. QED
        BY <4>1
    <3>2. \A o \in todo'[e] : outbox'[o].status = "PENDING" /\ outbox'[o].device = e
      <4>1. \A o \in todo'[e] : o \in todo[e] /\ o \in Ops
        BY <1>5, <1>9
      <4>2. \A o \in todo[e] : outbox[o].status = "PENDING" /\ outbox[o].device = e
        BY <1>1 DEF LoopsInv
      <4>3. QED
        BY <1>10, <3>1, <4>1, <4>2
    <3>3. awaiting'[e] # NoOp => request'[awaiting'[e]].pc # "idle"
      <4>1. SUFFICES ASSUME awaiting'[e] # NoOp PROVE request'[awaiting'[e]].pc # "idle"
        OBVIOUS
      <4>2. awaiting'[e] = awaiting[e] /\ awaiting[e] \in Requests /\ awaiting[e] # q
        BY <1>2, <1>5, <1>8, <4>1
      <4>3. QED
        BY <1>1, <1>7, <4>1, <4>2 DEF LoopsInv
    <3>4. \A o \in Ops : InFlight(e, o)' =>
                    outbox'[o].status = "PENDING" /\ outbox'[o].device = e /\ o \notin todo'[e]
      <4>1. SUFFICES ASSUME NEW o \in Ops, e \notin D, InFlight(e, o)
                     PROVE  outbox'[o].status = "PENDING" /\ outbox'[o].device = e /\ o \notin todo'[e]
        BY <1>15
      <4>2. outbox[o].status = "PENDING" /\ outbox[o].device = e /\ o \notin todo[e]
        BY <1>1, <4>1 DEF LoopsInv
      <4>3. o = n => D = {}
        BY <1>16, <4>1, <4>2
      <4>4. QED
        BY <1>9, <1>10, <4>1, <4>2, <4>3
    <3>5. QED
      BY <3>2, <3>3, <3>4
  <2>2. ASSUME NEW o \in Ops, NEW p \in Ops, Builds(p, o), outbox'[o].status = "PENDING", NEW e \in Devices
        PROVE  /\ p \in todo'[e] => o \in todo'[e] \/ InFlight(e, o)'
               /\ InFlight(e, p)' => o = p
    <3>1. outbox[o].status = "PENDING"
      BY <1>10, <1>16, <2>2
    <3>2. /\ p \in todo[e] => o \in todo[e] \/ InFlight(e, o)
          /\ InFlight(e, p) => o = p
      BY <1>1, <2>2, <3>1 DEF LoopsInv
    <3>4. p \in todo'[e] => o \in todo'[e] \/ InFlight(e, o)'
      <4>1. SUFFICES ASSUME p \in todo'[e] PROVE o \in todo'[e] \/ InFlight(e, o)'
        OBVIOUS
      <4>2. todo'[e] = todo[e] /\ ~(answer = "error" /\ e \in D)
        BY <1>9, <4>1
      <4>3. CASE o \in todo[e]
        BY <4>2, <4>3
      <4>4. CASE InFlight(e, o) /\ e \notin D
        BY <1>15, <4>4
      <4>5. CASE InFlight(e, o) /\ e \in D
        <5>1. o = n
          BY <1>2, <4>5 DEF InFlight
        <5>2. outbox'[o].status = status
          BY <1>10, <4>5, <5>1
        <5>3. QED
          BY <1>4, <2>2, <4>2, <4>5, <5>2
      <4>6. QED
        BY <3>2, <4>1, <4>2, <4>3, <4>4, <4>5
    <3>5. QED
      BY <1>15, <3>2, <3>4
  <2>3. ASSUME NEW o \in Ops, NEW p \in Ops, Builds(p, o), outbox'[o].status = "PENDING"
        PROVE  outbox'[p].status \notin Settled
    <3>1. outbox[o].status = "PENDING"
      BY <1>10, <1>16, <2>3
    <3>2. outbox[p].status \notin Settled
      BY <1>1, <2>3, <3>1 DEF LoopsInv
    <3>3. outbox'[p].status \notin Settled
      <4>1. CASE p = n /\ D # {}
        <5>1. PICK d \in D : TRUE
          BY <4>1
        <5>2. d \in Devices /\ InFlight(d, n)
          BY <1>2, <1>16, <5>1
        <5>3. o = n
          BY <1>1, <2>3, <3>1, <4>1, <5>2 DEF LoopsInv
        <5>4. QED
          BY <1>10, <2>3, <4>1, <5>3 DEF Settled
      <4>2. CASE ~(p = n /\ D # {})
        BY <1>10, <3>2, <4>2
      <4>3. QED
        BY <4>1, <4>2
    <3>4. QED
      BY <3>3
  <2>4. QED
    BY <1>17, <2>1, <2>2, <2>3 DEF LoopsInv
<1>19. QED
  BY <1>11, <1>13, <1>14, <1>18 DEF PushInv

-----------------------------------------------------------------------------
(* Whatever overlaps, crashes and gets lost                                *)

LEMMA HandlingKeepsInv ==
    ASSUME PushInv, NEW q \in Requests, Handle(q) \/ Fail(q)
    PROVE  PushInv'
<1>1. SyncTypeOK /\ OutboxInv /\ RequestsInv /\ LoopsInv
  BY DEF PushInv
<1>2. PICK o : o = request[q].op
  OBVIOUS
<1>3. /\ answers \in [Ops -> {"none", "done", "refused", "conflict"}]
      /\ request[q].pc # "idle" => o \in Ops
      /\ request[q].pc = "done" => wrote[o] > 0
      /\ \A p \in Ops : answers[p] = "done" => wrote[p] > 0
  BY <1>1, <1>2 DEF SyncTypeOK, RequestsInv
<1>4. CASE Lookup(q) \/ Read(q) \/ Write(q) \/ Refuse(q)
  BY <1>4, EndpointKeepsInv
<1>5. CASE Replay(q)
  <2>1. PICK answer : answer = answers[o]
    OBVIOUS
  <2>2. /\ request[q].pc # "idle" /\ answer # "none" /\ Reply(q, answer)
        /\ UNCHANGED <<rows, answers, wrote, editor, edits>>
    BY <1>2, <1>5, <2>1 DEF Replay, onlineVars
  <2>3. /\ answer \in {"done", "refused", "conflict", "bad", "error"}
        /\ answer = "done" => wrote[o] > 0
        /\ answer = "refused" => answers'[o] = "refused"
    BY <1>3, <2>1, <2>2
  <2>4. QED
    BY <1>2, <1>3, <2>2, <2>3, ReplyKeepsInv
<1>6. CASE Store(q)
  <2>1. PICK answer : answer = request[q].pc
    OBVIOUS
  <2>2. /\ answer \in {"done", "refused", "conflict"} /\ request[q].pc # "idle" /\ Reply(q, answer)
        /\ answers[o] = "none" /\ answers' = [answers EXCEPT ![o] = answer]
        /\ UNCHANGED <<rows, wrote, editor, edits>>
    BY <1>2, <1>6, <2>1 DEF Store, Decided, onlineVars
  <2>3. answers' \in [Ops -> {"none", "done", "refused", "conflict"}]
    BY <1>3, <2>2
  <2>4. \A p \in Ops : answers'[p] # answers[p] =>
               /\ p = request[q].op /\ answers[p] = "none"
               /\ answers'[p] = "done" => wrote[p] > 0
    BY <1>2, <1>3, <2>1, <2>2
  <2>5. /\ answer = "done" => wrote[request[q].op] > 0
        /\ answer = "refused" => answers'[request[q].op] = "refused"
    BY <1>2, <1>3, <2>1, <2>2
  <2>6. QED
    BY <2>2, <2>3, <2>4, <2>5, ReplyKeepsInv
<1>7. CASE StoreFails(q) \/ TurnAway(q) \/ BatchFails(q)
  <2>1. PICK answer \in {"bad", "error"} : Reply(q, answer)
    BY <1>7 DEF StoreFails, TurnAway, BatchFails
  <2>2. /\ request[q].pc # "idle"
        /\ UNCHANGED <<rows, answers, wrote, editor, edits>>
    BY <1>7 DEF StoreFails, TurnAway, BatchFails, Decided, onlineVars
  <2>3. QED
    BY <1>3, <2>1, <2>2, ReplyKeepsInv
<1>8. QED
  BY <1>4, <1>5, <1>6, <1>7 DEF Handle, Fail

LEMMA PushStepKeepsInv ==
    PushInv /\ [PushNext]_pushVars => PushInv'
<1> SUFFICES ASSUME PushInv, [PushNext]_pushVars
             PROVE  PushInv'
  OBVIOUS
<1>1. ASSUME NEW d \in Devices, NEW k \in Kinds, NEW r \in Records, NEW b \in BaseVersions,
             MakeChange(d, k, r, b)
      PROVE  PushInv'
  BY <1>1, MakeChangeKeepsInv
<1>2. ASSUME NEW d \in Devices, StartPush(d) PROVE PushInv'
  BY <1>2, StartPushKeepsInv
<1>3. ASSUME NEW d \in Devices, NEW q \in Requests, Send(d, q) PROVE PushInv'
  BY <1>3, SendKeepsInv
<1>4. ASSUME NEW d \in Devices, GiveUp(d) PROVE PushInv'
  BY <1>4, GiveUpKeepsInv
<1>5. ASSUME NEW q \in Requests, Handle(q) \/ Fail(q) PROVE PushInv'
  BY <1>5, HandlingKeepsInv
<1>6. CASE Crash
  BY <1>6, CrashKeepsInv
<1>7. CASE \/ \E r \in Records : OnlineCreate(r) \/ OnlineRead(r) \/ OnlineDelete(r)
           \/ OnlineSave
           \/ UNCHANGED pushVars
  BY <1>7, OnlineKeepsInv
<1>8. QED
  BY <1>1, <1>2, <1>3, <1>4, <1>5, <1>6, <1>7 DEF PushNext

\* The inductive invariant of the push: the outbox gives out its ids in order, what is
\* answered as done is written, and each loop works through its own pending entries.
THEOREM PushInvariant == PushSpec => []PushInv
BY PushInitInv, PushStepKeepsInv, PTL DEF PushSpec

\* An entry the device shows as SYNCED has written its row or was refused, whatever was
\* lost, sent again, cut short by a crash or running twice (Push, updateMutationStatus).
THEOREM SyncedMeansAnswered == PushSpec => []SyncedIsAnswered
<1>1. ASSUME PushInv PROVE SyncedIsAnswered
  BY <1>1 DEF PushInv, RequestsInv, SyncedIsAnswered
<1>2. QED
  BY <1>1, PushInvariant, PTL

\* No change is settled while one that it may build on is pending: an earlier one of the
\* same device, for the record or one whose entity is sent before (the order of
\* runSyncPendingMutations, and its end at the first error).
THEOREM ChangesAreSettledInOrder == PushSpec => []SettledInOrder
<1>1. ASSUME PushInv, NEW o \in Ops, NEW p \in Ops, o < p,
             outbox[p].status \in Settled,
             outbox[p].device = outbox[o].device,
             Rank[Target(o)] <= Rank[Target(p)]
      PROVE  outbox[o].status # "PENDING"
  <2>1. o <= p /\ outbox[p].status # "none"
    BY <1>1, PushTypes DEF PushInv, Settled
  <2>2. outbox[o].status # "none"
    BY <1>1, <2>1 DEF PushInv, OutboxInv
  <2>3. Builds(p, o)
    BY <1>1, <2>1, <2>2 DEF PushInv, OutboxInv, Builds, Target
  <2>4. QED
    BY <1>1, <2>3 DEF PushInv, LoopsInv
<1>2. PushInv => SettledInOrder
  BY <1>1 DEF SettledInOrder, Settled
<1>3. QED
  BY <1>2, PushInvariant, PTL

-----------------------------------------------------------------------------
(* While push requests do not overlap and nobody edits online              *)

\* What a request has read is still so when it writes; a change that was written
\* is behind the version of its row.
SerialInv ==
    /\ PushInv
    /\ edits = 0 /\ editor.record = NoOp
    /\ \A q \in Requests : request[q].pc = "ready" /\ Kind(request[q].op) # "CREATE" =>
        /\ request[q].row = rows[Target(request[q].op)]
        /\ request[q].row.version = outbox[request[q].op].base
    /\ \A o \in Ops : wrote[o] > 0 =>
        /\ Target(o) \in Records
        /\ IF Kind(o) = "CREATE" THEN rows[Target(o)].version > 0
           ELSE rows[Target(o)].version > outbox[o].base

\* Requests do not overlap, and nobody edits online.
Serial == (\A p, q \in Requests : p = q) /\ Edits = 0

LEMMA SerialInit == ASSUME Serial, SyncInit PROVE SerialInv
<1>1. PushInv
  BY PushInitInv
<1>2. \A q \in Requests : request[q].pc = "idle"
  BY DEF SyncInit, IdleRequest
<1>3. \A o \in Ops : wrote[o] = 0
  BY DEF SyncInit
<1>4. edits = 0 /\ editor.record = NoOp
  BY DEF SyncInit
<1>5. QED
  BY <1>1, <1>2, <1>3, <1>4 DEF SerialInv

\* Entries keep their kind, record and base.
LEMMA EntriesKeep ==
    ASSUME PushInv, [PushNext]_pushVars, NEW o \in Ops, outbox[o].status # "none"
    PROVE  /\ outbox'[o].kind = outbox[o].kind /\ outbox'[o].record = outbox[o].record
           /\ outbox'[o].base = outbox[o].base
<1>1. outbox \in [Ops -> Entry]
  BY DEF PushInv, SyncTypeOK
<1>2. ASSUME NEW n \in Ops, NEW e, outbox[n].status = "none", outbox' = [outbox EXCEPT ![n] = e]
      PROVE  outbox'[o] = outbox[o]
  BY <1>1, <1>2
<1>3. ASSUME NEW n, NEW status, outbox' = [outbox EXCEPT ![n].status = status]
      PROVE  /\ outbox'[o].kind = outbox[o].kind /\ outbox'[o].record = outbox[o].record
             /\ outbox'[o].base = outbox[o].base
  BY <1>1, <1>3 DEF Entry
<1>4. ASSUME NEW d \in Devices, NEW k \in Kinds, NEW r \in Records, NEW b \in BaseVersions,
             MakeChange(d, k, r, b)
      PROVE  outbox'[o] = outbox[o]
  BY <1>2, <1>4 DEF MakeChange
<1>5. ASSUME NEW q \in Requests, NEW answer, Reply(q, answer)
      PROVE  /\ outbox'[o].kind = outbox[o].kind /\ outbox'[o].record = outbox[o].record
             /\ outbox'[o].base = outbox[o].base
  <2>1. PICK n : n = request[q].op
    OBVIOUS
  <2>2. outbox' = outbox \/ \E status : outbox' = [outbox EXCEPT ![n].status = status]
    BY <1>5, <2>1 DEF Reply
  <2>3. QED
    BY <1>3, <2>2
<1>6. ASSUME NEW q \in Requests, Handle(q) \/ Fail(q)
      PROVE  outbox' = outbox \/ \E answer : Reply(q, answer)
  BY <1>6 DEF Handle, Fail, Replay, Lookup, Read, Write, Store, Refuse, StoreFails, TurnAway,
              BatchFails, clientVars
<1>7. ASSUME ~\E d \in Devices, k \in Kinds, r \in Records, b \in BaseVersions : MakeChange(d, k, r, b),
             ~\E q \in Requests : Handle(q) \/ Fail(q)
      PROVE  outbox' = outbox
  BY <1>7 DEF PushNext, StartPush, Send, GiveUp, Crash, OnlineCreate, OnlineRead, OnlineDelete,
              OnlineSave, pushVars, clientVars
<1>8. QED
  BY <1>4, <1>5, <1>6, <1>7

\* Nothing is written, and no request becomes ready but by reading its row.
LEMMA QuietStep ==
    ASSUME SerialInv, [PushNext]_pushVars, UNCHANGED <<rows, wrote, edits, editor>>,
           \A q \in Requests : request'[q].pc = "ready" =>
               \/ request'[q] = request[q]
               \/ /\ request[q].pc # "idle" /\ request'[q].op = request[q].op
                  /\ Kind(request[q].op) # "CREATE" =>
                        /\ request'[q].row = rows[Target(request[q].op)]
                        /\ request'[q].row.version = outbox[request[q].op].base
    PROVE  SerialInv'
<1>1. PushInv /\ PushInv'
  BY PushStepKeepsInv DEF SerialInv
<1>2. \A o \in Ops : outbox[o].status # "none" =>
         /\ Kind(o)' = Kind(o) /\ Target(o)' = Target(o) /\ outbox'[o].base = outbox[o].base
  BY <1>1, EntriesKeep DEF Kind, Target
<1>3. ASSUME NEW q \in Requests, request'[q].pc = "ready", (Kind(request[q].op) # "CREATE")'
      PROVE  /\ request'[q].row = rows[Target(request[q].op)']
             /\ request'[q].row.version = outbox'[request'[q].op].base
  <2>1. PICK o : o = request'[q].op
    OBVIOUS
  <2>2. request[q].pc # "idle" /\ request[q].op = o
    BY <1>3, <2>1
  <2>3. o \in Ops /\ outbox[o].status # "none"
    BY <1>1, <2>2 DEF PushInv, RequestsInv
  <2>4. Kind(o)' = Kind(o) /\ Target(o)' = Target(o) /\ outbox'[o].base = outbox[o].base
    BY <1>2, <2>3
  <2>5. Kind(o) # "CREATE"
    BY <1>3, <2>1, <2>4 DEF Kind
  <2>6. /\ request'[q].row = rows[Target(o)]
        /\ request'[q].row.version = outbox[o].base
    BY <1>3, <2>1, <2>2, <2>5 DEF SerialInv
  <2>7. Target(request[q].op)' = Target(o)
    BY <2>1, <2>4 DEF Target
  <2>8. QED
    BY <2>1, <2>4, <2>6, <2>7
<1>4. ASSUME NEW o \in Ops, wrote[o] > 0
      PROVE  /\ Target(o)' \in Records
             /\ IF Kind(o)' = "CREATE" THEN rows[Target(o)'].version > 0
                ELSE rows[Target(o)'].version > outbox'[o].base
  <2>1. Target(o) \in Records /\ IF Kind(o) = "CREATE" THEN rows[Target(o)].version > 0
                                 ELSE rows[Target(o)].version > outbox[o].base
    BY <1>4 DEF SerialInv
  <2>2. outbox[o].status # "none"
    BY <1>1, <2>1, SyncPushAssumption DEF PushInv, OutboxInv, NoEntry, Target
  <2>3. QED
    BY <1>2, <2>1, <2>2
<1>5. edits' = 0 /\ editor'.record = NoOp
  BY DEF SerialInv
<1>6. QED
  BY <1>1, <1>3, <1>4, <1>5 DEF SerialInv

\* The write of a change that nothing has overtaken.
Writes(q) == Write(q) /\ wrote' # wrote

LEMMA WritesIsAccepted ==
    ASSUME Serial, SerialInv, NEW q \in Requests, Writes(q)
    PROVE  SerialInv' /\ History!RecordsNext
<1>1. PushInv /\ PushInv' /\ SyncTypeOK
  BY EndpointKeepsInv DEF SerialInv, PushInv, Writes
<1>2. PICK o, r : o = request[q].op /\ r = Target(o)
  OBVIOUS
<1>3. request[q].pc = "ready" /\ o \in Ops /\ r \in Records /\ request[q] \in Request
      /\ rows \in [Records -> Row] /\ wrote \in [Ops -> Nat] /\ outbox[o] \in Entry
  BY <1>1, <1>2, PushTypes DEF Writes, Write, SyncTypeOK, PushInv, RequestsInv, Target
<1>4. ~(Kind(o) = "CREATE" /\ rows[r].version # 0)
  BY <1>2 DEF Writes, Write
<1> DEFINE row == [version |-> IF Kind(o) = "CREATE" THEN 1 ELSE request[q].row.version + 1,
                   content |-> o,
                   life |-> IF Kind(o) = "DELETE" THEN "deleted" ELSE "live"]
<1>5. /\ rows' = [rows EXCEPT ![r] = row]
      /\ wrote' = [wrote EXCEPT ![o] = @ + 1]
      /\ UNCHANGED <<outbox, editor, edits>>
      /\ request' = [request EXCEPT ![q].pc = "done"]
  BY <1>2, <1>4 DEF Writes, Write, clientVars, onlineVars
<1>6. rows[r].version \in Nat /\ row.version = rows[r].version + 1 /\ row.content = o
  <2>1. rows[r].version \in Nat
    BY <1>3 DEF Row
  <2>2. CASE Kind(o) = "CREATE"
    BY <1>4, <2>1, <2>2
  <2>3. CASE Kind(o) # "CREATE"
    <3>1. request[q].row = rows[r]
      BY <1>2, <1>3, <2>3 DEF SerialInv
    <3>2. QED
      BY <2>1, <2>3, <3>1
  <2>4. QED
    BY <2>1, <2>2, <2>3
<1>7. /\ Kind(o) # "CREATE" => rows[r].version = outbox[o].base
      /\ outbox[o].base \in Nat
  <2>1. Kind(o) # "CREATE" => request[q].row = rows[r] /\ request[q].row.version = outbox[o].base
    BY <1>2, <1>3 DEF SerialInv
  <2>2. outbox[o].base \in BaseVersions \cup {0}
    BY <1>3 DEF Entry
  <2>3. outbox[o].base \in Nat
    BY <2>2, BasesAreNumbers
  <2>4. QED
    BY <2>1, <2>3
<1> HIDE DEF row
<1>8. /\ rows' \in [Records -> Row \cup {row}]
      /\ \A s \in Records : rows'[s] = IF s = r THEN row ELSE rows[s]
      /\ \A p \in Ops : wrote'[p] = IF p = o THEN wrote[o] + 1 ELSE wrote[p]
      /\ wrote[o] \in Nat
  BY <1>3, <1>5
<1>9. wrote[o] = 0
  <2>1. SUFFICES ASSUME wrote[o] > 0 PROVE FALSE
    BY <1>8
  <2>2. IF Kind(o) = "CREATE" THEN rows[r].version > 0 ELSE rows[r].version > outbox[o].base
    BY <1>2, <1>3, <2>1 DEF SerialInv
  <2>3. QED
    BY <1>4, <1>6, <1>7, <2>2
<1>10. SerialInv'
  <2>1. \A p \in Requests : request'[p].pc # "ready"
    BY <1>1, <1>5 DEF Serial, SyncTypeOK
  <2>2. ASSUME NEW p \in Ops, wrote'[p] > 0
        PROVE  /\ Target(p)' \in Records
               /\ IF Kind(p)' = "CREATE" THEN rows'[Target(p)'].version > 0
                  ELSE rows'[Target(p)'].version > outbox'[p].base
    <3>1. Target(p)' = Target(p) /\ Kind(p)' = Kind(p) /\ outbox'[p] = outbox[p]
      BY <1>5 DEF Target, Kind
    <3>2. CASE p = o
      BY <1>2, <1>3, <1>6, <1>7, <1>8, <3>1, <3>2
    <3>3. CASE p # o
      <4>1. /\ Target(p) \in Records
            /\ IF Kind(p) = "CREATE" THEN rows[Target(p)].version > 0
               ELSE rows[Target(p)].version > outbox[p].base
        BY <1>8, <2>2, <3>3 DEF SerialInv
      <4>2. CASE Target(p) # r
        BY <1>8, <3>1, <4>1, <4>2
      <4>3. CASE Target(p) = r
        <5>1. outbox[p].base \in Nat
          <6>1. outbox[p].base \in BaseVersions \cup {0}
            BY <1>1, PushTypes DEF Entry
          <6>2. QED
            BY <6>1, BasesAreNumbers
        <5>2. rows'[r].version = rows[r].version + 1
          BY <1>3, <1>6, <1>8
        <5>3. IF Kind(p) = "CREATE" THEN rows'[r].version > 0 ELSE rows'[r].version > outbox[p].base
          BY <1>6, <4>1, <4>3, <5>1, <5>2
        <5>4. QED
          BY <1>3, <3>1, <4>3, <5>3
      <4>4. QED
        BY <4>2, <4>3
    <3>4. QED
      BY <3>2, <3>3
  <2>3. edits' = 0 /\ editor'.record = NoOp
    BY <1>5 DEF SerialInv
  <2>4. QED
    BY <1>1, <2>1, <2>2, <2>3 DEF SerialInv
<1>11. History!Accept(r, o)
  <2>1. o \notin {p \in Ops : wrote[p] > 0}
    BY <1>9
  <2>2. [s \in Records |-> rows'[s].version]
          = [[s \in Records |-> rows[s].version] EXCEPT ![r] = @ + 1]
    BY <1>3, <1>6, <1>8
  <2>3. [s \in Records |-> rows'[s].content]
          = [[s \in Records |-> rows[s].content] EXCEPT ![r] = o]
    BY <1>3, <1>6, <1>8
  <2>4. {p \in Ops : wrote'[p] > 0} = {p \in Ops : wrote[p] > 0} \cup {o}
    BY <1>3, <1>8
  <2>5. QED
    BY <2>1, <2>2, <2>3, <2>4 DEF History!Accept
<1>12. QED
  BY <1>3, <1>10, <1>11 DEF History!RecordsNext

LEMMA SerialStep ==
    ASSUME Serial, SerialInv, [PushNext]_pushVars
    PROVE  /\ SerialInv'
           /\ (\E q \in Requests : Writes(q)) \/ UNCHANGED <<rows, wrote>>
<1>1. PushInv /\ SyncTypeOK /\ Edits = 0 /\ edits = 0 /\ editor.record = NoOp
  BY DEF SerialInv, PushInv, Serial
<1>2. ~\E r \in Records : OnlineCreate(r) \/ OnlineRead(r) \/ OnlineDelete(r)
  BY <1>1 DEF OnlineCreate, OnlineRead, OnlineDelete
<1>3. ~OnlineSave
  BY <1>1 DEF OnlineSave
<1>4. /\ request \in [Requests -> Request] /\ \A q \in Requests : request[q] \in Request
      /\ IdleRequest.pc = "idle"
  BY <1>1 DEF SyncTypeOK, IdleRequest
<1>5. CASE \E q \in Requests : Writes(q)
  BY <1>5, WritesIsAccepted
<1>6. CASE \A q \in Requests : ~Writes(q)
  <2>1. ASSUME NEW q \in Requests, NEW new, request' = [request EXCEPT ![q] = new],
               new.pc = "ready" =>
                   /\ request[q].pc # "idle" /\ new.op = request[q].op
                   /\ Kind(request[q].op) # "CREATE" =>
                        /\ new.row = rows[Target(request[q].op)]
                        /\ new.row.version = outbox[request[q].op].base,
               UNCHANGED <<rows, wrote, edits, editor>>
        PROVE  SerialInv'
    BY <1>4, <2>1, QuietStep
  <2>2. ASSUME NEW q \in Requests, NEW pc \in {"new", "refused"},
               request' = [request EXCEPT ![q].pc = pc],
               UNCHANGED <<rows, wrote, edits, editor>>
        PROVE  SerialInv'
    <3>1. /\ request' = [request EXCEPT ![q] = [request[q] EXCEPT !.pc = pc]]
          /\ [request[q] EXCEPT !.pc = pc].pc = pc
      BY <1>4, <2>2 DEF Request
    <3>2. QED
      BY <2>1, <2>2, <3>1
  <2>3. ASSUME NEW q \in Requests, NEW answer, Reply(q, answer), UNCHANGED <<rows, wrote, edits, editor>>
        PROVE  SerialInv'
    BY <1>4, <2>1, <2>3 DEF Reply
  <2>4. ASSUME NEW q \in Requests, Handle(q) \/ Fail(q)
        PROVE  SerialInv' /\ UNCHANGED <<rows, wrote>>
    <3>1. CASE Lookup(q) \/ Refuse(q)
      BY <2>2, <3>1 DEF Lookup, Refuse, onlineVars
    <3>2. CASE Read(q)
      <4> DEFINE o == request[q].op
                 new == [pc |-> Judge(o, rows[Target(o)]), op |-> o, row |-> rows[Target(o)]]
      <4>1. /\ request[q].pc # "idle" /\ request' = [request EXCEPT ![q] = new]
            /\ UNCHANGED <<rows, wrote, edits, editor>>
        BY <3>2 DEF Read, onlineVars
      <4>2. new.pc = "ready" /\ Kind(o) # "CREATE" => new.row.version = outbox[o].base
        BY DEF Judge
      <4>3. new.op = o /\ new.row = rows[Target(o)]
        OBVIOUS
      <4> HIDE DEF new
      <4>4. QED
        BY <2>1, <4>1, <4>2, <4>3
    <3>3. CASE Write(q)
      <4>1. UNCHANGED <<rows, wrote, edits, editor>> /\ request' = [request EXCEPT ![q].pc = "refused"]
        <5>1. UNCHANGED wrote
          BY <1>6, <3>3 DEF Writes
        <5>2. request[q].op \in Ops /\ request[q].pc = "ready" /\ wrote \in [Ops -> Nat]
          BY <1>1, <3>3 DEF Write, PushInv, RequestsInv, SyncTypeOK
        <5>3. wrote' # [wrote EXCEPT ![request[q].op] = @ + 1]
          BY <5>1, <5>2
        <5>4. QED
          BY <3>3, <5>1, <5>3 DEF Write, onlineVars
      <4>2. QED
        BY <2>2, <4>1
    <3>4. CASE Replay(q) \/ Store(q) \/ StoreFails(q) \/ TurnAway(q) \/ BatchFails(q)
      <4>1. /\ \E answer : Reply(q, answer)
            /\ UNCHANGED <<rows, wrote, edits, editor>>
        BY <3>4 DEF Replay, Store, StoreFails, TurnAway, BatchFails, onlineVars
      <4>2. QED
        BY <2>3, <4>1
    <3>5. QED
      BY <2>4, <3>1, <3>2, <3>3, <3>4 DEF Handle, Fail
  <2>5. ASSUME NEW d \in Devices, NEW q \in Requests, Send(d, q)
        PROVE  SerialInv' /\ UNCHANGED <<rows, wrote>>
    <3>1. PICK o : request' = [request EXCEPT ![q] = [IdleRequest EXCEPT !.pc = "received", !.op = o]]
      BY <2>5 DEF Send
    <3>2. [IdleRequest EXCEPT !.pc = "received", !.op = o].pc = "received"
      BY DEF IdleRequest
    <3>3. QED
      BY <2>1, <2>5, <3>1, <3>2 DEF Send, onlineVars
  <2>6. CASE Crash
    <3>1. \A q \in Requests : request'[q].pc = "idle"
      BY <1>4, <2>6 DEF Crash
    <3>2. UNCHANGED <<rows, wrote, edits, editor>>
      BY <2>6 DEF Crash, onlineVars
    <3>3. QED
      BY <3>1, <3>2, QuietStep
  <2>7. ASSUME \/ \E d \in Devices, k \in Kinds, r \in Records, b \in BaseVersions : MakeChange(d, k, r, b)
               \/ \E d \in Devices : StartPush(d) \/ GiveUp(d)
               \/ UNCHANGED pushVars
        PROVE  SerialInv' /\ UNCHANGED <<rows, wrote>>
    <3>1. UNCHANGED <<rows, wrote, edits, editor, request>>
      BY <2>7 DEF MakeChange, StartPush, GiveUp, pushVars, serverVars, onlineVars
    <3>2. QED
      BY <3>1, QuietStep
  <2>8. QED
    BY <1>2, <1>3, <2>4, <2>5, <2>6, <2>7 DEF PushNext
<1>7. QED
  BY <1>5, <1>6

\* With retries, lost replies and crashes, but one request at a time and no online edits,
\* the push implements the abstract history: every accepted change is one step of its
\* record, from version to version, and is accepted once (Push, EntitySyncService.Apply).
THEOREM SerialPushIsHistory ==
    ASSUME Serial
    PROVE  PushSpec => HistoryRefinement
<1>1. SyncInit => SerialInv
  BY SerialInit
<1>2. SyncInit => History!RecordsInit
  <2>1. SUFFICES ASSUME SyncInit PROVE History!RecordsInit
    OBVIOUS
  <2>2. /\ \A r \in Records : rows[r] = NoRow
        /\ \A o \in Ops : wrote[o] = 0
        /\ NoRow.version = 0 /\ NoRow.content = NoOp
    BY <2>1 DEF SyncInit, NoRow
  <2>3. {o \in Ops : wrote[o] > 0} = {}
    BY <2>2
  <2>4. QED
    BY <2>2, <2>3 DEF History!RecordsInit
<1>3. SerialInv /\ [PushNext]_pushVars => SerialInv'
  BY SerialStep
<1>4. SerialInv /\ [PushNext]_pushVars => [History!RecordsNext]_(History!recordVars)
  <2>1. SUFFICES ASSUME SerialInv, [PushNext]_pushVars
                 PROVE  [History!RecordsNext]_(History!recordVars)
    OBVIOUS
  <2>2. CASE \E q \in Requests : Writes(q)
    BY <2>1, <2>2, WritesIsAccepted
  <2>3. CASE UNCHANGED <<rows, wrote>>
    BY <2>3 DEF History!recordVars
  <2>4. QED
    BY <2>1, <2>2, <2>3, SerialStep
<1>5. QED
  BY <1>1, <1>2, <1>3, <1>4, PTL DEF PushSpec, HistoryRefinement, History!RecordsSpec
=============================================================================
