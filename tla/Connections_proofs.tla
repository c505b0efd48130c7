-------------------------- MODULE Connections_proofs --------------------------
(***************************************************************************)
(* Proofs about the connections of the daemon, in the sessions of          *)
(* MCConnections: for any number of handlers, process ids, tasks of a      *)
(* client, topics and emitters, and any bounds.                            *)
(***************************************************************************)
EXTENDS MCConnections, SequenceTheorems, TLAPS

(***************************************************************************)
(* What the queues of both connections hold, as sets.                      *)
(***************************************************************************)
LEMMA Appended ==
    ASSUME NEW S, NEW q \in Seq(S), NEW m \in S
    PROVE  /\ Append(q, m) \in Seq(S)
           /\ Append(q, m) # <<>>
           /\ Range(Append(q, m)) = Range(q) \cup {m}
<1>1. /\ Append(q, m) \in Seq(S) /\ Len(Append(q, m)) = Len(q) + 1
      /\ \A i \in 1..Len(q) : Append(q, m)[i] = q[i]
      /\ Append(q, m)[Len(q) + 1] = m
  BY AppendProperties
<1>2. DOMAIN q = 1..Len(q) /\ DOMAIN Append(q, m) = 1..(Len(q) + 1) /\ Len(q) \in Nat
  BY <1>1, LenProperties
<1>3. 1..(Len(q) + 1) = 1..Len(q) \cup {Len(q) + 1}
  BY <1>2
<1>4. Range(Append(q, m)) = Range(q) \cup {m}
  BY <1>1, <1>2, <1>3 DEF Range
<1> QED BY <1>1, <1>2, <1>4, EmptySeq

LEMMA Taken ==
    ASSUME NEW S, NEW q \in Seq(S), q # <<>>
    PROVE  /\ Head(q) \in Range(q) /\ Head(q) \in S
           /\ Tail(q) \in Seq(S)
           /\ Range(q) = {Head(q)} \cup Range(Tail(q))
<1>1. /\ Len(q) \in Nat /\ Len(q) > 0 /\ Head(q) = q[1] /\ Head(q) \in S
      /\ Tail(q) \in Seq(S) /\ Len(Tail(q)) = Len(q) - 1
      /\ \A i \in 1..Len(Tail(q)) : Tail(q)[i] = q[i + 1]
  BY HeadTailProperties, LenProperties, EmptySeq
<1>2. DOMAIN q = 1..Len(q) /\ DOMAIN Tail(q) = 1..(Len(q) - 1)
  BY <1>1, LenProperties
<1>3. Range(q) \subseteq {Head(q)} \cup Range(Tail(q))
  <2>1. ASSUME NEW i \in 1..Len(q), i # 1
        PROVE  q[i] \in Range(Tail(q))
    <3>1. i - 1 \in 1..(Len(q) - 1) /\ (i - 1) + 1 = i
      BY <1>1, <2>1
    <3>2. Tail(q)[i - 1] = q[i]
      BY <1>1, <3>1
    <3> QED BY <1>2, <3>1, <3>2 DEF Range
  <2> QED BY <1>1, <1>2, <2>1 DEF Range
<1>4. Range(Tail(q)) \subseteq Range(q)
  <2>1. ASSUME NEW j \in 1..(Len(q) - 1)
        PROVE  Tail(q)[j] \in Range(q)
    <3>1. j + 1 \in 1..Len(q)
      BY <1>1
    <3> QED BY <1>1, <1>2, <3>1 DEF Range
  <2> QED BY <1>2, <2>1 DEF Range
<1>5. Head(q) \in Range(q)
  BY <1>1, <1>2 DEF Range
<1> QED BY <1>1, <1>3, <1>4, <1>5

LEMMA NothingQueued == ASSUME NEW S PROVE <<>> \in Seq(S) /\ Range(<<>>) = {}
BY EmptySeq DEF Range

(***************************************************************************)
(* The events of the daemon (EventStream).  What a queue of messages last  *)
(* says of a topic; a reply is not an event.                               *)
(***************************************************************************)
Texts == [reply : BOOLEAN, update : UNION {[S -> Int] : S \in SUBSET Topics}]

Tells(m, t) == ~m.reply /\ t \in DOMAIN m.update

Mentions(q, t) == \E i \in 1..Len(q) : Tells(q[i], t)

Newest(q, t) ==
    {i \in 1..Len(q) : Tells(q[i], t) /\ \A j \in 1..Len(q) : j > i => ~Tells(q[j], t)}

LastSaid(q, t) == {q[i].update[t] : i \in Newest(q, t)}

Replies(q) == {q[i] : i \in {j \in 1..Len(q) : q[j].reply}}

NoReply(q) == \A i \in 1..Len(q) : ~q[i].reply

OneReply(q) == \A i, j \in 1..Len(q) : q[i].reply /\ q[j].reply => i = j

LEMMA AfterAppend ==
    ASSUME NEW S, NEW q \in Seq(S), NEW m \in S, NEW t
    PROVE  /\ Append(q, m) \in Seq(S) /\ Len(Append(q, m)) = Len(q) + 1
           /\ Mentions(Append(q, m), t) <=> Mentions(q, t) \/ Tells(m, t)
           /\ Tells(m, t) => LastSaid(Append(q, m), t) = {m.update[t]}
           /\ ~Tells(m, t) => LastSaid(Append(q, m), t) = LastSaid(q, t)
           /\ ~m.reply => (NoReply(Append(q, m)) <=> NoReply(q))
           /\ ~m.reply /\ OneReply(q) => OneReply(Append(q, m))
           /\ NoReply(q) => OneReply(Append(q, m))
           /\ Replies(Append(q, m)) \subseteq Replies(q) \cup {m}
           /\ ~m.reply => Replies(Append(q, m)) = Replies(q)
<1> DEFINE a == Append(q, m)
<1>1. /\ a \in Seq(S) /\ Len(a) = Len(q) + 1 /\ Len(q) \in Nat
      /\ \A i \in 1..Len(q) : a[i] = q[i]
      /\ a[Len(q) + 1] = m
  BY AppendProperties, LenProperties
<1> HIDE DEF a
<1>2. \A i \in 1..Len(a) : i \in 1..Len(q) \/ i = Len(q) + 1
  BY <1>1
<1>3. Len(q) + 1 \in 1..Len(a) /\ \A i \in 1..Len(q) : i \in 1..Len(a) /\ Len(q) + 1 > i
  BY <1>1
<1>4. Mentions(a, t) <=> Mentions(q, t) \/ Tells(m, t)
  BY <1>1, <1>2, <1>3 DEF Mentions
<1>5. ASSUME Tells(m, t)
      PROVE  LastSaid(a, t) = {m.update[t]}
  <2>1. Len(q) + 1 \in Newest(a, t)
    BY <1>1, <1>2, <1>3, <1>5 DEF Newest
  <2>2. \A i \in Newest(a, t) : i = Len(q) + 1
    BY <1>1, <1>2, <1>3, <1>5 DEF Newest
  <2> QED BY <1>1, <2>1, <2>2 DEF LastSaid
<1>6. ASSUME ~Tells(m, t)
      PROVE  LastSaid(a, t) = LastSaid(q, t)
  <2>1. Newest(a, t) = Newest(q, t)
    BY <1>1, <1>2, <1>3, <1>6 DEF Newest
  <2>2. \A i \in Newest(q, t) : a[i] = q[i]
    BY <1>1 DEF Newest
  <2> QED BY <2>1, <2>2 DEF LastSaid
<1>7. /\ ~m.reply => (NoReply(a) <=> NoReply(q))
      /\ ~m.reply /\ OneReply(q) => OneReply(a)
      /\ NoReply(q) => OneReply(a)
  BY <1>1, <1>2, <1>3 DEF NoReply, OneReply
<1>8. /\ Replies(a) \subseteq Replies(q) \cup {m}
      /\ ~m.reply => Replies(a) = Replies(q)
  <2>1. \A i \in 1..Len(q) : i \in 1..Len(a) /\ a[i] = q[i]
    BY <1>1, <1>3
  <2> QED BY <1>1, <1>2, <2>1 DEF Replies
<1> QED BY <1>1, <1>4, <1>5, <1>6, <1>7, <1>8 DEF a

LEMMA AfterTail ==
    ASSUME NEW S, NEW q \in Seq(S), q # <<>>, NEW t
    PROVE  /\ Head(q) \in S /\ Tail(q) \in Seq(S) /\ Len(Tail(q)) = Len(q) - 1 /\ Len(q) \in Nat \ {0}
           /\ Mentions(q, t) <=> Tells(Head(q), t) \/ Mentions(Tail(q), t)
           /\ LastSaid(Tail(q), t) \subseteq LastSaid(q, t)
           /\ Tells(Head(q), t) /\ ~Mentions(Tail(q), t) => Head(q).update[t] \in LastSaid(q, t)
           /\ NoReply(q) <=> ~Head(q).reply /\ NoReply(Tail(q))
           /\ OneReply(q) => OneReply(Tail(q))
           /\ OneReply(q) /\ Head(q).reply => NoReply(Tail(q))
           /\ Replies(Tail(q)) \subseteq Replies(q)
           /\ Head(q).reply => Head(q) \in Replies(q)
<1> DEFINE b == Tail(q)
<1>1. /\ Len(q) \in Nat /\ Len(q) > 0 /\ Head(q) = q[1] /\ Head(q) \in S
      /\ b \in Seq(S) /\ Len(b) = Len(q) - 1
      /\ \A i \in 1..Len(b) : b[i] = q[i + 1]
  BY HeadTailProperties, LenProperties, EmptySeq
<1> HIDE DEF b
<1>2. \A i \in 1..Len(b) : i + 1 \in 1..Len(q) /\ i + 1 # 1
  BY <1>1
<1>3. ASSUME NEW i \in 1..Len(q), i # 1
      PROVE  i - 1 \in 1..Len(b) /\ b[i - 1] = q[i] /\ (i - 1) + 1 = i
  <2>1. i - 1 \in 1..Len(b) /\ (i - 1) + 1 = i
    BY <1>1, <1>3
  <2> QED BY <1>1, <2>1
<1>4. 1 \in 1..Len(q)
  BY <1>1
<1>5. Mentions(q, t) <=> Tells(Head(q), t) \/ Mentions(b, t)
  <2>1. Mentions(b, t) => Mentions(q, t)
    BY <1>1, <1>2 DEF Mentions
  <2>2. Mentions(q, t) => Tells(Head(q), t) \/ Mentions(b, t)
    BY <1>1, <1>3 DEF Mentions
  <2> QED BY <1>1, <1>4, <2>1, <2>2 DEF Mentions
<1>6. LastSaid(b, t) \subseteq LastSaid(q, t)
  <2>1. ASSUME NEW i \in Newest(b, t)
        PROVE  i + 1 \in Newest(q, t) /\ b[i] = q[i + 1]
    <3>1. i \in 1..Len(b) /\ Tells(b[i], t) /\ \A j \in 1..Len(b) : j > i => ~Tells(b[j], t)
      BY DEF Newest
    <3>2. ASSUME NEW j \in 1..Len(q), j > i + 1
          PROVE  ~Tells(q[j], t)
      <4>1. j # 1 /\ j - 1 > i
        BY <3>1, <3>2
      <4> QED BY <1>3, <3>1, <4>1
    <3> QED BY <1>1, <1>2, <3>1, <3>2 DEF Newest
  <2> QED BY <2>1 DEF LastSaid
<1>7. ASSUME Tells(Head(q), t), ~Mentions(b, t)
      PROVE  Head(q).update[t] \in LastSaid(q, t)
  <2>1. ASSUME NEW j \in 1..Len(q), j > 1
        PROVE  ~Tells(q[j], t)
    BY <1>3, <1>7, <2>1 DEF Mentions
  <2>2. 1 \in Newest(q, t)
    BY <1>1, <1>4, <1>7, <2>1 DEF Newest
  <2> QED BY <1>1, <2>2 DEF LastSaid
<1>8. NoReply(q) <=> ~Head(q).reply /\ NoReply(b)
  <2>1. NoReply(q) => NoReply(b)
    BY <1>1, <1>2 DEF NoReply
  <2>2. ~Head(q).reply /\ NoReply(b) => NoReply(q)
    BY <1>1, <1>3 DEF NoReply
  <2> QED BY <1>1, <1>4, <2>1, <2>2 DEF NoReply
<1>9. OneReply(q) => OneReply(b)
  <2>1. SUFFICES ASSUME OneReply(q), NEW i \in 1..Len(b), NEW j \in 1..Len(b), b[i].reply, b[j].reply
                 PROVE  i = j
    BY DEF OneReply
  <2>2. i + 1 = j + 1
    BY <1>1, <1>2, <2>1 DEF OneReply
  <2> QED BY <2>2
<1>10. OneReply(q) /\ Head(q).reply => NoReply(b)
  BY <1>1, <1>2, <1>4 DEF OneReply, NoReply
<1>11. Replies(b) \subseteq Replies(q) /\ (Head(q).reply => Head(q) \in Replies(q))
  BY <1>1, <1>2, <1>4 DEF Replies
<1> QED BY <1>1, <1>5, <1>6, <1>7, <1>8, <1>9, <1>10, <1>11 DEF b

LEMMA NothingSaid ==
    ASSUME NEW S, NEW t
    PROVE  /\ <<>> \in Seq(S) /\ Len(<<>>) = 0
           /\ LastSaid(<<>>, t) = {} /\ ~Mentions(<<>>, t) /\ NoReply(<<>>) /\ OneReply(<<>>)
           /\ Replies(<<>>) = {}
BY EmptySeq DEF LastSaid, Newest, Mentions, NoReply, OneReply, Replies

LEMMA NoReplies == ASSUME NEW q PROVE NoReply(q) <=> Replies(q) = {}
BY DEF NoReply, Replies

LEMMA ATextSays ==
    ASSUME NEW m \in Texts
    PROVE  /\ m.reply \in BOOLEAN /\ DOMAIN m.update \subseteq Topics
           /\ \A t \in DOMAIN m.update : m.update[t] \in Int
BY DEF Texts

LEMMA MessageIsText ==
    ASSUME NEW r \in BOOLEAN, NEW ts \in SUBSET Topics, NEW f, \A t \in ts : f[t] \in Int
    PROVE  /\ Message(r, ts, f) \in Texts /\ Message(r, ts, f).reply = r
           /\ DOMAIN Message(r, ts, f).update = ts
           /\ \A t \in ts : Message(r, ts, f).update[t] = f[t]
<1>1. [t \in ts |-> f[t]] \in UNION {[S -> Int] : S \in SUBSET Topics}
  OBVIOUS
<1> QED BY <1>1 DEF Message, Texts

LEMMA Merged ==
    ASSUME NEW known \in [Topics -> Int], NEW m \in Texts
    PROVE  /\ Merge(known, m.update) \in [Topics -> Int]
           /\ \A t \in Topics : Merge(known, m.update)[t] =
                  IF t \in DOMAIN m.update THEN m.update[t] ELSE known[t]
BY ATextSays DEF Merge

(* A ring of a given capacity. *)
LEMMA AfterPush ==
    ASSUME NEW S, NEW q \in Seq(S), NEW m \in S, NEW t, NEW n \in Nat \ {0}, Len(q) \leq n
    PROVE  /\ Pushed(q, m, n) \in Seq(S) /\ Len(Pushed(q, m, n)) \leq n
           /\ Tells(m, t) => Mentions(Pushed(q, m, n), t) /\ LastSaid(Pushed(q, m, n), t) = {m.update[t]}
           /\ ~Tells(m, t) => LastSaid(Pushed(q, m, n), t) \subseteq LastSaid(q, t)
           /\ Mentions(q, t) /\ Len(q) # n => Mentions(Pushed(q, m, n), t)
           /\ ~m.reply /\ NoReply(q) => NoReply(Pushed(q, m, n))
<1>1. CASE Len(q) < n
  BY <1>1, AfterAppend, LenProperties DEF Pushed
<1>2. CASE ~(Len(q) < n)
  <2>1. q # <<>> /\ Len(q) = n
    BY <1>2, LenProperties, EmptySeq
  <2>2. /\ Tail(q) \in Seq(S) /\ Len(Tail(q)) = n - 1
        /\ LastSaid(Tail(q), t) \subseteq LastSaid(q, t)
        /\ NoReply(q) => NoReply(Tail(q))
    BY <2>1, AfterTail
  <2> DEFINE b == Tail(q)
  <2>3. Pushed(q, m, n) = Append(b, m)
    BY <1>2 DEF Pushed
  <2> HIDE DEF b
  <2>4. b \in Seq(S) /\ Len(b) = n - 1
    BY <2>2 DEF b
  <2>5. /\ Append(b, m) \in Seq(S) /\ Len(Append(b, m)) = Len(b) + 1
        /\ Mentions(Append(b, m), t) <=> Mentions(b, t) \/ Tells(m, t)
        /\ Tells(m, t) => LastSaid(Append(b, m), t) = {m.update[t]}
        /\ ~Tells(m, t) => LastSaid(Append(b, m), t) = LastSaid(b, t)
        /\ ~m.reply => (NoReply(Append(b, m)) <=> NoReply(b))
    BY <2>4, AfterAppend
  <2>6. LastSaid(b, t) \subseteq LastSaid(q, t) /\ (NoReply(q) => NoReply(b))
    BY <2>2 DEF b
  <2> QED BY <2>1, <2>3, <2>4, <2>5, <2>6
<1> QED BY <1>1, <1>2

(***************************************************************************)
(* What a topic's events are on their way as: an emitter has one to send,  *)
(* the ring of the connection holds one or has lost some, or the forwarder *)
(* means to send the topic again.                                          *)
(***************************************************************************)
Pending(t) == \E e \in Emitters : emitting[e].step # "idle" /\ emitting[e].topic = t

InRing(t) == Pending(t) \/ Mentions(ring, t) \/ lagged

InDaemon(t) == InRing(t) \/ needs_resync

ToApply(t) == Mentions(wire, t) \/ Mentions(client_ring, t) \/ client_lagged

Current(v, t) == v = state[t] \/ v = sent[t]

StreamTyped ==
    /\ state \in [Topics -> Int] /\ sent \in [Topics -> Int] /\ mirror \in [Topics -> Int]
    /\ changes \in Nat
    /\ ring \in Seq(Texts) /\ Len(ring) \leq RingCap /\ NoReply(ring)
    /\ wire \in Seq(Texts)
    /\ client_ring \in Seq(Texts) /\ Len(client_ring) \leq ClientCap /\ NoReply(client_ring)
    /\ emitting \in [Emitters -> [step : {"idle", "changed", "read"}, topic : Topics \cup {None},
                                  msg : Texts]]
    /\ \A e \in Emitters :
           /\ emitting[e].step # "idle" => emitting[e].topic \in Topics
           /\ emitting[e].step = "read" =>
                  /\ ~emitting[e].msg.reply
                  /\ DOMAIN emitting[e].msg.update = {emitting[e].topic}

(* The forwarder's snapshot, and the one request for a snapshot.           *)
ResyncTyped ==
    /\ forwarder \in {"select", "resync"}
    /\ forwarder = "resync" => needs_resync
    /\ snap # Nothing =>
           /\ forwarder = "resync"
           /\ snap.update \in [Resynced -> Int]
           /\ \A t \in Resynced : Current(snap.update[t], t) \/ InRing(t)

OneSnapshot ==
    /\ server.step \in {"idle", "asked", "reply"}
    /\ pump \in {"idle", "ask", "wait"}
    /\ server.step = "reply" =>
           server.msg \in Texts /\ server.msg.reply /\ DOMAIN server.msg.update = Topics
    /\ pump # "wait" => server.step = "idle" /\ NoReply(wire)
    /\ server.step # "idle" => NoReply(wire)
    /\ OneReply(wire)
    /\ \A m \in Replies(wire) : DOMAIN m.update = Topics

(* What was last said of a topic is current, or there is more to come.     *)
SaidIsCurrent(t) ==
    /\ LastSaid(ring, t) \subseteq {sent[t]}
    /\ \A v \in LastSaid(wire, t) : Current(v, t) \/ InDaemon(t)
    /\ \A v \in LastSaid(client_ring, t) : Current(v, t) \/ InDaemon(t) \/ Mentions(wire, t)

RepliesAreCurrent(t) ==
    /\ server.step = "reply" =>
           Current(server.msg.update[t], t) \/ InDaemon(t) \/ ToApply(t)
    /\ \A m \in Replies(wire) : Current(m.update[t], t) \/ InDaemon(t) \/ ToApply(t)

MirrorIsCurrent(t) ==
    Current(mirror[t], t) \/ InDaemon(t) \/ ToApply(t) \/ pump # "idle"

StreamInv ==
    /\ StreamTyped /\ ResyncTyped /\ OneSnapshot
    /\ \A t \in Resynced : SaidIsCurrent(t) /\ RepliesAreCurrent(t) /\ MirrorIsCurrent(t)

LEMMA Resyncing == Resynced \subseteq Topics /\ Resynced = {"now_playing", "queue"}
BY EventStreamAssumption DEF EventStreamAssumption, Resynced

LEMMA NothingIsText == Nothing \in Texts /\ ~Nothing.reply
<1>1. Nothing \in Texts /\ Nothing.reply = FALSE
  BY MessageIsText DEF Nothing
<1> QED BY <1>1

LEMMA StreamStart == Init \/ NoEvents => StreamInv
<1> SUFFICES ASSUME Init \/ NoEvents PROVE StreamInv
  OBVIOUS
<1>1. /\ state = [t \in Topics |-> 0] /\ sent = [t \in Topics |-> 0]
      /\ emitting = [e \in Emitters |-> Idle]
      /\ ring = <<>> /\ lagged = FALSE /\ wire = <<>> /\ client_ring = <<>>
      /\ forwarder = "select" /\ needs_resync = FALSE /\ snap = Nothing
      /\ server = [step |-> "idle", msg |-> Nothing]
  BY DEF Init, NoEvents
<1>2. \/ mirror = [t \in Topics |-> Unknown] /\ pump = "ask"
      \/ mirror = [t \in Topics |-> 0] /\ pump = "idle"
  BY DEF Init, NoEvents
<1>3. changes \in Nat /\ RingCap \in Nat /\ ClientCap \in Nat
  BY EventStreamAssumption DEF EventStreamAssumption, Init, NoEvents
<1>4. Idle \in [step : {"idle", "changed", "read"}, topic : Topics \cup {None}, msg : Texts]
      /\ Idle.step = "idle"
  BY NothingIsText DEF Idle
<1>5. /\ <<>> \in Seq(Texts) /\ Len(<<>>) = 0 /\ NoReply(<<>>) /\ OneReply(<<>>) /\ Replies(<<>>) = {}
      /\ \A t \in Topics : LastSaid(<<>>, t) = {}
  BY NothingSaid
<1>6. StreamTyped
  BY <1>1, <1>2, <1>3, <1>4, <1>5 DEF StreamTyped, Unknown
<1>7. ResyncTyped /\ OneSnapshot
  BY <1>1, <1>2, <1>5 DEF ResyncTyped, OneSnapshot
<1>8. ASSUME NEW t \in Resynced
      PROVE  SaidIsCurrent(t) /\ RepliesAreCurrent(t) /\ MirrorIsCurrent(t)
  BY <1>1, <1>2, <1>5, <1>8, Resyncing DEF SaidIsCurrent, RepliesAreCurrent, MirrorIsCurrent, Current
<1> QED BY <1>6, <1>7, <1>8 DEF StreamInv

(* Whatever the emitters do, the rest of the invariant stays.              *)
LEMMA EmittersMove ==
    ASSUME StreamInv, StreamTyped',
           UNCHANGED <<forwarder, needs_resync, snap, server, wire, client_ring, client_lagged, pump, mirror>>,
           \A t \in Resynced :
               /\ LastSaid(ring', t) \subseteq {sent'[t]}
               /\ InRing(t) => InRing(t)'
               /\ (state'[t] = state[t] /\ sent'[t] = sent[t]) \/ InRing(t)'
    PROVE  StreamInv'
<1>1. \A t \in Resynced : \A v : Current(v, t) => Current(v, t)' \/ InRing(t)'
  BY DEF Current
<1>2. \A t \in Resynced : (InDaemon(t) => InDaemon(t)') /\ (InRing(t)' => InDaemon(t)')
  BY DEF InDaemon
<1>3. \A t \in Resynced : ToApply(t)' = ToApply(t)
  BY DEF ToApply
<1>4. ResyncTyped'
  BY <1>1 DEF StreamInv, ResyncTyped
<1>5. OneSnapshot'
  BY DEF StreamInv, OneSnapshot
<1>6. ASSUME NEW t \in Resynced
      PROVE  SaidIsCurrent(t)' /\ RepliesAreCurrent(t)' /\ MirrorIsCurrent(t)'
  <2>1. SaidIsCurrent(t)'
    BY <1>1, <1>2 DEF StreamInv, SaidIsCurrent
  <2>2. RepliesAreCurrent(t)'
    BY <1>1, <1>2, <1>3 DEF StreamInv, RepliesAreCurrent
  <2>3. MirrorIsCurrent(t)'
    BY <1>1, <1>2, <1>3 DEF StreamInv, MirrorIsCurrent
  <2> QED BY <2>1, <2>2, <2>3
<1> QED BY <1>4, <1>5, <1>6 DEF StreamInv

LEMMA EmitterSteps ==
    ASSUME StreamInv, NEW e \in Emitters, NEW t0 \in Topics, Change(e, t0) \/ Emit(e)
    PROVE  StreamInv'
<1>0. StreamTyped
  BY DEF StreamInv
<1>1. CASE Change(e, t0)
  <2> DEFINE one == [step |-> "changed", topic |-> t0, msg |-> Nothing]
  <2>1. /\ emitting[e].step = "idle" /\ emitting' = [emitting EXCEPT ![e] = one]
        /\ state' = [state EXCEPT ![t0] = changes + 1] /\ changes' = changes + 1
        /\ UNCHANGED <<sent, ring, lagged, forwarder, needs_resync, snap, server, wire, client_ring,
                       client_lagged, pump, mirror>>
    BY <1>1 DEF Change, Idle, ringVars, forwarderVars, clientVars
  <2>2. one \in [step : {"idle", "changed", "read"}, topic : Topics \cup {None}, msg : Texts]
        /\ one.step = "changed" /\ one.topic = t0
    BY NothingIsText
  <2> HIDE DEF one
  <2>3. emitting'[e] = one /\ \A d \in Emitters : d # e => emitting'[d] = emitting[d]
    BY <1>0, <2>1 DEF StreamTyped
  <2>4. StreamTyped'
    BY <1>0, <2>1, <2>2, <2>3 DEF StreamTyped
  <2>5. Pending(t0)' /\ \A t \in Topics : Pending(t) => Pending(t)'
    BY <2>1, <2>2, <2>3 DEF Pending
  <2>6. \A t \in Topics : t # t0 => state'[t] = state[t]
    BY <1>0, <2>1 DEF StreamTyped
  <2>7. \A t \in Topics : InRing(t) => InRing(t)'
    BY <2>1, <2>5 DEF InRing
  <2>8. InRing(t0)'
    BY <2>5 DEF InRing
  <2>9. \A t \in Resynced : LastSaid(ring', t) \subseteq {sent'[t]}
    BY <2>1 DEF StreamInv, SaidIsCurrent
  <2> QED BY <2>1, <2>4, <2>6, <2>7, <2>8, <2>9, Resyncing, EmittersMove
<1>2. CASE EmitReads(e)
  <2> DEFINE topic == emitting[e].topic
             one == [step |-> "read", topic |-> topic, msg |-> Message(FALSE, {topic}, state)]
  <2>1. /\ emitting[e].step = "changed" /\ emitting' = [emitting EXCEPT ![e] = one]
        /\ UNCHANGED <<state, changes, sent, ring, lagged, forwarder, needs_resync, snap, server, wire,
                       client_ring, client_lagged, pump, mirror>>
    BY <1>2 DEF EmitReads, ringVars, forwarderVars, clientVars
  <2>2. topic \in Topics
    BY <1>0, <2>1 DEF StreamTyped
  <2>3. /\ Message(FALSE, {topic}, state) \in Texts /\ ~Message(FALSE, {topic}, state).reply
        /\ DOMAIN Message(FALSE, {topic}, state).update = {topic}
    <3>1. {topic} \in SUBSET Topics /\ \A t \in {topic} : state[t] \in Int
      BY <1>0, <2>2 DEF StreamTyped
    <3>2. Message(FALSE, {topic}, state).reply = FALSE
      BY DEF Message
    <3> HIDE DEF topic
    <3> QED BY <3>1, <3>2, MessageIsText
  <2>4. /\ one \in [step : {"idle", "changed", "read"}, topic : Topics \cup {None}, msg : Texts]
        /\ one.step = "read" /\ one.topic = topic /\ ~one.msg.reply /\ DOMAIN one.msg.update = {topic}
    BY <2>2, <2>3
  <2> HIDE DEF one
  <2>5. emitting'[e] = one /\ \A d \in Emitters : d # e => emitting'[d] = emitting[d]
    BY <1>0, <2>1 DEF StreamTyped
  <2>6. StreamTyped'
    BY <1>0, <2>1, <2>2, <2>4, <2>5 DEF StreamTyped
  <2>7. \A t \in Topics : Pending(t) => Pending(t)'
    BY <2>1, <2>4, <2>5 DEF Pending
  <2>8. \A t \in Topics : InRing(t) => InRing(t)'
    BY <2>1, <2>7 DEF InRing
  <2>9. \A t \in Resynced : LastSaid(ring', t) \subseteq {sent'[t]}
    BY <2>1 DEF StreamInv, SaidIsCurrent
  <2> QED BY <2>1, <2>6, <2>8, <2>9, Resyncing, EmittersMove
<1>3. CASE EmitSends(e)
  <2>0. PICK m \in Texts, topic \in Topics : m = emitting[e].msg /\ topic = emitting[e].topic
    BY <1>0, <1>3 DEF EmitSends, StreamTyped
  <2>1. /\ emitting[e].step = "read" /\ emitting' = [emitting EXCEPT ![e] = Idle]
        /\ ring' = Pushed(ring, m, RingCap) /\ lagged' = (lagged \/ Len(ring) = RingCap)
        /\ sent' = Merge(sent, m.update)
        /\ UNCHANGED <<state, changes, forwarder, needs_resync, snap, server, wire,
                       client_ring, client_lagged, pump, mirror>>
    BY <1>3, <2>0 DEF EmitSends, forwarderVars, clientVars
  <2>2. ~m.reply /\ DOMAIN m.update = {topic}
    BY <1>0, <2>0, <2>1 DEF StreamTyped
  <2>3. RingCap \in Nat \ {0} /\ ring \in Seq(Texts) /\ Len(ring) \leq RingCap /\ NoReply(ring)
    BY <1>0, EventStreamAssumption DEF EventStreamAssumption, StreamTyped
  <2>4. /\ sent' \in [Topics -> Int] /\ sent'[topic] = m.update[topic]
        /\ \A t \in Topics : t # topic => sent'[t] = sent[t]
    <3>1. sent \in [Topics -> Int]
      BY <1>0 DEF StreamTyped
    <3>2. /\ Merge(sent, m.update) \in [Topics -> Int]
          /\ \A t \in Topics : Merge(sent, m.update)[t] =
                 IF t \in DOMAIN m.update THEN m.update[t] ELSE sent[t]
      BY <2>0, <3>1, Merged
    <3> QED BY <2>1, <2>2, <3>2
  <2>5. /\ Idle \in [step : {"idle", "changed", "read"}, topic : Topics \cup {None}, msg : Texts]
        /\ Idle.step = "idle"
    BY NothingIsText DEF Idle
  <2>6. emitting'[e] = Idle /\ \A d \in Emitters : d # e => emitting'[d] = emitting[d]
    BY <1>0, <2>1 DEF StreamTyped
  <2>7. /\ ring' \in Seq(Texts) /\ Len(ring') \leq RingCap /\ NoReply(ring')
        /\ \A t \in Topics :
               /\ Tells(m, t) => Mentions(ring', t) /\ LastSaid(ring', t) = {m.update[t]}
               /\ ~Tells(m, t) => LastSaid(ring', t) \subseteq LastSaid(ring, t)
               /\ Mentions(ring, t) /\ Len(ring) # RingCap => Mentions(ring', t)
    <3>1. ASSUME NEW t \in Topics
          PROVE  /\ ring' \in Seq(Texts) /\ Len(ring') \leq RingCap /\ NoReply(ring')
                 /\ Tells(m, t) => Mentions(ring', t) /\ LastSaid(ring', t) = {m.update[t]}
                 /\ ~Tells(m, t) => LastSaid(ring', t) \subseteq LastSaid(ring, t)
                 /\ Mentions(ring, t) /\ Len(ring) # RingCap => Mentions(ring', t)
      BY <2>1, <2>2, <2>3, AfterPush
    <3> QED BY <2>0, <3>1
  <2>8. StreamTyped'
    BY <1>0, <2>1, <2>4, <2>5, <2>6, <2>7 DEF StreamTyped
  <2>9. \A t \in Topics : Tells(m, t) <=> t = topic
    BY <2>2 DEF Tells
  <2>10. \A t \in Topics : Pending(t) => Pending(t)' \/ t = topic
    BY <2>0, <2>5, <2>6 DEF Pending
  <2>11. \A t \in Topics : InRing(t) => InRing(t)'
    BY <2>1, <2>7, <2>9, <2>10 DEF InRing
  <2>12. InRing(topic)'
    BY <2>2, <2>7, <2>9 DEF InRing
  <2>13. \A t \in Resynced : LastSaid(ring', t) \subseteq {sent'[t]}
    BY <2>4, <2>7, <2>9, Resyncing DEF StreamInv, SaidIsCurrent
  <2> QED BY <2>1, <2>4, <2>8, <2>11, <2>12, <2>13, Resyncing, EmittersMove
<1> QED BY <1>1, <1>2, <1>3 DEF Emit

(* The forwarder.  While it means to send everything again, all is on its  *)
(* way.                                                                    *)
LEMMA ResyncIsMeant ==
    ASSUME StreamInv, needs_resync', StreamTyped', ResyncTyped', OneSnapshot',
           \A t \in Resynced : LastSaid(ring', t) \subseteq {sent'[t]}
    PROVE  StreamInv'
<1>1. \A t \in Resynced : InDaemon(t)'
  BY DEF InDaemon
<1> QED BY <1>1 DEF StreamInv, SaidIsCurrent, RepliesAreCurrent, MirrorIsCurrent

LEMMA ForwarderSteps ==
    ASSUME StreamInv, ForwarderLagged \/ RetryTick \/ ResyncReads
    PROVE  StreamInv'
<1>0. StreamTyped /\ ResyncTyped /\ OneSnapshot
  BY DEF StreamInv
<1>1. /\ UNCHANGED <<state, changes, emitting, sent, ring, server, wire, client_ring, client_lagged, pump,
                     mirror>>
  BY DEF ForwarderLagged, RetryTick, ResyncReads, daemonVars, ringVars, clientVars
<1>2. StreamTyped' /\ OneSnapshot' /\ \A t \in Resynced : LastSaid(ring', t) \subseteq {sent'[t]}
  BY <1>0, <1>1 DEF StreamTyped, OneSnapshot, StreamInv, SaidIsCurrent
<1>3. CASE ForwarderLagged
  <2>1. needs_resync' /\ forwarder' = "select" /\ snap' = Nothing
    BY <1>0, <1>3 DEF ForwarderLagged, ResyncTyped
  <2>2. ResyncTyped'
    BY <2>1 DEF ResyncTyped
  <2> QED BY <1>2, <2>1, <2>2, ResyncIsMeant
<1>4. CASE RetryTick
  <2>1. needs_resync' /\ forwarder' = "resync" /\ snap' = Nothing
    BY <1>0, <1>4 DEF RetryTick, resync_due, ResyncTyped
  <2>2. ResyncTyped'
    BY <2>1 DEF ResyncTyped
  <2> QED BY <1>2, <2>1, <2>2, ResyncIsMeant
<1>5. CASE ResyncReads
  <2>1. /\ needs_resync' /\ forwarder' = "resync" /\ snap' = Message(FALSE, Resynced, state)
        /\ state' = state
    BY <1>0, <1>5 DEF ResyncReads, ResyncTyped, forwarderVars, daemonVars
  <2>2. /\ snap'.update = [t \in Resynced |-> state[t]]
    BY <2>1 DEF Message
  <2>3. snap'.update \in [Resynced -> Int] /\ \A t \in Resynced : snap'.update[t] = state'[t]
    BY <1>0, <2>1, <2>2, Resyncing DEF StreamTyped
  <2>4. \A t \in Resynced : Current(snap.update[t], t)'
    BY <2>3 DEF Current
  <2>5. ResyncTyped'
    BY <2>1, <2>3, <2>4 DEF ResyncTyped
  <2> QED BY <1>2, <2>1, <2>5, ResyncIsMeant
<1> QED BY <1>3, <1>4, <1>5

LEMMA ForwardStep ==
    ASSUME StreamInv, ForwardEvent
    PROVE  StreamInv'
<1>0. StreamTyped /\ ResyncTyped /\ OneSnapshot
  BY DEF StreamInv
<1>10. ring \in Seq(Texts) /\ ring # <<>>
  BY <1>0 DEF ForwardEvent, StreamTyped
<1>11. PICK m \in Texts : m = Head(ring)
  BY <1>10, AfterTail
<1>1. /\ forwarder = "select" /\ snap = Nothing /\ ring # <<>> /\ ring' = Tail(ring)
      /\ UNCHANGED <<state, changes, emitting, sent, lagged, snap, server, client_ring, client_lagged, pump,
                     mirror>>
  BY <1>0 DEF ForwardEvent, ResyncTyped, daemonVars, clientVars
<1>2. ring \in Seq(Texts) /\ wire \in Seq(Texts) /\ NoReply(ring) /\ Len(ring) \leq RingCap
  BY <1>0 DEF StreamTyped
<1>3. /\ m \in Texts /\ ~m.reply /\ ring' \in Seq(Texts) /\ Len(ring') \leq RingCap /\ NoReply(ring')
      /\ \A t \in Topics :
             /\ Mentions(ring, t) <=> Tells(m, t) \/ Mentions(ring', t)
             /\ LastSaid(ring', t) \subseteq LastSaid(ring, t)
             /\ Tells(m, t) /\ ~Mentions(ring', t) => m.update[t] \in LastSaid(ring, t)
  <2>1. ASSUME NEW t
        PROVE  /\ m \in Texts /\ ~m.reply /\ ring' \in Seq(Texts) /\ Len(ring') = Len(ring) - 1
               /\ Len(ring) \in Nat /\ NoReply(ring')
               /\ Mentions(ring, t) <=> Tells(m, t) \/ Mentions(ring', t)
               /\ LastSaid(ring', t) \subseteq LastSaid(ring, t)
               /\ Tells(m, t) /\ ~Mentions(ring', t) => m.update[t] \in LastSaid(ring, t)
    BY <1>11, <1>1, <1>2, AfterTail
  <2>2. RingCap \in Nat
    BY EventStreamAssumption DEF EventStreamAssumption
  <2> QED BY <1>2, <2>1, <2>2
<1>4. \A t \in Resynced : LastSaid(ring', t) \subseteq {sent'[t]}
  BY <1>1, <1>3, Resyncing DEF StreamInv, SaidIsCurrent
<1>5. CASE ForwardDrops
  <2>1. needs_resync' /\ forwarder' = "select" /\ snap' = Nothing /\ wire' = wire
    BY <1>1, <1>5 DEF ForwardDrops
  <2>2. ResyncTyped'
    BY <2>1 DEF ResyncTyped
  <2>3. StreamTyped' /\ OneSnapshot'
    BY <1>0, <1>1, <1>3, <2>1 DEF StreamTyped, OneSnapshot
  <2> QED BY <1>4, <2>1, <2>2, <2>3, ResyncIsMeant
<1>6. CASE ~ForwardDrops
  <2>1. wire' = Append(wire, m) /\ UNCHANGED needs_resync /\ forwarder' \in {"select", "resync"}
        /\ (forwarder' = "resync" => needs_resync')
    BY <1>11, <1>6 DEF ForwardEvent
  <2>2. /\ wire' \in Seq(Texts) /\ (NoReply(wire') <=> NoReply(wire)) /\ (OneReply(wire) => OneReply(wire'))
        /\ Replies(wire') = Replies(wire)
        /\ \A t \in Topics :
               /\ Mentions(wire', t) <=> Mentions(wire, t) \/ Tells(m, t)
               /\ Tells(m, t) => LastSaid(wire', t) = {m.update[t]}
               /\ ~Tells(m, t) => LastSaid(wire', t) = LastSaid(wire, t)
    <3>1. ASSUME NEW t
          PROVE  /\ wire' \in Seq(Texts) /\ (NoReply(wire') <=> NoReply(wire))
                 /\ (OneReply(wire) => OneReply(wire')) /\ Replies(wire') = Replies(wire)
                 /\ Mentions(wire', t) <=> Mentions(wire, t) \/ Tells(m, t)
                 /\ Tells(m, t) => LastSaid(wire', t) = {m.update[t]}
                 /\ ~Tells(m, t) => LastSaid(wire', t) = LastSaid(wire, t)
      BY <1>2, <1>3, <2>1, AfterAppend
    <3> QED BY <3>1
  <2>3. StreamTyped' /\ OneSnapshot'
    BY <1>0, <1>1, <1>3, <2>2 DEF StreamTyped, OneSnapshot
  <2>4. ResyncTyped'
    BY <1>0, <1>1, <2>1 DEF ResyncTyped
  <2>5. ASSUME NEW t \in Resynced
        PROVE  SaidIsCurrent(t)' /\ RepliesAreCurrent(t)' /\ MirrorIsCurrent(t)'
    <3>1. t \in Topics
      BY Resyncing
    <3>2. /\ InDaemon(t) => InDaemon(t)' \/ Tells(m, t)
          /\ ~Tells(m, t) => InDaemon(t)' = InDaemon(t)
          /\ Mentions(ring', t) => InDaemon(t)'
      BY <1>1, <1>3, <2>1, <3>1 DEF InDaemon, InRing, Pending
    <3>3. /\ ToApply(t) => ToApply(t)'
          /\ Tells(m, t) => ToApply(t)' /\ Mentions(wire', t)
          /\ Mentions(wire, t) => Mentions(wire', t)
      BY <1>1, <2>2, <3>1 DEF ToApply
    <3>4. \A v : Current(v, t)' = Current(v, t)
      BY <1>1 DEF Current
    <3>5. Tells(m, t) => Current(m.update[t], t)' \/ InDaemon(t)'
      BY <1>1, <1>3, <3>1, <3>2 DEF StreamInv, SaidIsCurrent, Current
    <3>6. \A v \in LastSaid(wire', t) : Current(v, t)' \/ InDaemon(t)'
      BY <2>2, <3>1, <3>2, <3>4, <3>5 DEF StreamInv, SaidIsCurrent
    <3>7. SaidIsCurrent(t)'
      BY <1>1, <1>4, <3>2, <3>3, <3>4, <3>6 DEF StreamInv, SaidIsCurrent
    <3>8. RepliesAreCurrent(t)'
      BY <1>1, <2>2, <3>2, <3>3, <3>4 DEF StreamInv, RepliesAreCurrent
    <3>9. MirrorIsCurrent(t)'
      BY <1>1, <3>2, <3>3, <3>4 DEF StreamInv, MirrorIsCurrent
    <3> QED BY <3>7, <3>8, <3>9
  <2> QED BY <2>3, <2>4, <2>5 DEF StreamInv
<1> QED BY <1>5, <1>6

LEMMA TwoAppended ==
    ASSUME NEW S, NEW q \in Seq(S), NEW a \in S, NEW b \in S
    PROVE  q \o <<a, b>> = Append(Append(q, a), b)
<1>1. Append(q, a) = q \o <<a>> /\ Append(q, a) \in Seq(S)
  BY AppendIsConcat, AppendProperties
<1>2. Append(Append(q, a), b) = Append(q, a) \o <<b>>
  BY <1>1, AppendIsConcat
<1>3. (q \o <<a>>) \o <<b>> = q \o (<<a>> \o <<b>>)
  <2>1. <<a>> \in Seq(S) /\ <<b>> \in Seq(S)
    OBVIOUS
  <2> QED BY <2>1, ConcatAssociative
<1>4. <<a>> \o <<b>> = <<a, b>>
  <2>1. /\ <<a>> \in Seq(S) /\ Len(<<a>>) = 1 /\ <<a>>[1] = a
        /\ <<a, b>> \in Seq(S) /\ Len(<<a, b>>) = 2 /\ <<a, b>>[1] = a /\ <<a, b>>[2] = b
    OBVIOUS
  <2>2. /\ Append(<<a>>, b) \in Seq(S) /\ Len(Append(<<a>>, b)) = 2
        /\ Append(<<a>>, b)[1] = a /\ Append(<<a>>, b)[2] = b
    BY <2>1, AppendProperties
  <2>3. \A i \in 1..2 : i = 1 \/ i = 2
    OBVIOUS
  <2>4. Append(<<a>>, b) = <<a, b>>
    BY <2>1, <2>2, <2>3, SeqEqual
  <2> QED BY <2>1, <2>4, AppendIsConcat
<1> QED BY <1>1, <1>2, <1>3, <1>4

(* The two events of a resynchronisation say what its snapshot said.       *)
LEMMA ResyncStep ==
    ASSUME StreamInv, ResyncSends
    PROVE  StreamInv'
<1> DEFINE a == Message(FALSE, {"now_playing"}, snap.update)
           b == Message(FALSE, {"queue"}, snap.update)
<1>0. StreamTyped /\ ResyncTyped /\ OneSnapshot
  BY DEF StreamInv
<1>1. /\ snap # Nothing /\ wire' = wire \o <<a, b>> /\ forwarder' = "select" /\ snap' = Nothing
      /\ UNCHANGED <<state, changes, emitting, sent, ring, lagged, server, client_ring, client_lagged, pump,
                     mirror>>
  BY DEF ResyncSends, daemonVars, ringVars, clientVars
<1>2. snap.update \in [Resynced -> Int] /\ \A t \in Resynced : Current(snap.update[t], t) \/ InRing(t)
  BY <1>0, <1>1 DEF ResyncTyped
<1>3. /\ a \in Texts /\ a.reply = FALSE /\ DOMAIN a.update = {"now_playing"}
      /\ a.update["now_playing"] = snap.update["now_playing"]
      /\ b \in Texts /\ b.reply = FALSE /\ DOMAIN b.update = {"queue"}
      /\ b.update["queue"] = snap.update["queue"]
  <2>1. PICK f \in [Resynced -> Int] : f = snap.update
    BY <1>2
  <2>2. "now_playing" \in Resynced /\ "queue" \in Resynced /\ Resynced \subseteq Topics
    BY Resyncing
  <2>3. ASSUME NEW t \in Resynced
        PROVE  LET m == Message(FALSE, {t}, f) IN
               m \in Texts /\ m.reply = FALSE /\ DOMAIN m.update = {t} /\ m.update[t] = f[t]
    <3>1. {t} \in SUBSET Topics /\ \A d \in {t} : f[d] \in Int
      BY <2>1, <2>2
    <3> QED BY <3>1, MessageIsText
  <2> QED BY <2>1, <2>2, <2>3
<1> HIDE DEF a, b
<1>4. wire \in Seq(Texts)
  BY <1>0 DEF StreamTyped
<1> DEFINE wa == Append(wire, a)
<1>5. wire' = Append(wa, b) /\ wa \in Seq(Texts)
  BY <1>1, <1>3, <1>4, TwoAppended, AppendProperties
<1>6. /\ (NoReply(wa) <=> NoReply(wire)) /\ (OneReply(wire) => OneReply(wa)) /\ Replies(wa) = Replies(wire)
      /\ \A t \in Topics :
             /\ Mentions(wa, t) <=> Mentions(wire, t) \/ Tells(a, t)
             /\ Tells(a, t) => LastSaid(wa, t) = {a.update[t]}
  BY <1>3, <1>4, AfterAppend
<1> HIDE DEF wa
<1>7. /\ wire' \in Seq(Texts) /\ (NoReply(wire') <=> NoReply(wa)) /\ (OneReply(wa) => OneReply(wire'))
      /\ Replies(wire') = Replies(wa)
      /\ \A t \in Topics :
             /\ Mentions(wire', t) <=> Mentions(wa, t) \/ Tells(b, t)
             /\ Tells(b, t) => LastSaid(wire', t) = {b.update[t]}
             /\ ~Tells(b, t) => LastSaid(wire', t) = LastSaid(wa, t)
  BY <1>3, <1>5, AfterAppend
<1>8. \A t \in Resynced : Mentions(wire', t) /\ LastSaid(wire', t) = {snap.update[t]}
  <2>1. \A t \in Resynced : t = "now_playing" \/ t = "queue"
    BY Resyncing
  <2>2. Tells(a, "now_playing") /\ Tells(b, "queue") /\ ~Tells(b, "now_playing")
    BY <1>3 DEF Tells
  <2>3. "now_playing" \in Topics /\ "queue" \in Topics
    BY Resyncing
  <2> QED BY <1>3, <1>6, <1>7, <2>1, <2>2, <2>3
<1>9. StreamTyped' /\ OneSnapshot' /\ ResyncTyped'
  BY <1>0, <1>1, <1>6, <1>7 DEF StreamTyped, OneSnapshot, ResyncTyped
<1>10. ASSUME NEW t \in Resynced
       PROVE  SaidIsCurrent(t)' /\ RepliesAreCurrent(t)' /\ MirrorIsCurrent(t)'
  <2>1. /\ InRing(t)' = InRing(t) /\ (InRing(t) => InDaemon(t)')
        /\ ToApply(t)' /\ Mentions(wire', t)
    BY <1>1, <1>8 DEF InDaemon, InRing, Pending, ToApply
  <2>2. \A v : Current(v, t)' = Current(v, t)
    BY <1>1 DEF Current
  <2>3. \A v \in LastSaid(wire', t) : Current(v, t)' \/ InDaemon(t)'
    BY <1>2, <1>8, <2>1, <2>2
  <2>4. LastSaid(ring', t) \subseteq {sent'[t]}
    BY <1>1 DEF StreamInv, SaidIsCurrent
  <2> QED BY <2>1, <2>3, <2>4 DEF SaidIsCurrent, RepliesAreCurrent, MirrorIsCurrent
<1> QED BY <1>9, <1>10 DEF StreamInv

(* The reply to Snapshot, the client's reader and its event pump change    *)
(* nothing in the daemon but that reply.                                   *)
LEMMA ClientMoves ==
    ASSUME StreamInv, UNCHANGED <<daemonVars, ringVars, forwarderVars>>,
           wire' \in Seq(Texts), mirror' \in [Topics -> Int],
           client_ring' \in Seq(Texts), Len(client_ring') \leq ClientCap, NoReply(client_ring'),
           OneSnapshot',
           \A t \in Resynced :
               /\ \A v \in LastSaid(wire', t) : Current(v, t) \/ InDaemon(t)
               /\ \A v \in LastSaid(client_ring', t) : Current(v, t) \/ InDaemon(t) \/ Mentions(wire', t)
               /\ server'.step = "reply" =>
                      Current(server'.msg.update[t], t) \/ InDaemon(t) \/ ToApply(t)'
               /\ \A m \in Replies(wire') : Current(m.update[t], t) \/ InDaemon(t) \/ ToApply(t)'
               /\ Current(mirror'[t], t) \/ InDaemon(t) \/ ToApply(t)' \/ pump' # "idle"
    PROVE  StreamInv'
<1>1. UNCHANGED <<state, changes, emitting, sent, ring, lagged, forwarder, needs_resync, snap>>
  BY DEF daemonVars, ringVars, forwarderVars
<1>2. StreamTyped'
  BY <1>1 DEF StreamInv, StreamTyped
<1>3. ASSUME NEW t \in Resynced
      PROVE  /\ InRing(t)' = InRing(t) /\ InDaemon(t)' = InDaemon(t)
             /\ \A v : Current(v, t) <=> v = state'[t] \/ v = sent'[t]
             /\ LastSaid(ring', t) \subseteq {sent'[t]}
  BY <1>1 DEF InRing, InDaemon, Pending, Current, StreamInv, SaidIsCurrent
<1>4. ResyncTyped'
  BY <1>1, <1>3 DEF StreamInv, ResyncTyped, Current
<1>5. ASSUME NEW t \in Resynced
      PROVE  SaidIsCurrent(t)' /\ RepliesAreCurrent(t)' /\ MirrorIsCurrent(t)'
  <2>1. SaidIsCurrent(t)'
    BY <1>3 DEF SaidIsCurrent, Current
  <2>2. RepliesAreCurrent(t)'
    BY <1>3 DEF RepliesAreCurrent, Current
  <2>3. MirrorIsCurrent(t)'
    BY <1>3 DEF MirrorIsCurrent, Current
  <2> QED BY <2>1, <2>2, <2>3
<1> QED BY <1>2, <1>4, <1>5 DEF StreamInv

LEMMA SnapshotServed ==
    ASSUME StreamInv, ServeSnapshot \/ SendReply
    PROVE  StreamInv'
<1>0. StreamTyped /\ OneSnapshot
  BY DEF StreamInv
<1>1. /\ UNCHANGED <<daemonVars, ringVars, forwarderVars>>
      /\ UNCHANGED <<state, client_ring, client_lagged, pump, mirror>>
      /\ server.step # "idle" /\ NoReply(wire) /\ pump = "wait" /\ Replies(wire) = {}
  <2>1. UNCHANGED <<daemonVars, ringVars, forwarderVars, clientVars>>
    BY DEF ServeSnapshot, SendReply
  <2>2. server.step = "asked" \/ server.step = "reply"
    <3>1. ServeSnapshot => server = [step |-> "asked", msg |-> Nothing]
      BY DEF ServeSnapshot
    <3>2. SendReply => server.step = "reply"
      BY DEF SendReply
    <3> QED BY <3>1, <3>2
  <2> QED BY <1>0, <2>1, <2>2, NoReplies DEF clientVars, daemonVars, OneSnapshot
<1>2. /\ mirror' \in [Topics -> Int] /\ wire \in Seq(Texts)
      /\ client_ring' \in Seq(Texts) /\ Len(client_ring') \leq ClientCap /\ NoReply(client_ring')
  BY <1>0, <1>1 DEF StreamTyped
<1>3. CASE ServeSnapshot
  <2> DEFINE one == Message(TRUE, Topics, state)
  <2>1. server' = [step |-> "reply", msg |-> one] /\ wire' = wire
    BY <1>3 DEF ServeSnapshot
  <2>2. one \in Texts /\ one.reply = TRUE /\ DOMAIN one.update = Topics
        /\ \A t \in Topics : one.update[t] = state[t]
    <3>1. PICK f \in [Topics -> Int] : f = state
      BY <1>0 DEF StreamTyped
    <3>2. Topics \in SUBSET Topics /\ TRUE \in BOOLEAN /\ \A t \in Topics : f[t] \in Int
      BY <3>1
    <3>3. /\ Message(TRUE, Topics, f) \in Texts /\ Message(TRUE, Topics, f).reply = TRUE
          /\ DOMAIN Message(TRUE, Topics, f).update = Topics
          /\ \A t \in Topics : Message(TRUE, Topics, f).update[t] = f[t]
      BY <3>2 DEF Message, Texts
    <3> QED BY <3>1, <3>3
  <2> HIDE DEF one
  <2>3. OneSnapshot'
    BY <1>0, <1>1, <2>1, <2>2 DEF OneSnapshot
  <2>4. \A t \in Resynced : Current(server'.msg.update[t], t)
    BY <2>1, <2>2, Resyncing DEF Current
  <2>5. \A t \in Resynced :
            /\ ToApply(t)' = ToApply(t)
            /\ \A v \in LastSaid(wire', t) : Current(v, t) \/ InDaemon(t)
            /\ \A v \in LastSaid(client_ring', t) : Current(v, t) \/ InDaemon(t) \/ Mentions(wire', t)
            /\ Current(mirror'[t], t) \/ InDaemon(t) \/ ToApply(t)' \/ pump' # "idle"
    BY <1>1, <2>1 DEF StreamInv, SaidIsCurrent, MirrorIsCurrent, ToApply
  <2> QED BY <1>1, <1>2, <2>1, <2>3, <2>4, <2>5, ClientMoves
<1>4. CASE SendReply
  <2>1. PICK m \in Texts : m = server.msg
    BY <1>0, <1>4 DEF OneSnapshot, SendReply
  <2>2. /\ m.reply /\ DOMAIN m.update = Topics /\ server.step = "reply"
        /\ wire' = Append(wire, m) /\ server' = [step |-> "idle", msg |-> Nothing]
    BY <1>0, <1>4, <2>1 DEF OneSnapshot, SendReply
  <2>3. ASSUME NEW t
        PROVE  /\ wire' \in Seq(Texts) /\ OneReply(wire') /\ Replies(wire') \subseteq {m}
               /\ Mentions(wire', t) = Mentions(wire, t) /\ LastSaid(wire', t) = LastSaid(wire, t)
    <3>1. ~Tells(m, t)
      BY <2>2 DEF Tells
    <3>2. /\ Append(wire, m) \in Seq(Texts)
          /\ Mentions(Append(wire, m), t) <=> Mentions(wire, t) \/ Tells(m, t)
          /\ ~Tells(m, t) => LastSaid(Append(wire, m), t) = LastSaid(wire, t)
          /\ NoReply(wire) => OneReply(Append(wire, m))
          /\ Replies(Append(wire, m)) \subseteq Replies(wire) \cup {m}
      BY <1>2, AfterAppend
    <3>3. Mentions(Append(wire, m), t) \in BOOLEAN /\ Mentions(wire, t) \in BOOLEAN
      BY DEF Mentions
    <3> QED BY <1>1, <2>2, <3>1, <3>2, <3>3
  <2>4. OneSnapshot'
    BY <1>0, <1>1, <2>2, <2>3 DEF OneSnapshot
  <2>5. \A t \in Resynced :
            /\ ToApply(t)' = ToApply(t)
            /\ \A v \in LastSaid(wire', t) : Current(v, t) \/ InDaemon(t)
            /\ \A v \in LastSaid(client_ring', t) : Current(v, t) \/ InDaemon(t) \/ Mentions(wire', t)
            /\ Current(mirror'[t], t) \/ InDaemon(t) \/ ToApply(t)' \/ pump' # "idle"
            /\ Current(m.update[t], t) \/ InDaemon(t) \/ ToApply(t)'
    BY <1>1, <2>1, <2>2, <2>3 DEF StreamInv, SaidIsCurrent, RepliesAreCurrent, MirrorIsCurrent, ToApply
  <2>6. \A t \in Resynced : \A r \in Replies(wire') : Current(r.update[t], t) \/ InDaemon(t) \/ ToApply(t)'
    BY <2>3, <2>5
  <2> QED BY <1>1, <1>2, <2>2, <2>3, <2>4, <2>5, <2>6, ClientMoves
<1> QED BY <1>3, <1>4

LEMMA EventsRead ==
    ASSUME StreamInv, ReadEvent \/ ReadReply
    PROVE  StreamInv'
<1>0. StreamTyped /\ OneSnapshot
  BY DEF StreamInv
<1>1. /\ UNCHANGED <<daemonVars, ringVars, forwarderVars, server>>
      /\ wire # <<>> /\ wire' = Tail(wire)
  BY DEF ReadEvent, ReadReply
<1>2. /\ wire \in Seq(Texts) /\ mirror \in [Topics -> Int]
      /\ client_ring \in Seq(Texts) /\ Len(client_ring) \leq ClientCap /\ NoReply(client_ring)
  BY <1>0 DEF StreamTyped
<1>3. PICK m \in Texts : m = Head(wire)
  BY <1>1, <1>2, AfterTail
<1>4. ASSUME NEW t
      PROVE  /\ wire' \in Seq(Texts)
             /\ Mentions(wire, t) <=> Tells(m, t) \/ Mentions(wire', t)
             /\ LastSaid(wire', t) \subseteq LastSaid(wire, t)
             /\ Tells(m, t) /\ ~Mentions(wire', t) => m.update[t] \in LastSaid(wire, t)
             /\ NoReply(wire) <=> ~m.reply /\ NoReply(wire')
             /\ OneReply(wire') /\ (m.reply => NoReply(wire') /\ m \in Replies(wire))
             /\ Replies(wire') \subseteq Replies(wire)
  BY <1>0, <1>1, <1>2, <1>3, AfterTail DEF OneSnapshot
<1>5. \A t \in Resynced : \A v \in LastSaid(wire', t) : Current(v, t) \/ InDaemon(t)
  BY <1>4 DEF StreamInv, SaidIsCurrent
<1>6. CASE ReadEvent
  <2>1. /\ ~m.reply /\ client_ring' = Pushed(client_ring, m, ClientCap)
        /\ client_lagged' = (client_lagged \/ Len(client_ring) = ClientCap)
        /\ UNCHANGED <<pump, mirror>>
    BY <1>3, <1>6 DEF ReadEvent
  <2>2. ClientCap \in Nat \ {0}
    BY EventStreamAssumption DEF EventStreamAssumption
  <2>3. ASSUME NEW t
        PROVE  /\ client_ring' \in Seq(Texts) /\ Len(client_ring') \leq ClientCap /\ NoReply(client_ring')
               /\ Tells(m, t) => Mentions(client_ring', t) /\ LastSaid(client_ring', t) = {m.update[t]}
               /\ ~Tells(m, t) => LastSaid(client_ring', t) \subseteq LastSaid(client_ring, t)
               /\ Mentions(client_ring, t) => Mentions(client_ring', t) \/ client_lagged'
    <3>1. PICK q \in Seq(Texts) : q = client_ring
      BY <1>2
    <3>2. Len(q) \leq ClientCap /\ NoReply(q)
      BY <1>2, <3>1
    <3>3. /\ Pushed(q, m, ClientCap) \in Seq(Texts) /\ Len(Pushed(q, m, ClientCap)) \leq ClientCap
          /\ Tells(m, t) => /\ Mentions(Pushed(q, m, ClientCap), t)
                            /\ LastSaid(Pushed(q, m, ClientCap), t) = {m.update[t]}
          /\ ~Tells(m, t) => LastSaid(Pushed(q, m, ClientCap), t) \subseteq LastSaid(q, t)
          /\ Mentions(q, t) /\ Len(q) # ClientCap => Mentions(Pushed(q, m, ClientCap), t)
          /\ NoReply(Pushed(q, m, ClientCap))
      BY <2>1, <2>2, <3>2, AfterPush
    <3> QED BY <2>1, <3>1, <3>3
  <2>4. OneSnapshot'
    BY <1>0, <1>1, <1>4, <2>1 DEF OneSnapshot
  <2>5. ASSUME NEW t \in Resynced
        PROVE  /\ ToApply(t) => ToApply(t)'
               /\ \A v \in LastSaid(client_ring', t) : Current(v, t) \/ InDaemon(t) \/ Mentions(wire', t)
    <3>1. ToApply(t) => ToApply(t)'
      BY <1>4, <2>1, <2>3 DEF ToApply
    <3>2. CASE Tells(m, t)
      <4>1. LastSaid(client_ring', t) = {m.update[t]}
        BY <2>3, <3>2
      <4>2. m.update[t] \in LastSaid(wire, t) \/ Mentions(wire', t)
        BY <1>4, <3>2
      <4> QED BY <3>1, <4>1, <4>2 DEF StreamInv, SaidIsCurrent
    <3>3. CASE ~Tells(m, t)
      <4>1. LastSaid(client_ring', t) \subseteq LastSaid(client_ring, t)
        BY <2>3, <3>3
      <4>2. Mentions(wire, t) => Mentions(wire', t)
        BY <1>4, <3>3
      <4> QED BY <3>1, <4>1, <4>2 DEF StreamInv, SaidIsCurrent
    <3> QED BY <3>1, <3>2, <3>3
  <2>6. ASSUME NEW t \in Resynced
        PROVE  /\ server'.step = "reply" =>
                      Current(server'.msg.update[t], t) \/ InDaemon(t) \/ ToApply(t)'
               /\ \A r \in Replies(wire') : Current(r.update[t], t) \/ InDaemon(t) \/ ToApply(t)'
               /\ Current(mirror'[t], t) \/ InDaemon(t) \/ ToApply(t)' \/ pump' # "idle"
    BY <1>1, <1>4, <2>1, <2>5 DEF StreamInv, RepliesAreCurrent, MirrorIsCurrent
  <2> QED BY <1>1, <1>2, <1>4, <1>5, <2>1, <2>3, <2>4, <2>5, <2>6, ClientMoves
<1>7. CASE ReadReply
  <2>1. /\ m.reply /\ mirror' = Merge(mirror, m.update) /\ pump' = "idle"
        /\ UNCHANGED <<client_ring, client_lagged>>
    BY <1>3, <1>7 DEF ReadReply
  <2>2. /\ NoReply(wire') /\ m \in Replies(wire) /\ ~NoReply(wire) /\ Replies(wire') = {}
        /\ server.step = "idle" /\ DOMAIN m.update = Topics
    BY <1>0, <1>4, <2>1, NoReplies DEF OneSnapshot
  <2>3. OneSnapshot'
    BY <1>0, <1>1, <1>4, <2>1, <2>2 DEF OneSnapshot
  <2>4. mirror' \in [Topics -> Int] /\ \A t \in Topics : mirror'[t] = m.update[t]
    BY <1>2, <2>1, <2>2, Merged
  <2>5. ASSUME NEW t \in Resynced
        PROVE  /\ ToApply(t) => ToApply(t)'
               /\ Mentions(wire, t) => Mentions(wire', t)
    <3>1. ~Tells(m, t)
      BY <2>1 DEF Tells
    <3> QED BY <1>4, <2>1, <3>1 DEF ToApply
  <2>6. ASSUME NEW t \in Resynced
        PROVE  /\ \A v \in LastSaid(client_ring', t) : Current(v, t) \/ InDaemon(t) \/ Mentions(wire', t)
               /\ Current(mirror'[t], t) \/ InDaemon(t) \/ ToApply(t)'
    <3>1. \A v \in LastSaid(client_ring', t) : Current(v, t) \/ InDaemon(t) \/ Mentions(wire', t)
      BY <2>1, <2>5 DEF StreamInv, SaidIsCurrent
    <3>2. Current(m.update[t], t) \/ InDaemon(t) \/ ToApply(t)
      BY <2>2 DEF StreamInv, RepliesAreCurrent
    <3>3. mirror'[t] = m.update[t]
      BY <2>4, Resyncing
    <3> QED BY <2>5, <3>1, <3>2, <3>3
  <2> QED BY <1>1, <1>2, <1>4, <1>5, <2>1, <2>2, <2>3, <2>4, <2>6, ClientMoves
<1> QED BY <1>6, <1>7

LEMMA EventsPumped ==
    ASSUME StreamInv, ApplyEvent \/ PumpLagged \/ PumpAsks
    PROVE  StreamInv'
<1>0. StreamTyped /\ OneSnapshot
  BY DEF StreamInv
<1>1. /\ UNCHANGED <<daemonVars, ringVars, forwarderVars, wire>>
      /\ pump # "wait" /\ server.step = "idle" /\ NoReply(wire) /\ Replies(wire') = {}
  BY <1>0, NoReplies DEF ApplyEvent, PumpLagged, PumpAsks, OneSnapshot
<1>2. /\ wire \in Seq(Texts) /\ mirror \in [Topics -> Int]
      /\ client_ring \in Seq(Texts) /\ Len(client_ring) \leq ClientCap /\ NoReply(client_ring)
  BY <1>0 DEF StreamTyped
<1>3. \A t \in Resynced : \A v \in LastSaid(wire', t) : Current(v, t) \/ InDaemon(t)
  BY <1>1 DEF StreamInv, SaidIsCurrent
<1>4. CASE ApplyEvent
  <2>1. /\ client_ring # <<>> /\ client_ring' = Tail(client_ring)
        /\ mirror' = Merge(mirror, Head(client_ring).update)
        /\ UNCHANGED <<server, client_lagged, pump>>
    BY <1>4 DEF ApplyEvent
  <2>2. PICK m \in Texts : m = Head(client_ring)
    BY <1>2, <2>1, AfterTail
  <2>3. ASSUME NEW t
        PROVE  /\ client_ring' \in Seq(Texts) /\ Len(client_ring') \leq ClientCap /\ NoReply(client_ring')
               /\ ~m.reply
               /\ Mentions(client_ring, t) <=> Tells(m, t) \/ Mentions(client_ring', t)
               /\ LastSaid(client_ring', t) \subseteq LastSaid(client_ring, t)
               /\ Tells(m, t) /\ ~Mentions(client_ring', t) => m.update[t] \in LastSaid(client_ring, t)
    <3>1. ClientCap \in Nat
      BY EventStreamAssumption DEF EventStreamAssumption
    <3> QED BY <1>2, <2>1, <2>2, <3>1, AfterTail
  <2>4. OneSnapshot'
    BY <1>0, <1>1, <2>1 DEF OneSnapshot
  <2>5. /\ mirror' \in [Topics -> Int]
        /\ \A t \in Topics : mirror'[t] = IF t \in DOMAIN m.update THEN m.update[t] ELSE mirror[t]
    BY <1>2, <2>1, <2>2, Merged
  <2>6. ASSUME NEW t \in Resynced
        PROVE  /\ \A v \in LastSaid(client_ring', t) : Current(v, t) \/ InDaemon(t) \/ Mentions(wire', t)
               /\ Current(mirror'[t], t) \/ InDaemon(t) \/ ToApply(t)' \/ pump' # "idle"
    <3>1. t \in Topics /\ (Tells(m, t) <=> t \in DOMAIN m.update)
      BY <2>3, Resyncing DEF Tells
    <3>2. \A v \in LastSaid(client_ring', t) : Current(v, t) \/ InDaemon(t) \/ Mentions(wire', t)
      BY <1>1, <2>3 DEF StreamInv, SaidIsCurrent
    <3>3. CASE Tells(m, t)
      <4>1. Current(m.update[t], t) \/ InDaemon(t) \/ ToApply(t)'
        BY <1>1, <2>3, <3>3 DEF StreamInv, SaidIsCurrent, ToApply
      <4> QED BY <2>5, <3>1, <3>2, <3>3, <4>1
    <3>4. CASE ~Tells(m, t)
      <4>1. mirror'[t] = mirror[t] /\ (ToApply(t) => ToApply(t)')
        BY <1>1, <2>1, <2>3, <2>5, <3>1, <3>4 DEF ToApply
      <4> QED BY <2>1, <3>2, <4>1 DEF StreamInv, MirrorIsCurrent
    <3> QED BY <3>3, <3>4
  <2> QED BY <1>1, <1>2, <1>3, <2>1, <2>3, <2>4, <2>5, <2>6, ClientMoves
<1>5. CASE PumpLagged
  <2>1. client_ring' = <<>> /\ pump' = "ask" /\ UNCHANGED <<server, mirror>>
    BY <1>5 DEF PumpLagged
  <2>2. OneSnapshot'
    BY <1>0, <1>1, <2>1 DEF OneSnapshot
  <2>3. ASSUME NEW t
        PROVE  /\ client_ring' \in Seq(Texts) /\ Len(client_ring') \leq ClientCap /\ NoReply(client_ring')
               /\ LastSaid(client_ring', t) = {}
    <3>1. ClientCap \in Nat
      BY EventStreamAssumption DEF EventStreamAssumption
    <3> QED BY <2>1, <3>1, NothingSaid
  <2> QED BY <1>1, <1>2, <1>3, <2>1, <2>2, <2>3, ClientMoves
<1>6. CASE PumpAsks
  <2>1. /\ server' = [step |-> "asked", msg |-> Nothing] /\ pump' = "wait"
        /\ UNCHANGED <<client_ring, client_lagged, mirror>>
    BY <1>6 DEF PumpAsks
  <2>2. OneSnapshot'
    BY <1>0, <1>1, <2>1 DEF OneSnapshot
  <2>3. ASSUME NEW t \in Resynced
        PROVE  \A v \in LastSaid(client_ring', t) : Current(v, t) \/ InDaemon(t) \/ Mentions(wire', t)
    BY <1>1, <2>1 DEF StreamInv, SaidIsCurrent
  <2> QED BY <1>1, <1>2, <1>3, <2>1, <2>2, <2>3, ClientMoves
<1> QED BY <1>4, <1>5, <1>6

LEMMA StreamPaused ==
    ASSUME StreamInv, UNCHANGED vars
    PROVE  StreamInv'
<1>1. /\ UNCHANGED <<daemonVars, ringVars, forwarderVars>>
      /\ UNCHANGED <<server, wire, client_ring, client_lagged, pump, mirror>>
  BY DEF vars, daemonVars, ringVars, forwarderVars
<1>2. StreamTyped /\ OneSnapshot
  BY DEF StreamInv
<1>3. OneSnapshot'
  BY <1>1, <1>2 DEF OneSnapshot
<1>4. /\ wire' \in Seq(Texts) /\ mirror' \in [Topics -> Int]
      /\ client_ring' \in Seq(Texts) /\ Len(client_ring') \leq ClientCap /\ NoReply(client_ring')
  BY <1>1, <1>2 DEF StreamTyped
<1>5. ASSUME NEW t \in Resynced
      PROVE  /\ \A v \in LastSaid(wire', t) : Current(v, t) \/ InDaemon(t)
             /\ \A v \in LastSaid(client_ring', t) : Current(v, t) \/ InDaemon(t) \/ Mentions(wire', t)
             /\ server'.step = "reply" =>
                      Current(server'.msg.update[t], t) \/ InDaemon(t) \/ ToApply(t)'
             /\ \A m \in Replies(wire') : Current(m.update[t], t) \/ InDaemon(t) \/ ToApply(t)'
             /\ Current(mirror'[t], t) \/ InDaemon(t) \/ ToApply(t)' \/ pump' # "idle"
  <2>1. ToApply(t)' = ToApply(t)
    BY <1>1 DEF ToApply
  <2> QED BY <1>1, <2>1 DEF StreamInv, SaidIsCurrent, RepliesAreCurrent, MirrorIsCurrent
<1> QED BY <1>1, <1>3, <1>4, <1>5, ClientMoves

LEMMA StreamStep == StreamInv /\ [Next]_vars => StreamInv'
BY EmitterSteps, ForwarderSteps, ForwardStep, ResyncStep, SnapshotServed, EventsRead, EventsPumped,
   StreamPaused, Resyncing DEF Next


(***************************************************************************)
(* The processes of mpv (MpvController, as M).  Until the first start of a *)
(* daemon is past the reaping, an mpv that listens may be left over from   *)
(* an earlier daemon and have the socket file.  After that, what is left   *)
(* over hangs, or is astray: the socket file did not lead the daemon to it *)
(* when it started.                                                        *)
(***************************************************************************)
ProcessesTyped ==
    /\ status \in [Mpvs -> {"none"} \cup M!Alive \cup {"exited"}]
    /\ foreign \subseteq Mpvs
    /\ socket \in Mpvs \cup {NoValue}
    /\ process \in Mpvs \cup {NoValue}

LockTyped ==
    /\ holder \in Users \cup {"poll", "main", NoValue}
    /\ op \in {"start", "reap", "spawn", "wait", "connect"} => holder = "poll"
    /\ op = "quit" => holder = "main"
    /\ holder = NoValue => op = NoValue
    /\ holder = "main" => op = "quit" /\ shutdown = "asked"
    /\ poll = "boot" => shutdown = "no" /\ holder \in {"poll", NoValue}

Accounted ==
    /\ \A p \in Mpvs : status[p] # "none" => p = process \/ p \in foreign
    /\ \A p \in foreign : p # process /\ status[p] \in M!Alive
    /\ process # NoValue => status[process] # "none"

LeftOver ==
    \A p \in foreign \ astray :
        /\ status[p] # "starting"
        /\ status[p] = "up" =>
            /\ socket = p /\ process = NoValue
            /\ poll = "boot" /\ op \in {NoValue, "start", "reap"}

Starts ==
    /\ socket # NoValue => status[socket] # "starting"
    /\ conn # NoValue => process # NoValue
    /\ op \in {"reap", "spawn", "wait", "connect"} => conn = NoValue
    /\ op \in {"reap", "spawn"} => process = NoValue
    /\ op \in {"wait", "connect"} => process # NoValue
    /\ op = "connect" => socket # NoValue

ProcessInv == ProcessesTyped /\ LockTyped /\ Accounted /\ LeftOver /\ Starts

LEMMA Names ==
    /\ NoValue \notin Users /\ NoValue \notin Mpvs
    /\ NoValue \notin {"poll", "main", "start", "reap", "spawn", "wait", "connect", "commands", "quit"}
    /\ "poll" \notin Users /\ "main" \notin Users
BY ConnectionsAssumption DEF ConnectionsAssumption, M!Commands

(***************************************************************************)
(* The connection to mpv.  A number is given out once, so that a line      *)
(* which carries the number of the command awaited is that command.        *)
(***************************************************************************)
LinkTyped ==
    /\ request_id \in Nat
    /\ reader = "running" => conn # NoValue
    /\ conn \in Connections \cup {NoValue}
    /\ call \in Commanded \cup {NoValue}
    /\ todo \in Seq(M!Commands)
    /\ call # NoValue => holder # NoValue /\ op \in {"commands", "quit"} /\ todo # <<>>

Sound(m) ==
    /\ m.id < request_id
    /\ call # NoValue /\ m.id = call.id => call.written /\ m.command = call.command

Numbered ==
    /\ call # NoValue => call.id < request_id
    /\ conn # NoValue => \A m \in Range(conn.inbox) \cup Range(conn.replies) : Sound(m)

LinkInv == LinkTyped /\ Numbered

LEMMA Apart ==
    /\ NoValue \notin Connections /\ NoValue \notin Commanded /\ NoValue \notin M!Commands
    /\ NoValue # Error /\ NoValue # "commands" /\ NoValue # "quit"
BY ConnectionsAssumption DEF ConnectionsAssumption, M!Commands

LEMMA LinkStart == M!Init \/ NoMpv => LinkInv
<1>1. <<>> \in Seq(M!Commands)
  BY NothingQueued
<1> SUFFICES ASSUME M!Init \/ NoMpv PROVE LinkInv
  OBVIOUS
<1>2. conn = NoValue /\ call = NoValue /\ todo = <<>> /\ request_id = 1 /\ reader = "none"
  BY DEF M!Init, NoMpv
<1>3. todo \in Seq(M!Commands)
  BY <1>1, <1>2
<1> QED BY <1>2, <1>3 DEF LinkInv, LinkTyped, Numbered

LEMMA LinkPaused == LinkInv /\ UNCHANGED varsM => LinkInv'
BY DEF varsM, LinkInv, LinkTyped, Numbered, Sound

(* The steps of the polling task.                                          *)
LEMMA LinkPolls ==
    ASSUME ProcessInv, LinkInv,
           M!WatchdogTicks \/ M!WatchdogLooks \/ M!update_playback_info \/ M!start_mpv \/ M!Starting
    PROVE  LinkInv'
<1> USE Apart DEF LockTyped
<1>1. call = NoValue \/ (holder # NoValue /\ op \in {"commands", "quit"})
  BY DEF LinkInv, LinkTyped
<1>2. ASSUME M!is_running
      PROVE  LinkInv'
  BY <1>2, <1>1 DEF M!is_running, M!ClearsDeadState, M!drop_connection, M!ipc, M!lock, LinkInv, LinkTyped,
                    Numbered, Sound
<1>3. CASE M!WatchdogTicks
  BY <1>3 DEF M!WatchdogTicks, M!ipc, M!lock, LinkInv, LinkTyped, Numbered, Sound
<1>4. CASE M!WatchdogLooks \/ M!update_playback_info
  BY <1>2, <1>4 DEF M!WatchdogLooks, M!update_playback_info
<1>5. CASE M!start_mpv
  BY <1>5, <1>1 DEF M!start_mpv, M!Lock, M!ipc, LinkInv, LinkTyped, Numbered, Sound
<1>6. CASE M!TearsDown
  BY <1>6, <1>1, NothingQueued
     DEF M!TearsDown, M!In, M!Started, M!EndsStart, M!Unlock, M!tear_down_connection, M!reset_ipc,
         M!drop_connection, LinkInv, LinkTyped, Numbered, Sound
<1>7. CASE M!reap_stale_mpv_at \/ M!Spawns \/ M!SocketAppears
  BY <1>7, <1>1 DEF M!reap_stale_mpv_at, M!Spawns, M!SocketAppears, M!In, M!ipc, LinkInv, LinkTyped,
                    Numbered, Sound
<1>8. CASE M!SpawnFails \/ M!SocketNotCreated
  BY <1>8, <1>1, NothingQueued
     DEF M!SpawnFails, M!SocketNotCreated, M!In, M!EndsStart, M!Unlock, M!ipc, LinkInv, LinkTyped,
         Numbered, Sound
<1>9. CASE M!ConnectFails
  BY <1>9, <1>1, NothingQueued
     DEF M!ConnectFails, M!In, M!EndsStart, M!Unlock, M!reset_ipc, M!drop_connection, LinkInv, LinkTyped,
         Numbered, Sound
<1>10. CASE M!connect
  <2>1. socket \in Mpvs /\ call = NoValue
    BY <1>10, <1>1 DEF M!connect, M!In, ProcessInv, ProcessesTyped, Starts
  <2>2. <<"get">> \in Seq(M!Commands)
    BY DEF M!Commands
  <2>3. /\ conn' \in Connections /\ conn' # NoValue
        /\ Range(conn'.inbox) = {} /\ Range(conn'.replies) = {}
    <3>1. <<>> \in Seq(Lines) /\ Range(<<>>) = {}
      BY NothingQueued
    <3>2. M!Connection(socket) \in Connections
      BY <2>1, <3>1 DEF M!Connection, Connections
    <3> QED BY <1>10, <3>1, <3>2 DEF M!connect, M!Connection
  <2> QED BY <1>10, <2>1, <2>2, <2>3 DEF M!connect, M!In, LinkInv, LinkTyped, Numbered, Sound
<1> QED BY <1>3, <1>4, <1>5, <1>6, <1>7, <1>8, <1>9, <1>10 DEF M!Starting

(* A command: its number is new, and its line is the one that is written.  *)
LEMMA LinkCommands ==
    ASSUME ProcessInv, LinkInv, M!Commanding \/ M!SendsQuit
    PROVE  LinkInv'
<1> USE Apart
<1>0. op \in {"commands", "quit"} => holder # NoValue
  BY DEF ProcessInv, LockTyped
<1> DEFINE Filed(w) == [command |-> w, id |-> request_id, written |-> FALSE, answer |-> NoValue]
<1>1. ASSUME NEW w \in M!Commands, call' = Filed(w), request_id' = request_id + 1,
             op \in {"commands", "quit"}, todo # <<>>, UNCHANGED <<reader, conn, todo, holder, op>>
      PROVE  LinkInv'
  <2>1. Filed(w) \in Commanded
    BY <1>1 DEF LinkInv, LinkTyped, Commanded
  <2>2. LinkTyped' /\ request_id' > request_id /\ call'.id = request_id
    BY <1>0, <1>1, <2>1 DEF LinkInv, LinkTyped
  <2>3. conn # NoValue =>
            \A m \in Range(conn.inbox) \cup Range(conn.replies) : m.id < request_id /\ m.id \in Nat
    <3>1. conn # NoValue => /\ Range(conn.inbox) \subseteq Lines
                            /\ Range(conn.replies) \subseteq Lines
      BY RangeOfSeq DEF LinkInv, LinkTyped, Connections
    <3> QED BY <3>1 DEF LinkInv, Numbered, Sound, Lines
  <2> QED BY <1>1, <2>1, <2>2, <2>3 DEF LinkInv, LinkTyped, Numbered, Sound
<1>2. CASE M!FilesSender
  <2>1. Head(todo) \in M!Commands
    BY <1>2, Taken DEF M!FilesSender, LinkInv, LinkTyped
  <2> QED BY <1>2, <1>1, <2>1 DEF M!FilesSender, M!next_id, M!lock, LinkInv, LinkTyped
<1>3. CASE M!SendsQuit
  BY <1>3, <1>1 DEF M!SendsQuit, M!next_id, M!lock, M!Commands, LinkInv, LinkTyped
<1>4. ASSUME M!Fails, call # NoValue, UNCHANGED <<reader, conn, todo, holder, op, request_id>>
      PROVE  LinkInv'
  <2>1. /\ call' \in Commanded /\ call'.id = call.id /\ call'.written = call.written
        /\ call'.command = call.command
    BY <1>4 DEF M!Fails, LinkInv, LinkTyped, Commanded
  <2> QED BY <1>4, <2>1 DEF LinkInv, LinkTyped, Numbered, Sound
<1>5. CASE M!DeadlinePasses
  BY <1>4, <1>5 DEF M!DeadlinePasses, M!Unanswered, M!lock
<1>6. CASE M!Writes /\ conn # NoValue /\ conn.open
  <2> DEFINE m == [id |-> call.id, command |-> call.command]
  <2>1. call \in Commanded /\ conn \in Connections /\ UNCHANGED <<reader, todo, holder, op, request_id>>
    BY <1>6 DEF M!Writes, M!Unanswered, M!lock, LinkInv, LinkTyped
  <2>2. m \in Lines
    BY <2>1 DEF Commanded, Lines
  <2>3. /\ Append(conn.inbox, m) \in Seq(Lines)
        /\ Range(Append(conn.inbox, m)) = Range(conn.inbox) \cup {m}
    BY <2>1, <2>2, Appended DEF Connections
  <2>4. /\ conn' \in Connections /\ conn'.replies = conn.replies
        /\ Range(conn'.inbox) = Range(conn.inbox) \cup {m}
    BY <1>6, <2>1, <2>3 DEF M!Writes, Connections
  <2>5. /\ call' \in Commanded /\ call'.id = call.id /\ call'.written
        /\ call'.command = call.command
    BY <1>6, <2>1 DEF M!Writes, Commanded
  <2> HIDE DEF m
  <2>6. m.id = call.id /\ m.command = call.command
    BY DEF m
  <2> QED BY <1>6, <2>1, <2>4, <2>5, <2>6 DEF M!Writes, M!Unanswered, LinkInv, LinkTyped, Numbered, Sound
<1>7. CASE M!Writes /\ ~(conn # NoValue /\ conn.open)
  BY <1>4, <1>7 DEF M!Writes, M!Unanswered, M!lock
<1>8. CASE M!CommandReturns
  <2>1. todo' \in Seq(M!Commands)
    <3>1. CASE call.answer = Error \/ Len(todo) = 1
      BY <1>8, <3>1, NothingQueued DEF M!CommandReturns, M!Unlock
    <3>2. CASE ~(call.answer = Error \/ Len(todo) = 1)
      BY <1>8, <3>2, HeadTailProperties DEF M!CommandReturns, LinkInv, LinkTyped
    <3> QED BY <3>1, <3>2
  <2> QED BY <1>8, <2>1 DEF M!CommandReturns, LinkInv, LinkTyped, Numbered, Sound
<1> QED BY <1>2, <1>3, <1>5, <1>6, <1>7, <1>8 DEF M!Commanding

(* The other users of the connection, and mpv.                             *)
LEMMA LinkReads ==
    ASSUME LinkInv, M!Reading
    PROVE  LinkInv'
<1> USE Apart
<1>1. CASE M!ReaderEnds
  BY <1>1 DEF M!Reading, M!ReaderEnds, M!lock, LinkInv, LinkTyped, Numbered, Sound
<1>2. CASE M!reader_loop
  <2> DEFINE r == Head(conn.replies)
  <2>1. conn \in Connections /\ conn.replies \in Seq(Lines) /\ conn.replies # <<>>
    BY <1>2 DEF M!reader_loop, LinkInv, LinkTyped, Connections
  <2>2. /\ r \in Lines /\ Tail(conn.replies) \in Seq(Lines)
        /\ Range(Tail(conn.replies)) \subseteq Range(conn.replies)
    BY <2>1, Taken
  <2>3. /\ conn' \in Connections /\ conn'.inbox = conn.inbox
        /\ Range(conn'.replies) \subseteq Range(conn.replies)
    BY <1>2, <2>1, <2>2 DEF M!reader_loop, Connections
  <2>4. \/ call' = call
        \/ /\ call \in Commanded /\ call' \in Commanded
           /\ call'.id = call.id /\ call'.command = call.command /\ call'.written = call.written
    <3>1. r.command \in M!Commands
      BY <2>2 DEF Lines
    <3> HIDE DEF r
    <3>2. call' = call \/ (call # NoValue /\ call' = [call EXCEPT !.answer = r.command])
      BY <1>2 DEF M!reader_loop, M!Unanswered, r
    <3> QED BY <3>1, <3>2 DEF LinkInv, LinkTyped, Commanded
  <2>5. UNCHANGED <<reader, request_id, todo, holder, op>>
    BY <1>2 DEF M!reader_loop, M!lock
  <2>6. conn # NoValue /\ conn' # NoValue
    BY <2>1, <2>3
  <2>7. LinkTyped'
    BY <2>3, <2>4, <2>5, <2>6 DEF LinkInv, LinkTyped
  <2>8. Numbered'
    BY <2>3, <2>4, <2>5, <2>6 DEF LinkInv, LinkTyped, Numbered, Sound
  <2> QED BY <2>7, <2>8 DEF LinkInv
<1> QED BY <1>1, <1>2 DEF M!Reading

LEMMA LinkOthers ==
    ASSUME ProcessInv, LinkInv,
           \/ \E u \in Users : M!BeginsCommands(u)
           \/ M!request_shutdown \/ M!quit_mpv \/ M!shutdown_sync \/ M!QuitTimesOut \/ M!Exits
           \/ M!DaemonIsKilled
    PROVE  LinkInv'
<1> USE Apart
<1>0. <<>> \in Seq(M!Commands)
  BY NothingQueued
<1>1. holder = NoValue \/ ~(op \in {"commands"} \cup {"quit"}) => call = NoValue
  BY DEF LinkInv, LinkTyped
<1>2. ASSUME NEW u \in Users, M!BeginsCommands(u)
      PROVE  LinkInv'
  <2>1. /\ <<"set", "playlist">> \in Seq(M!Commands) /\ <<"get", "set">> \in Seq(M!Commands)
        /\ <<"playlist">> \in Seq(M!Commands) /\ <<"set">> \in Seq(M!Commands)
        /\ <<"get">> \in Seq(M!Commands)
    BY DEF M!Commands
  <2>2. todo' \in Seq(M!Commands)
    BY <1>2, <2>1 DEF M!BeginsCommands, M!Programs, M!loadfile, M!set_property, M!get_property,
                      M!toggle_pause, M!playlist_commands
  <2> QED BY <1>1, <1>2, <2>2 DEF M!BeginsCommands, M!Lock, M!ipc, LinkInv, LinkTyped, Numbered, Sound
<1>3. CASE M!request_shutdown
  BY <1>3 DEF M!request_shutdown, M!ipc, M!lock, LinkInv, LinkTyped, Numbered, Sound
<1>4. CASE M!quit_mpv
  <2>1. <<"quit">> \in Seq(M!Commands)
    BY DEF M!Commands
  <2>2. todo' \in Seq(M!Commands)
    BY <1>0, <1>4, <2>1 DEF M!quit_mpv
  <2> QED BY <1>1, <1>4, <2>2 DEF M!quit_mpv, M!Lock, M!ipc, LinkInv, LinkTyped, Numbered, Sound
<1>5. CASE M!shutdown_sync
  BY <1>0, <1>5 DEF M!shutdown_sync, M!drop_connection, M!Unlock, LinkInv, LinkTyped, Numbered
<1>6. CASE M!QuitTimesOut
  BY <1>0, <1>6 DEF M!QuitTimesOut, M!Unlock, M!lock, LinkInv, LinkTyped, Numbered, Sound
<1>7. CASE M!Exits \/ M!DaemonIsKilled
  <2>1. conn' = NoValue /\ call' = NoValue /\ todo' = <<>> /\ request_id' = 1 /\ reader' = "none"
    BY <1>7 DEF M!Exits, M!DaemonIsKilled, M!Gone, M!Unlock
  <2>2. todo' \in Seq(M!Commands)
    BY <1>0, <2>1
  <2> QED BY <2>1, <2>2 DEF LinkInv, LinkTyped, Numbered
<1> QED BY <1>2, <1>3, <1>4, <1>5, <1>6, <1>7

LEMMA LinkMpv ==
    ASSUME LinkInv,
           \/ \E p \in Mpvs : M!MpvListens(p) \/ M!MpvExits(p) \/ M!MpvHangs(p)
           \/ M!MpvAnswers \/ M!MpvHangsUp
    PROVE  LinkInv'
<1> USE Apart
<1>1. ASSUME NEW p, M!hang_up(p), UNCHANGED <<reader, request_id, call, holder, op, todo>>
      PROVE  LinkInv'
  <2>1. \/ conn' = conn
        \/ /\ conn \in Connections /\ conn' \in Connections
           /\ conn'.inbox = conn.inbox /\ conn'.replies = conn.replies
    BY <1>1 DEF M!hang_up, LinkInv, LinkTyped, Connections
  <2> QED BY <1>1, <2>1 DEF LinkInv, LinkTyped, Numbered, Sound
<1>2. ASSUME NEW p \in Mpvs, M!MpvListens(p) \/ M!MpvHangs(p)
      PROVE  LinkInv'
  BY <1>2 DEF M!MpvListens, M!MpvHangs, M!ipc, M!lock, LinkInv, LinkTyped, Numbered, Sound
<1>3. ASSUME NEW p \in Mpvs, M!MpvExits(p)
      PROVE  LinkInv'
  BY <1>1, <1>3 DEF M!MpvExits, M!lock
<1>4. CASE M!MpvHangsUp
  BY <1>1, <1>4 DEF M!MpvHangsUp, M!lock
<1>5. CASE M!MpvAnswers
  <2> DEFINE m == Head(conn.inbox)
  <2>1. /\ conn \in Connections /\ conn.inbox \in Seq(Lines) /\ conn.inbox # <<>>
        /\ conn.replies \in Seq(Lines)
    BY <1>5 DEF M!MpvAnswers, LinkInv, LinkTyped, Connections
  <2>2. /\ m \in Lines /\ m \in Range(conn.inbox) /\ Tail(conn.inbox) \in Seq(Lines)
        /\ Range(Tail(conn.inbox)) \subseteq Range(conn.inbox)
    BY <2>1, Taken
  <2>3. /\ Append(conn.replies, m) \in Seq(Lines)
        /\ Range(Append(conn.replies, m)) = Range(conn.replies) \cup {m}
    BY <2>1, <2>2, Appended
  <2>4. conn' = [conn EXCEPT !.inbox = Tail(conn.inbox), !.replies = Append(conn.replies, m),
                             !.open = ~(m.command = "quit")]
    BY <1>5 DEF M!MpvAnswers
  <2> HIDE DEF m
  <2>5. /\ conn' \in Connections
        /\ conn'.inbox = Tail(conn.inbox) /\ conn'.replies = Append(conn.replies, m)
    BY <2>1, <2>2, <2>3, <2>4 DEF Connections
  <2>6. UNCHANGED <<reader, request_id, call, holder, op, todo>>
    BY <1>5 DEF M!MpvAnswers, M!lock
  <2>7. conn # NoValue /\ conn' # NoValue
    BY <2>1, <2>5
  <2> QED BY <2>2, <2>3, <2>5, <2>6, <2>7 DEF LinkInv, LinkTyped, Numbered, Sound
<1> QED BY <1>2, <1>3, <1>4, <1>5

LEMMA LinkStep == ProcessInv /\ LinkInv /\ [M!Next]_varsM => LinkInv'
BY LinkPaused, LinkPolls, LinkCommands, LinkReads, LinkOthers, LinkMpv
   DEF M!Next, M!Commanding, M!Quitting, M!Failing

LEMMA ProcessesStart == M!Init \/ NoMpv => ProcessInv
BY Names
   DEF M!Init, NoMpv, ProcessInv, ProcessesTyped, LockTyped, Accounted, LeftOver,
       Starts, M!Alive

LEMMA ProcessesPaused == ProcessInv /\ UNCHANGED varsM => ProcessInv'
BY DEF varsM, ProcessInv, ProcessesTyped, LockTyped, Accounted, LeftOver, Starts, M!Alive

(* The polling task looks at mpv, which gives up a child that is gone.     *)
LEMMA WatchdogStep ==
    ASSUME ProcessInv,
           M!WatchdogTicks \/ M!WatchdogLooks \/ M!update_playback_info \/ M!start_mpv
    PROVE  ProcessInv'
<1> USE Names DEF ProcessInv, ProcessesTyped, LockTyped, Accounted,
        LeftOver, Starts, M!Alive, M!lock, M!ipc, M!processes, M!tasks
<1>1. CASE M!WatchdogTicks
  BY <1>1 DEF M!WatchdogTicks
<1>2. ASSUME M!is_running, poll' \in {poll, "ready", "dead"}, poll # "boot"
      PROVE  ProcessInv'
  BY <1>2 DEF M!is_running, M!ClearsDeadState, M!IsRunning, M!reap_child, M!drop_connection
<1>3. CASE M!WatchdogLooks \/ M!update_playback_info
  BY <1>2, <1>3 DEF M!WatchdogLooks, M!update_playback_info
<1>4. CASE M!start_mpv
  BY <1>4 DEF M!start_mpv, M!Lock
<1> QED BY <1>1, <1>3, <1>4

LEMMA StartingStep ==
    ASSUME ProcessInv, LinkInv, LinkInv', M!Starting
    PROVE  ProcessInv'
<1> USE Names DEF ProcessInv, ProcessesTyped, LockTyped, Accounted,
        LeftOver, Starts, M!Alive, M!lock, M!ipc, M!processes, M!tasks, M!In
<1>1. CASE M!TearsDown
  BY <1>1 DEF M!TearsDown, M!Started, M!EndsStart, M!Unlock, M!tear_down_connection, M!reset_ipc,
              M!drop_connection, M!reap_child
<1>2. CASE M!reap_stale_mpv_at
  BY <1>2 DEF M!reap_stale_mpv_at, M!Reclaims
<1>3. CASE M!Spawns
  <2>1. PICK p \in M!Free : process' = p /\ status' = [status EXCEPT ![p] = "starting"]
    BY <1>3 DEF M!Spawns
  <2>2. p \in Mpvs /\ status[p] = "none" /\ p # socket
    BY DEF M!Free
  <2>3. /\ op = "spawn" /\ op' = "wait"
        /\ UNCHANGED <<foreign, socket, astray, conn, holder, poll, shutdown>>
    BY <1>3 DEF M!Spawns
  <2>4. p \notin foreign /\ p # NoValue
    BY <2>2
  <2>5. \A q \in Mpvs : status'[q] = IF q = p THEN "starting" ELSE status[q]
    BY <2>1
  <2>6. ProcessesTyped' /\ LockTyped' /\ Starts'
    BY <2>1, <2>2, <2>3, <2>4
  <2>7. Accounted'
    BY <2>1, <2>2, <2>3, <2>4, <2>5
  <2>8. LeftOver'
    BY <2>3, <2>4, <2>5
  <2> QED BY <2>6, <2>7, <2>8
<1>4. CASE M!SpawnFails
  <2>1. op = "spawn" /\ UNCHANGED <<status, foreign, socket, process, astray, conn, shutdown>> /\ poll' = "ready"
        /\ holder' = NoValue /\ op' = NoValue
    BY <1>4 DEF M!SpawnFails, M!EndsStart, M!Unlock
  <2> QED BY <2>1
<1>5. CASE M!SocketAppears
  BY <1>5 DEF M!SocketAppears
<1>6. CASE M!SocketNotCreated
  BY <1>6 DEF M!SocketNotCreated, M!EndsStart, M!Unlock
<1>7. CASE M!connect
  <2>1. op = "connect" /\ op' = "commands"
        /\ UNCHANGED <<status, foreign, socket, process, astray, holder, poll, shutdown>>
    BY <1>7 DEF M!connect
  <2> QED BY <2>1
<1>8. CASE M!ConnectFails
  BY <1>8 DEF M!ConnectFails, M!EndsStart, M!Unlock, M!reset_ipc, M!drop_connection
<1> QED BY <1>1, <1>2, <1>3, <1>4, <1>5, <1>6, <1>7, <1>8 DEF M!Starting

LEMMA CommandingStep ==
    ASSUME ProcessInv, LinkInv, LinkInv', M!Commanding \/ M!Reading \/ \E u \in Users : M!BeginsCommands(u)
    PROVE  ProcessInv'
<1> USE Names DEF ProcessInv, ProcessesTyped, LockTyped, Accounted,
        LeftOver, Starts, M!Alive, M!lock, M!ipc, M!processes, M!tasks
<1>1. CASE M!FilesSender
  BY <1>1 DEF M!FilesSender
<1>2. CASE M!Writes
  <2>1. conn' = conn \/ (conn # NoValue /\ conn'.to = conn.to)
    BY <1>2 DEF M!Writes, LinkInv, LinkTyped, Connections
  <2> QED BY <1>2, <2>1 DEF M!Writes
<1>3. CASE M!DeadlinePasses
  BY <1>3 DEF M!DeadlinePasses, M!Fails
<1>4. CASE M!CommandReturns
  BY <1>4 DEF M!CommandReturns, M!Unlock
<1>5. CASE M!reader_loop
  <2>1. conn # NoValue /\ conn'.to = conn.to
    BY <1>5 DEF M!reader_loop, LinkInv, LinkTyped, Connections
  <2> QED BY <1>5, <2>1 DEF M!reader_loop
<1>6. CASE M!ReaderEnds
  BY <1>6 DEF M!ReaderEnds
<1>7. ASSUME NEW u \in Users, M!BeginsCommands(u)
      PROVE  ProcessInv'
  BY <1>7 DEF M!BeginsCommands, M!Lock
<1> QED BY <1>1, <1>2, <1>3, <1>4, <1>5, <1>6, <1>7 DEF M!Commanding, M!Reading

LEMMA QuittingStep ==
    ASSUME ProcessInv, M!Quitting
    PROVE  ProcessInv'
<1> USE Names DEF ProcessInv, ProcessesTyped, LockTyped, Accounted,
        LeftOver, Starts, M!Alive, M!lock, M!ipc, M!processes, M!tasks
<1>1. CASE M!request_shutdown
  BY <1>1 DEF M!request_shutdown
<1>2. CASE M!quit_mpv
  BY <1>2 DEF M!quit_mpv, M!Lock
<1>3. CASE M!SendsQuit
  BY <1>3 DEF M!SendsQuit
<1>4. CASE M!shutdown_sync
  BY <1>4 DEF M!shutdown_sync, M!reap_child, M!drop_connection, M!Unlock
<1>5. CASE M!QuitTimesOut
  BY <1>5 DEF M!QuitTimesOut, M!Unlock
<1>6. CASE M!Exits
  BY <1>6 DEF M!Exits, M!Gone, M!Unlock
<1> QED BY <1>1, <1>2, <1>3, <1>4, <1>5, <1>6 DEF M!Quitting

(* What mpv does by itself, and what goes wrong with it and the daemon.    *)
LEMMA MpvItselfStep ==
    ASSUME ProcessInv, LinkInv, LinkInv', M!Failing \/ M!MpvAnswers \/ \E p \in Mpvs : M!MpvListens(p)
    PROVE  ProcessInv'
<1> USE Names DEF ProcessInv, ProcessesTyped, LockTyped, Accounted,
        LeftOver, Starts, M!Alive, M!lock, M!ipc, M!processes, M!tasks
<1>0. ASSUME NEW p, M!hang_up(p)
      PROVE  conn' = conn \/ (conn # NoValue /\ conn'.to = conn.to)
  BY <1>0 DEF M!hang_up, LinkInv, LinkTyped, Connections
<1>1. ASSUME NEW p \in Mpvs, M!MpvExits(p)
      PROVE  ProcessInv'
  BY <1>0, <1>1 DEF M!MpvExits, M!Ends
<1>2. ASSUME NEW p \in Mpvs, M!MpvHangs(p)
      PROVE  ProcessInv'
  BY <1>2 DEF M!MpvHangs, M!Fault
<1>3. CASE M!MpvHangsUp
  BY <1>0, <1>3 DEF M!MpvHangsUp
<1>4. CASE M!DaemonIsKilled
  BY <1>4 DEF M!DaemonIsKilled, M!Fault, M!Gone, M!Unlock
<1>5. CASE M!MpvAnswers
  <2>1. conn # NoValue /\ conn'.to = conn.to
    BY <1>5 DEF M!MpvAnswers, LinkInv, LinkTyped, Connections
  <2> QED BY <1>5, <2>1 DEF M!MpvAnswers, M!Ends
<1>6. ASSUME NEW p \in Mpvs, M!MpvListens(p)
      PROVE  ProcessInv'
  BY <1>6 DEF M!MpvListens
<1> QED BY <1>1, <1>2, <1>3, <1>4, <1>5, <1>6 DEF M!Failing

LEMMA ProcessesStep == ProcessInv /\ LinkInv /\ [M!Next]_varsM => ProcessInv'
BY LinkStep, ProcessesPaused, WatchdogStep, StartingStep, CommandingStep, QuittingStep, MpvItselfStep
   DEF M!Next

LEMMA ProcessesAtRest == ProcessInv => M!OnePlayer
BY DEF ProcessInv, ProcessesTyped, Accounted, LeftOver, M!OnePlayer, M!OutOfReach, M!Alive

(***************************************************************************)
(* The contract of Calls, kept by the controller of mpv.  Only the holder  *)
(* of the lock has a call, and it is the command awaited.                  *)
(***************************************************************************)
MpvCallers == Users \cup {"poll", "main"}

MpvCalls == [t \in MpvCallers |-> M!Called(t)]

(* How the call may change.                                                *)
Asks ==
    /\ call = NoValue /\ call' \in Commanded /\ call'.answer = NoValue
    /\ holder \in MpvCallers /\ holder' = holder

Ends(answer) ==
    /\ call # NoValue /\ call.answer = NoValue
    /\ call' \in Commanded /\ call'.command = call.command /\ call'.answer = answer
    /\ holder' = holder

Goes == call' = NoValue

Stays ==
    /\ call' = call \/ (call # NoValue /\ call' \in Commanded /\ call'.command = call.command
                                      /\ call'.answer = call.answer)
    /\ call # NoValue => holder' = holder

LEMMA CallKept ==
    ASSUME ProcessInv, LinkInv, Asks \/ Goes \/ Stays \/ Ends(Error) \/ Ends(call.command)
    PROVE  [M!Contract!Next]_MpvCalls
<1> DEFINE A(w) == [question |-> call.command, answer |-> w]
<1>0. /\ NoValue \notin Commanded /\ NoValue \notin Promised /\ NoValue # Error
      /\ call \in Commanded \cup {NoValue}
      /\ call # NoValue => holder \in MpvCallers
  BY Apart, ConnectionsAssumption
     DEF ConnectionsAssumption, LinkInv, LinkTyped, ProcessInv, LockTyped, MpvCallers
<1>1. call # NoValue => MpvCalls = [t \in MpvCallers |-> IF t = holder THEN A(call.answer) ELSE NoValue]
  BY <1>0 DEF MpvCalls, M!Called
<1>2. call # NoValue => A(call.answer) \in Promised
  BY <1>0 DEF Commanded, Promised
<1>3. call = NoValue => MpvCalls = [t \in MpvCallers |-> NoValue]
  BY DEF MpvCalls, M!Called
<1>4. call' = NoValue => MpvCalls' = [t \in MpvCallers |-> NoValue]
  BY DEF MpvCalls, M!Called
<1>5. call' \in Commanded =>
          MpvCalls' = [t \in MpvCallers |->
              IF t = holder' THEN [question |-> call'.command, answer |-> call'.answer] ELSE NoValue]
  BY <1>0 DEF MpvCalls, M!Called
<1>6. CASE Goes
  <2>1. M!Contract!Forget(MpvCallers)
    BY <1>4, <1>6 DEF Goes, M!Contract!Forget, MpvCalls, MpvCallers
  <2> QED BY <2>1 DEF M!Contract!Next, MpvCallers
<1>7. CASE Stays
  <2>1. CASE call = NoValue
    BY <1>3, <1>4, <1>7, <2>1 DEF Stays
  <2>2. CASE call # NoValue
    <3>1. call' \in Commanded /\ call'.command = call.command /\ call'.answer = call.answer
      BY <1>0, <1>7, <2>2 DEF Stays
    <3> QED BY <1>1, <1>5, <1>7, <2>2, <3>1 DEF Stays
  <2> QED BY <2>1, <2>2
<1>8. CASE Asks
  <2>1. holder \in MpvCallers /\ call'.command \in M!Commands
    BY <1>8 DEF Asks, Commanded
  <2>2. MpvCalls[holder] = NoValue
    BY <1>3, <1>8, <2>1 DEF Asks
  <2>3. MpvCalls' = [MpvCalls EXCEPT ![holder] = [question |-> call'.command, answer |-> NoValue]]
    BY <1>3, <1>5, <1>8, <2>1 DEF Asks
  <2> QED BY <2>1, <2>2, <2>3 DEF M!Contract!Next, M!Contract!Ask, MpvCallers, MpvCalls
<1>9. ASSUME NEW answer \in {Error, call.command}, Ends(answer)
      PROVE  /\ holder \in M!Contract!Waiting
             /\ MpvCalls' = [MpvCalls EXCEPT ![holder] = A(answer)]
             /\ MpvCalls[holder] = A(NoValue)
  <2>1. /\ holder \in MpvCallers /\ call # NoValue
        /\ MpvCalls = [t \in MpvCallers |-> IF t = holder THEN A(NoValue) ELSE NoValue]
        /\ A(NoValue) # NoValue
    BY <1>0, <1>1, <1>2, <1>9 DEF Ends
  <2>2. MpvCalls' = [t \in MpvCallers |-> IF t = holder THEN A(answer) ELSE NoValue]
    BY <1>5, <1>9 DEF Ends
  <2>3. MpvCalls[holder] # NoValue /\ MpvCalls[holder].answer = NoValue
    BY <2>1
  <2> QED BY <2>1, <2>2, <2>3 DEF M!Contract!Waiting, MpvCallers, MpvCalls
<1>10. CASE Ends(Error)
  <2>1. /\ holder \in M!Contract!Waiting
        /\ MpvCalls' = [MpvCalls EXCEPT ![holder] = A(Error)]
        /\ MpvCalls[holder] = A(NoValue)
    BY <1>9, <1>10
  <2>2. MpvCalls' = [t \in MpvCallers |-> IF t \in {holder} THEN [MpvCalls[t] EXCEPT !.answer = Error]
                                         ELSE MpvCalls[t]]
    BY <2>1 DEF MpvCalls
  <2>3. M!Contract!Fail({holder})
    BY <2>2 DEF M!Contract!Fail, MpvCalls, MpvCallers
  <2> QED BY <2>1, <2>3 DEF M!Contract!Next
<1>11. CASE Ends(call.command)
  <2>1. /\ holder \in M!Contract!Waiting
        /\ MpvCalls' = [MpvCalls EXCEPT ![holder] = A(call.command)]
        /\ MpvCalls[holder] = A(NoValue)
    BY <1>9, <1>11
  <2>0. [MpvCalls[holder] EXCEPT !.answer = MpvCalls[holder].question] = A(call.command)
    BY <2>1
  <2>2. MpvCalls' = [MpvCalls EXCEPT ![holder].answer = MpvCalls[holder].question]
    BY <2>0, <2>1
  <2>3. M!Contract!Answer(holder)
    BY <2>1, <2>2 DEF M!Contract!Answer, MpvCalls, MpvCallers
  <2>4. holder \in MpvCallers
    BY <1>0, <1>11 DEF Ends
  <2> QED BY <2>3, <2>4 DEF M!Contract!Next, MpvCallers
<1> QED BY <1>6, <1>7, <1>8, <1>10, <1>11

(* Every step of MpvController changes the call in one of these ways.      *)
LEMMA CallSteps ==
    ASSUME ProcessInv, LinkInv, LinkInv', M!Next
    PROVE  Asks \/ Goes \/ Stays \/ Ends(Error) \/ Ends(call.command)
<1> USE Apart
<1>0. /\ call \in Commanded \cup {NoValue} /\ call' \in Commanded \cup {NoValue}
      /\ call # NoValue => holder # NoValue /\ op \in {"commands", "quit"}
      /\ op = "commands" \/ op = "quit" => holder \in MpvCallers
  BY DEF LinkInv, LinkTyped, ProcessInv, LockTyped, MpvCallers
<1>1. ASSUME UNCHANGED <<call, holder>>
      PROVE  Stays
  BY <1>1 DEF Stays
<1>2. ASSUME call = NoValue, UNCHANGED call
      PROVE  Stays
  BY <1>2 DEF Stays
<1>3. ASSUME M!is_running
      PROVE  Stays
  BY <1>3 DEF M!is_running, M!lock, Stays
<1>4. CASE M!WatchdogTicks \/ M!WatchdogLooks \/ M!update_playback_info
  BY <1>1, <1>3, <1>4 DEF M!WatchdogTicks, M!WatchdogLooks, M!update_playback_info, M!ipc, M!lock
<1>5. CASE M!start_mpv \/ M!quit_mpv \/ \E u \in Users : M!BeginsCommands(u)
  BY <1>0, <1>2, <1>5 DEF M!start_mpv, M!quit_mpv, M!BeginsCommands, M!Lock, M!ipc
<1>6. CASE M!Starting
  BY <1>0, <1>2, <1>6
     DEF M!Starting, M!TearsDown, M!reap_stale_mpv_at, M!Spawns, M!SpawnFails, M!SocketAppears,
         M!SocketNotCreated, M!connect, M!ConnectFails, M!In, M!ipc
<1>7. CASE M!FilesSender \/ M!SendsQuit
  <2>1. Head(todo) \in M!Commands \/ M!SendsQuit
    BY <1>7, Taken DEF M!FilesSender, LinkInv, LinkTyped
  <2>2. PICK w \in M!Commands :
            call' = [command |-> w, id |-> request_id, written |-> FALSE, answer |-> NoValue]
    BY <1>7, <2>1 DEF M!FilesSender, M!SendsQuit, M!Commands
  <2>3. call = NoValue /\ holder' = holder /\ (op = "commands" \/ op = "quit")
    BY <1>7 DEF M!FilesSender, M!SendsQuit, M!lock
  <2>4. call' \in Commanded
    BY <2>2 DEF Commanded, LinkInv, LinkTyped
  <2> QED BY <1>0, <2>2, <2>3, <2>4 DEF Asks
<1>8. ASSUME M!Fails, M!Unanswered, holder' = holder
      PROVE  Ends(Error)
  <2>1. call' \in Commanded /\ call'.command = call.command /\ call'.answer = Error
    BY <1>0, <1>8 DEF M!Fails, M!Unanswered, Commanded
  <2> QED BY <1>8, <2>1 DEF Ends, M!Unanswered
<1>9. CASE M!DeadlinePasses
  BY <1>8, <1>9 DEF M!DeadlinePasses, M!lock
<1>10. CASE M!Writes
  <2>1. CASE M!Fails
    BY <1>8, <1>10, <2>1 DEF M!Writes, M!lock
  <2>2. CASE call' = [call EXCEPT !.written = TRUE]
    <3>1. call # NoValue /\ holder' = holder
      BY <1>10 DEF M!Writes, M!Unanswered, M!lock
    <3>2. call' \in Commanded /\ call'.command = call.command /\ call'.answer = call.answer
      BY <1>0, <2>2, <3>1 DEF Commanded
    <3> QED BY <3>1, <3>2 DEF Stays
  <2> QED BY <1>10, <2>1, <2>2 DEF M!Writes
<1>11. CASE M!reader_loop
  <2> DEFINE r == Head(conn.replies)
  <2>1. holder' = holder
    BY <1>11 DEF M!reader_loop, M!lock
  <2>2. CASE call' = call
    BY <1>1, <2>1, <2>2
  <2>3. CASE call' # call
    <3>1. /\ call # NoValue /\ call.answer = NoValue /\ call.id = r.id
          /\ call' = [call EXCEPT !.answer = r.command]
      BY <1>11, <2>3 DEF M!reader_loop, M!Unanswered
    <3>2. conn \in Connections /\ conn.replies \in Seq(Lines) /\ conn.replies # <<>>
      BY <1>11 DEF M!reader_loop, LinkInv, LinkTyped, Connections
    <3>3. r \in Range(conn.replies)
      BY <3>2, Taken
    <3> HIDE DEF r
    <3>4. r.command = call.command
      BY <3>1, <3>2, <3>3 DEF LinkInv, Numbered, Sound
    <3>5. call' \in Commanded /\ call'.command = call.command /\ call'.answer = call.command
      BY <1>0, <3>1, <3>4 DEF Commanded
    <3> QED BY <2>1, <3>1, <3>5 DEF Ends
  <2> QED BY <2>2, <2>3
<1>12. CASE M!ReaderEnds \/ M!request_shutdown
  BY <1>1, <1>12 DEF M!ReaderEnds, M!request_shutdown, M!ipc, M!lock
<1>13. CASE M!CommandReturns \/ M!shutdown_sync
  BY <1>13 DEF M!CommandReturns, M!shutdown_sync, Goes
<1>14. CASE M!QuitTimesOut
  BY <1>1, <1>14 DEF M!QuitTimesOut, M!lock, Goes
<1>15. CASE M!Exits \/ M!DaemonIsKilled
  BY <1>15 DEF M!Exits, M!DaemonIsKilled, M!Gone, Goes
<1>16. ASSUME NEW p \in Mpvs, M!MpvListens(p) \/ M!MpvExits(p) \/ M!MpvHangs(p)
       PROVE  Stays
  BY <1>1, <1>16 DEF M!MpvListens, M!MpvExits, M!MpvHangs, M!ipc, M!lock
<1>17. CASE M!MpvAnswers \/ M!MpvHangsUp
  BY <1>1, <1>17 DEF M!MpvAnswers, M!MpvHangsUp, M!lock
<1> QED BY <1>4, <1>5, <1>6, <1>7, <1>9, <1>10, <1>11, <1>12, <1>13, <1>14, <1>15, <1>16, <1>17
        DEF M!Next, M!Commanding, M!Reading, M!Quitting, M!Failing

LEMMA MpvKeepsContract ==
    ProcessInv /\ LinkInv /\ LinkInv' /\ [M!Next]_varsM => [M!Contract!Next]_MpvCalls
<1>1. UNCHANGED varsM => MpvCalls' = MpvCalls
  BY DEF varsM, MpvCalls, M!Called
<1> QED BY <1>1, CallSteps, CallKept

LEMMA MpvContractStarts == M!Init \/ NoMpv => M!Contract!Init
BY DEF M!Init, NoMpv, M!Contract!Init, M!Called

(***************************************************************************)
(* Requests over the socket (SocketClient, as C).  A request's number is   *)
(* its own, and whatever carries that number, on the way there or back, is *)
(* about it.                                                               *)
(***************************************************************************)
Returning == [id : Nat, answer : Requests \cup {"Ping", Error}]

Clients == Askers \cup {"Ping"}

Waits(c) == calls[c] # NoValue /\ calls[c].answer = NoValue

RequestsTyped ==
    /\ calls \in [Clients -> Requested \cup {NoValue}]
    /\ next_id \in Nat
    /\ queue \in Seq(Frames) /\ inbox \in Seq(Frames) /\ replies \in Seq(Returning)
    /\ serving \in Frames \cup {NoValue}

OwnNumbers ==
    /\ \A c \in Clients : calls[c] # NoValue => calls[c].id < next_id
    /\ \A c, d \in Clients :
           calls[c] # NoValue /\ calls[d] # NoValue /\ calls[c].id = calls[d].id => c = d

Outgoing == Range(queue) \cup Range(inbox) \cup {m \in {serving} : serving # NoValue}

AboutCalls ==
    /\ \A m \in Outgoing :
           /\ m.id < next_id
           /\ \A c \in Clients :
                  calls[c] # NoValue /\ calls[c].id = m.id =>
                      calls[c].sent /\ m.request = calls[c].request
    /\ \A m \in Range(replies) :
           /\ m.id < next_id
           /\ \A c \in Clients :
                  calls[c] # NoValue /\ calls[c].id = m.id =>
                      calls[c].sent /\ m.answer \in {calls[c].request, Error}

RequestInv == RequestsTyped /\ OwnNumbers /\ AboutCalls

LEMMA Distinct ==
    /\ NoValue \notin Requested /\ NoValue \notin Frames /\ NoValue # Error
    /\ NoValue \notin Requests \cup {"Ping", Error}
    /\ C!Callers = Clients /\ C!Ping = "Ping"
BY ConnectionsAssumption DEF ConnectionsAssumption, C!Callers, C!Ping, Clients

LEMMA RequestsStart == C!Init \/ NoRequests => RequestInv
<1> SUFFICES ASSUME C!Init \/ NoRequests PROVE RequestInv
  OBVIOUS
<1>1. /\ calls = [c \in Clients |-> NoValue] /\ next_id = 1
      /\ queue = <<>> /\ inbox = <<>> /\ replies = <<>> /\ serving = NoValue
  BY Distinct DEF C!Init, NoRequests, Clients
<1>2. /\ queue \in Seq(Frames) /\ inbox \in Seq(Frames) /\ replies \in Seq(Returning)
      /\ Range(queue) = {} /\ Range(inbox) = {} /\ Range(replies) = {}
  BY <1>1, NothingQueued
<1> QED BY <1>1, <1>2 DEF RequestInv, RequestsTyped, OwnNumbers, AboutCalls, Outgoing

(* What the calls may become while next_id stays: each stays what it was,  *)
(* is forgotten, or goes on under its number.                              *)
LEMMA CallsMove ==
    ASSUME RequestInv, next_id' = next_id,
           calls' \in [Clients -> Requested \cup {NoValue}],
           \A c \in Clients : calls'[c] # NoValue =>
               /\ calls[c] # NoValue
               /\ calls'[c].id = calls[c].id /\ calls'[c].request = calls[c].request
               /\ calls[c].sent => calls'[c].sent,
           /\ queue' \in Seq(Frames) /\ inbox' \in Seq(Frames) /\ replies' \in Seq(Returning)
           /\ serving' \in Frames \cup {NoValue},
           \A m \in Outgoing' : m \in Outgoing \/ \E c \in Clients :
               /\ calls[c] # NoValue /\ calls'[c] # NoValue /\ calls'[c].sent
               /\ m = [id |-> calls[c].id, request |-> calls[c].request],
           \A r \in Range(replies)' : r \in Range(replies) \/ \E m \in Outgoing :
               r.id = m.id /\ r.answer \in {m.request, Error}
    PROVE  RequestInv'
<1>1. RequestsTyped'
  BY DEF RequestInv, RequestsTyped
<1>2. OwnNumbers'
  <2>1. ASSUME NEW c \in Clients, calls'[c] # NoValue
        PROVE  calls'[c].id < next_id'
    BY <2>1 DEF RequestInv, OwnNumbers
  <2>2. ASSUME NEW c \in Clients, NEW d \in Clients, calls'[c] # NoValue, calls'[d] # NoValue,
               calls'[c].id = calls'[d].id
        PROVE  c = d
    BY <2>2 DEF RequestInv, OwnNumbers
  <2> QED BY <2>1, <2>2 DEF OwnNumbers
<1>3. ASSUME NEW m \in Outgoing'
      PROVE  /\ m.id < next_id
             /\ \A c \in Clients :
                    calls'[c] # NoValue /\ calls'[c].id = m.id =>
                        calls'[c].sent /\ m.request = calls'[c].request
  <2>1. CASE m \in Outgoing
    BY <2>1 DEF RequestInv, AboutCalls
  <2>2. CASE m \notin Outgoing
    <3>1. PICK c \in Clients :
              /\ calls[c] # NoValue /\ calls'[c] # NoValue /\ calls'[c].sent
              /\ m = [id |-> calls[c].id, request |-> calls[c].request]
      BY <1>3, <2>2
    <3>2. m.id = calls[c].id /\ m.request = calls[c].request
      BY <3>1
    <3> QED BY <3>1, <3>2 DEF RequestInv, OwnNumbers
  <2> QED BY <2>1, <2>2
<1>4. ASSUME NEW r \in Range(replies)'
      PROVE  /\ r.id < next_id
             /\ \A c \in Clients :
                    calls'[c] # NoValue /\ calls'[c].id = r.id =>
                        calls'[c].sent /\ r.answer \in {calls'[c].request, Error}
  <2>1. CASE r \in Range(replies)
    BY <2>1 DEF RequestInv, AboutCalls
  <2>2. CASE r \notin Range(replies)
    <3>1. PICK m \in Outgoing : r.id = m.id /\ r.answer \in {m.request, Error}
      BY <1>4, <2>2
    <3> QED BY <3>1 DEF RequestInv, AboutCalls
  <2> QED BY <2>1, <2>2
<1> QED BY <1>1, <1>2, <1>3, <1>4 DEF RequestInv, AboutCalls

(* A request is filed under a new number.                                  *)
LEMMA RequestFiled ==
    ASSUME RequestInv, NEW c \in Clients, NEW what \in Requests \cup {"Ping"}, C!FilesSender(c, what)
    PROVE  /\ RequestInv'
           /\ calls[c] = NoValue /\ next_id' = next_id + 1
           /\ calls' = [calls EXCEPT ![c] =
                  [request |-> what, id |-> next_id, sent |-> FALSE, age |-> 0, answer |-> NoValue]]
<1> DEFINE new == [request |-> what, id |-> next_id, sent |-> FALSE, age |-> 0, answer |-> NoValue]
<1>1. /\ calls[c] = NoValue /\ calls' = [calls EXCEPT ![c] = new]
      /\ next_id' = next_id + 1
      /\ UNCHANGED <<queue, inbox, serving, replies>>
  BY DEF C!FilesSender, C!daemon
<1>2. new \in Requested /\ new.id = next_id
  BY DEF RequestInv, RequestsTyped, Requested
<1> HIDE DEF new
<1>3. calls' \in [Clients -> Requested \cup {NoValue}] /\ calls'[c] = new
  BY <1>1, <1>2 DEF RequestInv, RequestsTyped
<1>4. \A d \in Clients : d # c => calls'[d] = calls[d]
  BY <1>1 DEF RequestInv, RequestsTyped
<1>5. next_id \in Nat /\ next_id' \in Nat /\ next_id < next_id'
  BY <1>1 DEF RequestInv, RequestsTyped
<1>6. RequestsTyped'
  BY <1>1, <1>3, <1>5 DEF RequestInv, RequestsTyped
<1>7. \A d \in Clients : calls[d] # NoValue => calls[d].id \in Nat
  BY DEF RequestInv, RequestsTyped, Requested
<1>8. OwnNumbers'
  <2>1. ASSUME NEW d \in Clients, calls'[d] # NoValue
        PROVE  calls'[d].id < next_id' /\ (d # c => calls'[d].id # new.id)
    BY <1>2, <1>3, <1>4, <1>5, <1>7, <2>1 DEF RequestInv, OwnNumbers
  <2>2. ASSUME NEW d \in Clients, NEW e \in Clients, calls'[d] # NoValue, calls'[e] # NoValue,
               calls'[d].id = calls'[e].id
        PROVE  d = e
    BY <1>3, <1>4, <2>1, <2>2 DEF RequestInv, OwnNumbers
  <2> QED BY <2>1, <2>2 DEF OwnNumbers
<1>9. AboutCalls'
  <2>1. Outgoing' = Outgoing /\ Range(replies)' = Range(replies)
    BY <1>1 DEF Outgoing
  <2>2. /\ \A m \in Outgoing : m \in Frames
        /\ \A r \in Range(replies) : r \in Returning
    BY RangeOfSeq DEF RequestInv, RequestsTyped, Outgoing
  <2>3. ASSUME NEW m \in Outgoing
        PROVE  /\ m.id < next_id'
               /\ \A d \in Clients :
                      calls'[d] # NoValue /\ calls'[d].id = m.id =>
                          calls'[d].sent /\ m.request = calls'[d].request
    <3>1. m.id \in Nat /\ m.id < next_id
      BY <2>2 DEF Frames, RequestInv, AboutCalls
    <3> QED BY <1>2, <1>3, <1>4, <1>5, <3>1 DEF RequestInv, AboutCalls
  <2>4. ASSUME NEW r \in Range(replies)
        PROVE  /\ r.id < next_id'
               /\ \A d \in Clients :
                      calls'[d] # NoValue /\ calls'[d].id = r.id =>
                          calls'[d].sent /\ r.answer \in {calls'[d].request, Error}
    <3>1. r.id \in Nat /\ r.id < next_id
      BY <2>2 DEF Returning, RequestInv, AboutCalls
    <3> QED BY <1>2, <1>3, <1>4, <1>5, <3>1 DEF RequestInv, AboutCalls
  <2> QED BY <2>1, <2>3, <2>4 DEF AboutCalls
<1> QED BY <1>1, <1>6, <1>8, <1>9 DEF RequestInv, new

(* A call ends or is forgotten: no frame and no number is new.             *)
LEMMA RequestsShrink ==
    ASSUME RequestInv, UNCHANGED <<next_id, queue, inbox, serving, replies>>,
           calls' \in [Clients -> Requested \cup {NoValue}],
           \A c \in Clients : calls'[c] # NoValue =>
               /\ calls[c] # NoValue
               /\ calls'[c].id = calls[c].id /\ calls'[c].request = calls[c].request
               /\ calls'[c].sent = calls[c].sent
    PROVE  RequestInv'
<1>1. Outgoing' = Outgoing /\ Range(replies)' = Range(replies)
  BY DEF Outgoing
<1>2. /\ queue' \in Seq(Frames) /\ inbox' \in Seq(Frames) /\ replies' \in Seq(Returning)
      /\ serving' \in Frames \cup {NoValue}
  BY DEF RequestInv, RequestsTyped
<1> QED BY <1>1, <1>2, CallsMove

(* What a caller does with its own call.                                   *)
OneChanges(c, new) ==
    calls' = [calls EXCEPT ![c] = new]

LEMMA OneCall ==
    ASSUME RequestInv, NEW c \in Clients, NEW new, OneChanges(c, new),
           UNCHANGED <<next_id, queue, inbox, serving, replies>>,
           new = NoValue \/ (/\ calls[c] # NoValue /\ new \in Requested
                             /\ new.id = calls[c].id /\ new.request = calls[c].request
                             /\ new.sent = calls[c].sent)
    PROVE  RequestInv'
<1>1. /\ calls' \in [Clients -> Requested \cup {NoValue}]
      /\ calls'[c] = new /\ \A d \in Clients : d # c => calls'[d] = calls[d]
  BY DEF RequestInv, RequestsTyped, OneChanges
<1> QED BY <1>1, RequestsShrink

LEMMA Withdrawn ==
    ASSUME RequestInv, NEW c \in Clients, Waits(c), C!Withdraws(c)
    PROVE  \E new \in Requested :
               /\ OneChanges(c, new) /\ new.answer = Error
               /\ new.id = calls[c].id /\ new.request = calls[c].request
               /\ new.sent = calls[c].sent
<1>1. calls[c] \in Requested /\ calls' = [calls EXCEPT ![c] = [calls[c] EXCEPT !.answer = Error]]
  BY DEF C!Withdraws, Waits, RequestInv, RequestsTyped
<1> DEFINE new == [calls[c] EXCEPT !.answer = Error]
<1>2. /\ new \in Requested /\ new.answer = Error
      /\ new.id = calls[c].id /\ new.request = calls[c].request /\ new.sent = calls[c].sent
  BY <1>1 DEF Requested
<1>3. OneChanges(c, new)
  BY <1>1 DEF OneChanges
<1> QED BY <1>2, <1>3

LEMMA ClientSteps ==
    ASSUME RequestInv, NEW c \in Clients,
           C!request(c) \/ C!Prompt(c) \/ C!TimesOut(c) \/ C!Pings \/ C!PingReturns
    PROVE  RequestInv'
<1> USE Distinct
<1>1. CASE C!request(c)
  BY <1>1, RequestFiled DEF C!request
<1>2. CASE C!Pings
  BY <1>2, RequestFiled DEF C!Pings, Clients
<1>3. ASSUME Waits(c), C!Withdraws(c), UNCHANGED <<next_id, queue, inbox, serving, replies>>
      PROVE  RequestInv'
  BY <1>3, Withdrawn, OneCall DEF Waits
<1>4. CASE C!Sends(c) /\ writer = "running"
  <2> DEFINE m == [id |-> calls[c].id, request |-> calls[c].request]
             new == [calls[c] EXCEPT !.sent = TRUE]
  <2>1. /\ calls[c] \in Requested /\ calls[c] # NoValue
        /\ calls' = [calls EXCEPT ![c] = new] /\ queue' = Append(queue, m)
        /\ UNCHANGED <<next_id, inbox, serving, replies>>
    BY <1>4 DEF C!Sends, C!Awaiting, C!daemon, RequestInv, RequestsTyped
  <2>2. /\ new \in Requested /\ new.sent
        /\ new.id = calls[c].id /\ new.request = calls[c].request
    BY <2>1 DEF Requested
  <2>3. m \in Frames
    BY <2>1 DEF Requested, Frames
  <2> HIDE DEF new, m
  <2>4. /\ queue' \in Seq(Frames) /\ Range(queue') = Range(queue) \cup {m}
    BY <2>1, <2>3, Appended DEF RequestInv, RequestsTyped
  <2>5. /\ calls' \in [Clients -> Requested \cup {NoValue}] /\ calls'[c] = new
        /\ \A d \in Clients : d # c => calls'[d] = calls[d]
    BY <2>1, <2>2 DEF RequestInv, RequestsTyped
  <2>6. \A f \in Outgoing' : f \in Outgoing \/ f = m
    BY <2>1, <2>4 DEF Outgoing
  <2>7. calls[c] # NoValue /\ calls'[c] # NoValue /\ calls'[c].sent
        /\ m = [id |-> calls[c].id, request |-> calls[c].request]
    BY <2>1, <2>2, <2>5 DEF m
  <2>8. \A f \in Outgoing' : f \in Outgoing \/ \E d \in Clients :
            /\ calls[d] # NoValue /\ calls'[d] # NoValue /\ calls'[d].sent
            /\ f = [id |-> calls[d].id, request |-> calls[d].request]
    BY <2>6, <2>7
  <2>9. \A d \in Clients : calls'[d] # NoValue =>
            /\ calls[d] # NoValue
            /\ calls'[d].id = calls[d].id /\ calls'[d].request = calls[d].request
            /\ calls[d].sent => calls'[d].sent
    BY <2>1, <2>2, <2>5
  <2>10. /\ queue' \in Seq(Frames) /\ inbox' \in Seq(Frames) /\ replies' \in Seq(Returning)
         /\ serving' \in Frames \cup {NoValue} /\ Range(replies)' = Range(replies)
    BY <2>1, <2>4 DEF RequestInv, RequestsTyped
  <2> QED BY <2>1, <2>5, <2>8, <2>9, <2>10, CallsMove
<1>5. CASE C!Sends(c) /\ writer # "running"
  BY <1>3, <1>5 DEF C!Sends, C!Awaiting, Waits, C!daemon
<1>6. CASE C!TimesOut(c)
  BY <1>3, <1>6 DEF C!TimesOut, C!Awaiting, Waits, C!daemon
<1>7. CASE C!Returns(c)
  BY <1>7, OneCall DEF C!Returns, OneChanges, C!daemon
<1>8. CASE C!PingReturns
  BY <1>8, OneCall DEF C!PingReturns, OneChanges, C!daemon, Clients
<1> QED BY <1>1, <1>2, <1>4, <1>5, <1>6, <1>7, <1>8 DEF C!Prompt

(* Frames only move on, or are lost, or become a reply to their request.   *)
LEMMA FramesMove ==
    ASSUME RequestInv, UNCHANGED <<calls, next_id>>,
           /\ queue' \in Seq(Frames) /\ inbox' \in Seq(Frames) /\ replies' \in Seq(Returning)
           /\ serving' \in Frames \cup {NoValue},
           Outgoing' \subseteq Outgoing,
           \A r \in Range(replies)' : r \in Range(replies) \/ \E m \in Outgoing :
               r.id = m.id /\ r.answer \in {m.request, Error}
    PROVE  RequestInv'
<1>1. calls' \in [Clients -> Requested \cup {NoValue}]
  BY DEF RequestInv, RequestsTyped
<1>2. \A c \in Clients : calls'[c] # NoValue =>
               /\ calls[c] # NoValue
               /\ calls'[c].id = calls[c].id /\ calls'[c].request = calls[c].request
               /\ calls[c].sent => calls'[c].sent
  OBVIOUS
<1>3. \A m \in Outgoing' : m \in Outgoing \/ \E c \in Clients :
               /\ calls[c] # NoValue /\ calls'[c] # NoValue /\ calls'[c].sent
               /\ m = [id |-> calls[c].id, request |-> calls[c].request]
  OBVIOUS
<1> QED BY <1>1, <1>2, <1>3, CallsMove

LEMMA ConnectionSteps ==
    ASSUME RequestInv,
           C!WriterWrites \/ C!ReaderSeesTheEnd \/ C!Reads \/ C!Answers \/ C!IdlesOut \/ C!DaemonEnds
    PROVE  RequestInv'
<1> USE Distinct
<1>0. /\ queue \in Seq(Frames) /\ inbox \in Seq(Frames) /\ replies \in Seq(Returning)
      /\ serving \in Frames \cup {NoValue}
  BY DEF RequestInv, RequestsTyped
<1>1. CASE C!WriterWrites
  <2>1. /\ Tail(queue) \in Seq(Frames) /\ Head(queue) \in Frames
        /\ Range(queue) = {Head(queue)} \cup Range(Tail(queue))
    BY <1>0, <1>1, Taken DEF C!WriterWrites
  <2>2. /\ Append(inbox, Head(queue)) \in Seq(Frames)
        /\ Range(Append(inbox, Head(queue))) = Range(inbox) \cup {Head(queue)}
    BY <1>0, <2>1, Appended
  <2>3. /\ UNCHANGED <<calls, next_id, serving, replies>> /\ queue' = Tail(queue)
        /\ inbox' \in {inbox, Append(inbox, Head(queue))}
    BY <1>1 DEF C!WriterWrites
  <2>4. inbox' \in Seq(Frames) /\ Range(inbox') \subseteq Range(inbox) \cup {Head(queue)}
    BY <1>0, <2>2, <2>3
  <2>5. Outgoing' \subseteq Outgoing
    BY <2>1, <2>3, <2>4 DEF Outgoing
  <2>6. Range(replies)' = Range(replies)
    BY <2>3
  <2> QED BY <1>0, <2>1, <2>3, <2>4, <2>5, <2>6, FramesMove
<1>2. CASE C!ReaderSeesTheEnd
  <2>1. UNCHANGED <<calls, next_id, serving, replies, queue, inbox>>
    BY <1>2 DEF C!ReaderSeesTheEnd, C!daemon
  <2>2. Outgoing' = Outgoing /\ Range(replies)' = Range(replies)
    BY <2>1 DEF Outgoing
  <2> QED BY <1>0, <2>1, <2>2, FramesMove
<1>3. CASE C!Reads
  <2>1. /\ Tail(inbox) \in Seq(Frames) /\ Head(inbox) \in Frames
        /\ Range(inbox) = {Head(inbox)} \cup Range(Tail(inbox))
    BY <1>0, <1>3, Taken DEF C!Reads
  <2>2. UNCHANGED <<calls, next_id, queue, replies>> /\ inbox' = Tail(inbox) /\ serving' = Head(inbox)
    BY <1>3 DEF C!Reads, C!client
  <2>3. Outgoing' \subseteq Outgoing /\ Range(replies)' = Range(replies)
    BY <2>1, <2>2 DEF Outgoing
  <2> QED BY <1>0, <2>1, <2>2, <2>3, FramesMove
<1>4. CASE C!Answers
  <2>1. PICK answer \in {serving.request, Error} :
            replies' = Append(replies, [id |-> serving.id, answer |-> answer])
    BY <1>4 DEF C!Answers
  <2> DEFINE r == [id |-> serving.id, answer |-> answer]
  <2>2. serving \in Frames /\ serving \in Outgoing
    BY <1>0, <1>4 DEF C!Answers, Outgoing
  <2>3. r \in Returning /\ r.id = serving.id /\ r.answer \in {serving.request, Error}
    BY <2>1, <2>2 DEF Frames, Returning
  <2> HIDE DEF r
  <2>4. replies' \in Seq(Returning) /\ Range(replies') = Range(replies) \cup {r}
    BY <1>0, <2>1, <2>3, Appended DEF r
  <2>5. UNCHANGED <<calls, next_id, queue, inbox>> /\ serving' = NoValue
    BY <1>4 DEF C!Answers, C!client
  <2>6. Outgoing' \subseteq Outgoing
    BY <2>5 DEF Outgoing
  <2>7. \A f \in Range(replies)' : f \in Range(replies) \/ \E m \in Outgoing :
            f.id = m.id /\ f.answer \in {m.request, Error}
    BY <2>2, <2>3, <2>4
  <2> QED BY <1>0, <2>4, <2>5, <2>6, <2>7, FramesMove
<1>5. CASE C!IdlesOut \/ C!DaemonEnds
  <2>1. UNCHANGED <<calls, next_id, queue, replies>> /\ inbox' = <<>> /\ serving' = NoValue
    BY <1>5 DEF C!IdlesOut, C!DaemonEnds, C!Closes, C!client
  <2>2. inbox' \in Seq(Frames) /\ Range(inbox') = {}
    BY <2>1, NothingQueued
  <2>3. Outgoing' \subseteq Outgoing /\ Range(replies)' = Range(replies)
    BY <2>1, <2>2 DEF Outgoing
  <2> QED BY <1>0, <2>1, <2>2, <2>3, FramesMove
<1> QED BY <1>1, <1>2, <1>3, <1>4, <1>5

(* The reader hands a reply to the call with its number, or fails those    *)
(* left when the connection ends; and time goes on.                        *)
LEMMA CallsEach ==
    ASSUME RequestInv,
           C!ReaderResolves \/ C!ReaderDrains \/ C!Passes
    PROVE  \A c \in Clients :
               \/ calls'[c] = calls[c]
               \/ /\ Waits(c) /\ calls[c] \in Requested /\ calls'[c] \in Requested
                  /\ calls'[c].id = calls[c].id /\ calls'[c].request = calls[c].request
                  /\ calls'[c].sent = calls[c].sent
<1> USE Distinct
<1>0. \A c \in Clients : Waits(c) => calls[c] \in Requested
  BY DEF RequestInv, RequestsTyped, Waits
<1>1. ASSUME NEW c \in Clients, Waits(c), NEW answer \in Requests \cup {"Ping", NoValue, Error},
             calls'[c] = [calls[c] EXCEPT !.answer = answer]
      PROVE  /\ calls[c] \in Requested /\ calls'[c] \in Requested
             /\ calls'[c].id = calls[c].id /\ calls'[c].request = calls[c].request
             /\ calls'[c].sent = calls[c].sent
  BY <1>0, <1>1 DEF Requested
<1>2. CASE C!ReaderResolves
  <2> DEFINE r == Head(replies)
  <2>1. r \in Returning
    BY <1>2, Taken DEF C!ReaderResolves, RequestInv, RequestsTyped
  <2>2. r.answer \in Requests \cup {"Ping", Error}
    BY <2>1 DEF Returning
  <2>3. \A c \in Clients : calls'[c] = calls[c] \/ (Waits(c) /\ calls'[c] = [calls[c] EXCEPT !.answer = r.answer])
    BY <1>2 DEF C!ReaderResolves, C!Awaiting, Waits
  <2> HIDE DEF r
  <2> QED BY <1>1, <2>2, <2>3
<1>3. CASE C!ReaderDrains
  <2>1. \A c \in Clients : calls'[c] = calls[c] \/ (Waits(c) /\ calls'[c] = [calls[c] EXCEPT !.answer = Error])
    BY <1>3 DEF C!ReaderDrains, C!Awaiting, Waits
  <2> QED BY <1>1, <2>1
<1>4. CASE C!Passes
  <2>1. ASSUME NEW c \in Clients
        PROVE  calls'[c] = calls[c] \/ (Waits(c) /\ calls'[c] = [calls[c] EXCEPT !.age = calls[c].age + 1])
    BY <1>4 DEF C!Passes, C!Awaiting, Waits
  <2>2. ASSUME NEW c \in Clients, Waits(c), calls'[c] = [calls[c] EXCEPT !.age = calls[c].age + 1]
        PROVE  /\ calls[c] \in Requested /\ calls'[c] \in Requested
               /\ calls'[c].id = calls[c].id /\ calls'[c].request = calls[c].request
               /\ calls'[c].sent = calls[c].sent
    BY <1>0, <2>2 DEF Requested
  <2> QED BY <2>1, <2>2
<1> QED BY <1>2, <1>3, <1>4

LEMMA ReaderSteps ==
    ASSUME RequestInv, C!ReaderResolves \/ C!ReaderDrains \/ C!Passes
    PROVE  RequestInv'
<1> USE Distinct
<1>1. \A c \in Clients :
          \/ calls'[c] = calls[c]
          \/ /\ Waits(c) /\ calls[c] \in Requested /\ calls'[c] \in Requested
             /\ calls'[c].id = calls[c].id /\ calls'[c].request = calls[c].request
             /\ calls'[c].sent = calls[c].sent
  BY CallsEach
<1>2. \E f : calls' = [c \in Clients |-> f[c]]
  BY DEF C!ReaderResolves, C!ReaderDrains, C!Passes
<1>3. calls' \in [Clients -> Requested \cup {NoValue}]
  BY <1>1, <1>2 DEF RequestInv, RequestsTyped
<1>4. \A c \in Clients : calls'[c] # NoValue =>
          /\ calls[c] # NoValue
          /\ calls'[c].id = calls[c].id /\ calls'[c].request = calls[c].request
          /\ calls[c].sent => calls'[c].sent
  BY <1>1 DEF Waits
<1>5. /\ UNCHANGED <<next_id, queue, inbox, serving>>
      /\ replies' \in Seq(Returning) /\ Range(replies') \subseteq Range(replies)
  <2>1. CASE C!ReaderResolves
    BY <2>1, Taken DEF C!ReaderResolves, C!daemon, RequestInv, RequestsTyped
  <2>2. CASE C!ReaderDrains \/ C!Passes
    BY <2>2 DEF C!ReaderDrains, C!Passes, C!daemon, RequestInv, RequestsTyped
  <2> QED BY <2>1, <2>2
<1>6. Outgoing' = Outgoing
  BY <1>5 DEF Outgoing
<1>7. queue' \in Seq(Frames) /\ inbox' \in Seq(Frames) /\ serving' \in Frames \cup {NoValue}
  BY <1>5 DEF RequestInv, RequestsTyped
<1> QED BY <1>3, <1>4, <1>5, <1>6, <1>7, CallsMove

LEMMA RequestsPaused == RequestInv /\ UNCHANGED varsC => RequestInv'
BY DEF varsC, RequestInv, RequestsTyped, OwnNumbers, AboutCalls, Outgoing

LEMMA RequestsStep == RequestInv /\ [C!Next]_varsC => RequestInv'
BY Distinct, RequestsPaused, ClientSteps, ConnectionSteps, ReaderSteps DEF C!Next, Clients

(***************************************************************************)
(* The contract of Calls, kept by the socket client.                       *)
(***************************************************************************)
Seen(r) == IF r = NoValue THEN NoValue ELSE [question |-> r.request, answer |-> r.answer]

ClientCalls == [c \in Clients |-> Seen(calls[c])]

ClientsWaiting == {c \in Clients : ClientCalls[c] # NoValue /\ ClientCalls[c].answer = NoValue}

LEMMA ClientContract ==
    /\ C!Contract!Init <=> ClientCalls = [c \in Clients |-> NoValue]
    /\ \A c \in Clients, q \in Requests \cup {"Ping"} :
           ClientCalls[c] = NoValue
           /\ ClientCalls' = [ClientCalls EXCEPT ![c] = [question |-> q, answer |-> NoValue]]
               => C!Contract!Next
    /\ \A c \in ClientsWaiting :
           ClientCalls' = [ClientCalls EXCEPT ![c].answer = ClientCalls[c].question]
               => C!Contract!Next
    /\ \A lost \in SUBSET ClientsWaiting :
           ClientCalls' = [c \in Clients |-> IF c \in lost THEN [ClientCalls[c] EXCEPT !.answer = Error]
                                           ELSE ClientCalls[c]]
               => C!Contract!Next
    /\ \A c \in Clients :
           ClientCalls' = [d \in Clients |-> IF d \in {c} THEN NoValue ELSE ClientCalls[d]]
               => C!Contract!Next
<1> DEFINE V == [c \in C!Callers |->
        IF calls[c] = NoValue THEN NoValue
        ELSE [question |-> calls[c].request, answer |-> calls[c].answer]]
<1>1. V = ClientCalls /\ V' = ClientCalls' /\ C!Callers = Clients /\ C!Ping = "Ping"
  BY Distinct DEF ClientCalls, Seen
<1>2. C!Contract!Waiting = {c \in C!Callers : V[c] # NoValue /\ V[c].answer = NoValue}
  BY DEF C!Contract!Waiting
<1>3. C!Contract!Init <=> V = [c \in C!Callers |-> NoValue]
  BY DEF C!Contract!Init
<1>4. ASSUME NEW c \in C!Callers
      PROVE  /\ C!Contract!Ask(c) <=>
                    V[c] = NoValue /\ \E q \in Requests \cup {C!Ping} :
                        V' = [V EXCEPT ![c] = [question |-> q, answer |-> NoValue]]
             /\ C!Contract!Answer(c) <=>
                    c \in C!Contract!Waiting /\ V' = [V EXCEPT ![c].answer = V[c].question]
  BY DEF C!Contract!Ask, C!Contract!Answer
<1>5. ASSUME NEW lost
      PROVE  /\ C!Contract!Fail(lost) <=>
                    V' = [c \in C!Callers |-> IF c \in lost THEN [V[c] EXCEPT !.answer = Error] ELSE V[c]]
             /\ C!Contract!Forget(lost) <=>
                    V' = [c \in C!Callers |-> IF c \in lost THEN NoValue ELSE V[c]]
  BY DEF C!Contract!Fail, C!Contract!Forget
<1> HIDE DEF V
<1>6. C!Contract!Waiting = ClientsWaiting
  BY <1>1, <1>2 DEF ClientsWaiting
<1>7. \A c \in Clients, q \in Requests \cup {"Ping"} :
           ClientCalls[c] = NoValue
           /\ ClientCalls' = [ClientCalls EXCEPT ![c] = [question |-> q, answer |-> NoValue]]
               => C!Contract!Next
  BY <1>1, <1>4 DEF C!Contract!Next
<1>8. \A c \in ClientsWaiting :
           ClientCalls' = [ClientCalls EXCEPT ![c].answer = ClientCalls[c].question]
               => C!Contract!Next
  BY <1>1, <1>4, <1>6 DEF C!Contract!Next, ClientsWaiting
<1>9. ASSUME NEW lost \in SUBSET ClientsWaiting,
             ClientCalls' = [c \in Clients |-> IF c \in lost THEN [ClientCalls[c] EXCEPT !.answer = Error]
                                             ELSE ClientCalls[c]]
      PROVE  C!Contract!Next
  <2>1. C!Contract!Fail(lost)
    BY <1>1, <1>5, <1>9
  <2> QED BY <1>6, <2>1 DEF C!Contract!Next
<1>10. ASSUME NEW c \in Clients,
              ClientCalls' = [d \in Clients |-> IF d \in {c} THEN NoValue ELSE ClientCalls[d]]
       PROVE  C!Contract!Next
  <2>1. C!Contract!Forget({c})
    BY <1>1, <1>5, <1>10
  <2> QED BY <1>1, <2>1 DEF C!Contract!Next
<1> QED BY <1>1, <1>3, <1>7, <1>8, <1>9, <1>10

(* What is seen of a call.                                                 *)
LEMMA SeenCalls ==
    ASSUME RequestInv
    PROVE  /\ \A c \in Clients : ClientCalls[c] = Seen(calls[c])
           /\ \A c \in Clients : calls[c] # NoValue => Seen(calls[c]) # NoValue
           /\ ClientsWaiting = {c \in Clients : Waits(c)}
<1>1. \A c \in Clients : ClientCalls[c] = Seen(calls[c])
  BY DEF ClientCalls
<1>2. ASSUME NEW c \in Clients, calls[c] # NoValue
      PROVE  /\ Seen(calls[c]) = [question |-> calls[c].request, answer |-> calls[c].answer]
             /\ Seen(calls[c]) # NoValue /\ Seen(calls[c]).answer = calls[c].answer
  <2>1. calls[c] \in Requested
    BY <1>2 DEF RequestInv, RequestsTyped
  <2>2. [question |-> calls[c].request, answer |-> calls[c].answer] \in Promised
    BY <2>1 DEF Requested, Promised
  <2> QED BY <1>2, <2>2, ConnectionsAssumption DEF ConnectionsAssumption, Seen
<1>3. \A c \in Clients : calls[c] = NoValue => Seen(calls[c]) = NoValue
  BY DEF Seen
<1> QED BY <1>1, <1>2, <1>3 DEF ClientsWaiting, Waits

(* What the caller itself sees: it asks, gives up or returns.              *)
LEMMA ClientContractSteps ==
    ASSUME RequestInv, RequestInv', NEW c \in Clients,
           C!request(c) \/ C!Prompt(c) \/ C!TimesOut(c) \/ C!Pings \/ C!PingReturns
    PROVE  [C!Contract!Next]_ClientCalls
<1> USE Distinct
<1>1. ASSUME NEW d \in Clients, NEW what \in Requests \cup {"Ping"}, C!FilesSender(d, what)
      PROVE  C!Contract!Next
  <2> DEFINE new == [request |-> what, id |-> next_id, sent |-> FALSE, age |-> 0, answer |-> NoValue]
  <2>1. calls[d] = NoValue /\ calls' = [calls EXCEPT ![d] = new]
    BY <1>1, RequestFiled
  <2>2. new \in Requested
    BY DEF RequestInv, RequestsTyped, Requested
  <2>3. Seen(new) = [question |-> what, answer |-> NoValue]
    BY <2>2 DEF Seen
  <2> HIDE DEF new
  <2>4. ClientCalls' = [ClientCalls EXCEPT ![d] = Seen(new)]
    BY <2>1 DEF ClientCalls, RequestInv, RequestsTyped
  <2>5. ClientCalls[d] = NoValue
    BY <2>1 DEF ClientCalls, Seen
  <2> QED BY <2>3, <2>4, <2>5, ClientContract
<1>2. CASE C!request(c)
  BY <1>1, <1>2 DEF C!request
<1>3. CASE C!Pings
  BY <1>1, <1>3 DEF C!Pings, Clients
<1>4. ASSUME Waits(c), C!Withdraws(c)
      PROVE  C!Contract!Next
  <2>1. PICK new \in Requested :
            /\ OneChanges(c, new) /\ new.answer = Error /\ new.request = calls[c].request
    BY <1>4, Withdrawn
  <2>2. new # NoValue /\ Seen(new) = [question |-> calls[c].request, answer |-> Error]
    BY <2>1 DEF Seen
  <2>3. ClientCalls[c] = [question |-> calls[c].request, answer |-> NoValue]
    BY <1>4 DEF ClientCalls, Seen, Waits
  <2>4. [ClientCalls[c] EXCEPT !.answer = Error] = Seen(new)
    BY <2>2, <2>3
  <2>5. ClientCalls' = [d \in Clients |-> IF d \in {c} THEN Seen(new) ELSE ClientCalls[d]]
    BY <2>1 DEF OneChanges, ClientCalls, RequestInv, RequestsTyped
  <2>6. ClientCalls' = [d \in Clients |-> IF d \in {c} THEN [ClientCalls[d] EXCEPT !.answer = Error]
                                         ELSE ClientCalls[d]]
    BY <2>4, <2>5
  <2>7. {c} \in SUBSET ClientsWaiting
    BY <1>4, SeenCalls
  <2> QED BY <2>6, <2>7, ClientContract
<1>5. CASE C!Sends(c) /\ writer = "running"
  <2> DEFINE new == [calls[c] EXCEPT !.sent = TRUE]
  <2>1. calls[c] \in Requested /\ calls[c] # NoValue /\ calls' = [calls EXCEPT ![c] = new]
    BY <1>5 DEF C!Sends, C!Awaiting, RequestInv, RequestsTyped
  <2>2. new \in Requested /\ new.request = calls[c].request /\ new.answer = calls[c].answer
    BY <2>1 DEF Requested
  <2> HIDE DEF new
  <2>3. Seen(new) = Seen(calls[c])
    BY <2>1, <2>2 DEF Seen
  <2>4. ClientCalls' = ClientCalls
    BY <2>1, <2>3 DEF ClientCalls, RequestInv, RequestsTyped
  <2> QED BY <2>4
<1>6. CASE C!Sends(c) /\ writer # "running"
  BY <1>4, <1>6 DEF C!Sends, C!Awaiting, Waits
<1>7. CASE C!TimesOut(c)
  BY <1>4, <1>7 DEF C!TimesOut, C!Awaiting, Waits
<1>8. ASSUME NEW d \in Clients, calls' = [calls EXCEPT ![d] = NoValue]
      PROVE  C!Contract!Next
  <2>1. ClientCalls' = [e \in Clients |-> IF e \in {d} THEN NoValue ELSE ClientCalls[e]]
    BY <1>8 DEF ClientCalls, Seen, RequestInv, RequestsTyped
  <2> QED BY <2>1, ClientContract
<1>9. CASE C!Returns(c) \/ C!PingReturns
  BY <1>8, <1>9 DEF C!Returns, C!PingReturns, Clients
<1> QED BY <1>2, <1>3, <1>5, <1>6, <1>7, <1>9 DEF C!Prompt

(* A reply answers the call it belongs to, or fails it.                    *)
LEMMA ReplyContract ==
    ASSUME RequestInv, C!ReaderResolves
    PROVE  [C!Contract!Next]_ClientCalls
<1> USE Distinct
<1> DEFINE r == Head(replies)
<1>1. r \in Returning /\ r \in Range(replies)
  BY Taken DEF C!ReaderResolves, RequestInv, RequestsTyped
<1>2. calls' = [c \in Clients |->
          IF r.id \in socket_pending /\ Waits(c) /\ calls[c].id = r.id
          THEN [calls[c] EXCEPT !.answer = r.answer] ELSE calls[c]]
  BY DEF C!ReaderResolves, C!Awaiting, Waits
<1> HIDE DEF r
<1>3. CASE \A c \in Clients : ~(r.id \in socket_pending /\ Waits(c) /\ calls[c].id = r.id)
  BY <1>2, <1>3 DEF ClientCalls
<1>4. ASSUME NEW c \in Clients, r.id \in socket_pending, Waits(c), calls[c].id = r.id
      PROVE  C!Contract!Next
  <2> DEFINE new == [calls[c] EXCEPT !.answer = r.answer]
  <2>1. \A d \in Clients : Waits(d) /\ calls[d].id = r.id => d = c
    BY <1>4 DEF RequestInv, OwnNumbers, Waits
  <2>2. calls' = [d \in Clients |-> IF d = c THEN new ELSE calls[d]]
    BY <1>2, <1>4, <2>1
  <2>3. calls[c] \in Requested /\ calls[c] # NoValue
    BY <1>4 DEF RequestInv, RequestsTyped, Waits
  <2>4. r.answer \in {calls[c].request, Error}
    BY <1>1, <1>4 DEF RequestInv, AboutCalls, Waits
  <2>5. new.request = calls[c].request /\ new.answer = r.answer /\ new \in Requested
    BY <1>1, <2>3 DEF Requested, Returning
  <2> HIDE DEF new
  <2>6. Seen(new) = [question |-> calls[c].request, answer |-> r.answer]
    BY <2>5 DEF Seen
  <2>7. ClientCalls[c] = [question |-> calls[c].request, answer |-> NoValue]
    BY <1>4 DEF ClientCalls, Seen, Waits
  <2>8. ClientCalls' = [d \in Clients |-> IF d = c THEN Seen(new) ELSE ClientCalls[d]]
    BY <2>2 DEF ClientCalls
  <2>9. [ClientCalls[c] EXCEPT !.answer = r.answer] = Seen(new)
    BY <2>6, <2>7
  <2>10. c \in ClientsWaiting
    BY <1>4, SeenCalls
  <2>11. CASE r.answer = calls[c].request
    <3>1. ClientCalls' = [ClientCalls EXCEPT ![c] = Seen(new)]
      BY <2>8 DEF ClientCalls
    <3>2. Seen(new) = [ClientCalls[c] EXCEPT !.answer = ClientCalls[c].question]
      BY <2>7, <2>9, <2>11
    <3>3. ClientCalls' = [ClientCalls EXCEPT ![c].answer = ClientCalls[c].question]
      BY <3>1, <3>2
    <3> QED BY <2>10, <3>3, ClientContract
  <2>12. CASE r.answer = Error
    <3>0. [ClientCalls[c] EXCEPT !.answer = Error] = Seen(new)
      BY <2>9, <2>12
    <3>1. ClientCalls' = [d \in Clients |-> IF d \in {c} THEN [ClientCalls[d] EXCEPT !.answer = Error]
                                           ELSE ClientCalls[d]]
      BY <2>8, <3>0
    <3>2. {c} \in SUBSET ClientsWaiting
      BY <2>10
    <3> QED BY <3>1, <3>2, ClientContract
  <2> QED BY <2>4, <2>11, <2>12
<1> QED BY <1>3, <1>4

LEMMA EndContract ==
    ASSUME RequestInv, C!ReaderDrains \/ C!Passes
    PROVE  [C!Contract!Next]_ClientCalls
<1> USE Distinct
<1>0. \A c \in Clients : Waits(c) => calls[c] \in Requested
  BY DEF RequestInv, RequestsTyped, Waits
<1>1. CASE C!ReaderDrains
  <2> DEFINE lost == {c \in Clients : Waits(c) /\ calls[c].id \in socket_pending}
  <2>1. calls' = [c \in Clients |-> IF c \in lost THEN [calls[c] EXCEPT !.answer = Error] ELSE calls[c]]
    BY <1>1 DEF C!ReaderDrains, C!Awaiting, Waits
  <2>2. ASSUME NEW c \in lost
        PROVE  Seen([calls[c] EXCEPT !.answer = Error]) = [ClientCalls[c] EXCEPT !.answer = Error]
    <3>1. calls[c] \in Requested /\ Waits(c)
      BY <1>0
    <3>2. /\ [calls[c] EXCEPT !.answer = Error] \in Requested
          /\ [calls[c] EXCEPT !.answer = Error].answer = Error
          /\ [calls[c] EXCEPT !.answer = Error].request = calls[c].request
      BY <3>1 DEF Requested
    <3>3. Seen([calls[c] EXCEPT !.answer = Error]) = [question |-> calls[c].request, answer |-> Error]
      BY <3>2 DEF Seen
    <3>4. ClientCalls[c] = [question |-> calls[c].request, answer |-> NoValue]
      BY <3>1 DEF ClientCalls, Seen, Waits
    <3> QED BY <3>3, <3>4
  <2>3. lost \in SUBSET ClientsWaiting
    BY SeenCalls
  <2> HIDE DEF lost
  <2>4. ClientCalls' = [c \in Clients |-> IF c \in lost THEN [ClientCalls[c] EXCEPT !.answer = Error]
                                         ELSE ClientCalls[c]]
    BY <2>1, <2>2 DEF ClientCalls
  <2> QED BY <2>3, <2>4, ClientContract
<1>2. CASE C!Passes
  <2>1. calls' = [c \in Clients |-> IF Waits(c) THEN [calls[c] EXCEPT !.age = calls[c].age + 1]
                                    ELSE calls[c]]
    BY <1>2 DEF C!Passes, C!Awaiting, Waits
  <2>2. ASSUME NEW c \in Clients, Waits(c)
        PROVE  Seen([calls[c] EXCEPT !.age = calls[c].age + 1]) = Seen(calls[c])
    <3>1. calls[c] \in Requested
      BY <1>0, <2>2
    <3>2. /\ [calls[c] EXCEPT !.age = calls[c].age + 1] \in Requested
          /\ [calls[c] EXCEPT !.age = calls[c].age + 1].answer = calls[c].answer
          /\ [calls[c] EXCEPT !.age = calls[c].age + 1].request = calls[c].request
      BY <3>1 DEF Requested
    <3> QED BY <3>1, <3>2 DEF Seen
  <2>3. ClientCalls' = ClientCalls
    BY <2>1, <2>2 DEF ClientCalls
  <2> QED BY <2>3
<1> QED BY <1>1, <1>2

LEMMA ClientKeepsContract ==
    RequestInv /\ RequestInv' /\ [C!Next]_varsC => [C!Contract!Next]_ClientCalls
<1>1. ASSUME UNCHANGED calls PROVE ClientCalls' = ClientCalls
  BY <1>1 DEF ClientCalls
<1>2. C!WriterWrites \/ C!ReaderSeesTheEnd \/ C!Reads \/ C!Answers \/ C!IdlesOut \/ C!DaemonEnds
          => UNCHANGED calls
  BY DEF C!WriterWrites, C!ReaderSeesTheEnd, C!Reads, C!Answers, C!IdlesOut, C!DaemonEnds, C!client
<1>3. UNCHANGED varsC => UNCHANGED calls
  BY DEF varsC
<1> QED BY Distinct, <1>1, <1>2, <1>3, ClientContractSteps, ReplyContract, EndContract DEF C!Next, Clients

LEMMA ClientContractStarts == C!Init \/ NoRequests => C!Contract!Init
<1>1. C!Init \/ NoRequests => calls = [c \in Clients |-> NoValue]
  BY Distinct DEF C!Init, NoRequests, Clients
<1> QED BY <1>1, ClientContract DEF ClientCalls, Seen

(***************************************************************************)
(* The keepalive.  Every call awaited is in the table, and until the       *)
(* daemon closes the connection what was sent for it is on its way; so     *)
(* while the keepalive runs, whenever the daemon has waited for a frame    *)
(* one is coming.                                                          *)
(***************************************************************************)
Tabled ==
    socket_reader = "running" => \A c \in Clients : Waits(c) => calls[c].id \in socket_pending

OnTheWay ==
    open => \A c \in Clients :
        Waits(c) /\ calls[c].sent => \E m \in Outgoing \cup Range(replies) : m.id = calls[c].id

PingToSend ==
    /\ calls["Ping"] # NoValue
    /\ calls["Ping"].answer = Error \/ (calls["Ping"].answer = NoValue /\ ~calls["Ping"].sent)

FrameIsComing ==
    keepalive = "due" \/ PingToSend \/ queue # <<>> \/ inbox # <<>> \/ serving # NoValue

KeptAlive ==
    /\ time \in Nat
    /\ open => writer = "running" /\ socket_reader = "running"
    /\ open /\ keepalive # "over" => quiet = 0 \/ (quiet = 1 /\ FrameIsComing)
    /\ keepalive \in {"waits", "due", "over"}
    /\ idled => keepalive = "over"

QuietInv == Tabled /\ OnTheWay /\ KeptAlive

LEMMA QuietStart == C!Init \/ NoRequests => QuietInv
<1>1. C!Init \/ NoRequests => calls = [c \in Clients |-> NoValue]
  BY Distinct DEF C!Init, NoRequests, Clients
<1> QED BY <1>1, ConnectionsAssumption
        DEF C!Init, NoRequests, ConnectionsAssumption, QuietInv, Tabled, OnTheWay, KeptAlive, Waits

LEMMA TabledStep ==
    ASSUME RequestInv, QuietInv, C!Next
    PROVE  Tabled'
<1> USE Distinct
<1>1. ASSUME NEW c \in Clients, NEW what \in Requests \cup {"Ping"}, C!FilesSender(c, what)
      PROVE  Tabled'
  <2> DEFINE new == [request |-> what, id |-> next_id, sent |-> FALSE, age |-> 0, answer |-> NoValue]
  <2>1. /\ calls' = [calls EXCEPT ![c] = new] /\ socket_pending' = socket_pending \cup {next_id}
        /\ UNCHANGED socket_reader /\ new.id = next_id
    BY <1>1 DEF C!FilesSender
  <2> HIDE DEF new
  <2>2. calls'[c] = new /\ \A d \in Clients : d # c => calls'[d] = calls[d]
    BY <2>1 DEF RequestInv, RequestsTyped
  <2> QED BY <2>1, <2>2 DEF QuietInv, Tabled, Waits
<1>2. ASSUME NEW c \in Clients, Waits(c), C!Withdraws(c), UNCHANGED socket_reader
      PROVE  Tabled'
  <2>1. PICK new \in Requested : OneChanges(c, new) /\ new.answer = Error
    BY <1>2, Withdrawn
  <2>2. /\ calls'[c] = new /\ \A d \in Clients : d # c => calls'[d] = calls[d]
        /\ socket_pending' = socket_pending \ {calls[c].id}
    BY <1>2, <2>1 DEF OneChanges, C!Withdraws, RequestInv, RequestsTyped
  <2>3. ASSUME NEW d \in Clients, socket_reader' = "running", Waits(d)'
        PROVE  calls'[d].id \in socket_pending'
    <3>1. d # c /\ calls'[d] = calls[d]
      BY <2>1, <2>2, <2>3 DEF Waits
    <3>2. calls[d].id # calls[c].id
      BY <1>2, <2>3, <3>1 DEF RequestInv, OwnNumbers, Waits
    <3> QED BY <1>2, <2>2, <2>3, <3>1, <3>2 DEF QuietInv, Tabled, Waits
  <2> QED BY <2>3 DEF Tabled
<1>3. ASSUME NEW c \in Clients, NEW new, OneChanges(c, new), UNCHANGED <<socket_pending, socket_reader>>,
             new = NoValue \/ (Waits(c) /\ new.id = calls[c].id)
      PROVE  Tabled'
  <2>1. calls'[c] = new /\ \A d \in Clients : d # c => calls'[d] = calls[d]
    BY <1>3 DEF OneChanges, RequestInv, RequestsTyped
  <2> QED BY <1>3, <2>1 DEF QuietInv, Tabled, Waits
<1>4. ASSUME NEW c \in Clients, C!Sends(c)
      PROVE  Tabled'
  <2>1. CASE writer # "running"
    BY <1>2, <1>4, <2>1 DEF C!Sends, C!Awaiting, Waits
  <2>2. CASE writer = "running"
    <3>1. /\ Waits(c) /\ calls[c] \in Requested
          /\ OneChanges(c, [calls[c] EXCEPT !.sent = TRUE]) /\ UNCHANGED <<socket_pending, socket_reader>>
      BY <1>4, <2>2 DEF C!Sends, C!Awaiting, Waits, OneChanges, RequestInv, RequestsTyped
    <3>2. [calls[c] EXCEPT !.sent = TRUE].id = calls[c].id
      BY <3>1 DEF Requested
    <3> QED BY <1>3, <3>1, <3>2
  <2> QED BY <2>1, <2>2
<1>5. ASSUME NEW c \in Clients, C!request(c) \/ C!Pings
      PROVE  Tabled'
  BY <1>1, <1>5 DEF C!request, C!Pings, Clients
<1>6. ASSUME NEW c \in Clients, C!TimesOut(c)
      PROVE  Tabled'
  BY <1>2, <1>6 DEF C!TimesOut, C!Awaiting, Waits
<1>7. ASSUME NEW c \in Clients, C!Returns(c) \/ C!PingReturns
      PROVE  Tabled'
  BY <1>3, <1>7 DEF C!Returns, C!PingReturns, OneChanges, Clients
<1>8. CASE C!WriterWrites \/ C!Reads \/ C!Answers \/ C!IdlesOut \/ C!DaemonEnds
  BY <1>8 DEF C!WriterWrites, C!Reads, C!Answers, C!IdlesOut, C!DaemonEnds, C!client, QuietInv, Tabled,
              Waits
<1>9. CASE C!ReaderSeesTheEnd \/ C!ReaderDrains
  BY <1>9 DEF C!ReaderSeesTheEnd, C!ReaderDrains, Tabled
<1>10. CASE C!ReaderResolves
  <2> DEFINE r == Head(replies)
  <2>1. r.answer # NoValue
    <3>1. r \in Returning
      BY <1>10, Taken DEF C!ReaderResolves, RequestInv, RequestsTyped
    <3> QED BY <3>1 DEF Returning
  <2>2. /\ calls' = [c \in Clients |->
            IF r.id \in socket_pending /\ Waits(c) /\ calls[c].id = r.id
            THEN [calls[c] EXCEPT !.answer = r.answer] ELSE calls[c]]
        /\ socket_pending' = socket_pending \ {r.id} /\ socket_reader = "running"
    BY <1>10 DEF C!ReaderResolves, C!Awaiting, Waits
  <2> HIDE DEF r
  <2>3. ASSUME NEW c \in Clients, Waits(c)'
        PROVE  calls'[c].id \in socket_pending'
    <3>1. Waits(c) => calls[c] \in Requested /\ calls[c].id \in socket_pending
      BY <2>2 DEF Waits, RequestInv, RequestsTyped, QuietInv, Tabled
    <3>2. CASE Waits(c) /\ calls[c].id = r.id
      <4>1. calls'[c].answer = r.answer
        BY <2>2, <3>1, <3>2 DEF Requested
      <4> QED BY <2>1, <2>3, <4>1 DEF Waits
    <3>3. CASE ~(Waits(c) /\ calls[c].id = r.id)
      <4>1. calls'[c] = calls[c]
        BY <2>2, <3>3
      <4> QED BY <2>2, <2>3, <3>1, <3>3, <4>1 DEF Waits
    <3> QED BY <3>2, <3>3
  <2> QED BY <2>3 DEF Tabled
<1>11. CASE C!Passes
  <2>1. \A c \in Clients : Waits(c)' => Waits(c) /\ calls'[c].id = calls[c].id
    BY <1>11, CallsEach DEF Waits
  <2> QED BY <1>11, <2>1 DEF C!Passes, QuietInv, Tabled
<1> QED BY <1>4, <1>5, <1>6, <1>7, <1>8, <1>9, <1>10, <1>11 DEF C!Next, C!Prompt, Clients

LEMMA OnTheWayStep ==
    ASSUME RequestInv, QuietInv, C!Next
    PROVE  OnTheWay'
<1> USE Distinct
<1>0. /\ queue \in Seq(Frames) /\ inbox \in Seq(Frames) /\ replies \in Seq(Returning)
      /\ serving \in Frames \cup {NoValue}
  BY DEF RequestInv, RequestsTyped
<1>1. ASSUME \A c \in Clients : Waits(c)' /\ calls'[c].sent =>
                 Waits(c) /\ calls[c].sent /\ calls'[c].id = calls[c].id,
             UNCHANGED <<open, queue, inbox, serving, replies>>
      PROVE  OnTheWay'
  BY <1>1 DEF QuietInv, OnTheWay, Outgoing
<1>2. ASSUME UNCHANGED calls,
             open' => open /\ \A m \in Outgoing \cup Range(replies) :
                          \E k \in Outgoing' \cup Range(replies)' : k.id = m.id
      PROVE  OnTheWay'
  <2>1. ASSUME NEW c \in Clients, open', Waits(c)', calls'[c].sent
        PROVE  \E k \in Outgoing' \cup Range(replies)' : k.id = calls'[c].id
    <3>1. PICK m \in Outgoing \cup Range(replies) : m.id = calls[c].id
      BY <1>2, <2>1 DEF QuietInv, OnTheWay, Waits
    <3> QED BY <1>2, <2>1, <3>1
  <2> QED BY <2>1 DEF OnTheWay
<1>3. ASSUME NEW c \in Clients, NEW new, OneChanges(c, new),
             new = NoValue \/ new.answer # NoValue \/ ~new.sent,
             UNCHANGED <<open, queue, inbox, serving, replies>>
      PROVE  OnTheWay'
  <2>1. calls'[c] = new /\ \A d \in Clients : d # c => calls'[d] = calls[d]
    BY <1>3 DEF OneChanges, RequestInv, RequestsTyped
  <2> QED BY <1>1, <1>3, <2>1 DEF Waits
<1>4. ASSUME NEW c \in Clients, C!request(c) \/ C!Pings
      PROVE  OnTheWay'
  <2>1. ASSUME NEW d \in Clients, NEW what \in Requests \cup {"Ping"}, C!FilesSender(d, what)
        PROVE  OnTheWay'
    BY <1>3, <2>1 DEF C!FilesSender, C!daemon, OneChanges
  <2> QED BY <1>4, <2>1 DEF C!request, C!Pings, Clients
<1>5. ASSUME NEW c \in Clients, Waits(c), C!Withdraws(c),
             UNCHANGED <<open, queue, inbox, serving, replies>>
      PROVE  OnTheWay'
  BY <1>3, <1>5, Withdrawn
<1>6. ASSUME NEW c \in Clients, C!TimesOut(c)
      PROVE  OnTheWay'
  BY <1>5, <1>6 DEF C!TimesOut, C!Awaiting, Waits, C!daemon
<1>7. ASSUME NEW c \in Clients, C!Returns(c) \/ C!PingReturns
      PROVE  OnTheWay'
  BY <1>3, <1>7 DEF C!Returns, C!PingReturns, OneChanges, Clients, C!daemon
<1>8. ASSUME NEW c \in Clients, C!Sends(c)
      PROVE  OnTheWay'
  <2>1. CASE writer # "running"
    BY <1>5, <1>8, <2>1 DEF C!Sends, C!Awaiting, Waits, C!daemon
  <2>2. CASE writer = "running"
    <3> DEFINE m == [id |-> calls[c].id, request |-> calls[c].request]
    <3>1. /\ Waits(c) /\ calls[c] \in Requested
          /\ calls' = [calls EXCEPT ![c] = [calls[c] EXCEPT !.sent = TRUE]]
          /\ queue' = Append(queue, m) /\ UNCHANGED <<open, inbox, serving, replies>>
      BY <1>8, <2>2 DEF C!Sends, C!Awaiting, Waits, RequestInv, RequestsTyped, C!daemon
    <3>2. [calls[c] EXCEPT !.sent = TRUE].id = calls[c].id
      BY <3>1 DEF Requested
    <3>3. calls'[c].id = calls[c].id /\ \A d \in Clients : d # c => calls'[d] = calls[d]
      BY <3>1, <3>2 DEF RequestInv, RequestsTyped
    <3>4. m \in Frames /\ m.id = calls[c].id
      BY <3>1 DEF Requested, Frames
    <3> HIDE DEF m
    <3>5. Range(queue') = Range(queue) \cup {m}
      BY <1>0, <3>1, <3>4, Appended
    <3>6. Outgoing \subseteq Outgoing' /\ m \in Outgoing' /\ Range(replies)' = Range(replies)
      BY <3>1, <3>5 DEF Outgoing
    <3> QED BY <3>1, <3>3, <3>4, <3>6 DEF QuietInv, OnTheWay, Waits
  <2> QED BY <2>1, <2>2
<1>9. CASE C!WriterWrites /\ open
  <2>1. /\ Head(queue) \in Frames /\ Range(queue) = {Head(queue)} \cup Range(Tail(queue))
    BY <1>0, <1>9, Taken DEF C!WriterWrites
  <2>2. Range(Append(inbox, Head(queue))) = Range(inbox) \cup {Head(queue)}
    BY <1>0, <2>1, Appended
  <2>3. /\ UNCHANGED <<calls, serving, replies, open>> /\ queue' = Tail(queue)
        /\ inbox' = Append(inbox, Head(queue))
    BY <1>9 DEF C!WriterWrites
  <2>4. Outgoing' = Outgoing
    BY <2>1, <2>2, <2>3 DEF Outgoing
  <2>5. Range(replies)' = Range(replies)
    BY <2>3
  <2> QED BY <1>2, <2>3, <2>4, <2>5
<1>10. CASE C!Reads
  <2>1. /\ Head(inbox) \in Frames /\ Range(inbox) = {Head(inbox)} \cup Range(Tail(inbox))
    BY <1>0, <1>10, Taken DEF C!Reads
  <2>2. /\ UNCHANGED <<calls, queue, replies, open>> /\ inbox' = Tail(inbox) /\ serving' = Head(inbox)
        /\ serving = NoValue
    BY <1>10 DEF C!Reads, C!client
  <2>3. Outgoing' = Outgoing /\ Range(replies)' = Range(replies)
    BY <2>1, <2>2 DEF Outgoing
  <2> QED BY <1>2, <2>2, <2>3
<1>11. CASE C!Answers
  <2>1. PICK answer \in {serving.request, Error} :
            replies' = Append(replies, [id |-> serving.id, answer |-> answer])
    BY <1>11 DEF C!Answers
  <2> DEFINE r == [id |-> serving.id, answer |-> answer]
  <2>2. r \in Returning /\ r.id = serving.id
    BY <1>0, <1>11, <2>1 DEF C!Answers, Frames, Returning
  <2> HIDE DEF r
  <2>3. Range(replies)' = Range(replies) \cup {r}
    BY <1>0, <2>1, <2>2, Appended DEF r
  <2>4. UNCHANGED <<calls, queue, inbox, open>> /\ serving' = NoValue
    BY <1>11 DEF C!Answers, C!client
  <2>5. \A m \in Outgoing : m \in Outgoing' \/ m = serving
    BY <2>4 DEF Outgoing
  <2> QED BY <1>2, <2>2, <2>3, <2>4, <2>5
<1>12. CASE C!IdlesOut \/ C!DaemonEnds
  BY <1>12 DEF C!IdlesOut, C!DaemonEnds, C!Closes, OnTheWay
<1>13. CASE C!ReaderSeesTheEnd \/ C!ReaderDrains \/ (C!WriterWrites /\ ~open)
  BY <1>13 DEF C!ReaderSeesTheEnd, C!ReaderDrains, C!WriterWrites, C!daemon, QuietInv, KeptAlive, OnTheWay
<1>14. CASE C!Passes
  <2>1. \A c \in Clients : Waits(c)' /\ calls'[c].sent =>
            Waits(c) /\ calls[c].sent /\ calls'[c].id = calls[c].id
    BY <1>14, CallsEach DEF Waits
  <2> QED BY <1>1, <1>14, <2>1 DEF C!Passes
<1>15. CASE C!ReaderResolves
  <2> DEFINE r == Head(replies)
  <2>1. r \in Returning /\ Range(replies) = {r} \cup Range(Tail(replies))
    BY <1>0, <1>15, Taken DEF C!ReaderResolves
  <2>2. r.answer # NoValue
    BY <2>1 DEF Returning
  <2>3. /\ calls' = [c \in Clients |->
            IF r.id \in socket_pending /\ Waits(c) /\ calls[c].id = r.id
            THEN [calls[c] EXCEPT !.answer = r.answer] ELSE calls[c]]
        /\ replies' = Tail(replies) /\ UNCHANGED <<open, queue, inbox, serving>>
        /\ socket_reader = "running"
    BY <1>15 DEF C!ReaderResolves, C!Awaiting, Waits, C!daemon
  <2>4. Outgoing' = Outgoing /\ Range(replies) = {r} \cup Range(replies)'
    BY <2>1, <2>3 DEF Outgoing
  <2> HIDE DEF r
  <2>5. ASSUME NEW c \in Clients, open', Waits(c)', calls'[c].sent
        PROVE  \E m \in Outgoing' \cup Range(replies)' : m.id = calls'[c].id
    <3>1. Waits(c) => calls[c] \in Requested /\ calls[c].id \in socket_pending
      BY <2>3 DEF Waits, RequestInv, RequestsTyped, QuietInv, Tabled
    <3>2. CASE Waits(c) /\ calls[c].id = r.id
      <4>1. calls'[c].answer = r.answer
        BY <2>3, <3>1, <3>2 DEF Requested
      <4> QED BY <2>2, <2>5, <4>1 DEF Waits
    <3>3. CASE ~(Waits(c) /\ calls[c].id = r.id)
      <4>1. calls'[c] = calls[c] /\ Waits(c)
        BY <2>3, <2>5, <3>3 DEF Waits
      <4>2. PICK m \in Outgoing \cup Range(replies) : m.id = calls[c].id
        BY <2>3, <2>5, <4>1 DEF QuietInv, OnTheWay
      <4> QED BY <2>4, <3>3, <4>1, <4>2
    <3> QED BY <3>2, <3>3
  <2> QED BY <2>5 DEF OnTheWay
<1> QED BY <1>4, <1>6, <1>7, <1>8, <1>9, <1>10, <1>11, <1>12, <1>13, <1>14, <1>15
        DEF C!Next, C!Prompt, Clients

(* The two tasks run while the connection is open, and the keepalive ends  *)
(* before the daemon gives up the client.                                  *)
LEMMA KeptAliveStep ==
    ASSUME RequestInv, QuietInv, C!Next
    PROVE  KeptAlive'
<1> USE Distinct
<1>0. /\ queue \in Seq(Frames) /\ inbox \in Seq(Frames) /\ replies \in Seq(Returning)
      /\ serving \in Frames \cup {NoValue} /\ "Ping" \in Clients
      /\ calls \in [Clients -> Requested \cup {NoValue}]
  BY DEF RequestInv, RequestsTyped, Clients
<1>1. ASSUME UNCHANGED <<time, open, writer, socket_reader, keepalive, quiet, idled>>,
             FrameIsComing => FrameIsComing'
      PROVE  KeptAlive'
  BY <1>1 DEF QuietInv, KeptAlive
<1>2. ASSUME NEW c \in Clients, NEW new, OneChanges(c, new), c # "Ping"
      PROVE  calls'["Ping"] = calls["Ping"]
  BY <1>0, <1>2 DEF OneChanges
<1>3. ASSUME NEW c \in Clients, NEW new \in Requested, OneChanges(c, new), new.answer = Error,
             calls[c] # NoValue,
             UNCHANGED <<time, open, writer, socket_reader, keepalive, quiet, idled, queue, inbox, serving>>
      PROVE  KeptAlive'
  <2>1. CASE c # "Ping"
    BY <1>1, <1>2, <1>3, <2>1 DEF FrameIsComing, PingToSend
  <2>2. CASE c = "Ping"
    <3>1. calls'["Ping"] = new /\ new # NoValue
      BY <1>0, <1>3, <2>2 DEF OneChanges
    <3> QED BY <1>1, <1>3, <3>1 DEF FrameIsComing, PingToSend
  <2> QED BY <2>1, <2>2
<1>4. ASSUME NEW c \in Askers, C!request(c)
      PROVE  KeptAlive'
  <2>1. c # "Ping" /\ c \in Clients
    BY ConnectionsAssumption DEF ConnectionsAssumption, Clients
  <2>2. calls'["Ping"] = calls["Ping"]
    BY <1>0, <1>4, <2>1 DEF C!request, C!FilesSender
  <2> QED BY <1>1, <1>4, <2>2 DEF C!request, C!FilesSender, C!daemon, FrameIsComing, PingToSend
<1>5. CASE C!Pings
  <2> DEFINE new == [request |-> "Ping", id |-> next_id, sent |-> FALSE, age |-> 0, answer |-> NoValue]
  <2>1. calls' = [calls EXCEPT !["Ping"] = new]
    BY <1>5 DEF C!Pings, C!FilesSender
  <2>2. new \in Requested
    BY DEF RequestInv, RequestsTyped, Requested
  <2>3. new.answer = NoValue /\ ~new.sent
    OBVIOUS
  <2> HIDE DEF new
  <2>4. PingToSend'
    BY <1>0, <2>1, <2>2, <2>3 DEF PingToSend
  <2> QED BY <1>5, <2>4 DEF C!Pings, C!FilesSender, C!daemon, QuietInv, KeptAlive, FrameIsComing
<1>6. ASSUME NEW c \in Clients, Waits(c), C!Withdraws(c),
             UNCHANGED <<time, open, writer, socket_reader, keepalive, quiet, idled, queue, inbox, serving>>
      PROVE  KeptAlive'
  BY <1>3, <1>6, Withdrawn DEF Waits
<1>7. ASSUME NEW c \in Clients, C!TimesOut(c)
      PROVE  KeptAlive'
  BY <1>6, <1>7 DEF C!TimesOut, C!Awaiting, Waits, C!daemon
<1>8. ASSUME NEW c \in Clients, C!Returns(c)
      PROVE  KeptAlive'
  BY <1>1, <1>2, <1>8 DEF C!Returns, OneChanges, C!daemon, FrameIsComing, PingToSend
<1>9. CASE C!PingReturns
  <2>1. CASE calls["Ping"].answer = Error
    BY <1>9, <2>1 DEF C!PingReturns, C!daemon, QuietInv, KeptAlive
  <2>2. CASE calls["Ping"].answer # Error
    BY <1>1, <1>9, <2>2 DEF C!PingReturns, C!Returned, C!daemon, FrameIsComing, PingToSend
  <2> QED BY <2>1, <2>2
<1>10. ASSUME NEW c \in Clients, C!Sends(c)
       PROVE  KeptAlive'
  <2>1. CASE writer # "running"
    BY <1>6, <1>10, <2>1 DEF C!Sends, C!Awaiting, Waits, C!daemon
  <2>2. CASE writer = "running"
    <3>1. [id |-> calls[c].id, request |-> calls[c].request] \in Frames
      BY <1>0, <1>10 DEF C!Sends, C!Awaiting, Requested, Frames
    <3>2. queue' # <<>>
      BY <1>0, <1>10, <2>2, <3>1, Appended DEF C!Sends
    <3> QED BY <1>1, <1>10, <2>2, <3>2 DEF C!Sends, C!daemon, FrameIsComing
  <2> QED BY <2>1, <2>2
<1>11. CASE C!WriterWrites
  <2>1. CASE open
    <3>1. inbox' # <<>>
      BY <1>0, <1>11, <2>1, Taken, Appended DEF C!WriterWrites
    <3> QED BY <1>1, <1>11, <2>1, <3>1 DEF C!WriterWrites, FrameIsComing
  <2>2. CASE ~open
    BY <1>11, <2>2 DEF C!WriterWrites, QuietInv, KeptAlive
  <2> QED BY <2>1, <2>2
<1>12. CASE C!Reads
  <2>1. serving' # NoValue
    BY <1>0, <1>12, Taken DEF C!Reads
  <2> QED BY <1>1, <1>12, <2>1 DEF C!Reads, C!client, FrameIsComing
<1>13. CASE C!Answers
  BY <1>13 DEF C!Answers, C!client, QuietInv, KeptAlive
<1>14. CASE C!IdlesOut
  BY <1>14 DEF C!IdlesOut, C!IDLE_TIMEOUT, C!Closes, C!client, QuietInv, KeptAlive
<1>15. CASE C!DaemonEnds \/ C!ReaderSeesTheEnd \/ C!ReaderDrains
  BY <1>15 DEF C!DaemonEnds, C!ReaderSeesTheEnd, C!ReaderDrains, C!Closes, C!client, C!daemon, QuietInv,
               KeptAlive
<1>16. CASE C!ReaderResolves
  <2> DEFINE r == Head(replies)
  <2>1. r \in Range(replies)
    BY <1>0, <1>16, Taken DEF C!ReaderResolves
  <2>2. calls'["Ping"] = IF r.id \in socket_pending /\ Waits("Ping") /\ calls["Ping"].id = r.id
                         THEN [calls["Ping"] EXCEPT !.answer = r.answer] ELSE calls["Ping"]
    BY <1>0, <1>16 DEF C!ReaderResolves, C!Awaiting, Waits
  <2> HIDE DEF r
  <2>3. calls["Ping"] # NoValue /\ calls["Ping"].id = r.id => calls["Ping"].sent
    BY <1>0, <2>1 DEF RequestInv, AboutCalls
  <2>4. PingToSend => PingToSend'
    <3>1. CASE Waits("Ping") /\ calls["Ping"].id = r.id
      BY <2>3, <3>1 DEF PingToSend, Waits
    <3>2. CASE ~(Waits("Ping") /\ calls["Ping"].id = r.id)
      BY <2>2, <3>2 DEF PingToSend
    <3> QED BY <3>1, <3>2
  <2> QED BY <1>1, <1>16, <2>4 DEF C!ReaderResolves, C!daemon, FrameIsComing
<1>17. CASE C!Passes
  <2>1. ~C!Busy /\ time' = time + 1 /\ UNCHANGED <<open, writer, socket_reader, queue, inbox, serving, idled>>
        /\ quiet' = (IF serving = NoValue THEN quiet + 1 ELSE quiet)
        /\ keepalive' = (IF keepalive = "waits" /\ time' % C!PING_INTERVAL = 0 THEN "due" ELSE keepalive)
    BY <1>17 DEF C!Passes
  <2>2. time' \in Nat /\ time' % C!PING_INTERVAL = 0
    BY <2>1 DEF C!PING_INTERVAL, QuietInv, KeptAlive
  <2>3. keepalive # "over" => keepalive' = "due"
    BY <2>1, <2>2 DEF QuietInv, KeptAlive
  <2>4. ASSUME open, keepalive # "over", serving = NoValue
        PROVE  quiet = 0
    <3>1. writer = "running" /\ socket_reader = "running"
      BY <2>4 DEF QuietInv, KeptAlive
    <3>2. queue = <<>> /\ inbox = <<>> /\ replies = <<>>
      BY <2>1, <2>4, <3>1 DEF C!Busy
    <3>3. Outgoing = {} /\ Range(replies) = {}
      BY <2>4, <3>2, NothingQueued DEF Outgoing
    <3>4. /\ ~C!Returned("Ping")
          /\ ~(C!Awaiting("Ping") /\ ~calls["Ping"].sent)
          /\ ~(keepalive = "due" /\ calls["Ping"] = NoValue)
      BY <1>0, <2>1 DEF C!Busy
    <3>5. ~(Waits("Ping") /\ calls["Ping"].sent)
      BY <1>0, <2>4, <3>3 DEF QuietInv, OnTheWay
    <3>6. calls["Ping"] = NoValue /\ keepalive # "due"
      BY <3>4, <3>5 DEF C!Returned, C!Awaiting, Waits
    <3>7. ~FrameIsComing
      BY <2>4, <3>2, <3>6 DEF FrameIsComing, PingToSend
    <3> QED BY <2>4, <3>7 DEF QuietInv, KeptAlive
  <2>5. KeptAlive'
    BY <2>1, <2>2, <2>3, <2>4 DEF QuietInv, KeptAlive, FrameIsComing
  <2> QED BY <2>5
<1> QED BY <1>4, <1>5, <1>7, <1>8, <1>9, <1>10, <1>11, <1>12, <1>13, <1>14, <1>15, <1>16, <1>17
        DEF C!Next, C!Prompt, Clients

LEMMA QuietPaused == QuietInv /\ UNCHANGED varsC => QuietInv'
BY DEF varsC, QuietInv, Tabled, OnTheWay, KeptAlive, FrameIsComing, PingToSend, Waits, Outgoing

LEMMA QuietStep == RequestInv /\ QuietInv /\ [C!Next]_varsC => QuietInv'
BY QuietPaused, TabledStep, OnTheWayStep, KeptAliveStep DEF QuietInv

(***************************************************************************)
(* The sessions.  The modules that rest keep their invariants.             *)
(***************************************************************************)
SessionInv == StreamInv /\ ProcessInv /\ LinkInv /\ RequestInv /\ QuietInv

LEMMA SessionStart == SessionInit => SessionInv
BY StreamStart, ProcessesStart, LinkStart, RequestsStart, QuietStart DEF SessionInit, SessionInv

LEMMA SessionParts ==
    [SessionNext]_<<session, vars, varsM, varsC>> => [Next]_vars /\ [M!Next]_varsM /\ [C!Next]_varsC
BY DEF SessionNext

LEMMA SessionStep ==
    SessionInv /\ [SessionNext]_<<session, vars, varsM, varsC>> => SessionInv'
BY SessionParts, StreamStep, ProcessesStep, LinkStep, RequestsStep, QuietStep DEF SessionInv

LEMMA Sessions_hold == SessionSpec => []SessionInv
BY SessionStart, SessionStep, PTL DEF SessionSpec

(* No mpv plays beside the one the controller owns, and none is left a     *)
(* zombie (src/src/audio/mpv.rs, start and reap_stale_mpv_at): the reaping *)
(* comes before the spawn.  Outliving it is left to an mpv that hangs and, *)
(* off Linux, to one that is astray: its daemon was killed before it       *)
(* listened, or it lost the socket file to one of that kind.               *)
THEOREM OnlyOnePlayer == SessionSpec => []OnePlayer
<1>1. SessionInv => OnePlayer
  BY ProcessesAtRest DEF SessionInv, OnePlayer
<1> QED BY <1>1, Sessions_hold, PTL

(* The daemon closes a connection as idle only when its keepalive has      *)
(* given up (src/src/ipc/socket_client.rs, the ping task, and              *)
(* ipc/server.rs, IDLE_TIMEOUT).                                           *)
THEOREM AQuietClientStays == SessionSpec => []QuietClientStays
<1>1. SessionInv => QuietClientStays
  BY DEF SessionInv, QuietInv, KeptAlive, QuietClientStays, C!QuietClientStays
<1> QED BY <1>1, Sessions_hold, PTL

(* Both connections implement Calls: a late or foreign reply never answers *)
(* a call, and a call ends once (src/src/audio/mpv.rs, send_command and    *)
(* the reader; src/src/ipc/socket_client.rs, request_with_timeout).        *)
THEOREM EveryAnswerMatches == SessionSpec => AnswersMatch
<1>1. SessionInit => M!Contract!Init /\ C!Contract!Init
  BY MpvContractStarts, ClientContractStarts DEF SessionInit
<1>2. SessionInv /\ SessionInv' /\ [SessionNext]_<<session, vars, varsM, varsC>>
          => [M!Contract!Next]_MpvCalls /\ [C!Contract!Next]_ClientCalls
  BY SessionParts, MpvKeepsContract, ClientKeepsContract DEF SessionInv
<1>3. SessionSpec => M!Contract!Spec
  <2>1. MpvCalls = [t \in Users \cup {"poll", "main"} |-> M!Called(t)]
    BY DEF MpvCalls, MpvCallers
  <2>2. [M!Contract!Next]_MpvCalls <=> [M!Contract!Next]_([t \in Users \cup {"poll", "main"} |-> M!Called(t)])
    BY DEF MpvCalls, MpvCallers
  <2> QED BY <1>1, <1>2, <2>2, Sessions_hold, PTL DEF SessionSpec, M!Contract!Spec
<1>4. SessionSpec => C!Contract!Spec
  <2>1. [C!Contract!Next]_ClientCalls => [C!Contract!Next]_([c \in C!Callers |->
            IF calls[c] = NoValue THEN NoValue
            ELSE [question |-> calls[c].request, answer |-> calls[c].answer]])
    BY Distinct DEF ClientCalls, Seen
  <2> QED BY <1>1, <1>2, <2>1, Sessions_hold, PTL DEF SessionSpec, C!Contract!Spec
<1> QED BY <1>3, <1>4 DEF AnswersMatch, M!AnswersMatch, C!AnswersMatch

(* Nothing about the queue or the now-playing state is forgotten: when no  *)
(* task is about to send an event, nothing is queued and neither end means *)
(* to send or ask for anything again, the client shows what the daemon has *)
(* or last sent (src/src/ipc/server.rs, the forwarder and its              *)
(* needs_resync; src/src/app/event_pump.rs, the lagged pump).              *)
AtRest ==
    /\ \A e \in Emitters : emitting[e] = Idle
    /\ ring = <<>> /\ ~lagged /\ ~needs_resync
    /\ wire = <<>> /\ client_ring = <<>> /\ ~client_lagged /\ pump = "idle"

THEOREM AtRestUpToDate == SessionSpec => [](AtRest => UpToDate)
<1>1. StreamInv => (AtRest => UpToDate)
  <2>1. SUFFICES ASSUME StreamInv, AtRest, NEW t \in Resynced
                 PROVE  Current(mirror[t], t)
    BY DEF UpToDate, Current
  <2>2. ~Mentions(ring, t) /\ ~Mentions(wire, t) /\ ~Mentions(client_ring, t)
    BY <2>1, NothingSaid DEF AtRest
  <2>3. ~Pending(t)
    BY <2>1 DEF AtRest, Idle, Pending
  <2> QED BY <2>1, <2>2, <2>3 DEF AtRest, StreamInv, MirrorIsCurrent, InDaemon, InRing, ToApply
<1>2. SessionInv => (AtRest => UpToDate)
  BY <1>1 DEF SessionInv
<1> QED BY <1>2, Sessions_hold, PTL
=============================================================================
