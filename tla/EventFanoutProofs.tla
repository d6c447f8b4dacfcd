-------------------------- MODULE EventFanoutProofs --------------------------
(***************************************************************************)
(* Proofs about EventFanout: first the streams, up to StreamsSkipNothing,  *)
(* then the webhook deliveries, up to EveryDeliveryAccounted.              *)
(***************************************************************************)
EXTENDS EventFanoutInvariant, TLAPS

\* Adding a message keeps the buffer the last of them.
LEMMA AppendReplay ==
  ASSUME BusTypeOK, ReplayInv, AppendMessage
  PROVE  ReplayInv' /\ replay' \in Seq(Nat) /\ seq' \in Nat
<1>0. PICK n \in Nat : n = Len(replay)
  BY DEF BusTypeOK
<1>1. /\ seq \in Nat /\ seq' = seq + 1
      /\ n <= seq /\ n <= ReplayLimit /\ (n < ReplayLimit => n = seq)
      /\ ReplayLimit \in Nat \ {0}
  BY <1>0, BusAssumption DEF BusTypeOK, ReplayInv, AppendMessage
<1>r. replay \in Seq(Nat) /\ DOMAIN replay = 1..n
  BY <1>0 DEF BusTypeOK
<1>i. \A i \in 1..n : replay[i] = (seq - n) + i
  BY <1>0, <1>r, Zenon DEF ReplayInv
<1>2. CASE n = ReplayLimit
  <2>1. replay' = Append(Tail(replay), seq + 1)
    BY <1>0, <1>2 DEF AppendMessage
  <2>2. /\ Tail(replay) \in Seq(Nat) /\ Len(Tail(replay)) = n - 1
        /\ \A i \in 1..(n - 1) : Tail(replay)[i] = replay[i + 1]
    BY <1>0, <1>1, <1>r, <1>2
  <2>3. /\ replay' \in Seq(Nat) /\ Len(replay') = n /\ DOMAIN replay' = 1..n
        /\ \A i \in 1..(n - 1) : replay'[i] = replay[i + 1]
        /\ replay'[n] = seq + 1
    BY <1>1, <1>2, <2>1, <2>2
  <2>4. \A i \in 1..n : replay'[i] = (seq' - n) + i
    <3>1. \A i \in 1..(n - 1) : i + 1 \in 1..n
      OBVIOUS
    <3>2. ASSUME NEW i \in 1..(n - 1) PROVE replay'[i] = (seq' - n) + i
      <4>1. replay'[i] = (seq - n) + (i + 1)
        BY <1>i, <2>3, <3>1
      <4> QED
        BY <1>1, <4>1
    <3>3. replay'[n] = (seq' - n) + n
      BY <1>1, <2>3
    <3>4. \A i \in 1..n : i \in 1..(n - 1) \/ i = n
      OBVIOUS
    <3> QED
      BY <3>2, <3>3, <3>4
  <2>5. n <= seq'
    BY <1>1
  <2>6. n < ReplayLimit => n = seq'
    BY <1>2, <1>1
  <2>7. ReplayInv'
    BY <1>1, <2>3, <2>4, <2>5, <2>6, Zenon DEF ReplayInv
  <2> QED
    BY <1>1, <2>3, <2>7
<1>3. CASE n # ReplayLimit
  <2>1. replay' = Append(replay, seq + 1)
    BY <1>0, <1>3 DEF AppendMessage
  <2>2. /\ replay' \in Seq(Nat) /\ Len(replay') = n + 1 /\ DOMAIN replay' = 1..(n + 1)
        /\ \A i \in 1..n : replay'[i] = replay[i]
        /\ replay'[n + 1] = seq + 1
    BY <1>0, <1>1, <1>r, <2>1
  <2>3. n = seq
    BY <1>1, <1>3
  <2>4. \A i \in 1..(n + 1) : replay'[i] = (seq' - (n + 1)) + i
    BY <1>1, <1>i, <2>2, <2>3
  <2>5. n + 1 <= seq' /\ n + 1 <= ReplayLimit /\ n + 1 = seq'
    BY <1>1, <1>3, <2>3
  <2>6. ReplayInv'
    BY <1>1, <2>2, <2>4, <2>5, Zenon DEF ReplayInv
  <2> QED
    BY <1>1, <2>2, <2>6
<1> QED
  BY <1>2, <1>3

\* What replay_after returns: consecutive messages after last, and none of the
\* buffer between.
LEMMA ReplayAfterIsTheRest ==
  ASSUME BusTypeOK, ReplayInv, NEW last \in Nat
  PROVE  /\ ReplayAfter(last) \in Seq(Nat)
         /\ Len(ReplayAfter(last)) <= ReplayLimit
         /\ \A i, j \in DOMAIN ReplayAfter(last) :
              j = i + 1 => ReplayAfter(last)[j] = ReplayAfter(last)[i] + 1
         /\ ReplayAfter(last) # <<>> =>
              /\ ReplayAfter(last)[1] > last
              /\ \A k \in (last + 1)..(ReplayAfter(last)[1] - 1) : k + ReplayLimit <= seq
<1>0. PICK n \in Nat : n = Len(replay)
  BY DEF BusTypeOK
<1> DEFINE Splits(m) == \A i \in 1..n : i > m <=> replay[i] > last
           old == CHOOSE m \in 0..n : Splits(m)
<1>1. /\ seq \in Nat
      /\ n <= seq /\ n <= ReplayLimit /\ (n < ReplayLimit => n = seq)
      /\ ReplayLimit \in Nat \ {0}
  BY <1>0, BusAssumption DEF BusTypeOK, ReplayInv
<1>r. replay \in Seq(Nat) /\ DOMAIN replay = 1..n
  BY <1>0 DEF BusTypeOK
<1>i. \A i \in 1..n : replay[i] = (seq - n) + i
  BY <1>0, <1>r, Zenon DEF ReplayInv
<1>2. \E m \in 0..n : Splits(m)
  <2>1. CASE last >= seq
    <3>1. Splits(n)
      BY <1>1, <1>i, <2>1
    <3> HIDE DEF Splits
    <3> QED
      BY <3>1
  <2>2. CASE last <= seq - n
    <3>1. Splits(0)
      BY <1>1, <1>i, <2>2
    <3> HIDE DEF Splits
    <3> QED
      BY <3>1
  <2>3. CASE last < seq /\ last > seq - n
    <3>1. last - (seq - n) \in 0..n
      BY <1>1, <2>3
    <3>2. Splits(last - (seq - n))
      BY <1>1, <1>i, <2>3
    <3> HIDE DEF Splits
    <3> QED
      BY <3>1, <3>2
  <2> QED
    BY <1>1, <2>1, <2>2, <2>3
<1>3. old \in 0..n /\ Splits(old)
  <2> HIDE DEF Splits
  <2> QED
    BY <1>2
<1>4. ReplayAfter(last) = SubSeq(replay, old + 1, n)
  BY <1>0, <1>r DEF ReplayAfter
<1> DEFINE b == ReplayAfter(last)
<1> HIDE DEF old
<1>5. /\ b \in Seq(Nat) /\ Len(b) = n - old /\ DOMAIN b = 1..(n - old)
      /\ \A i \in 1..(n - old) : b[i] = replay[old + i]
  <2> DEFINE c == SubSeq(replay, old + 1, n)
  <2>1. old \in 0..n
    BY <1>3
  <2>2. /\ c \in Seq(Nat) /\ Len(c) = n - old
        /\ \A i \in 1..(n - old) : c[i] = replay[old + i]
    BY <1>0, <1>r, <2>1
  <2> HIDE DEF c
  <2>3. b = c
    BY <1>4 DEF c
  <2> QED
    BY <2>2, <2>3
<1> HIDE DEF b
<1>6. \A i \in 1..(n - old) : b[i] = (seq - n) + old + i
  <2>1. ASSUME NEW i \in 1..(n - old) PROVE b[i] = (seq - n) + old + i
    <3>1. old \in 0..n /\ old + i \in 1..n
      BY <1>3
    <3>2. b[i] = (seq - n) + (old + i)
      BY <1>5, <1>i, <3>1
    <3> QED
      BY <1>1, <3>1, <3>2
  <2> QED
    BY <2>1
<1>7. \A i, j \in DOMAIN b : j = i + 1 => b[j] = b[i] + 1
  <2>1. old \in 0..n
    BY <1>3
  <2> QED
    BY <1>1, <1>5, <1>6, <2>1
<1>8. ASSUME b # <<>>
      PROVE  b[1] > last /\ \A k \in (last + 1)..(b[1] - 1) : k + ReplayLimit <= seq
  <2>0. old \in 0..n
    BY <1>3
  <2>1. 1 \in 1..(n - old) /\ old + 1 \in 1..n
    <3>1. n - old # 0
      BY <1>5, <1>8
    <3> QED
      BY <2>0, <3>1
  <2>2. b[1] = (seq - n) + old + 1 /\ b[1] = replay[old + 1]
    BY <1>5, <1>6, <2>1
  <2>3. b[1] > last
    BY <1>3, <2>1, <2>2, <2>0
  <2>4. ASSUME NEW k \in (last + 1)..(b[1] - 1) PROVE k + ReplayLimit <= seq
    <3>1. CASE old = 0
      BY <1>1, <2>2, <2>4, <3>1
    <3>2. CASE old # 0
      <4>1. old \in 1..n /\ ~ (replay[old] > last)
        BY <1>3, <2>0, <3>2
      <4>2. (seq - n) + old <= last
        BY <1>1, <1>i, <4>1
      <4> QED
        BY <1>1, <2>0, <2>2, <2>4, <4>2
    <3> QED
      BY <3>1, <3>2
  <2> QED
    BY <2>3, <2>4
<1>9. Len(b) <= ReplayLimit
  <2>1. old \in 0..n
    BY <1>3
  <2> QED
    BY <1>1, <1>5, <2>1
<1> QED
  BY <1>5, <1>7, <1>8, <1>9 DEF b

\* A stream is left with what it had to send, or with nothing.
LEMMA BatchKept ==
  ASSUME BusTypeOK, NEW s \in Streams, BatchInv(s),
         seq' >= seq \/ stream'[s].batch = <<>>, seq' \in Nat,
         \/ stream'[s].batch = <<>>
         \/ stream'[s].batch = stream[s].batch /\ stream'[s].last = stream[s].last
  PROVE  BatchInv(s)'
<1>1. CASE stream'[s].batch = <<>>
  BY <1>1, BusAssumption DEF BatchInv
<1>2. CASE stream'[s].batch # <<>>
  <2>1. /\ stream[s].last \in Nat /\ stream[s].batch \in Seq(Nat) /\ stream[s].batch # <<>>
        /\ seq \in Nat /\ ReplayLimit \in Nat
    BY <1>2, BusAssumption DEF BusTypeOK, Stream
  <2>2. stream[s].batch[1] \in Nat
    BY <2>1
  <2>3. seq' >= seq /\ stream'[s].batch = stream[s].batch /\ stream'[s].last = stream[s].last
    BY <1>2
  <2>4. \A k \in (stream[s].last + 1)..(stream[s].batch[1] - 1) : k + ReplayLimit <= seq
    BY <2>1 DEF BatchInv
  <2>5. \A k \in (stream[s].last + 1)..(stream[s].batch[1] - 1) : k + ReplayLimit <= seq'
    BY <2>1, <2>2, <2>3, <2>4
  <2> QED
    BY <2>1, <2>3, <2>5 DEF BatchInv
<1> QED
  BY <1>1, <1>2

\* The state a step of one stream leaves behind.
LEMMA StreamFrame ==
  ASSUME StreamsInv, NEW s, NEW q \in Stream, stream' = [stream EXCEPT ![s] = q],
         UNCHANGED <<seq, replay>>, wake' \in BOOLEAN, stale' \subseteq Streams,
         faults' \in 0..MaxFaults,
         s \in Streams => BatchInv(s)'
  PROVE  StreamsInv'
<1>1. BusTypeOK'
  BY DEF StreamsInv, BusTypeOK
<1>2. ReplayInv'
  BY DEF StreamsInv, ReplayInv
<1>3. ASSUME NEW t \in Streams PROVE BatchInv(t)'
  <2>1. CASE t = s
    BY <2>1
  <2>2. CASE t # s
    <3>1. stream'[t] = stream[t] /\ seq \in Nat /\ BusTypeOK /\ BatchInv(t)
      BY <2>2 DEF StreamsInv, BusTypeOK
    <3> QED
      BY <3>1, BatchKept
  <2> QED
    BY <2>1, <2>2
<1> QED
  BY <1>1, <1>2, <1>3 DEF StreamsInv

\* A client that is not connected has nothing to be sent.
LEMMA OffIsIdle ==
  ASSUME NEW last \in Nat
  PROVE  /\ Off(last) \in Stream /\ Off(last).batch = <<>> /\ Off(last).last = last
         /\ [Off(last) EXCEPT !.pc = "listing", !.first = TRUE] \in Stream
         /\ [Off(last) EXCEPT !.pc = "listing", !.first = TRUE].batch = <<>>
<1>1. Off(last) \in Stream /\ Off(last).batch = <<>> /\ Off(last).last = last
  BY DEF Off, Stream
<1> DEFINE o == Off(last)
           p == [o EXCEPT !.pc = "listing"]
           q == [p EXCEPT !.first = TRUE]
<1>2. o \in Stream /\ o.batch = <<>>
  BY <1>1
<1> HIDE DEF o
<1>3. p \in Stream /\ p.batch = <<>>
  BY <1>2 DEF Stream
<1> HIDE DEF p
<1>4. q \in Stream /\ q.batch = <<>>
  BY <1>3 DEF Stream
<1>5. [Off(last) EXCEPT !.pc = "listing", !.first = TRUE] = q
  BY Zenon DEF o, p
<1> HIDE DEF q
<1> QED
  BY <1>1, <1>4, <1>5

\* A stream connects or loses its connection.
LEMMA StreamComesAndGoes ==
  ASSUME StreamsInv, NEW s \in Streams, Connect(s) \/ Cut(s)
  PROVE  StreamsInv'
<1>1. /\ BusTypeOK /\ BatchInv(s) /\ stream \in [Streams -> Stream] /\ stream[s].last \in Nat
      /\ seq \in Nat /\ wake \in BOOLEAN /\ stale \subseteq Streams /\ faults \in 0..MaxFaults
  BY DEF StreamsInv, BusTypeOK, Stream
<1>2. UNCHANGED <<seq, replay, wake>> /\ stale' \subseteq Streams /\ faults' \in 0..MaxFaults
  BY <1>1, BusAssumption DEF Connect, Cut, BusKept
<1>3. PICK q \in Stream : q.batch = <<>> /\ stream' = [stream EXCEPT ![s] = q]
  <2>1. CASE Cut(s)
    BY <1>1, <2>1, OffIsIdle DEF Cut
  <2>2. CASE Connect(s)
    <3>1. PICK from \in {0, stream[s].last} :
            stream' = [stream EXCEPT ![s] = [Off(from) EXCEPT !.pc = "listing", !.first = TRUE]]
      BY <2>2 DEF Connect
    <3> QED
      BY <1>1, <3>1, OffIsIdle
  <2> QED
    BY <2>1, <2>2
<1>4. stream'[s].batch = <<>>
  BY <1>1, <1>3
<1>5. BatchInv(s)'
  BY <1>1, <1>2, <1>4, BatchKept
<1> QED
  BY <1>1, <1>2, <1>3, <1>5, StreamFrame

\* A generator that only goes on.
LEMMA GoesOn ==
  ASSUME NEW o \in Stream,
         NEW pc \in {"listing", "sending", "checking", "parking", "parked", "clearing"}
  PROVE  /\ [o EXCEPT !.pc = pc] \in Stream
         /\ [o EXCEPT !.pc = pc].batch = o.batch /\ [o EXCEPT !.pc = pc].last = o.last
         /\ [o EXCEPT !.pc = pc, !.first = FALSE] \in Stream
         /\ [o EXCEPT !.pc = pc, !.first = FALSE].batch = o.batch
         /\ [o EXCEPT !.pc = pc, !.first = FALSE].last = o.last
         /\ [o EXCEPT !.pc = pc, !.listed = 0] \in Stream
         /\ [o EXCEPT !.pc = pc, !.listed = 0].batch = o.batch
         /\ [o EXCEPT !.pc = pc, !.listed = 0].last = o.last
<1> DEFINE p == [o EXCEPT !.pc = pc]
           q == [p EXCEPT !.first = FALSE]
           r == [p EXCEPT !.listed = 0]
<1>1. p \in Stream /\ p.batch = o.batch /\ p.last = o.last
  BY DEF Stream
<1> HIDE DEF p
<1>2. /\ q \in Stream /\ q.batch = o.batch /\ q.last = o.last
      /\ r \in Stream /\ r.batch = o.batch /\ r.last = o.last
  BY <1>1 DEF Stream
<1>3. /\ [o EXCEPT !.pc = pc, !.first = FALSE] = q
      /\ [o EXCEPT !.pc = pc, !.listed = 0] = r
  BY Zenon DEF p
<1> HIDE DEF q, r
<1> QED
  BY <1>1, <1>2, <1>3 DEF p

\* A stream lists the messages after the last one it has seen.
LEMMA ListInv ==
  ASSUME StreamsInv, NEW s \in Streams, List(s)
  PROVE  StreamsInv'
<1>1. /\ BusTypeOK /\ ReplayInv
      /\ stream \in [Streams -> Stream] /\ stream[s] \in Stream /\ stream[s].last \in Nat
      /\ seq \in Nat /\ wake \in BOOLEAN /\ stale \subseteq Streams /\ faults \in 0..MaxFaults
  BY DEF StreamsInv, BusTypeOK, Stream
<1> DEFINE b == ReplayAfter(stream[s].last)
           q == [stream[s] EXCEPT !.pc = "listed", !.batch = b, !.listed = seq]
<1>2. stream' = [stream EXCEPT ![s] = q] /\ UNCHANGED <<seq, replay, wake, stale, faults>>
  BY Zenon DEF List, BusKept
<1>3. /\ b \in Seq(Nat) /\ Len(b) <= ReplayLimit
      /\ \A i, j \in DOMAIN b : j = i + 1 => b[j] = b[i] + 1
      /\ b # <<>> =>
           /\ b[1] > stream[s].last
           /\ \A k \in (stream[s].last + 1)..(b[1] - 1) : k + ReplayLimit <= seq
  BY <1>1, ReplayAfterIsTheRest
<1> HIDE DEF b
<1>4. q \in Stream /\ q.batch = b /\ q.last = stream[s].last
  <2> DEFINE o == [stream[s] EXCEPT !.pc = "listed"]
             p == [o EXCEPT !.batch = b]
             r == [p EXCEPT !.listed = seq]
  <2>1. o \in Stream /\ o.last = stream[s].last
    BY <1>1 DEF Stream
  <2> HIDE DEF o
  <2>2. p \in Stream /\ p.batch = b /\ p.last = stream[s].last
    BY <1>3, <2>1 DEF Stream
  <2> HIDE DEF p
  <2>3. r \in Stream /\ r.batch = b /\ r.last = stream[s].last
    BY <1>1, <2>2 DEF Stream
  <2>4. q = r
    BY Zenon DEF o, p
  <2> HIDE DEF q, r
  <2> QED
    BY <2>3, <2>4
<1> HIDE DEF q
<1>5. stream'[s].batch = b /\ stream'[s].last = stream[s].last
  BY <1>1, <1>2, <1>4
<1>6. BatchInv(s)'
  BY <1>2, <1>3, <1>5 DEF BatchInv
<1> QED
  BY <1>1, <1>2, <1>4, <1>6, StreamFrame

\* A message is sent: the next one to send follows it.
LEMMA SendInv ==
  ASSUME StreamsInv, NEW s \in Streams, Send(s)
  PROVE  /\ StreamsInv'
         /\ stream'[s].last > stream[s].last
         /\ \A k \in (stream[s].last + 1)..(stream'[s].last - 1) : k + ReplayLimit <= seq
<1> DEFINE b == stream[s].batch
<1>1. /\ BusTypeOK /\ BatchInv(s)
      /\ stream \in [Streams -> Stream] /\ stream[s] \in Stream /\ stream[s].last \in Nat
      /\ b \in Seq(Nat) /\ b # <<>>
      /\ seq \in Nat /\ wake \in BOOLEAN /\ stale \subseteq Streams /\ faults \in 0..MaxFaults
  BY DEF StreamsInv, BusTypeOK, Stream, Send
<1>2. /\ \A i, j \in DOMAIN b : j = i + 1 => b[j] = b[i] + 1
      /\ b[1] > stream[s].last
      /\ \A k \in (stream[s].last + 1)..(b[1] - 1) : k + ReplayLimit <= seq
  BY <1>1 DEF BatchInv
<1> DEFINE p == [stream[s] EXCEPT !.last = Head(b)]
           q == [p EXCEPT !.batch = Tail(b)]
<1>3. /\ stream' = [stream EXCEPT ![s] = q] /\ UNCHANGED <<seq, replay, wake, faults>>
      /\ stale' \subseteq Streams
  <2>1. stream' = [stream EXCEPT ![s] = [stream[s] EXCEPT !.last = Head(stream[s].batch),
                                                         !.batch = Tail(stream[s].batch)]]
    BY Zenon DEF Send
  <2>2. [stream[s] EXCEPT !.last = Head(stream[s].batch), !.batch = Tail(stream[s].batch)] = q
    BY Zenon
  <2>3. stale' \subseteq Streams
    BY <1>1 DEF Send
  <2> QED
    BY <2>1, <2>2, <2>3 DEF Send, BusKept
<1> HIDE DEF b
<1>4. /\ Head(b) = b[1] /\ b[1] \in Nat /\ Tail(b) \in Seq(Nat)
      /\ Len(b) \in Nat \ {0} /\ DOMAIN b = 1..Len(b)
      /\ DOMAIN Tail(b) = 1..(Len(b) - 1)
      /\ \A i \in 1..(Len(b) - 1) : Tail(b)[i] = b[i + 1]
  BY <1>1
<1>5. p \in Stream /\ p.last = b[1]
  BY <1>1, <1>4 DEF Stream
<1> HIDE DEF p
<1>6. q \in Stream /\ q.last = b[1] /\ q.batch = Tail(b)
  BY <1>4, <1>5 DEF Stream
<1> HIDE DEF q
<1>7. stream'[s].last = b[1] /\ stream'[s].batch = Tail(b)
  BY <1>1, <1>3, <1>6
<1>8. BatchInv(s)'
  <2>1. \A i, j \in DOMAIN Tail(b) : j = i + 1 => Tail(b)[j] = Tail(b)[i] + 1
    <3>1. ASSUME NEW i \in DOMAIN Tail(b), NEW j \in DOMAIN Tail(b), j = i + 1
          PROVE  Tail(b)[j] = Tail(b)[i] + 1
      <4>1. i + 1 \in DOMAIN b /\ j + 1 \in DOMAIN b /\ j + 1 = (i + 1) + 1
        BY <1>4, <3>1
      <4>2. Tail(b)[i] = b[i + 1] /\ Tail(b)[j] = b[j + 1]
        BY <1>4
      <4> QED
        BY <1>2, <4>1, <4>2
    <3> QED
      BY <3>1
  <2>2. Tail(b) # <<>> => Tail(b)[1] = b[1] + 1
    <3>1. SUFFICES ASSUME Tail(b) # <<>> PROVE Tail(b)[1] = b[1] + 1
      OBVIOUS
    <3>2. 1 \in 1..(Len(b) - 1)
      BY <1>1, <1>4, <3>1
    <3>3. Tail(b)[1] = b[2] /\ 1 \in DOMAIN b /\ 2 \in DOMAIN b
      BY <1>4, <3>2
    <3> QED
      BY <1>2, <3>3
  <2>3. (b[1] + 1)..((b[1] + 1) - 1) = {}
    BY <1>4
  <2>4. Len(Tail(b)) <= ReplayLimit
    <3>1. Len(b) <= ReplayLimit /\ ReplayLimit \in Nat
      BY <1>1, BusAssumption DEF BatchInv, b
    <3>2. Len(Tail(b)) = Len(b) - 1
      BY <1>1, <1>4
    <3> QED
      BY <1>4, <3>1, <3>2
  <2> QED
    BY <1>4, <1>7, <2>1, <2>2, <2>3, <2>4 DEF BatchInv
<1>9. StreamsInv'
  BY <1>1, <1>3, <1>6, <1>8, StreamFrame
<1> QED
  BY <1>2, <1>7, <1>9

\* The other steps of a generator keep what it has to send, or drop it.
LEMMA GenerateInv ==
  ASSUME StreamsInv, NEW s \in Streams,
         Listed(s) \/ Sent(s) \/ Check(s) \/ Park(s) \/ Timeout(s) \/ Clear(s)
  PROVE  /\ StreamsInv'
         /\ stream'[s].pc # "off" =>
              stream'[s].batch = stream[s].batch /\ stream'[s].last = stream[s].last
<1>1. /\ BusTypeOK /\ BatchInv(s)
      /\ stream \in [Streams -> Stream] /\ stream[s] \in Stream /\ stream[s].last \in Nat
      /\ seq \in Nat /\ wake \in BOOLEAN /\ stale \subseteq Streams /\ faults \in 0..MaxFaults
  BY DEF StreamsInv, BusTypeOK, Stream
<1>2. UNCHANGED <<seq, replay, stale, faults>> /\ wake' \in BOOLEAN
  BY <1>1 DEF Listed, Sent, Check, Park, Timeout, Clear, BusKept
<1>3. PICK q \in Stream : /\ stream' = [stream EXCEPT ![s] = q]
                          /\ \/ q.batch = stream[s].batch /\ q.last = stream[s].last
                             \/ q.batch = <<>> /\ q.pc = "off"
  <2>1. CASE Listed(s)
    <3>1. \/ stream' = [stream EXCEPT ![s] = Off(stream[s].last)]
          \/ stream' = [stream EXCEPT ![s] = [stream[s] EXCEPT !.pc = "sending", !.listed = 0]]
      BY <2>1 DEF Listed
    <3>2. /\ Off(stream[s].last) \in Stream /\ Off(stream[s].last).batch = <<>>
          /\ Off(stream[s].last).pc = "off"
      BY <1>1, OffIsIdle DEF Off
    <3>3. stream[s] \in Stream
      BY <1>1
    <3>4. "sending" \in {"listing", "sending", "checking", "parking", "parked", "clearing"}
      OBVIOUS
    <3>5. /\ [stream[s] EXCEPT !.pc = "sending", !.listed = 0] \in Stream
          /\ [stream[s] EXCEPT !.pc = "sending", !.listed = 0].batch = stream[s].batch
          /\ [stream[s] EXCEPT !.pc = "sending", !.listed = 0].last = stream[s].last
      BY <3>3, <3>4, GoesOn, Zenon
    <3> QED
      BY <3>1, <3>2, <3>5, Zenon
  <2>2. CASE Sent(s)
    <3>1. PICK pc \in {"listing", "checking"} :
            stream' = [stream EXCEPT ![s] = [stream[s] EXCEPT !.pc = pc, !.first = FALSE]]
      BY <2>2 DEF Sent
    <3>2. stream[s] \in Stream
      BY <1>1
    <3>3. pc \in {"listing", "sending", "checking", "parking", "parked", "clearing"}
      BY <3>1
    <3>4. /\ [stream[s] EXCEPT !.pc = pc, !.first = FALSE] \in Stream
          /\ [stream[s] EXCEPT !.pc = pc, !.first = FALSE].batch = stream[s].batch
          /\ [stream[s] EXCEPT !.pc = pc, !.first = FALSE].last = stream[s].last
      BY <3>2, <3>3, GoesOn, Zenon
    <3> QED
      BY <3>1, <3>4, Zenon
  <2>3. CASE Check(s) \/ Park(s) \/ Timeout(s) \/ Clear(s)
    <3>1. PICK pc \in {"listing", "parking", "parked", "clearing"} :
            stream' = [stream EXCEPT ![s] = [stream[s] EXCEPT !.pc = pc]]
      BY <2>3 DEF Check, Park, Timeout, Clear, To
    <3>2. stream[s] \in Stream
      BY <1>1
    <3>3. pc \in {"listing", "sending", "checking", "parking", "parked", "clearing"}
      BY <3>1
    <3>4. /\ [stream[s] EXCEPT !.pc = pc] \in Stream
          /\ [stream[s] EXCEPT !.pc = pc].batch = stream[s].batch
          /\ [stream[s] EXCEPT !.pc = pc].last = stream[s].last
      BY <3>2, <3>3, GoesOn, Zenon
    <3> QED
      BY <3>1, <3>4, Zenon
  <2> QED
    BY <2>1, <2>2, <2>3
<1>4. stream'[s] = q
  BY <1>1, <1>3
<1>5. BatchInv(s)'
  BY <1>1, <1>2, <1>3, <1>4, BatchKept
<1> QED
  BY <1>1, <1>2, <1>3, <1>4, <1>5, StreamFrame

\* What publishing and a death of the plane do to all streams at once.
LEMMA BusInv ==
  ASSUME StreamsInv, AppendMessage \/ SetWake \/ BusRestart \/ UNCHANGED busVars
  PROVE  /\ StreamsInv'
         /\ \A s \in Streams : stream'[s].pc # "off" =>
              stream'[s].batch = stream[s].batch /\ stream'[s].last = stream[s].last
<1>1. /\ BusTypeOK /\ ReplayInv /\ \A s \in Streams : BatchInv(s)
      /\ stream \in [Streams -> Stream] /\ \A s \in Streams : stream[s].last \in Nat
      /\ seq \in Nat /\ replay \in Seq(Nat) /\ wake \in BOOLEAN /\ faults \in 0..MaxFaults
      /\ stale \subseteq Streams
  BY DEF StreamsInv, BusTypeOK, Stream
<1>2. CASE AppendMessage
  <2>1. UNCHANGED <<wake, stream, stale, faults>> /\ seq' = seq + 1
    BY <1>2 DEF AppendMessage
  <2>2. ReplayInv' /\ replay' \in Seq(Nat) /\ seq' \in Nat
    BY <1>1, <1>2, AppendReplay
  <2>3. BusTypeOK'
    BY <1>1, <2>1, <2>2 DEF BusTypeOK
  <2>4. \A s \in Streams : BatchInv(s)'
    BY <1>1, <2>1, <2>2, BatchKept
  <2> QED
    BY <2>1, <2>2, <2>3, <2>4 DEF StreamsInv
<1>3. CASE SetWake
  <2>1. UNCHANGED <<seq, replay, stale, faults>> /\ wake' = TRUE
    BY <1>3 DEF SetWake
  <2>2. ASSUME NEW s \in Streams
        PROVE  /\ stream'[s] \in Stream /\ stream'[s].batch = stream[s].batch
               /\ stream'[s].last = stream[s].last
    <3>1. stream'[s] = stream[s] \/ stream'[s] = [stream[s] EXCEPT !.pc = "clearing"]
      BY <1>3 DEF SetWake
    <3>2. stream[s] \in Stream
      BY <1>1
    <3>3. "clearing" \in {"listing", "sending", "checking", "parking", "parked", "clearing"}
      OBVIOUS
    <3>4. /\ [stream[s] EXCEPT !.pc = "clearing"] \in Stream
          /\ [stream[s] EXCEPT !.pc = "clearing"].batch = stream[s].batch
          /\ [stream[s] EXCEPT !.pc = "clearing"].last = stream[s].last
      BY <3>2, <3>3, GoesOn, Zenon
    <3> QED
      BY <3>1, <3>2, <3>4, Zenon
  <2>3. stream' \in [Streams -> Stream]
    <3>1. stream' = [s \in Streams |-> stream'[s]]
      BY <1>3 DEF SetWake
    <3> QED
      BY <2>2, <3>1
  <2>4. BusTypeOK' /\ ReplayInv'
    BY <1>1, <2>1, <2>3 DEF BusTypeOK, ReplayInv
  <2>5. \A s \in Streams : BatchInv(s)'
    BY <1>1, <2>1, <2>2, BatchKept
  <2> QED
    BY <2>2, <2>4, <2>5 DEF StreamsInv
<1>4. CASE BusRestart
  <2>1. /\ seq' = 0 /\ replay' = <<>> /\ wake' = FALSE
        /\ stream' = [s \in Streams |-> Off(stream[s].last)]
        /\ faults' \in 0..MaxFaults /\ stale' \subseteq Streams
    BY <1>1, <1>4, BusAssumption DEF BusRestart
  <2>2. \A s \in Streams : /\ stream'[s] \in Stream /\ stream'[s].batch = <<>>
                           /\ stream'[s].pc = "off"
    <3>1. \A n \in Nat : Off(n).pc = "off"
      BY DEF Off
    <3> QED
      BY <1>1, <2>1, <3>1, OffIsIdle
  <2>3. BusTypeOK'
    <3>1. stream' \in [Streams -> Stream]
      BY <1>1, <2>1, OffIsIdle
    <3>2. <<>> \in Seq(Nat)
      OBVIOUS
    <3> QED
      BY <2>1, <3>1, <3>2, Zenon DEF BusTypeOK
  <2>4. ReplayInv'
    BY <2>1, BusAssumption DEF ReplayInv
  <2>5. ASSUME NEW s \in Streams PROVE BatchInv(s)'
    <3>1. stream'[s].batch = <<>>
      BY <2>2
    <3> QED
      BY <3>1, BusAssumption DEF BatchInv
  <2> QED
    BY <2>2, <2>3, <2>4, <2>5 DEF StreamsInv
<1>5. CASE UNCHANGED busVars
  <2>1. UNCHANGED <<seq, replay, wake, stream, stale, faults>>
    BY <1>5 DEF busVars
  <2>2. BusTypeOK' /\ ReplayInv' /\ \A s \in Streams : BatchInv(s)'
    BY <1>1, <2>1 DEF BusTypeOK, ReplayInv, BatchInv
  <2> QED
    BY <2>1, <2>2 DEF StreamsInv
<1> QED
  BY <1>2, <1>3, <1>4, <1>5

\* Initially nothing was published and nobody listens.
LEMMA InitStreams == Init => StreamsInv
<1> SUFFICES ASSUME Init PROVE StreamsInv
  OBVIOUS
<1>1. /\ seq = 0 /\ replay = <<>> /\ wake = FALSE /\ stale = {} /\ faults = 0
      /\ stream = [s \in Streams |-> Off(0)]
  BY DEF Init, BusInit
<1>2. \A s \in Streams : stream[s] \in Stream /\ stream[s].batch = <<>>
  BY <1>1, OffIsIdle
<1>3. BusTypeOK
  <2>1. stream \in [Streams -> Stream]
    BY <1>1, OffIsIdle
  <2>2. <<>> \in Seq(Nat) /\ 0 \in 0..MaxFaults
    BY BusAssumption
  <2> QED
    BY <1>1, <2>1, <2>2 DEF BusTypeOK
<1>4. ReplayInv
  BY <1>1, BusAssumption DEF ReplayInv
<1>5. ASSUME NEW s \in Streams PROVE BatchInv(s)
  <2>1. stream[s].batch = <<>>
    BY <1>2
  <2> QED
    BY <2>1, BusAssumption DEF BatchInv
<1> QED
  BY <1>3, <1>4, <1>5 DEF StreamsInv

\* The messages a step passes over when s moves on.
SkipsNothing(s) ==
  LET id == stream'[s].last IN
  /\ stream[s].pc # "off" /\ stream'[s].pc # "off"
  /\ \/ id # stream[s].last
     \/ stream[s].pc = "sending" /\ stream'[s].batch # stream[s].batch
  => /\ id > stream[s].last
     /\ \A skipped \in (stream[s].last + 1)..(id - 1) : skipped + ReplayLimit <= seq

\* Every step keeps the invariant, and sends nothing out of turn.
LEMMA NextStreams ==
  ASSUME StreamsInv, audience.streams \subseteq Streams, [Next]_vars
  PROVE  StreamsInv' /\ \A s \in Streams : SkipsNothing(s)
<1>1. stream \in [Streams -> Stream]
  BY DEF StreamsInv, BusTypeOK
<1>2. ASSUME AppendMessage \/ SetWake \/ BusRestart \/ UNCHANGED busVars
      PROVE  StreamsInv' /\ \A s \in Streams : SkipsNothing(s)
  BY <1>2, BusInv DEF SkipsNothing
<1>3. ASSUME NEW s \in Streams, NEW t \in Streams, t # s, Connect(s) \/ Generate(s) \/ Cut(s)
      PROVE  SkipsNothing(t)
  <2>1. stream'[t] = stream[t]
    BY <1>1, <1>3 DEF Connect, Cut, Generate, List, Listed, Send, Sent, Check, Park,
       Timeout, Clear, To
  <2> QED
    BY <2>1 DEF SkipsNothing
<1>4. ASSUME NEW s \in Streams, Connect(s) \/ Generate(s) \/ Cut(s)
      PROVE  StreamsInv' /\ SkipsNothing(s)
  <2>1. CASE Connect(s)
    BY <2>1, StreamComesAndGoes DEF Connect, SkipsNothing
  <2>2. CASE Cut(s)
    <3>1. stream'[s].pc = "off"
      BY <1>1, <2>2 DEF Cut, Off
    <3> QED
      BY <2>2, <3>1, StreamComesAndGoes DEF SkipsNothing
  <2>3. CASE List(s)
    <3>1. /\ stream[s].pc = "listing" /\ stream[s] \in Stream
          /\ stream' = [stream EXCEPT ![s] = [stream[s] EXCEPT
               !.pc = "listed", !.batch = ReplayAfter(stream[s].last), !.listed = seq]]
      BY <1>1, <2>3, Zenon DEF List
    <3>2. stream'[s].last = stream[s].last
      BY <1>1, <3>1 DEF Stream
    <3> QED
      BY <2>3, <3>1, <3>2, ListInv DEF SkipsNothing
  <2>4. CASE Send(s)
    BY <2>4, SendInv DEF SkipsNothing
  <2>5. CASE Listed(s) \/ Sent(s) \/ Check(s) \/ Park(s) \/ Timeout(s) \/ Clear(s)
    BY <2>5, GenerateInv DEF SkipsNothing
  <2> QED
    BY <1>4, <2>1, <2>2, <2>3, <2>4, <2>5 DEF Generate
<1>5. CASE \E s \in audience.streams : Connect(s) \/ Generate(s) \/ Cut(s)
  BY <1>3, <1>4, <1>5
<1>6. CASE \E e \in Events : Store(e) \/ Handle(e)
  <2>1. AppendMessage \/ SetWake \/ UNCHANGED busVars
    BY <1>6 DEF Handle, Store, Publish, Announce, Look, Post, Record, Delivered, Commit
  <2> QED
    BY <1>2, <2>1
<1>7. CASE Crash \/ UNCHANGED vars
  <2>1. BusRestart \/ UNCHANGED busVars
    BY <1>7 DEF Crash, vars, busVars
  <2> QED
    BY <1>2, <2>1
<1> QED
  BY <1>5, <1>6, <1>7 DEF Next

\* Who listens is fixed.
LEMMA AudienceFixed == Spec => [](audience.streams \subseteq Streams)
<1>1. Init => audience.streams \subseteq Streams
  BY FanoutAssumption DEF Init
<1>2. audience.streams \subseteq Streams /\ [Next]_vars => (audience.streams \subseteq Streams)'
  <2>1. [Next]_vars => UNCHANGED audience
    BY DEF Next, Handle, Store, Publish, Announce, Look, Post, Record, Delivered, Commit,
       Crash, HooksKept, vars
  <2> QED
    BY <2>1
<1> QED
  BY <1>1, <1>2, PTL DEF Spec

\* What the buffer holds and what each stream has to send is as StreamsInv says.
THEOREM StreamsInvariant == Spec => []StreamsInv
<1>1. StreamsInv /\ audience.streams \subseteq Streams /\ [Next]_vars => StreamsInv'
  BY NextStreams
<1> QED
  BY <1>1, InitStreams, AudienceFixed, PTL DEF Spec

\* However slow a client and however many messages are published meanwhile, a
\* stream never holds more messages than the buffer does (replay_after,
\* event_generator).
THEOREM StreamsHoldABuffer ==
  Spec => [](/\ Len(replay) <= ReplayLimit
             /\ \A s \in Streams : Len(stream[s].batch) <= ReplayLimit)
<1>1. StreamsInv => /\ Len(replay) <= ReplayLimit
                    /\ \A s \in Streams : Len(stream[s].batch) <= ReplayLimit
  BY DEF StreamsInv, ReplayInv, BatchInv
<1> QED
  BY <1>1, StreamsInvariant, PTL

\* However publishing interleaves with listing, sending and reconnecting, a
\* stream is sent the messages after the id it gave in order, each once, but for
\* those that had left the buffer (replay_after, event_generator).
THEOREM StreamsSkipNothing == Spec => NothingSkipped
<1>1. StreamsInv /\ audience.streams \subseteq Streams /\ [Next]_vars =>
        [\A s \in Streams : SkipsNothing(s)]_busVars
  BY NextStreams
<1>2. Spec => [][\A s \in Streams : SkipsNothing(s)]_busVars
  BY <1>1, StreamsInvariant, AudienceFixed, PTL DEF Spec
<1> QED
  BY <1>2 DEF NothingSkipped, SkipsNothing

-----------------------------------------------------------------------------
USE FanoutAssumption

\* What FanoutInv says of one event.
EventInv(e) ==
  /\ At(e, {"new", "stored", "published"}) => handler[e].hook = 1
  /\ At(e, {"posting", "recording"}) => handler[e].hook \in Hooks
  /\ At(e, {"recording"}) => handler[e].answer # "none"
  /\ e \notin Announcements =>
       \A d \in Hooks :
         /\ acks[e][d] <= 1 + torn[e]
         /\ Ahead(e, d) => acks[e][d] <= torn[e]
         /\ e \notin durable /\ Busy(e) /\ ~At(e, {"recording", "committing"})
              => acks[e][d] <= torn[e]
         /\ Row(e, d) = "delivered" => acks[e][d] > 0
         /\ At(e, {"recording"}) /\ handler[e].hook = d /\ handler[e].answer = "delivered"
              => acks[e][d] > 0
         /\ Behind(e, d) /\ Wanted(e, d) => Row(e, d) # "none"

\* FanoutInv is what it says of each event.
LEMMA ByEvent == FanoutInv <=> HooksTypeOK /\ \A e \in Events : EventInv(e)
BY DEF FanoutInv, PlacedInv, TakenInv, RowInv, EventInv

\* The same after a step.
LEMMA ByEventNext == (HooksTypeOK' /\ \A e \in Events : EventInv(e)') => FanoutInv'
BY DEF FanoutInv, PlacedInv, TakenInv, RowInv, EventInv

\* Every event has a key, and no other event has that of an ingested one.
LEMMA KeyUnique ==
  /\ \A e \in Events : Key(e) \in Keys
  /\ \A e \in Events \ Announcements, f \in Events : Key(f) = Key(e) => f = e
<1>1. ASSUME NEW e \in Events PROVE Key(e) \in Keys
  BY <1>1 DEF Key, Keys
<1>2. ASSUME NEW e \in Events \ Announcements, NEW f \in Events, Key(f) = Key(e)
      PROVE  f = e
  <2>1. Key(e) = <<"id", e>> BY DEF Key
  <2>2. CASE f \in Announcements
    <3>1. Key(f) = <<"None", TypeOf[f]>> BY <2>2 DEF Key
    <3>2. <<"None", TypeOf[f]>>[1] = "None" /\ <<"id", e>>[1] = "id" OBVIOUS
    <3>3. QED BY <1>2, <2>1, <3>1, <3>2
  <2>3. CASE f \notin Announcements
    <3>1. Key(f) = <<"id", f>> BY <2>3 DEF Key
    <3>2. <<"id", f>>[2] = f /\ <<"id", e>>[2] = e OBVIOUS
    <3>3. QED BY <1>2, <2>1, <3>1, <3>2
  <2>4. QED BY <2>2, <2>3
<1>3. QED BY <1>1, <1>2

\* What HooksTypeOK says of one event.
LEMMA EventTypes ==
  ASSUME HooksTypeOK, NEW e \in Events
  PROVE  /\ handler[e] \in [pc : Pcs, hook : 1..(Destinations + 1),
                            answer : {"none", "delivered", "failed"}, slow : BOOLEAN]
         /\ \A d \in Hooks : acks[e][d] \in Nat /\ Row(e, d) \in {"none", "delivered", "failed"}
         /\ torn[e] \in Nat
BY KeyUnique DEF HooksTypeOK, Row

\* An event that a step leaves alone, but for becoming durable.
LEMMA LeftAlone ==
  ASSUME NEW f \in Events, EventInv(f), handler'[f] = handler[f],
         acks'[f] = acks[f], torn'[f] = torn[f], durable \subseteq durable',
         f \notin Announcements => delivery'[Key(f)] = delivery[Key(f)],
         audience' = audience
  PROVE  EventInv(f)'
<1>1. \A pcs : At(f, pcs)' <=> At(f, pcs) BY DEF At
<1>2. Busy(f)' <=> Busy(f) BY DEF Busy
<1>3. ASSUME NEW d \in Hooks
      PROVE  /\ Ahead(f, d)' <=> Ahead(f, d)
             /\ Behind(f, d)' <=> Behind(f, d)
             /\ Wanted(f, d)' <=> Wanted(f, d)
  BY <1>1 DEF Ahead, Behind, Wanted, At
<1>4. ASSUME NEW d \in Hooks, f \notin Announcements PROVE Row(f, d)' = Row(f, d)
  BY <1>4 DEF Row, Key
<1>5. /\ At(f, {"new", "stored", "published"})' => handler'[f].hook = 1
      /\ At(f, {"posting", "recording"})' => handler'[f].hook \in Hooks
      /\ At(f, {"recording"})' => handler'[f].answer # "none"
  BY <1>1 DEF EventInv
<1>6. ASSUME f \notin Announcements, NEW d \in Hooks
      PROVE  /\ acks'[f][d] <= 1 + torn'[f]
             /\ Ahead(f, d)' => acks'[f][d] <= torn'[f]
             /\ f \notin durable' /\ Busy(f)' /\ ~At(f, {"recording", "committing"})'
                  => acks'[f][d] <= torn'[f]
             /\ Row(f, d)' = "delivered" => acks'[f][d] > 0
             /\ At(f, {"recording"})' /\ handler'[f].hook = d /\ handler'[f].answer = "delivered"
                  => acks'[f][d] > 0
             /\ Behind(f, d)' /\ Wanted(f, d)' => Row(f, d)' # "none"
  <2>1. /\ acks[f][d] <= 1 + torn[f]
        /\ Ahead(f, d) => acks[f][d] <= torn[f]
        /\ f \notin durable /\ Busy(f) /\ ~At(f, {"recording", "committing"})
             => acks[f][d] <= torn[f]
        /\ Row(f, d) = "delivered" => acks[f][d] > 0
        /\ At(f, {"recording"}) /\ handler[f].hook = d /\ handler[f].answer = "delivered"
             => acks[f][d] > 0
        /\ Behind(f, d) /\ Wanted(f, d) => Row(f, d) # "none"
    BY <1>6 DEF EventInv
  <2>2. f \notin durable' => f \notin durable OBVIOUS
  <2>3. QED BY <1>1, <1>2, <1>3, <1>4, <1>6, <2>1, <2>2
<1>7. QED BY <1>5, <1>6 DEF EventInv, Hooks

-----------------------------------------------------------------------------
(* The initial states *)

\* Nothing has been posted at the start.
LEMMA InitInv == Init => FanoutInv
<1> SUFFICES ASSUME Init PROVE FanoutInv OBVIOUS
<1>1. 1 \in 1..(Destinations + 1) OBVIOUS
<1>2. HooksTypeOK BY <1>1 DEF Init, HooksTypeOK, Pcs, Hooks
<1>3. ASSUME NEW e \in Events PROVE EventInv(e)
  <2>1. handler[e] = [pc |-> IF e \in audience.events THEN "new" ELSE "gone",
                      hook |-> 1, answer |-> "none", slow |-> FALSE]
    BY Zenon DEF Init
  <2>2. handler[e].pc \in {"new", "gone"} /\ handler[e].hook = 1 BY <2>1
  <2>3. \A d \in Hooks : acks[e][d] = 0 /\ torn[e] = 0 BY DEF Init
  <2>4. \A d \in Hooks : Row(e, d) = "none" BY KeyUnique DEF Init, Row
  <2>5. QED BY <2>2, <2>3, <2>4 DEF EventInv, At, Ahead, Behind
<1>4. QED BY <1>2, <1>3, ByEvent

-----------------------------------------------------------------------------
(* The steps of a handler *)

\* The row is stored.
LEMMA StoreInv == ASSUME FanoutInv, NEW e \in Events, Store(e) PROVE FanoutInv'
<1>0. HooksTypeOK /\ \A f \in Events : EventInv(f) BY ByEvent
<1>1. /\ handler[e].pc = "new"
      /\ handler' = [handler EXCEPT ![e] = [handler[e] EXCEPT !.pc = "stored"]]
      /\ durable \subseteq durable'
      /\ UNCHANGED <<audience, delivery, acks, torn>>
  BY DEF Store, Goto
<1>2. HooksTypeOK'
  <2>1. [handler[e] EXCEPT !.pc = "stored"]
          \in [pc : Pcs, hook : 1..(Destinations + 1),
               answer : {"none", "delivered", "failed"}, slow : BOOLEAN]
    BY <1>0, EventTypes DEF Pcs
  <2>2. QED BY <1>0, <1>1, <2>1 DEF HooksTypeOK
<1>3. ASSUME NEW f \in Events, f # e PROVE EventInv(f)'
  <2>1. handler'[f] = handler[f] BY <1>0, <1>1, <1>3 DEF HooksTypeOK
  <2>2. QED BY <1>0, <1>1, <2>1, LeftAlone
<1>4. EventInv(e)'
  <2>1. handler'[e] = [handler[e] EXCEPT !.pc = "stored"] BY <1>0, <1>1 DEF HooksTypeOK
  <2>2. handler'[e].pc = "stored" /\ handler'[e].hook = handler[e].hook
    BY <2>1, <1>0, EventTypes
  <2>3. handler[e].hook = 1 BY <1>0, <1>1 DEF EventInv, At
  <2>4. \A d \in Hooks : d >= handler[e].hook BY <2>3 DEF Hooks
  <2>5. \A d \in Hooks : Ahead(e, d) BY <1>1, <2>4 DEF Ahead, At
  <2>6. QED BY <1>0, <1>1, <2>2, <2>3, <2>5 DEF EventInv, At, Ahead, Behind, Busy, Row, Wanted, Hooks, Key
<1>5. QED BY <1>2, <1>3, <1>4, ByEventNext

\* The event is published, or its publication announced.
LEMMA BusStepInv ==
  ASSUME FanoutInv, NEW e \in Events, Publish(e) \/ Announce(e) PROVE FanoutInv'
<1>0. HooksTypeOK /\ \A f \in Events : EventInv(f) BY ByEvent
<1>1. PICK pc \in {"published", "delivering"} :
        /\ At(e, {"stored", "published"})
        /\ handler' = [handler EXCEPT ![e] = [handler[e] EXCEPT !.pc = pc]]
        /\ HooksKept
  BY DEF Publish, Announce, Goto, At
<1>2. HooksTypeOK'
  <2>1. [handler[e] EXCEPT !.pc = pc]
          \in [pc : Pcs, hook : 1..(Destinations + 1),
               answer : {"none", "delivered", "failed"}, slow : BOOLEAN]
    BY <1>0, EventTypes DEF Pcs
  <2>2. QED BY <1>0, <1>1, <2>1 DEF HooksTypeOK, HooksKept
<1>3. ASSUME NEW f \in Events, f # e PROVE EventInv(f)'
  <2>1. handler'[f] = handler[f] BY <1>0, <1>1, <1>3 DEF HooksTypeOK
  <2>2. QED BY <1>0, <1>1, <2>1, LeftAlone DEF HooksKept
<1>4. EventInv(e)'
  <2>1. handler'[e] = [handler[e] EXCEPT !.pc = pc] BY <1>0, <1>1 DEF HooksTypeOK
  <2>2. handler'[e].pc = pc /\ handler'[e].hook = handler[e].hook
    BY <2>1, <1>0, EventTypes
  <2>3. handler[e].hook = 1 BY <1>0, <1>1 DEF EventInv, At
  <2>4. \A d \in Hooks : d >= 1 /\ ~(d < 1) BY DEF Hooks
  <2>5. \A d \in Hooks : Ahead(e, d) BY <1>1, <2>3, <2>4 DEF Ahead, At
  <2>6. QED BY <1>0, <1>1, <2>2, <2>3, <2>4, <2>5
         DEF EventInv, At, Ahead, Behind, Busy, Row, Wanted, Hooks, Key, HooksKept
<1>5. QED BY <1>2, <1>3, <1>4, ByEventNext

\* A destination is passed over for one of three reasons, and then has a row
\* if it wanted the event; or it is posted to.
LEMMA LookInv == ASSUME FanoutInv, NEW e \in Events, Look(e) PROVE FanoutInv'
<1> DEFINE h == handler[e].hook
           passed == \/ h \notin audience.hooks \/ e \notin Subscribed[h]
                     \/ delivery[Key(e)][h] = "delivered"
<1>0. HooksTypeOK /\ \A f \in Events : EventInv(f) BY ByEvent
<1>1. /\ handler[e].pc = "delivering" /\ h \in Hooks
      /\ handler' = [handler EXCEPT ![e] =
           IF passed THEN NextHook(e) ELSE [handler[e] EXCEPT !.pc = "posting"]]
      /\ HooksKept
  BY DEF Look
<1>2. /\ handler[e] \in [pc : Pcs, hook : 1..(Destinations + 1),
                         answer : {"none", "delivered", "failed"}, slow : BOOLEAN]
      /\ h + 1 \in 1..(Destinations + 1)
  BY <1>0, <1>1, EventTypes DEF Hooks
<1>3. HooksTypeOK'
  <2>1. /\ NextHook(e) \in [pc : Pcs, hook : 1..(Destinations + 1),
                            answer : {"none", "delivered", "failed"}, slow : BOOLEAN]
        /\ [handler[e] EXCEPT !.pc = "posting"]
             \in [pc : Pcs, hook : 1..(Destinations + 1),
                  answer : {"none", "delivered", "failed"}, slow : BOOLEAN]
    BY <1>2 DEF NextHook, Pcs
  <2>2. QED BY <1>0, <1>1, <2>1 DEF HooksTypeOK, HooksKept
<1>4. ASSUME NEW f \in Events, f # e PROVE EventInv(f)'
  <2>1. handler'[f] = handler[f] BY <1>0, <1>1, <1>4 DEF HooksTypeOK
  <2>2. QED BY <1>0, <1>1, <2>1, LeftAlone DEF HooksKept
<1>5. EventInv(e)'
  <2>1. handler'[e] = IF passed THEN NextHook(e) ELSE [handler[e] EXCEPT !.pc = "posting"]
    BY <1>0, <1>1 DEF HooksTypeOK
  <2>2. CASE passed
    <3>1. handler'[e].pc = "delivering" /\ handler'[e].hook = h + 1
      BY <2>1, <2>2, <1>2 DEF NextHook
    <3>2. \A d \in Hooks : (d >= h + 1 => d >= h) /\ (d < h + 1 => d < h \/ d = h)
      BY <1>1 DEF Hooks
    <3>3. Wanted(e, h) => Row(e, h) # "none" BY <2>2 DEF Wanted, Row
    <3>4. QED BY <1>0, <1>1, <3>1, <3>2, <3>3
           DEF EventInv, At, Ahead, Behind, Busy, Row, Wanted, Hooks, Key, HooksKept
  <2>3. CASE ~passed
    <3>1. handler'[e].pc = "posting" /\ handler'[e].hook = h BY <2>1, <2>3, <1>2
    <3>2. QED BY <1>0, <1>1, <3>1
           DEF EventInv, At, Ahead, Behind, Busy, Row, Wanted, Hooks, Key, HooksKept
  <2>4. QED BY <2>2, <2>3
<1>6. QED BY <1>3, <1>4, <1>5, ByEventNext

\* The destination took the event or not: of an ingested one at most once more
\* than crashes have hit it.
LEMMA PostInv == ASSUME FanoutInv, NEW e \in Events, Post(e) PROVE FanoutInv'
<1> DEFINE h == handler[e].hook
<1>0. HooksTypeOK /\ \A f \in Events : EventInv(f) BY ByEvent
<1>1. /\ handler[e].pc = "posting"
      /\ UNCHANGED <<audience, durable, delivery, torn>>
  BY DEF Post
<1>2. PICK took \in BOOLEAN, answer \in {"delivered", "failed", "timeout"} :
        /\ answer = "delivered" => took
        /\ acks' = IF took THEN [acks EXCEPT ![e] = Taken(e)] ELSE acks
        /\ handler' = [handler EXCEPT ![e] =
             IF answer = "timeout" THEN [handler[e] EXCEPT !.pc = "committing", !.slow = TRUE]
             ELSE [handler[e] EXCEPT !.pc = "recording", !.answer = answer]]
  BY DEF Post
<1>3. /\ handler[e] \in [pc : Pcs, hook : 1..(Destinations + 1),
                         answer : {"none", "delivered", "failed"}, slow : BOOLEAN]
      /\ h \in Hooks /\ h \in Nat
      /\ \A d \in Hooks : acks[e][d] \in Nat /\ torn[e] \in Nat
  <2>1. h \in Hooks BY <1>0, <1>1 DEF EventInv, At
  <2>2. QED BY <2>1, <1>0, EventTypes DEF Hooks
<1>4. acks[e] \in [Hooks -> Nat] BY <1>0 DEF HooksTypeOK
<1>5. /\ Taken(e) \in [Hooks -> Nat]
      /\ Taken(e)[h] = acks[e][h] + 1
      /\ \A d \in Hooks : d # h => Taken(e)[d] = acks[e][d]
  BY <1>3, <1>4 DEF Taken
<1>6. HooksTypeOK'
  <2>1. /\ [handler[e] EXCEPT !.pc = "committing", !.slow = TRUE]
             \in [pc : Pcs, hook : 1..(Destinations + 1),
                  answer : {"none", "delivered", "failed"}, slow : BOOLEAN]
        /\ answer # "timeout" =>
             [handler[e] EXCEPT !.pc = "recording", !.answer = answer]
               \in [pc : Pcs, hook : 1..(Destinations + 1),
                    answer : {"none", "delivered", "failed"}, slow : BOOLEAN]
    BY <1>3 DEF Pcs
  <2>2. handler' \in [Events -> [pc : Pcs, hook : 1..(Destinations + 1),
                                 answer : {"none", "delivered", "failed"}, slow : BOOLEAN]]
    BY <1>0, <1>2, <2>1 DEF HooksTypeOK
  <2>3. acks' \in [Events -> [Hooks -> Nat]] BY <1>0, <1>2, <1>5 DEF HooksTypeOK
  <2>4. QED BY <1>0, <1>1, <2>2, <2>3 DEF HooksTypeOK, Hooks
<1>7. ASSUME NEW f \in Events, f # e PROVE EventInv(f)'
  <2>1. handler'[f] = handler[f] BY <1>0, <1>2, <1>7 DEF HooksTypeOK
  <2>2. acks'[f] = acks[f] BY <1>0, <1>2, <1>7 DEF HooksTypeOK
  <2>3. QED BY <1>0, <1>1, <2>1, <2>2, LeftAlone
<1>8. EventInv(e)'
  <2>1. acks'[e] = IF took THEN Taken(e) ELSE acks[e] BY <1>0, <1>2 DEF HooksTypeOK
  <2>2. \A d \in Hooks : /\ acks'[e][d] \in Nat
                         /\ d # h => acks'[e][d] = acks[e][d]
                         /\ acks'[e][d] <= acks[e][d] + 1 /\ acks'[e][d] >= acks[e][d]
    BY <1>3, <1>5, <2>1
  <2>3. took => acks'[e][h] > 0 BY <1>3, <1>5, <2>1
  <2>4. e \notin Announcements => acks[e][h] <= torn[e]
    <3>1. Ahead(e, h) BY <1>1, <1>3 DEF Ahead, At
    <3>2. QED BY <1>0, <1>3, <3>1 DEF EventInv
  <2>5. ASSUME e \notin Announcements, NEW d \in Hooks PROVE acks'[e][d] <= 1 + torn[e]
    <3>1. CASE d = h
      <4>1. acks'[e][d] <= acks[e][d] + 1 /\ acks'[e][d] \in Nat BY <2>2
      <4>2. acks[e][d] <= torn[e] BY <2>4, <2>5, <3>1
      <4>3. acks[e][d] \in Nat /\ torn[e] \in Nat BY <1>3
      <4>4. QED BY <4>1, <4>2, <4>3
    <3>2. CASE d # h
      <4>1. acks[e][d] <= 1 + torn[e] BY <1>0, <2>5 DEF EventInv
      <4>2. QED BY <2>2, <3>2, <4>1
    <3>3. QED BY <3>1, <3>2
  <2>6. e \notin Announcements => \A d \in Hooks : d > h => acks'[e][d] <= torn[e]
    <3>1. \A d \in Hooks : d > h => d # h /\ Ahead(e, d)
      BY <1>1, <1>3 DEF Ahead, At, Hooks
    <3>2. QED BY <1>0, <1>3, <2>2, <3>1 DEF EventInv
  <2>7. e \notin Announcements => \A d \in Hooks :
          /\ Row(e, d) = "delivered" => acks'[e][d] > 0
          /\ d < h /\ Wanted(e, d) => Row(e, d) # "none"
    <3>1. \A d \in Hooks : d < h => Behind(e, d) BY <1>1 DEF Behind, At
    <3>2. QED BY <1>0, <1>3, <2>2, <3>1 DEF EventInv
  <2>8. CASE answer = "timeout"
    <3>1. handler'[e].pc = "committing" /\ handler'[e].hook = h /\ handler'[e].slow = TRUE
      BY <1>0, <1>2, <1>3, <2>8 DEF HooksTypeOK
    <3>2. QED BY <1>1, <2>5, <2>6, <2>7, <3>1
           DEF EventInv, At, Ahead, Behind, Busy, Row, Wanted, Hooks, Key
  <2>9. CASE answer # "timeout"
    <3>1. /\ handler'[e].pc = "recording" /\ handler'[e].hook = h
          /\ handler'[e].answer = answer
      BY <1>0, <1>2, <1>3, <2>9 DEF HooksTypeOK
    <3>2. answer = "delivered" => acks'[e][h] > 0 BY <1>2, <2>3
    <3>3. QED BY <1>1, <1>3, <2>5, <2>6, <2>7, <3>1, <3>2
           DEF EventInv, At, Ahead, Behind, Busy, Row, Wanted, Hooks, Key
  <2>10. QED BY <2>8, <2>9
<1>9. QED BY <1>6, <1>7, <1>8, ByEventNext

\* The answer becomes the row, and everything stored becomes durable.
LEMMA RecordInv == ASSUME FanoutInv, NEW e \in Events, Record(e) PROVE FanoutInv'
<1> DEFINE h == handler[e].hook
           rows == [delivery[Key(e)] EXCEPT ![h] = handler[e].answer]
<1>0. HooksTypeOK /\ \A f \in Events : EventInv(f) BY ByEvent
<1>1. /\ handler[e].pc = "recording"
      /\ delivery' = [delivery EXCEPT ![Key(e)] = rows]
      /\ durable' = durable \cup Stored
      /\ handler' = [handler EXCEPT ![e] = NextHook(e)]
      /\ UNCHANGED <<audience, acks, torn>>
  BY DEF Record
<1>2. /\ handler[e] \in [pc : Pcs, hook : 1..(Destinations + 1),
                         answer : {"none", "delivered", "failed"}, slow : BOOLEAN]
      /\ h \in Hooks /\ h \in Nat
      /\ handler[e].answer # "none"
      /\ \A d \in Hooks : acks[e][d] \in Nat /\ torn[e] \in Nat
  <2>1. h \in Hooks /\ handler[e].answer # "none" BY <1>0, <1>1 DEF EventInv, At
  <2>2. QED BY <2>1, <1>0, EventTypes DEF Hooks
<1>3. h + 1 \in 1..(Destinations + 1) BY <1>2 DEF Hooks
<1>4. Key(e) \in Keys BY KeyUnique
<1>5. delivery[Key(e)] \in [Hooks -> {"none", "delivered", "failed"}]
  BY <1>0, <1>4 DEF HooksTypeOK
<1>6. /\ rows \in [Hooks -> {"none", "delivered", "failed"}]
      /\ rows[h] = handler[e].answer
      /\ \A d \in Hooks : d # h => rows[d] = delivery[Key(e)][d]
  BY <1>2, <1>5
<1>7. HooksTypeOK'
  <2>1. NextHook(e) \in [pc : Pcs, hook : 1..(Destinations + 1),
                         answer : {"none", "delivered", "failed"}, slow : BOOLEAN]
    BY <1>2, <1>3 DEF NextHook, Pcs
  <2>2. handler' \in [Events -> [pc : Pcs, hook : 1..(Destinations + 1),
                                 answer : {"none", "delivered", "failed"}, slow : BOOLEAN]]
    BY <1>0, <1>1, <2>1 DEF HooksTypeOK
  <2>3. delivery' \in [Keys -> [Hooks -> {"none", "delivered", "failed"}]]
    BY <1>0, <1>1, <1>6 DEF HooksTypeOK
  <2>4. QED BY <1>0, <1>1, <2>2, <2>3 DEF HooksTypeOK, Hooks
<1>8. ASSUME NEW f \in Events, f # e PROVE EventInv(f)'
  <2>1. handler'[f] = handler[f] BY <1>0, <1>1, <1>8 DEF HooksTypeOK
  <2>2. f \notin Announcements => Key(f) # Key(e) BY <1>8, KeyUnique
  <2>3. f \notin Announcements => delivery'[Key(f)] = delivery[Key(f)]
    BY <1>0, <1>1, <2>2, KeyUnique DEF HooksTypeOK
  <2>4. QED BY <1>0, <1>1, <2>1, <2>3, LeftAlone
<1>9. EventInv(e)'
  <2>1. handler'[e].pc = "delivering" /\ handler'[e].hook = h + 1
    BY <1>0, <1>1, <1>2 DEF HooksTypeOK, NextHook
  <2>2. e \in durable'
    BY <1>1 DEF Stored, Busy
  <2>3. delivery'[Key(e)] = rows BY <1>0, <1>1, <1>4 DEF HooksTypeOK
  <2>4. \A d \in Hooks : /\ d # h => delivery'[Key(e)][d] = Row(e, d)
                         /\ d = h => delivery'[Key(e)][d] = handler[e].answer
    BY <1>6, <2>3 DEF Row
  <2>5. e \notin Announcements => \A d \in Hooks :
          delivery'[Key(e)][d] = "delivered" => acks[e][d] > 0
    BY <1>0, <1>1, <2>4 DEF EventInv, At
  <2>6. e \notin Announcements => \A d \in Hooks :
          d < h + 1 /\ Wanted(e, d) => delivery'[Key(e)][d] # "none"
    <3>1. \A d \in Hooks : d < h + 1 /\ d # h => Behind(e, d)
      BY <1>1, <1>2 DEF Behind, At, Hooks
    <3>2. QED BY <1>0, <1>2, <2>4, <3>1 DEF EventInv
  <2>7. e \notin Announcements => \A d \in Hooks :
          d >= h + 1 => acks[e][d] <= torn[e]
    <3>1. \A d \in Hooks : d >= h + 1 => Ahead(e, d)
      BY <1>1, <1>2 DEF Ahead, At, Hooks
    <3>2. QED BY <1>0, <3>1 DEF EventInv
  <2>8. e \notin Announcements => \A d \in Hooks : acks[e][d] <= 1 + torn[e]
    BY <1>0 DEF EventInv
  <2>9. QED BY <1>1, <2>1, <2>2, <2>5, <2>6, <2>7, <2>8
         DEF EventInv, At, Ahead, Behind, Busy, Row, Wanted, Hooks, Key
<1>10. QED BY <1>7, <1>8, <1>9, ByEventNext

\* No destination is left, or the batch is committed.
LEMMA EndInv ==
  ASSUME FanoutInv, NEW e \in Events, Delivered(e) \/ Commit(e) PROVE FanoutInv'
<1>0. HooksTypeOK /\ \A f \in Events : EventInv(f) BY ByEvent
<1>1. PICK pc \in {"committing", "done"} :
        /\ handler' = [handler EXCEPT ![e] = [handler[e] EXCEPT !.pc = pc]]
        /\ UNCHANGED <<audience, delivery, acks, torn>>
        /\ durable \subseteq durable'
        /\ \/ pc = "committing" /\ At(e, {"delivering"}) /\ handler[e].hook \notin Hooks
           \/ pc = "done" /\ At(e, {"committing"})
  BY DEF Delivered, Commit, Goto, HooksKept, At
<1>2. handler[e] \in [pc : Pcs, hook : 1..(Destinations + 1),
                      answer : {"none", "delivered", "failed"}, slow : BOOLEAN]
  BY <1>0, EventTypes
<1>3. HooksTypeOK'
  <2>1. [handler[e] EXCEPT !.pc = pc]
          \in [pc : Pcs, hook : 1..(Destinations + 1),
               answer : {"none", "delivered", "failed"}, slow : BOOLEAN]
    BY <1>2 DEF Pcs
  <2>2. QED BY <1>0, <1>1, <2>1 DEF HooksTypeOK, Hooks
<1>4. ASSUME NEW f \in Events, f # e PROVE EventInv(f)'
  <2>1. handler'[f] = handler[f] BY <1>0, <1>1, <1>4 DEF HooksTypeOK
  <2>2. QED BY <1>0, <1>1, <2>1, LeftAlone
<1>5. EventInv(e)'
  <2>1. /\ handler'[e].pc = pc
        /\ handler'[e].hook = handler[e].hook
        /\ handler'[e].slow = handler[e].slow
    BY <1>0, <1>1, <1>2 DEF HooksTypeOK
  <2>2. CASE pc = "committing"
    <3>1. handler[e].hook = Destinations + 1 BY <1>1, <1>2, <2>2 DEF Hooks
    <3>2. \A d \in Hooks : d < handler[e].hook /\ ~(d > handler[e].hook) BY <3>1 DEF Hooks
    <3>3. \A d \in Hooks : Behind(e, d) BY <1>1, <2>2, <3>2 DEF Behind, At
    <3>4. QED BY <1>0, <1>1, <2>1, <2>2, <3>2, <3>3
           DEF EventInv, At, Ahead, Behind, Busy, Row, Wanted, Hooks, Key
  <2>3. CASE pc = "done"
    <3>1. \A d \in Hooks : ~handler[e].slow => Behind(e, d) BY <1>1, <2>3 DEF Behind, At
    <3>2. QED BY <1>0, <1>1, <2>1, <2>3, <3>1
           DEF EventInv, At, Ahead, Behind, Busy, Row, Wanted, Hooks, Key
  <2>4. QED BY <2>2, <2>3
<1>6. QED BY <1>3, <1>4, <1>5, ByEventNext

-----------------------------------------------------------------------------
(* The other steps *)

\* The streams, and nothing at all, leave the handlers and the deliveries alone.
LEMMA StreamInv ==
  ASSUME FanoutInv, UNCHANGED handler, HooksKept PROVE FanoutInv'
<1>0. HooksTypeOK /\ \A f \in Events : EventInv(f) BY ByEvent
<1>1. HooksTypeOK' BY <1>0 DEF HooksTypeOK, HooksKept, Hooks
<1>2. ASSUME NEW f \in Events PROVE EventInv(f)'
  BY <1>0, <1>2, LeftAlone DEF HooksKept
<1>3. QED BY <1>1, <1>2, ByEventNext

\* An event that comes back has been taken no more often than crashes have hit it.
LEMMA CrashInv == ASSUME FanoutInv, Crash PROVE FanoutInv'
<1> DEFINE fresh == [pc |-> "new", hook |-> 1, answer |-> "none", slow |-> FALSE]
           after(e) == IF ~Busy(e) THEN handler[e]
                       ELSE IF e \in durable THEN [handler[e] EXCEPT !.pc = "gone"]
                       ELSE fresh
           hits(e) == IF handler[e].pc \in {"recording", "committing"}
                        THEN torn[e] + 1 ELSE torn[e]
<1>0. HooksTypeOK /\ \A f \in Events : EventInv(f) BY ByEvent
<1>1. /\ handler' = [e \in Events |-> after(e)]
      /\ torn' = [e \in Events |-> hits(e)]
      /\ UNCHANGED <<audience, durable, delivery, acks>>
  BY DEF Crash
<1>2. ASSUME NEW e \in Events
      PROVE  /\ handler[e] \in [pc : Pcs, hook : 1..(Destinations + 1),
                                answer : {"none", "delivered", "failed"}, slow : BOOLEAN]
             /\ torn[e] \in Nat
             /\ \A d \in Hooks : acks[e][d] \in Nat
  BY <1>0, <1>2, EventTypes
<1>3. HooksTypeOK'
  <2>1. ASSUME NEW e \in Events
        PROVE  after(e) \in [pc : Pcs, hook : 1..(Destinations + 1),
                             answer : {"none", "delivered", "failed"}, slow : BOOLEAN]
    <3>1. 1 \in 1..(Destinations + 1) OBVIOUS
    <3>2. fresh \in [pc : Pcs, hook : 1..(Destinations + 1),
                     answer : {"none", "delivered", "failed"}, slow : BOOLEAN]
      BY <3>1 DEF Pcs
    <3>3. [handler[e] EXCEPT !.pc = "gone"]
            \in [pc : Pcs, hook : 1..(Destinations + 1),
                 answer : {"none", "delivered", "failed"}, slow : BOOLEAN]
      BY <1>2 DEF Pcs
    <3>4. QED BY <1>2, <3>2, <3>3
  <2>2. \A e \in Events : hits(e) \in Nat BY <1>2
  <2>3. QED BY <1>0, <1>1, <2>1, <2>2 DEF HooksTypeOK, Hooks
<1>4. ASSUME NEW e \in Events PROVE EventInv(e)'
  <2>1. handler'[e] = after(e) /\ torn'[e] = hits(e) BY <1>1
  <2>2. CASE ~Busy(e)
    <3>1. handler'[e] = handler[e] /\ torn'[e] = torn[e] BY <2>1, <2>2 DEF Busy
    <3>2. QED BY <1>0, <1>1, <3>1, LeftAlone
  <2>3. CASE Busy(e) /\ e \in durable
    <3>1. handler'[e].pc = "gone" BY <1>2, <2>1, <2>3
    <3>2. \A d \in Hooks : e \notin Announcements => acks[e][d] <= 1 + torn'[e]
      BY <1>0, <1>2, <2>1 DEF EventInv
    <3>3. QED BY <1>0, <1>1, <3>1, <3>2
           DEF EventInv, At, Ahead, Behind, Busy, Row, Wanted, Hooks, Key
  <2>4. CASE Busy(e) /\ e \notin durable
    <3>1. handler'[e].pc = "new" /\ handler'[e].hook = 1 BY <2>1, <2>4
    <3>2. \A d \in Hooks : e \notin Announcements =>
            acks[e][d] <= torn'[e] /\ acks[e][d] <= 1 + torn'[e]
      <4>1. CASE handler[e].pc \in {"recording", "committing"}
        BY <1>0, <1>2, <2>1, <4>1 DEF EventInv
      <4>2. CASE handler[e].pc \notin {"recording", "committing"}
        BY <1>0, <1>2, <2>1, <2>4, <4>2 DEF EventInv, At
      <4>3. QED BY <4>1, <4>2
    <3>3. QED BY <1>0, <1>1, <3>1, <3>2
           DEF EventInv, At, Ahead, Behind, Busy, Row, Wanted, Hooks, Key
  <2>5. QED BY <2>2, <2>3, <2>4
<1>5. QED BY <1>3, <1>4, ByEventNext

-----------------------------------------------------------------------------
(* Theorems *)

\* Every step preserves the invariant.
LEMMA NextInv == FanoutInv /\ [Next]_vars => FanoutInv'
<1> SUFFICES ASSUME FanoutInv, [Next]_vars PROVE FanoutInv' OBVIOUS
<1>1. ASSUME NEW e \in Events, Store(e) PROVE FanoutInv' BY <1>1, StoreInv
<1>2. ASSUME NEW e \in Events, Handle(e) PROVE FanoutInv'
  <2>1. CASE Publish(e) \/ Announce(e) BY <2>1, BusStepInv
  <2>2. CASE Look(e) BY <2>2, LookInv
  <2>3. CASE Post(e) BY <2>3, PostInv
  <2>4. CASE Record(e) BY <2>4, RecordInv
  <2>5. CASE Delivered(e) \/ Commit(e) BY <2>5, EndInv
  <2>6. QED BY <1>2, <2>1, <2>2, <2>3, <2>4, <2>5 DEF Handle
<1>3. ASSUME UNCHANGED handler /\ HooksKept PROVE FanoutInv' BY <1>3, StreamInv
<1>4. ASSUME UNCHANGED vars PROVE FanoutInv' BY <1>3, <1>4 DEF vars, HooksKept
<1>5. CASE Crash BY <1>5, CrashInv
<1>6. QED BY <1>1, <1>2, <1>3, <1>4, <1>5 DEF Next

\* How often a destination has taken an event, and what its row says, follow
\* from the position of the handler that posts it, whatever the handlers of
\* other events, the streams and crashes do.
THEOREM FanoutInvariant == Spec => []FanoutInv
BY InitInv, NextInv, PTL DEF Spec

\* However many events, destinations, handlers and crashes there are,
\* webhook_deliveries accounts for every ingested event: taken once unless a
\* crash came between the POST and its row (WebhookStore.deliver).
THEOREM EveryDeliveryAccounted == Spec => []DeliveriesAccountedFor
<1>1. FanoutInv => DeliveriesAccountedFor
  <2> SUFFICES ASSUME FanoutInv, NEW e \in Events \ Announcements, NEW d \in Hooks
               PROVE  /\ acks[e][d] <= 1 + torn[e]
                      /\ delivery[Key(e)][d] = "delivered" => acks[e][d] > 0
                      /\ handler[e].pc = "done" /\ ~handler[e].slow /\ d \in audience.hooks
                           /\ e \in Subscribed[d] => delivery[Key(e)][d] # "none"
    BY DEF DeliveriesAccountedFor
  <2>1. /\ acks[e][d] <= 1 + torn[e]
        /\ Row(e, d) = "delivered" => acks[e][d] > 0
        /\ Behind(e, d) /\ Wanted(e, d) => Row(e, d) # "none"
    BY DEF FanoutInv, TakenInv, RowInv
  <2>2. QED BY <2>1 DEF Row, Behind, Wanted, At
<1>2. QED BY <1>1, FanoutInvariant, PTL
=============================================================================
