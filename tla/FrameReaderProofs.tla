-------------------------- MODULE FrameReaderProofs --------------------------
(***************************************************************************)
(* Proofs about FrameReader for every set of packets, every limit and      *)
(* every split: the buffer is a piece of the stream that begins where the  *)
(* next packet begins, so that packets come out whole and in order, errors *)
(* are about the packet they come with, and the reader never asks for data *)
(* it has no room for.                                                     *)
(***************************************************************************)
EXTENDS FrameReader, SequenceTheorems, TLAPS

Upcoming == Len(decoded) + 1

\* The positions in start are those of the packets.
Layout == /\ start[1] = 0
          /\ \A k \in DOMAIN wire : start[k + 1] = start[k] + wire[k].total_len
          /\ \A j, k \in DOMAIN start : j < k => start[j] < start[k]

\* The buffer begins where the next packet begins, and what is not in it has not been
\* read or is lost to an overflow, which fills the buffer.
Contiguous == /\ Upcoming \in DOMAIN start
              /\ \A i \in DOMAIN buf : buf[i] = start[Upcoming] + i - 1
              /\ start[Upcoming] + Len(buf) <= fed
              /\ fed <= start[Len(start)]
              /\ ~overflow => fed = start[Upcoming] + Len(buf)
              /\ overflow => remaining_capacity = 0

\* ReadingBody is a state of the next packet, which is neither too large nor malformed
\* in its header.
InPacket == state = "ReadingBody" =>
                /\ Upcoming \in DOMAIN wire /\ buf # << >>
                /\ total_len = wire[Upcoming].total_len /\ total_len <= max_packet_size
                /\ wire[Upcoming].defect \in {"none", "body"}

\* What try_decode finds wrong with the next packet as far as it is in the buffer.
Oversized == /\ state = "ReadingHeader" /\ wire[Upcoming].defect \in {"none", "body"}
             /\ Len(buf) >= wire[Upcoming].header_len
             /\ wire[Upcoming].total_len > max_packet_size
Broken == \/ state = "ReadingHeader" /\ wire[Upcoming].defect = "first"
          \/ /\ state = "ReadingHeader" /\ wire[Upcoming].defect = "header"
             /\ Len(buf) >= wire[Upcoming].header_len
          \/ /\ state = "ReadingBody" /\ wire[Upcoming].defect = "body"
             /\ Len(buf) >= total_len

\* After an error the next packet is one that gives it again.
Stuck == outcome \in Errors /\ ~overflow =>
             /\ Upcoming \in DOMAIN wire /\ buf # << >>
             /\ outcome = "PacketTooLarge" => Oversized
             /\ outcome = "Malformed" => Broken

\* When try_decode wants more, a header or the packet is not complete.
Short == outcome = "None" /\ ~overflow =>
             IF state = "ReadingHeader" THEN Len(buf) < 5 ELSE Len(buf) < total_len

BufferBounded == Len(buf) <= max_packet_size

\* The inductive invariant.
Inv == /\ TypeOK /\ Layout /\ Contiguous /\ InPacket /\ Stuck /\ Short
       /\ FramesInOrder /\ BufferBounded

----------------------------------------------------------------------------
\* What the types say, in the form the proofs use: sequences are functions on 1..n.
LEMMA Shapes ==
    ASSUME TypeOK
    PROVE  /\ Len(wire) \in Nat /\ DOMAIN wire = 1..Len(wire)
           /\ \A k \in 1..Len(wire) : /\ wire[k].header_len \in 2..5 /\ wire[k].defect \in Defects
                                       /\ wire[k].total_len \in Nat /\ wire[k].total_len > 0
           /\ Len(start) = Len(wire) + 1 /\ DOMAIN start = 1..(Len(wire) + 1)
           /\ \A k \in 1..(Len(wire) + 1) : start[k] \in Nat
           /\ Len(buf) \in Nat /\ DOMAIN buf = 1..Len(buf) /\ (buf = << >> <=> Len(buf) = 0)
           /\ \A i \in 1..Len(buf) : buf[i] \in Nat
           /\ Len(decoded) \in Nat /\ DOMAIN decoded = 1..Len(decoded)
           /\ fed \in Nat /\ total_len \in Nat
<1>1. \A k \in 1..Len(wire) : wire[k] \in PacketKinds
  BY DEF TypeOK
<1>2. \A kind \in PacketKinds : /\ kind.header_len \in 2..5 /\ kind.defect \in Defects
                                /\ kind.total_len \in Nat /\ kind.total_len > 0
  <2> TAKE kind \in PacketKinds
  <2>1. kind \in [header_len : 2..5, total_len : Nat, defect : Defects]
    BY ReaderAssumption
  <2>2. kind.header_len \in 2..5 /\ kind.total_len \in Nat /\ kind.total_len >= kind.header_len
    BY <2>1, ReaderAssumption
  <2> QED BY <2>1, <2>2
<1>3. \A k \in 1..Len(wire) : /\ wire[k].header_len \in 2..5 /\ wire[k].defect \in Defects
                              /\ wire[k].total_len \in Nat /\ wire[k].total_len > 0
  BY <1>1, <1>2
<1>4. Len(start) = Len(wire) + 1 /\ start \in Seq(Nat) /\ Len(wire) \in Nat
  BY DEF TypeOK
<1>5. DOMAIN start = 1..(Len(wire) + 1) /\ \A k \in 1..(Len(wire) + 1) : start[k] \in Nat
  BY <1>4
<1> QED BY <1>3, <1>4, <1>5 DEF TypeOK

\* The packet whose first byte is the first of the buffer is the next one, so that
\* decode_fixed_header is about that packet.
LEMMA BufferIsNext ==
    ASSUME TypeOK, Layout, Contiguous, buf # << >>
    PROVE  /\ Upcoming \in DOMAIN wire
           /\ buf[1] = start[Upcoming]
           /\ Aligned
           /\ HeadKind = wire[Upcoming]
<1>1. Len(buf) \in Nat /\ Len(buf) > 0 /\ 1 \in DOMAIN buf
  BY DEF TypeOK
<1>2. Upcoming \in 1..Len(start) /\ Len(start) = Len(wire) + 1 /\ Len(wire) \in Nat
  BY DEF TypeOK, Contiguous
<1>3. Upcoming # Len(start)
  BY <1>1, <1>2 DEF TypeOK, Contiguous
<1>4. Upcoming \in DOMAIN wire
  BY <1>2, <1>3 DEF TypeOK
<1>5. buf[1] = start[Upcoming]
  BY <1>1, <1>2 DEF TypeOK, Contiguous
<1>6. Heads = {Upcoming}
  <2>1. \A k \in DOMAIN wire : k \in DOMAIN start
    BY <1>2 DEF TypeOK
  <2>2. ASSUME NEW k \in DOMAIN wire, start[k] = start[Upcoming]
        PROVE  k = Upcoming
    <3>1. k \in 1..Len(start) /\ start[k] \in Nat /\ start[Upcoming] \in Nat
      BY <2>1, <1>2, Shapes
    <3>2. k \in DOMAIN start /\ Upcoming \in DOMAIN start
      BY <2>1 DEF Contiguous
    <3>3. ~(k < Upcoming) /\ ~(Upcoming < k)
      BY <3>1, <3>2, <2>2 DEF Layout
    <3> QED BY <3>1, <3>3, <1>2
  <2> QED BY <2>2, <1>4, <1>5 DEF Heads
<1> QED BY <1>4, <1>5, <1>6 DEF Aligned, HeadKind

\* The inductive invariant holds of a new reader.
LEMMA InitInv == Init => Inv
<1> SUFFICES ASSUME Init PROVE Inv
  OBVIOUS
<1> USE ReaderAssumption DEF Init
<1>1. TypeOK
  <2>1. <<0>> \in Seq(Nat) /\ Len(<<0>>) = 1
    OBVIOUS
  <2>2. << >> \in Seq(PacketKinds) /\ << >> \in Seq([from : Nat, upto : Nat]) /\ << >> \in Seq(Nat)
    OBVIOUS
  <2>3. Len(start) = Len(wire) + 1
    BY <2>1
  <2>4. wire \in Seq(PacketKinds) /\ start \in Seq(Nat) /\ buf \in Seq(Nat) /\ fed \in Nat
        /\ decoded \in Seq([from : Nat, upto : Nat]) /\ total_len \in Nat
    BY <2>1, <2>2 DEF NoPacket
  <2> QED BY <2>3, <2>4 DEF TypeOK, Outcomes
<1>2. Layout /\ Contiguous
  BY DEF Layout, Contiguous, Upcoming, remaining_capacity, Target
<1>3. InPacket /\ Stuck /\ Short
  BY DEF InPacket, Stuck, Short, Errors
<1>4. FramesInOrder /\ BufferBounded
  BY DEF FramesInOrder, BufferBounded
<1> QED BY <1>1, <1>2, <1>3, <1>4 DEF Inv

\* A packet the broker sends goes behind the stream.
LEMMA SendsInv == Inv /\ BrokerSends => Inv'
<1> SUFFICES ASSUME Inv, BrokerSends PROVE Inv'
  OBVIOUS
<1>1. PICK kind \in PacketKinds : /\ wire' = Append(wire, kind)
                                  /\ start' = Append(start, start[Len(start)] + kind.total_len)
  BY DEF BrokerSends
<1>2. UNCHANGED <<fed, buf, state, total_len, overflow, decoded, outcome>>
  BY DEF BrokerSends
<1>3. kind.total_len \in Nat /\ kind.total_len > 0
  BY ReaderAssumption
<1>4. TypeOK' 
  BY <1>1, <1>2, <1>3 DEF Inv, TypeOK
<1>5. /\ Len(wire') = Len(wire) + 1 /\ Len(start') = Len(start) + 1
      /\ \A k \in DOMAIN wire : k \in DOMAIN wire' /\ wire'[k] = wire[k]
      /\ \A k \in DOMAIN start : k \in DOMAIN start' /\ start'[k] = start[k]
      /\ start'[Len(start) + 1] = start[Len(start)] + kind.total_len
      /\ wire'[Len(wire) + 1] = kind
  <2>1. wire \in Seq(PacketKinds) /\ start \in Seq(Nat) /\ start[Len(start)] \in Nat
    BY Shapes DEF Inv, TypeOK
  <2>2. start[Len(start)] + kind.total_len \in Nat
    BY <2>1, <1>3
  <2> QED BY <1>1, <2>1, <2>2
<1>6. Layout'
  <2> USE <1>3, <1>4, <1>5
  <2>1. 1 \in DOMAIN start /\ Len(start) = Len(wire) + 1 /\ Len(wire) \in Nat
    BY DEF Inv, TypeOK
  <2>2. start'[1] = 0
    BY <2>1 DEF Inv, Layout
  <2>3. \A k \in DOMAIN wire' : start'[k + 1] = start'[k] + wire'[k].total_len
    <3> TAKE k \in DOMAIN wire'
    <3>1. CASE k \in DOMAIN wire
      <4>1. k \in 1..Len(wire) /\ k \in DOMAIN start /\ k + 1 \in DOMAIN start
        <5>1. TypeOK
          BY DEF Inv
        <5>2. DOMAIN wire = 1..Len(wire) /\ DOMAIN start = 1..(Len(wire) + 1)
          BY <5>1, Shapes
        <5> QED BY <3>1, <5>2, <2>1
      <4> QED BY <3>1, <4>1 DEF Inv, Layout
    <3>2. CASE k = Len(wire) + 1
      <4>1. k = Len(start) /\ k \in DOMAIN start
        BY <3>2, Shapes DEF Inv
      <4> QED BY <3>2, <4>1
    <3>3. k \in 1..(Len(wire) + 1) /\ DOMAIN wire = 1..Len(wire)
      BY <1>1, Shapes DEF Inv, TypeOK
    <3> QED BY <3>1, <3>2, <3>3, <2>1
  <2>4. \A j, k \in DOMAIN start' : j < k => start'[j] < start'[k]
    <3> TAKE j, k \in DOMAIN start'
    <3> HAVE j < k
    <3>1. j \in DOMAIN start
      BY <2>1 DEF TypeOK, Inv
    <3>2. start[j] \in Nat /\ start[Len(start)] \in Nat /\ start[j] <= start[Len(start)]
      BY <3>1, <2>1, Shapes DEF Inv, Layout
    <3>3. CASE k \in DOMAIN start
      BY <3>1, <3>3 DEF Inv, Layout
    <3>4. CASE k = Len(start) + 1
      BY <3>1, <3>2, <3>4
    <3> QED BY <3>3, <3>4 DEF TypeOK, Inv
  <2> QED BY <2>2, <2>3, <2>4 DEF Layout
<1>7. Upcoming' = Upcoming /\ remaining_capacity' = remaining_capacity
  BY <1>2 DEF Upcoming, remaining_capacity, Target
<1>8. Contiguous'
  <2>1. start[Len(start)] \in Nat /\ Len(start) \in DOMAIN start
    BY DEF Inv, TypeOK
  <2>2. fed <= start'[Len(start')]
    BY <2>1, <1>3, <1>5 DEF Inv, Contiguous, TypeOK
  <2> QED BY <1>2, <1>5, <1>7, <2>2 DEF Inv, Contiguous
<1>9. (InPacket /\ Stuck /\ Short)'
  BY <1>2, <1>5, <1>7 DEF Inv, InPacket, Stuck, Short, Oversized, Broken
<1>10. (FramesInOrder /\ BufferBounded)'
  <2>1. \A k \in DOMAIN decoded : k \in DOMAIN start /\ k + 1 \in DOMAIN start
    BY Shapes DEF Inv, FramesInOrder
  <2>2. \A k \in DOMAIN decoded : start'[k] = start[k] /\ start'[k + 1] = start[k + 1]
    BY <2>1, <1>5
  <2>3. Len(decoded) <= Len(wire')
    BY <1>5, Shapes DEF Inv, FramesInOrder
  <2> QED BY <2>2, <2>3, <1>2 DEF Inv, FramesInOrder, BufferBounded
<1> QED BY <1>4, <1>6, <1>8, <1>9, <1>10 DEF Inv

\* Bytes of the stream are put behind those in the buffer as far as there is room.
LEMMA PushInv ==
    ASSUME Inv, NEW n \in Nat, n > 0, n <= Available, push(n)
    PROVE  Inv'
<1> DEFINE m == Kept(n)
<1>1. UNCHANGED <<wire, start, state, total_len, decoded>>
  BY DEF push
<1>2. /\ remaining_capacity \in Nat /\ Len(buf) \in Nat /\ fed \in Nat
      /\ start[Len(start)] \in Nat
      /\ Upcoming \in DOMAIN start /\ start[Upcoming] \in Nat
  <2>1. Len(buf) \in Nat /\ fed \in Nat /\ Upcoming \in DOMAIN start /\ total_len \in Nat
    BY Shapes DEF Inv, Contiguous
  <2>2. start[Len(start)] \in Nat /\ start[Upcoming] \in Nat
    BY <2>1, Shapes DEF Inv
  <2>3. remaining_capacity \in Nat
    BY <2>1, ReaderAssumption DEF remaining_capacity, Target
  <2> QED BY <2>1, <2>2, <2>3
<1>3. m \in Nat /\ m <= n /\ m <= remaining_capacity /\ (n > remaining_capacity => m = remaining_capacity)
      /\ (n <= remaining_capacity => m = n)
  BY <1>2 DEF Kept, Smaller
<1>4. fed' = fed + n /\ fed' <= start[Len(start)]
  BY <1>2 DEF push, Available
<1>5. Bytes(m) \in Seq(Nat) /\ Len(Bytes(m)) = m
  BY <1>2, <1>3 DEF Bytes
<1>6. /\ buf' \in Seq(Nat) /\ Len(buf') = Len(buf) + m
      /\ \A i \in 1..Len(buf) : buf'[i] = buf[i]
      /\ \A i \in 1..m : buf'[Len(buf) + i] = fed + i - 1
  <2> HIDE DEF m
  <2>1. buf' = buf \o Bytes(m) /\ buf \in Seq(Nat)
    BY DEF push, Inv, TypeOK, m
  <2>2. \A i \in 1..m : Bytes(m)[i] = fed + i - 1
    BY DEF Bytes
  <2>3. buf' \in Seq(Nat) /\ Len(buf') = Len(buf) + m
    BY <1>5, <2>1, ConcatProperties
  <2>4. \A i \in 1..(Len(buf) + m) :
          buf'[i] = IF i <= Len(buf) THEN buf[i] ELSE Bytes(m)[i - Len(buf)]
    BY <1>5, <2>1, ConcatProperties
  <2>5. \A i \in 1..Len(buf) : buf'[i] = buf[i]
    BY <1>2, <1>3, <2>4
  <2>6. \A i \in 1..m : buf'[Len(buf) + i] = fed + i - 1
    <3> TAKE i \in 1..m
    <3>1. Len(buf) + i \in 1..(Len(buf) + m) /\ ~(Len(buf) + i <= Len(buf)) /\ (Len(buf) + i) - Len(buf) = i
      BY <1>2, <1>3
    <3> QED BY <3>1, <2>2, <2>4
  <2> QED BY <2>3, <2>5, <2>6
<1>7. overflow' = (overflow \/ n > remaining_capacity) /\ overflow \in BOOLEAN
  BY DEF push, Inv, TypeOK
<1>8. outcome' = IF outcome \in Errors THEN outcome ELSE "nothing"
  BY DEF push
<1> HIDE DEF m
<1>9. TypeOK'
  <2>1. fed' \in Nat
    BY <1>2, <1>4
  <2>2. overflow' \in BOOLEAN
    BY <1>7
  <2>3. outcome' \in Outcomes
    BY <1>8 DEF Inv, TypeOK, Outcomes
  <2> QED BY <1>1, <1>6, <2>1, <2>2, <2>3 DEF Inv, TypeOK
<1>10. Layout' /\ FramesInOrder'
  BY <1>1 DEF Inv, Layout, FramesInOrder
<1>11. Upcoming' = Upcoming /\ Target' = Target /\ Target \in Nat
  BY <1>1, ReaderAssumption DEF Upcoming, Target, Inv, TypeOK
<1>12. overflow => remaining_capacity = 0
  BY DEF Inv, Contiguous
<1>13. Contiguous'
  <2>1. \A i \in DOMAIN buf' : buf'[i] = start[Upcoming] + i - 1
    <3> TAKE i \in DOMAIN buf'
    <3>1. i \in 1..(Len(buf) + m)
      BY <1>6
    <3>2. CASE i \in 1..Len(buf)
      BY <3>2, <1>6, Shapes DEF Inv, Contiguous
    <3>3. CASE i \notin 1..Len(buf)
      <4>1. i - Len(buf) \in 1..m /\ m > 0
        BY <3>1, <3>3, <1>2, <1>3
      <4>2. ~overflow
        BY <4>1, <1>3, <1>12, <1>2
      <4>3. fed = start[Upcoming] + Len(buf)
        BY <4>2 DEF Inv, Contiguous
      <4>4. buf'[Len(buf) + (i - Len(buf))] = fed + (i - Len(buf)) - 1
        BY <4>1, <1>6
      <4> QED BY <4>1, <4>3, <4>4, <1>2, <3>1
    <3> QED BY <3>2, <3>3
  <2>2. start[Upcoming] + Len(buf') <= fed'
    BY <1>2, <1>3, <1>4, <1>6 DEF Inv, Contiguous
  <2>3. ~overflow' => fed' = start[Upcoming] + Len(buf')
    <3>0. ~overflow' => ~overflow /\ ~(n > remaining_capacity)
      BY <1>7
    <3>1. ~overflow' => ~overflow /\ m = n
      BY <3>0, <1>2, <1>3
    <3> QED BY <3>1, <1>2, <1>3, <1>4, <1>6 DEF Inv, Contiguous
  <2>4. overflow' => remaining_capacity' = 0
    <3>1. remaining_capacity' = IF Len(buf') > Target THEN 0 ELSE Target - Len(buf')
      BY <1>11 DEF remaining_capacity
    <3>2. overflow' => m = remaining_capacity
      BY <1>2, <1>3, <1>7, <1>12
    <3> QED BY <3>1, <3>2, <1>2, <1>6, <1>11 DEF remaining_capacity
  <2> QED BY <1>1, <1>2, <1>4, <1>11, <2>1, <2>2, <2>3, <2>4 DEF Contiguous
<1>14. Len(buf') >= Len(buf) /\ (buf # << >> => buf' # << >>)
  BY <1>2, <1>3, <1>6 DEF Inv, TypeOK
<1>15. InPacket'
  BY <1>1, <1>11, <1>14 DEF Inv, InPacket
<1>16. Stuck'
  <2> SUFFICES ASSUME outcome' \in Errors, ~overflow'
               PROVE  /\ Upcoming \in DOMAIN wire /\ buf' # << >>
                      /\ outcome' = "PacketTooLarge" => Oversized'
                      /\ outcome' = "Malformed" => Broken'
    BY <1>1, <1>11 DEF Stuck
  <2>1. outcome \in Errors /\ outcome' = outcome /\ ~overflow
    BY <1>7, <1>8 DEF Errors
  <2>2. Upcoming \in DOMAIN wire /\ buf # << >>
    BY <2>1 DEF Inv, Stuck
  <2>3. wire[Upcoming].header_len \in Nat /\ total_len \in Nat
    <3>1. TypeOK /\ Upcoming \in 1..Len(wire)
      BY <2>2, Shapes DEF Inv
    <3>2. wire[Upcoming].header_len \in 2..5 /\ total_len \in Nat
      BY <3>1, Shapes
    <3> QED BY <3>2
  <2>4. Oversized => Oversized'
    <3>1. \A h \in Nat : Len(buf) >= h => Len(buf') >= h
      BY <1>2, <1>3, <1>6
    <3> QED BY <3>1, <1>1, <1>11, <2>3 DEF Oversized
  <2>5. Broken => Broken'
    BY <1>1, <1>2, <1>6, <1>3, <1>11, <1>14, <2>3 DEF Broken
  <2> QED BY <2>1, <2>2, <2>4, <2>5, <1>14 DEF Inv, Stuck
<1>17. Short'
  BY <1>8 DEF Short, Errors
<1>18. BufferBounded'
  <2>1. Target <= max_packet_size
    BY ReaderAssumption DEF Target, Inv, InPacket, TypeOK
  <2> QED BY <1>2, <1>3, <1>6, <1>11, <2>1, ReaderAssumption
          DEF remaining_capacity, BufferBounded, Inv
<1> QED BY <1>9, <1>10, <1>13, <1>15, <1>16, <1>17, <1>18 DEF Inv

\* What a call of try_decode that drains nothing has to show.
LEMMA KeepsInv ==
    ASSUME Inv, UNCHANGED <<wire, start, fed, overflow, buf, decoded>>,
           TypeOK', InPacket', Stuck', Short',
           overflow => remaining_capacity' = 0
    PROVE  Inv'
<1>1. Upcoming' = Upcoming
  BY DEF Upcoming
<1>2. Layout' /\ FramesInOrder' /\ BufferBounded'
  BY DEF Inv, Layout, FramesInOrder, BufferBounded
<1>3. Contiguous'
  BY <1>1 DEF Inv, Contiguous
<1> QED BY <1>2, <1>3 DEF Inv

\* A call of try_decode that leaves the state of the reader alone, too.
LEMMA StayInv ==
    ASSUME Inv, NEW result \in Outcomes, Stay(result),
           outcome' = result => Stuck' /\ Short'
    PROVE  Inv'
<1>1. /\ UNCHANGED <<wire, start, fed, overflow, buf, decoded, state, total_len>>
      /\ outcome' = result
  BY DEF Stay, Returns, Keep
<1>2. TypeOK' /\ InPacket'
  BY <1>1 DEF Inv, TypeOK, InPacket, Upcoming
<1>3. overflow => remaining_capacity' = 0
  BY <1>1 DEF Inv, Contiguous, remaining_capacity, Target
<1> QED BY <1>1, <1>2, <1>3, KeepsInv

\* The positions of a packet counted from its start, and from the start of the one before.
LEMMA Regroup ==
    ASSUME NEW a \in Nat, NEW b \in Nat, NEW c \in Nat
    PROVE  a + (b + c) - 1 = (a + b) + c - 1
OBVIOUS

\* A packet whose length is known and allowed is waited for, refused or taken out of the
\* buffer as a whole.
LEMMA BodyInv ==
    ASSUME Inv, ~overflow, buf # << >>, NEW len, len = wire[Upcoming].total_len,
           len <= max_packet_size, wire[Upcoming].defect \in {"none", "body"},
           reading_body(len)
    PROVE  Inv'
<1>1. /\ Upcoming \in DOMAIN wire /\ buf[1] = start[Upcoming]
      /\ HeadKind = wire[Upcoming]
  BY BufferIsNext DEF Inv
<1>2. len \in Nat /\ len > 0
  BY <1>1, Shapes DEF Inv
<1>3. UNCHANGED <<wire, start, fed, overflow>> /\ overflow' = FALSE
  BY DEF reading_body, Returns, Inv, TypeOK
<1>4. CASE /\ InBody(len) /\ Keep
           /\ \/ ~Complete(len) /\ Returns("None")
              \/ Complete(len) /\ HeadKind.defect = "body" /\ Returns("Malformed")
  <2>1. /\ UNCHANGED <<buf, decoded>> /\ state' = "ReadingBody" /\ total_len' = len
        /\ Upcoming' = Upcoming
    BY <1>4 DEF InBody, Keep, Upcoming
  <2>2. TypeOK' /\ outcome' \in {"None", "Malformed"}
    BY <1>2, <1>3, <1>4, <2>1 DEF Inv, TypeOK, Returns, Outcomes, Errors
  <2>3. InPacket'
    BY <1>1, <1>3, <2>1 DEF InPacket
  <2>4. Short' /\ Stuck'
    <3>1. CASE outcome' = "None"
      BY <3>1, <1>2, <1>4, <2>1 DEF Short, Stuck, Errors, Complete, Returns, Inv, TypeOK
    <3>2. CASE outcome' = "Malformed"
      <4>1. Len(buf) >= len /\ wire[Upcoming].defect = "body"
        BY <3>2, <1>1, <1>4 DEF Complete, Returns
      <4> QED BY <4>1, <3>2, <1>1, <1>3, <2>1 DEF Short, Stuck, Broken, Errors
    <3> QED BY <3>1, <3>2, <2>2
  <2> QED BY <1>3, <2>1, <2>2, <2>3, <2>4, KeepsInv
<1>5. CASE /\ Complete(len)
           /\ state' = "ReadingHeader" /\ total_len' = NoPacket
           /\ decoded' = Append(decoded, [from |-> buf[1], upto |-> buf[len]])
           /\ buf' = Rest(len)
           /\ Returns("Some")
  <2>1. len \in 1..Len(buf) /\ Len(buf) \in Nat /\ buf \in Seq(Nat)
    BY <1>2, <1>5, Shapes DEF Complete, Inv, TypeOK
  <2>2. buf[1] \in Nat /\ buf[len] \in Nat
    BY <2>1
  <2>3. buf[len] = start[Upcoming] + len - 1
    BY <2>1 DEF Inv, Contiguous
  <2>4. /\ Len(decoded) \in Nat /\ Upcoming = Len(decoded) + 1
        /\ Upcoming \in DOMAIN start /\ Upcoming + 1 \in DOMAIN start
        /\ start[Upcoming + 1] = start[Upcoming] + len
        /\ start[Upcoming] \in Nat
    <3>1. Upcoming \in 1..Len(wire) /\ Len(decoded) \in Nat
      BY <1>1, Shapes DEF Inv
    <3>2. Upcoming \in DOMAIN start /\ Upcoming + 1 \in DOMAIN start /\ start[Upcoming] \in Nat
      <4>1. TypeOK
        BY DEF Inv
      <4>2. DOMAIN start = 1..(Len(wire) + 1) /\ \A k \in 1..(Len(wire) + 1) : start[k] \in Nat
        BY <4>1, Shapes
      <4>3. Upcoming \in 1..(Len(wire) + 1) /\ Upcoming + 1 \in 1..(Len(wire) + 1)
        BY <3>1
      <4> QED BY <4>2, <4>3
    <3> QED BY <3>1, <3>2, <1>1 DEF Inv, Layout, Upcoming
  <2>5. decoded' \in Seq([from : Nat, upto : Nat]) /\ Len(decoded') = Len(decoded) + 1
    BY <1>5, <2>2 DEF Inv, TypeOK
  <2>6. Upcoming' = Upcoming + 1
    BY <2>4, <2>5 DEF Upcoming
  <2>7. /\ buf' \in Seq(Nat) /\ Len(buf') = Len(buf) - len
        /\ \A i \in 1..Len(buf') : buf'[i] = buf[len + i]
    <3>1. /\ Len(SubSeq(buf, len + 1, Len(buf))) = Len(buf) - len
          /\ \A i \in 1..(Len(buf) - len) : SubSeq(buf, len + 1, Len(buf))[i] = buf[len + i]
      <4>1. \A i \in len + 1 .. Len(buf) : buf[i] \in Nat
        BY <2>1
      <4>2. len + 1 \in Int /\ Len(buf) \in Int
        BY <2>1
      <4>3. /\ Len(SubSeq(buf, len + 1, Len(buf))) = IF len + 1 <= Len(buf) THEN Len(buf) - (len + 1) + 1 ELSE 0
            /\ \A i \in 1 .. Len(buf) - (len + 1) + 1 :
                 SubSeq(buf, len + 1, Len(buf))[i] = buf[(len + 1) + i - 1]
        BY <4>1, <4>2, SubSeqProperties
      <4>4. \A i \in Int : (len + 1) + i - 1 = len + i
        BY <1>2
      <4>5. Len(buf) - (len + 1) + 1 = Len(buf) - len /\ (~(len + 1 <= Len(buf)) => Len(buf) - len = 0)
        BY <1>2, <2>1
      <4>6. \A i \in 1..(Len(buf) - len) : SubSeq(buf, len + 1, Len(buf))[i] = buf[len + i]
        <5> TAKE i \in 1..(Len(buf) - len)
        <5>1. i \in Int /\ i \in 1 .. Len(buf) - (len + 1) + 1
          BY <4>5
        <5>2. SubSeq(buf, len + 1, Len(buf))[i] = buf[(len + 1) + i - 1]
          BY <5>1, <4>3
        <5> QED BY <5>1, <5>2, <4>4
      <4> QED BY <4>3, <4>5, <4>6
    <3>2. SubSeq(buf, len + 1, Len(buf)) \in Seq(Nat)
      BY <2>1
    <3> QED BY <3>1, <3>2, <1>5 DEF Rest
  <2>8. TypeOK'
    BY <1>3, <1>5, <2>5, <2>7 DEF Inv, TypeOK, Returns, Outcomes, NoPacket
  <2>9. Layout'
    BY <1>3 DEF Inv, Layout
  <2>10. Contiguous'
    <3>1. \A i \in DOMAIN buf' : buf'[i] = start[Upcoming + 1] + i - 1
      <4> TAKE i \in DOMAIN buf'
      <4>1. i \in 1..Len(buf') /\ len + i \in DOMAIN buf
        <5>1. DOMAIN buf' = 1..Len(buf') /\ DOMAIN buf = 1..Len(buf)
          BY <2>1, <2>7
        <5>2. i \in Nat /\ 1 <= i /\ i <= Len(buf) - len /\ i \in 1..Len(buf')
          BY <5>1, <1>2, <2>1, <2>7
        <5> QED BY <5>1, <5>2, <1>2, <2>1
      <4>2. buf[len + i] = start[Upcoming] + (len + i) - 1
        BY <4>1 DEF Inv, Contiguous
      <4>3. buf'[i] = buf[len + i] /\ i \in Nat
        BY <4>1, <2>7
      <4>4. start[Upcoming] + (len + i) - 1 = (start[Upcoming] + len) + i - 1
        <5>1. start[Upcoming] \in Nat /\ len \in Nat /\ i \in Nat
          BY <4>3, <1>2, <2>4
        <5> QED BY ONLY <5>1, Regroup, Zenon
      <4> QED BY <4>2, <4>3, <4>4, <2>4
    <3>2. fed = start[Upcoming + 1] + Len(buf')
      BY <1>2, <2>1, <2>4, <2>7 DEF Inv, Contiguous
    <3> QED BY <3>1, <3>2, <1>3, <2>4, <2>6, <2>7 DEF Inv, Contiguous
  <2>11. (InPacket /\ Stuck /\ Short)'
    BY <1>5 DEF InPacket, Stuck, Short, Returns, Errors
  <2>12. FramesInOrder'
    <3>1. Len(decoded') <= Len(wire')
      BY <1>1, <1>3, <2>4, <2>5 DEF Inv, TypeOK
    <3>2. \A k \in DOMAIN decoded' : decoded'[k] = [from |-> start[k], upto |-> start[k + 1] - 1]
      <4> TAKE k \in DOMAIN decoded'
      <4>1. CASE k \in DOMAIN decoded
        <5>1. decoded'[k] = decoded[k]
          BY <4>1, <1>5, <2>2 DEF Inv, TypeOK
        <5> QED BY <5>1, <4>1 DEF Inv, FramesInOrder
      <4>2. CASE k = Upcoming
        <5>1. decoded'[k] = [from |-> buf[1], upto |-> buf[len]]
          <6>1. decoded \in Seq([from : Nat, upto : Nat])
                /\ [from |-> buf[1], upto |-> buf[len]] \in [from : Nat, upto : Nat]
            BY <2>2 DEF Inv, TypeOK
          <6>2. decoded'[Len(decoded) + 1] = [from |-> buf[1], upto |-> buf[len]]
            BY <6>1, <1>5, AppendProperties
          <6> QED BY <6>2, <4>2, <2>4
        <5>2. buf[len] = start[k + 1] - 1
          BY <4>2, <2>1, <2>3, <2>4
        <5> QED BY <5>1, <5>2, <4>2, <1>1
      <4>3. k \in 1..(Len(decoded) + 1) /\ DOMAIN decoded = 1..Len(decoded)
        BY <2>5, Shapes DEF Inv
      <4> QED BY <4>1, <4>2, <4>3, <2>4
    <3> QED BY <3>1, <3>2, <1>3 DEF FramesInOrder
  <2>13. BufferBounded'
    BY <2>1, <2>7, ReaderAssumption DEF Inv, BufferBounded
  <2> QED BY <2>8, <2>9, <2>10, <2>11, <2>12, <2>13 DEF Inv
<1> QED BY <1>4, <1>5 DEF reading_body, BadBody

\* A call of try_decode keeps the invariant, whatever it finds.
LEMMA DecodeInv == Inv /\ try_decode => Inv'
<1> SUFFICES ASSUME Inv, try_decode PROVE Inv'
  OBVIOUS
<1>1. CASE overflow /\ Stay("PacketTooLarge")
  BY <1>1, StayInv DEF Stuck, Short, Stay, Returns, Outcomes, Errors
<1>2. CASE ~overflow /\ state = "ReadingHeader" /\ buf = << >> /\ Stay("None")
  <2>1. Stay("None") => Stuck' /\ Short'
    BY <1>2 DEF Stuck, Short, Stay, Returns, Keep, Errors
  <2> QED BY <1>2, <2>1, StayInv DEF Outcomes
<1>3. ASSUME ~overflow, state = "ReadingHeader", buf # << >>
      PROVE  /\ Upcoming \in DOMAIN wire /\ Aligned /\ HeadKind = wire[Upcoming]
             /\ wire[Upcoming].header_len \in 2..5 /\ wire[Upcoming].total_len \in Nat
             /\ wire[Upcoming].defect \in Defects /\ Len(buf) \in Nat
  <2>1. Upcoming \in DOMAIN wire /\ Aligned /\ HeadKind = wire[Upcoming]
    BY <1>3, BufferIsNext DEF Inv
  <2> QED BY <2>1, Shapes DEF Inv
<1>4. CASE /\ ~overflow /\ state = "ReadingHeader" /\ buf # << >>
           /\ decode_fixed_header = "unexpected end of data" /\ Stay("None")
  <2>1. Len(buf) < 5
    BY <1>3, <1>4 DEF decode_fixed_header
  <2>2. Stuck' /\ Short'
    BY <1>4, <2>1 DEF Stuck, Short, Stay, Returns, Keep, Errors
  <2> QED BY <1>4, <2>2, StayInv DEF Outcomes
<1>5. CASE /\ ~overflow /\ state = "ReadingHeader" /\ buf # << >>
           /\ decode_fixed_header = "Malformed" /\ Stay("Malformed")
  <2>1. Broken
    BY <1>3, <1>5 DEF decode_fixed_header, Broken
  <2>2. Upcoming' = Upcoming /\ Broken' /\ outcome' = "Malformed" /\ UNCHANGED <<buf, wire>>
    BY <1>5, <2>1 DEF Broken, Upcoming, Stay, Returns, Keep
  <2>3. Stuck' /\ Short'
    BY <1>3, <1>5, <2>2 DEF Stuck, Short, Errors
  <2> QED BY <1>5, <2>3, StayInv DEF Outcomes, Errors
<1>6. CASE /\ ~overflow /\ state = "ReadingHeader" /\ buf # << >>
           /\ decode_fixed_header = "header" /\ TooLarge(HeadKind.total_len)
           /\ Stay("PacketTooLarge")
  <2>1. Oversized
    BY <1>3, <1>6 DEF decode_fixed_header, Oversized, TooLarge, Defects
  <2>2. Upcoming' = Upcoming /\ Oversized' /\ outcome' = "PacketTooLarge" /\ UNCHANGED <<buf, wire>>
    BY <1>6, <2>1 DEF Oversized, Upcoming, Stay, Returns, Keep
  <2>3. Stuck' /\ Short'
    BY <1>3, <1>6, <2>2 DEF Stuck, Short, Errors
  <2> QED BY <1>6, <2>3, StayInv DEF Outcomes, Errors
<1>7. CASE /\ ~overflow /\ state = "ReadingHeader" /\ buf # << >>
           /\ decode_fixed_header = "header" /\ ~TooLarge(HeadKind.total_len)
           /\ reading_body(HeadKind.total_len)
  <2>1. wire[Upcoming].defect \in {"none", "body"}
    BY <1>3, <1>7 DEF decode_fixed_header, Defects
  <2>2. HeadKind.total_len <= max_packet_size
    BY <1>3, <1>7, ReaderAssumption DEF TooLarge
  <2> QED BY <1>3, <1>7, <2>1, <2>2, BodyInv
<1>8. CASE ~overflow /\ state = "ReadingBody" /\ reading_body(total_len)
  BY <1>8, BodyInv DEF Inv, InPacket
<1> QED BY <1>1, <1>2, <1>4, <1>5, <1>6, <1>7, <1>8 DEF try_decode

\* Every step keeps the inductive invariant, the reads of the clients and the pushes of a
\* caller that ignores the capacity alike.
LEMMA NextInv == Inv /\ [Next]_vars => Inv'
<1> SUFFICES ASSUME Inv, [Next]_vars PROVE Inv'
  OBVIOUS
<1>1. Available \in Int /\ remaining_capacity \in Nat
  BY ReaderAssumption DEF Inv, TypeOK, Available, remaining_capacity, Target
<1>2. CASE BrokerSends
  BY <1>2, SendsInv
<1>3. CASE Read
  <2>1. PICK n \in 1..Smaller(ReadLimit, Available) : push(n)
    BY <1>3 DEF Read
  <2>2. n \in Nat /\ n > 0 /\ n <= Available
    BY <1>1, ReaderAssumption DEF Smaller, ReadLimit
  <2> QED BY <2>1, <2>2, PushInv
<1>4. CASE PushAnything
  <2>1. PICK n \in 1..Smaller(PushBound, Available) : push(n)
    BY <1>4 DEF PushAnything
  <2>2. n \in Nat /\ n > 0 /\ n <= Available
    BY <1>1, ReaderAssumption DEF Smaller
  <2> QED BY <2>1, <2>2, PushInv
<1>5. CASE try_decode
  BY <1>5, DecodeInv
<1>6. CASE UNCHANGED vars
  BY <1>6 DEF vars, Inv, TypeOK, Layout, Contiguous, InPacket, Stuck, Short, FramesInOrder,
              BufferBounded, Upcoming, Oversized, Broken, remaining_capacity, Target
<1> QED BY <1>2, <1>3, <1>4, <1>5, <1>6 DEF Next

\* The inductive invariant holds for every stream and every split of it.
THEOREM ReaderInvariant == Spec => []Inv
BY InitInv, NextInv, PTL DEF Spec

\* try_decode returns the packets of the stream, whole, in order and none skipped,
\* however the transport splits them and whatever the limit is.
THEOREM PacketsInOrder == Spec => []FramesInOrder
<1>1. Inv => FramesInOrder
  BY DEF Inv
<1> QED BY <1>1, ReaderInvariant, PTL

\* An error of try_decode, for a caller that respects the capacity, is about the packet
\* after those it returned: that one is malformed, or too large.
THEOREM ErrorsAreJustified == Spec => []ErrorsJustified
<1>1. Inv => ErrorsJustified
  <2> SUFFICES ASSUME Inv, outcome \in Errors, ~overflow
               PROVE  /\ Upcoming \in DOMAIN wire
                      /\ IF outcome = "Malformed" THEN wire[Upcoming].defect # "none"
                         ELSE wire[Upcoming].total_len > max_packet_size
    BY DEF ErrorsJustified, Upcoming
  <2> QED BY DEF Inv, Stuck, Errors, Oversized, Broken
<1> QED BY <1>1, ReaderInvariant, PTL

\* The buffer is bounded by the limit, and a reader whose limit is at least the longest
\* fixed header has room whenever try_decode asks for more data.
THEOREM ReaderNeverStarves ==
    ASSUME max_packet_size >= 5
    PROVE  Spec => []RoomForMore
<1>1. Inv => RoomForMore
  BY ReaderAssumption
     DEF Inv, TypeOK, Short, BufferBounded, RoomForMore, remaining_capacity, Target, Contiguous
<1> QED BY <1>1, ReaderInvariant, PTL

\* After an error no packet is returned any more: try_decode gives an error again.
THEOREM ErrorsAreFinal == Spec => ErrorsFinal
<1>1. Inv /\ [Next]_vars => [(outcome \in Errors) => decoded' = decoded]_vars
  <2> SUFFICES ASSUME Inv, Next, outcome \in Errors
               PROVE  decoded' = decoded
    OBVIOUS
  <2>1. CASE BrokerSends \/ Read \/ PushAnything
    BY <2>1 DEF BrokerSends, Read, PushAnything, push
  <2>2. CASE try_decode
    <3>1. CASE overflow
      BY <2>2, <3>1 DEF try_decode, Stay, Keep
    <3>2. CASE ~overflow
      <4>1. /\ Upcoming \in DOMAIN wire /\ buf # << >> /\ HeadKind = wire[Upcoming] /\ Aligned
            /\ Oversized \/ Broken
        BY <3>2, BufferIsNext DEF Inv, Stuck, Errors
      <4>2. /\ wire[Upcoming].header_len \in 2..5 /\ wire[Upcoming].total_len \in Nat
            /\ Len(buf) \in Nat /\ total_len \in Nat
        BY <4>1, Shapes DEF Inv
      <4>3. CASE state = "ReadingHeader"
        <5>1. \/ decode_fixed_header = "Malformed"
              \/ decode_fixed_header = "header" /\ TooLarge(HeadKind.total_len)
          BY <4>1, <4>2, <4>3 DEF decode_fixed_header, TooLarge, Oversized, Broken
        <5> QED BY <2>2, <3>2, <4>1, <4>3, <5>1 DEF try_decode, Stay, Keep
      <4>4. CASE state = "ReadingBody"
        <5>1. Complete(total_len) /\ HeadKind.defect = "body"
          BY <4>1, <4>4 DEF Oversized, Broken, Complete
        <5> QED BY <2>2, <3>2, <4>4, <5>1
                DEF try_decode, reading_body, BadBody, Keep
      <4> QED BY <4>3, <4>4 DEF Inv, TypeOK
    <3> QED BY <3>1, <3>2
  <2> QED BY <2>1, <2>2 DEF Next
<1> QED BY <1>1, ReaderInvariant, PTL DEF Spec, ErrorsFinal
=============================================================================
