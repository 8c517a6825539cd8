------------------------- MODULE VoiceOutputProofs -------------------------
(***************************************************************************)
(* Proofs about VoiceOutput: the types of the sending end of voice, that   *)
(* its sequence numbers grow and stay near the clock, and that frames are  *)
(* sent in order, for all durations of a packet, lengths of a burst and    *)
(* pauses, whatever other threads do between two steps.                    *)
(***************************************************************************)
EXTENDS VoiceOutput, TLAPS, FiniteSetTheorems, SequenceTheorems

(***************************************************************************)
(* Division.                                                               *)
(***************************************************************************)
LEMMA Quotient == ASSUME NEW a \in Nat, NEW d \in Nat \ {0} PROVE a \div d \in Nat
OBVIOUS

(* So many whole parts are in what is as long as they are. *)
LEMMA AtLeast ==
    ASSUME NEW a \in Nat, NEW d \in Nat \ {0}, NEW k \in Nat, k * d <= a
    PROVE  k <= a \div d
OBVIOUS

LEMMA AtMost ==
    ASSUME NEW a \in Nat, NEW d \in Nat \ {0}, NEW k \in Nat, k <= a \div d
    PROVE  k * d \in Nat /\ k * d <= a
<1>1. k * d \in Nat
  OBVIOUS
<1>2. k * d <= a
  OBVIOUS
<1> QED
  BY <1>1, <1>2

(* Rounding to a half up or down. *)
LEMMA RoundedIs ==
    ASSUME NEW t \in Nat
    PROVE  /\ Rounded(t) \in Nat /\ t \div SequenceDuration \in Nat
           /\ Rounded(t) >= t \div SequenceDuration
<1>1. SequenceDuration \in Nat \ {0}
  BY ClockAssumption
<1> DEFINE q == t \div SequenceDuration
<1>2. q \in Nat
  BY <1>1, Quotient
<1>3. Rounded(t) = q + 1 \/ Rounded(t) = q
  BY Zenon DEF Rounded
<1> HIDE DEF q
<1>4. Rounded(t) \in Nat /\ Rounded(t) >= q
  BY <1>2, <1>3
<1> QED
  BY <1>2, <1>4 DEF q

LEMMA RoundedAtLeast ==
    ASSUME NEW t \in Nat, NEW k \in Nat, k * SequenceDuration <= t
    PROVE  k <= Rounded(t)
<1> DEFINE q == t \div SequenceDuration
<1>1. SequenceDuration \in Nat \ {0}
  BY ClockAssumption
<1>2. k <= q
  BY <1>1, AtLeast
<1>3. Rounded(t) \in Nat /\ q \in Nat /\ Rounded(t) >= q
  BY RoundedIs
<1> HIDE DEF q
<1> QED
  BY <1>2, <1>3

(***************************************************************************)
(* The inductive invariant: time is that of the number, and the last       *)
(* packet had a number not above the one that is next.                     *)
(***************************************************************************)
TimeOfNumber == startTime <= now /\ lastTime = startTime + seqno * SequenceDuration
LastBelow    == out.stream <= stream /\ (out.stream = stream => out.number <= seqno)
IInvOut      == OutTypeOK /\ TimeOfNumber /\ LastBelow

(***************************************************************************)
(* Types.                                                                  *)
(***************************************************************************)
LEMMA Pieces ==
    ASSUME NEW p \in Seq(Nat), NEW a \in Nat, NEW b \in Nat, b <= Len(p)
    PROVE  /\ SubSeq(p, a + 1, b) \in Seq(Nat)
           /\ a < b => SubSeq(p, a + 1, b) \in PcmFrame
<1>1. SubSeq(p, a + 1, b) \in Seq(Nat)
  OBVIOUS
<1>2. a < b => Len(SubSeq(p, a + 1, b)) = b - a
  OBVIOUS
<1>3. a < b => Len(SubSeq(p, a + 1, b)) # 0
  BY <1>2
<1> QED
  BY <1>1, <1>3 DEF PcmFrame

LEMMA TypePcm ==
    ASSUME OutTypeOK, NEW n \in Nat
    PROVE  Pcm(n) \in Seq(Nat)
<1>1. [i \in 1..n |-> fed + i] \in Seq(Nat)
  <2>1. \A i \in 1..n : fed + i \in Nat
    BY DEF OutTypeOK
  <2> QED
    BY <2>1
<1>2. remaining \in Seq(Nat) /\ <<>> \in Seq(Nat)
  BY DEF OutTypeOK
<1> DEFINE old == IF now - lastTime <= duration THEN remaining ELSE <<>>
<1>3. old \in Seq(Nat)
  BY <1>2, Zenon
<1>4. Pcm(n) = old \o [i \in 1..n |-> fed + i]
  BY Zenon DEF Pcm
<1> DEFINE new == [i \in 1..n |-> fed + i]
<1> HIDE DEF old, new
<1> QED
  BY <1>1, <1>3, <1>4, ConcatProperties DEF new

LEMMA TypePut ==
    ASSUME OutTypeOK, NEW p \in Seq(Nat)
    PROVE  Put(p) \in Seq(PcmFrame) /\ Len(Put(p)) <= capacity
<1> DEFINE whole == Len(p) \div Samples
           room  == capacity - Len(buffer)
           taken == IF whole <= room THEN whole ELSE IF room > 0 THEN room ELSE 0
           more  == [k \in 1..taken |-> FrameOf(p, k)]
<1>1. duration \in Nat \ {0} /\ Len(p) \in Nat /\ Samples = duration
  BY DurationsAssumption DEF OutTypeOK, Samples
<1>2. whole \in Nat
  BY <1>1, Quotient
<1>3. room \in Nat /\ buffer \in Seq(PcmFrame)
  BY DEF OutTypeOK
<1> HIDE DEF whole, room
<1>4. taken \in Nat /\ taken <= whole /\ taken <= room
  BY <1>2, <1>3
<1> HIDE DEF taken
<1>5. ASSUME NEW k \in 1..taken PROVE FrameOf(p, k) \in PcmFrame
  <2>1. k - 1 \in Nat /\ k \in Nat /\ k <= whole /\ k - 1 <= whole
    BY <1>4, <1>2
  <2>2. k * duration \in Nat /\ k * duration <= Len(p) /\ (k - 1) * duration \in Nat
    BY <1>1, <2>1, AtMost DEF whole
  <2>3. FrameOf(p, k) = SubSeq(p, (k - 1) * duration + 1, k * duration)
    BY <1>1 DEF FrameOf
  <2>4. (k - 1) * duration < k * duration
    BY <1>1, <2>1
  <2> QED
    BY <2>2, <2>3, <2>4, Pieces
<1>6. more \in Seq(PcmFrame) /\ Len(more) = taken
  BY <1>4, <1>5
<1>7. Put(p) = buffer \o more
  BY Zenon DEF Put, taken, whole, room, more
<1> HIDE DEF more
<1>8. Put(p) \in Seq(PcmFrame) /\ Len(Put(p)) = Len(buffer) + taken
  BY <1>3, <1>6, <1>7, ConcatProperties
<1> QED
  BY <1>3, <1>4, <1>8 DEF room, OutTypeOK

LEMMA TypeLeftover ==
    ASSUME OutTypeOK, NEW p \in Seq(Nat)
    PROVE  Leftover(p) \in Seq(Nat)
<1> DEFINE whole == Len(p) \div Samples
<1>1. duration \in Nat \ {0} /\ Len(p) \in Nat /\ Samples = duration
  BY DurationsAssumption DEF OutTypeOK, Samples
<1>2. whole \in Nat /\ whole * duration \in Nat
  <2>1. whole \in Nat
    BY <1>1, Quotient
  <2> HIDE DEF whole
  <2> QED
    BY <1>1, <2>1
<1> DEFINE rest == SubSeq(p, whole * duration + 1, Len(p))
<1>3. rest \in Seq(Nat)
  <2> HIDE DEF whole
  <2> QED
    BY <1>1, <1>2, Pieces
<1>4. Leftover(p) = rest \/ Leftover(p) = <<>>
  BY <1>1, Zenon DEF Leftover
<1>5. <<>> \in Seq(Nat)
  OBVIOUS
<1> HIDE DEF rest
<1> QED
  BY <1>3, <1>4, <1>5, Zenon

LEMMA TypeAddPcm == ASSUME OutTypeOK, NEW n \in Bursts, AddPcm(n) PROVE OutTypeOK'
<1>1. n \in Nat
  BY BurstsAssumption
<1>2. Pcm(n) \in Seq(Nat)
  BY <1>1, TypePcm
<1>3. buffer' \in Seq(PcmFrame) /\ Len(buffer') <= capacity
  BY <1>2, TypePut DEF AddPcm
<1>4. remaining' \in Seq(Nat)
  BY <1>2, TypeLeftover DEF AddPcm
<1>5. speaker' \in {"idle", "check"} /\ fed' \in Nat
  BY <1>1 DEF AddPcm, Speak, OutTypeOK
<1> QED
  BY <1>3, <1>4, <1>5 DEF AddPcm, OutTypeOK, clock, locals

(* Each number is above the one before, if a packet lasts as long as what a
   number counts, and none is below it. *)
LEMMA NumberIsNext ==
    ASSUME IInvOut, UpdateSequence
    PROVE  /\ seqno' \in Nat /\ startTime' \in Nat /\ lastTime' \in Nat /\ stream' \in Nat
           /\ startTime' <= now /\ lastTime' = startTime' + seqno' * SequenceDuration
           /\ stream' = stream + 1 \/ (stream' = stream /\ seqno' >= seqno)
           /\ stream' = stream /\ duration >= SequenceDuration => seqno' > seqno
<1>1. /\ now \in Nat /\ startTime \in Nat /\ lastTime \in Nat /\ seqno \in Nat /\ stream \in Nat
      /\ duration \in Nat /\ startTime <= now /\ SequenceDuration \in Nat \ {0}
      /\ lastTime = startTime + seqno * SequenceDuration
  BY ClockAssumption, DurationsAssumption DEF IInvOut, OutTypeOK, TimeOfNumber
<1>2. ASSUME NEW k \in Nat PROVE k * SequenceDuration \in Nat
  BY <1>1
<1>3. CASE lastTime + ResetInterval <= now
  <2>1. startTime' = now /\ seqno' = 0 /\ lastTime' = now + 0 * SequenceDuration /\ stream' = stream + 1
    BY <1>3 DEF UpdateSequence, At
  <2> QED
    BY <1>1, <1>2, <2>1
<1>4. CASE ~(lastTime + ResetInterval <= now)
  <2> DEFINE number == IF lastTime + 2 * duration <= now THEN Rounded(now - startTime)
                                                         ELSE seqno + Rounded(duration)
  <2>1. /\ startTime' = startTime /\ seqno' = number /\ lastTime' = startTime + number * SequenceDuration
        /\ stream' = stream
    BY <1>4, Zenon DEF UpdateSequence, At
  <2>2. number \in Nat /\ number >= seqno /\ (duration >= SequenceDuration => number > seqno)
    <3>1. CASE lastTime + 2 * duration <= now
      <4>1. number = Rounded(now - startTime)
        BY <3>1
      <4>2. now - startTime \in Nat /\ seqno * SequenceDuration \in Nat
            /\ seqno * SequenceDuration + 2 * duration <= now - startTime
        BY <1>1, <1>2, <3>1
      <4> HIDE DEF number
      <4>3. number \in Nat /\ number >= seqno
        BY <1>1, <4>1, <4>2, RoundedIs, RoundedAtLeast
      <4>4. ASSUME duration >= SequenceDuration PROVE number >= seqno + 1
        <5>1. (seqno + 1) * SequenceDuration = seqno * SequenceDuration + SequenceDuration
          BY <1>1
        <5>2. (seqno + 1) * SequenceDuration <= now - startTime
          BY <1>1, <4>2, <4>4, <5>1
        <5> QED
          BY <1>1, <4>1, <4>2, <5>2, RoundedAtLeast
      <4> QED
        BY <1>1, <4>3, <4>4
    <3>2. CASE ~(lastTime + 2 * duration <= now)
      <4>1. number = seqno + Rounded(duration)
        BY <3>2
      <4>2. Rounded(duration) \in Nat
        BY <1>1, RoundedIs
      <4>3. ASSUME duration >= SequenceDuration PROVE 1 <= Rounded(duration)
        <5>1. 1 * SequenceDuration <= duration
          BY <1>1, <4>3
        <5> QED
          BY <1>1, <5>1, RoundedAtLeast
      <4> HIDE DEF number
      <4> QED
        BY <1>1, <4>1, <4>2, <4>3
    <3> QED
      BY <3>1, <3>2
  <2> HIDE DEF number
  <2> QED
    BY <1>1, <1>2, <2>1, <2>2
<1> QED
  BY <1>3, <1>4

(***************************************************************************)
(* Steps.                                                                  *)
(***************************************************************************)
LEMMA StepAddPcm == ASSUME IInvOut, NEW n \in Bursts, AddPcm(n) PROVE IInvOut'
<1>1. OutTypeOK'
  BY TypeAddPcm DEF IInvOut
<1> QED
  BY <1>1 DEF IInvOut, AddPcm, TimeOfNumber, LastBelow, clock

LEMMA StepCheck == ASSUME IInvOut, Check PROVE IInvOut'
<1>1. due' \in Durations \cup {0} /\ speaker' \in {"number", "idle"}
  BY DEF IInvOut, OutTypeOK, Check, Speak
<1>2. UNCHANGED <<now, clock, duration, pcm, connected, clogged, frames, encoded, wake, out, cut>>
  BY DEF Check
<1> QED
  BY <1>1, <1>2 DEF IInvOut, OutTypeOK, TimeOfNumber, LastBelow, clock, pcm

LEMMA StepTakeNumber == ASSUME IInvOut, TakeNumber PROVE IInvOut'
<1>1. /\ seqno' \in Nat /\ startTime' \in Nat /\ lastTime' \in Nat /\ stream' \in Nat
      /\ startTime' <= now /\ lastTime' = startTime' + seqno' * SequenceDuration
      /\ stream' = stream + 1 \/ (stream' = stream /\ seqno' >= seqno)
  BY NumberIsNext DEF TakeNumber
<1>2. speaker' = "fill" /\ UNCHANGED <<now, duration, pcm, connected, clogged, locals, out, cut>>
  BY DEF TakeNumber, Speak
<1>3. OutTypeOK'
  BY <1>1, <1>2 DEF IInvOut, OutTypeOK, pcm, locals
<1>4. TimeOfNumber'
  BY <1>1, <1>2 DEF TimeOfNumber
<1>5. LastBelow'
  <2>1. out \in [stream : Nat, number : Nat, upto : Nat] /\ stream \in Nat /\ seqno \in Nat
    BY DEF IInvOut, OutTypeOK
  <2>2. out.stream \in Nat /\ out.number \in Nat
    BY <2>1
  <2>3. out.stream <= stream /\ (out.stream = stream => out.number <= seqno)
    BY DEF IInvOut, LastBelow
  <2>4. out.stream <= stream' /\ (out.stream = stream' => out.number <= seqno')
    BY <1>1, <2>1, <2>2, <2>3
  <2> QED
    BY <1>2, <2>4 DEF LastBelow
<1> QED
  BY <1>3, <1>4, <1>5 DEF IInvOut

LEMMA StepFill == ASSUME IInvOut, Fill PROVE IInvOut'
<1>1. /\ speaker' \in {"get", "send"}
      /\ UNCHANGED <<now, clock, duration, pcm, connected, clogged, locals, out, cut>>
  BY DEF Fill, Speak
<1> QED
  BY <1>1 DEF IInvOut, OutTypeOK, TimeOfNumber, LastBelow, clock, pcm, locals

LEMMA StepTakeFrame == ASSUME IInvOut, TakeFrame PROVE IInvOut'
<1>1. /\ UNCHANGED <<now, clock, duration, capacity, remaining, fed, connected, clogged, out>>
      /\ OutTypeOK /\ duration \in Nat
  BY DurationsAssumption DEF TakeFrame, IInvOut, OutTypeOK
<1>2. /\ speaker' \in {"idle", "fill"} /\ cut' \in Nat /\ encoded' \in Nat
      /\ due' \in Durations \cup {0} /\ wake' \in Nat
  BY <1>1 DEF TakeFrame, Speak, Forget, OutTypeOK
<1>3. /\ buffer' \in Seq(PcmFrame) /\ Len(buffer') <= capacity
      /\ frames' \in Seq(PcmFrame)
  <2>1. buffer \in Seq(PcmFrame) /\ Len(buffer) <= capacity /\ capacity \in Nat /\ frames \in Seq(PcmFrame)
    BY <1>1 DEF OutTypeOK
  <2>2. CASE buffer = <<>>
    BY <2>1, <2>2 DEF TakeFrame, Forget
  <2>3. CASE buffer # <<>>
    <3>1. /\ Tail(buffer) \in Seq(PcmFrame) /\ Len(Tail(buffer)) = Len(buffer) - 1
          /\ Head(buffer) \in PcmFrame /\ Len(buffer) \in Nat
      BY <2>1, <2>3, HeadTailProperties
    <3>2. buffer' = Tail(buffer) /\ frames' = Append(frames, Head(buffer))
      BY <2>3 DEF TakeFrame
    <3>3. Append(frames, Head(buffer)) \in Seq(PcmFrame)
      BY <2>1, <3>1, AppendProperties
    <3> QED
      BY <2>1, <3>1, <3>2, <3>3
  <2> QED
    BY <2>2, <2>3
<1>4. OutTypeOK'
  BY <1>1, <1>2, <1>3 DEF OutTypeOK, clock
<1> QED
  BY <1>1, <1>4 DEF IInvOut, TimeOfNumber, LastBelow, clock

LEMMA StepSend == ASSUME IInvOut, SendPacket PROVE IInvOut'
<1> DEFINE upto == IF frames = <<>> THEN out.upto ELSE LastOf(LastOf(frames))
<1>1. /\ out' = [stream |-> stream, number |-> seqno, upto |-> upto]
      /\ wake' = lastTime + due /\ speaker' = "sleep" /\ frames' = <<>> /\ encoded' = 0 /\ due' = 0
      /\ UNCHANGED <<now, clock, duration, pcm, connected, clogged, cut>>
  BY DEF SendPacket, Speak, Forget
<1>2. upto \in Nat
  <2>1. frames \in Seq(PcmFrame) /\ out.upto \in Nat
    BY DEF IInvOut, OutTypeOK
  <2>2. ASSUME frames # <<>> PROVE LastOf(LastOf(frames)) \in Nat
    <3>1. Len(frames) \in 1..Len(frames)
      BY <2>1, <2>2
    <3>2. LastOf(frames) \in PcmFrame
      BY <2>1, <3>1 DEF LastOf
    <3> DEFINE f == LastOf(frames)
    <3> HIDE DEF f
    <3>3. f \in Seq(Nat) /\ f # <<>>
      BY <3>2 DEF PcmFrame, f
    <3>4. Len(f) \in 1..Len(f)
      BY <3>3
    <3> QED
      BY <3>3, <3>4 DEF LastOf, f
  <2> QED
    BY <2>1, <2>2
<1> HIDE DEF upto
<1>3. due \in Nat /\ lastTime \in Nat /\ lastTime + due \in Nat /\ stream \in Nat /\ seqno \in Nat
  BY DurationsAssumption DEF IInvOut, OutTypeOK
<1>4. out' \in [stream : Nat, number : Nat, upto : Nat]
  BY <1>1, <1>2, <1>3
<1>5. wake' \in Nat /\ due' \in Durations \cup {0} /\ frames' \in Seq(PcmFrame) /\ encoded' \in Nat
  BY <1>1, <1>3
<1>6. OutTypeOK'
  BY <1>1, <1>4, <1>5 DEF IInvOut, OutTypeOK, clock, pcm
<1>7. TimeOfNumber'
  BY <1>1 DEF IInvOut, TimeOfNumber, clock
<1>8. LastBelow'
  BY <1>1, <1>3 DEF LastBelow, clock
<1> QED
  BY <1>6, <1>7, <1>8 DEF IInvOut

LEMMA StepRaises == ASSUME IInvOut, SendRaises PROVE IInvOut'
<1>1. /\ speaker' = "idle" /\ frames' = <<>> /\ encoded' = 0 /\ due' = 0 /\ cut' = cut + 1
      /\ UNCHANGED <<now, clock, duration, pcm, connected, clogged, wake, out>>
  BY DEF SendRaises, Speak, Forget
<1> QED
  BY <1>1 DEF IInvOut, OutTypeOK, TimeOfNumber, LastBelow, clock, pcm

LEMMA StepWake == ASSUME IInvOut, Wake PROVE IInvOut'
<1>1. /\ speaker' = "check" /\ wake' = 0
      /\ UNCHANGED <<now, clock, duration, pcm, connected, clogged, due, frames, encoded, out, cut>>
  BY DEF Wake, Speak
<1> QED
  BY <1>1 DEF IInvOut, OutTypeOK, TimeOfNumber, LastBelow, clock, pcm

LEMMA StepOthers ==
    ASSUME IInvOut, (\E d \in Durations : SetDuration(d)) \/ ClearBuffer \/ Connection \/ Clog \/ Tick
    PROVE  IInvOut'
<1>1. CASE \E d \in Durations : SetDuration(d)
  BY <1>1 DEF SetDuration, IInvOut, OutTypeOK, TimeOfNumber, LastBelow, clock, pcm, locals
<1>2. CASE ClearBuffer
  <2>1. BufferTime \div duration \in Nat
    BY Quotient, ClockAssumption, DurationsAssumption DEF IInvOut, OutTypeOK
  <2>2. buffer' \in Seq(PcmFrame) /\ capacity' \in Nat /\ Len(buffer') <= capacity'
    BY <1>2, <2>1 DEF ClearBuffer
  <2> QED
    BY <1>2, <2>2 DEF ClearBuffer, IInvOut, OutTypeOK, TimeOfNumber, LastBelow, clock, locals
<1>3. CASE Connection
  BY <1>3 DEF Connection, IInvOut, OutTypeOK, TimeOfNumber, LastBelow, clock, pcm, locals
<1>4. CASE Tick
  BY <1>4 DEF Tick, IInvOut, OutTypeOK, TimeOfNumber, LastBelow, clock, pcm, locals
<1>5. CASE Clog
  BY <1>5 DEF Clog, IInvOut, OutTypeOK, TimeOfNumber, LastBelow, clock, pcm, locals
<1> QED
  BY <1>1, <1>2, <1>3, <1>4, <1>5

LEMMA Inductive == OutSpec => []IInvOut
<1>1. OutInit => IInvOut
  <2> SUFFICES ASSUME OutInit PROVE IInvOut
    OBVIOUS
  <2>1. FirstDuration \in Nat \ {0} /\ BufferTime \div FirstDuration \in Nat
    BY DurationsAssumption, ClockAssumption, Quotient
  <2>2. buffer \in Seq(PcmFrame) /\ frames \in Seq(PcmFrame) /\ remaining \in Seq(Nat) /\ Len(buffer) = 0
    BY DEF OutInit
  <2>3. OutTypeOK
    <3>1. connected \in BOOLEAN /\ clogged \in BOOLEAN
      BY DEF OutInit
    <3>2. /\ speaker = "idle" /\ duration \in Durations /\ capacity \in Nat /\ due = 0
          /\ out = [stream |-> 0, number |-> 0, upto |-> 0] /\ Len(buffer) <= capacity
      BY <2>1, <2>2, DurationsAssumption DEF OutInit
    <3>3. out \in [stream : Nat, number : Nat, upto : Nat]
      BY <3>2
    <3> QED
      BY <2>1, <2>2, <3>1, <3>2, <3>3, ClockAssumption DEF OutInit, OutTypeOK
  <2>4. 0 * SequenceDuration = 0
    BY ClockAssumption
  <2> QED
    BY <2>3, <2>4, ClockAssumption DEF OutInit, IInvOut, TimeOfNumber, LastBelow
<1>2. IInvOut /\ [OutNext]_outVars => IInvOut'
  <2> SUFFICES ASSUME IInvOut, [OutNext]_outVars PROVE IInvOut'
    OBVIOUS
  <2>1. ASSUME NEW n \in Bursts, AddPcm(n) PROVE IInvOut'
    BY <2>1, StepAddPcm
  <2>2. CASE Speaking
    BY <2>2, StepCheck, StepTakeNumber, StepFill, StepTakeFrame, StepSend, StepRaises, StepWake DEF Speaking
  <2>3. CASE (\E d \in Durations : SetDuration(d)) \/ ClearBuffer \/ Connection \/ Clog \/ Tick
    BY <2>3, StepOthers
  <2>4. CASE UNCHANGED outVars
    BY <2>4 DEF outVars, IInvOut, OutTypeOK, TimeOfNumber, LastBelow, clock, pcm, locals
  <2> QED
    BY <2>1, <2>2, <2>3, <2>4 DEF OutNext
<1> QED
  BY <1>1, <1>2, PTL DEF OutSpec

(* The buffer never holds more than its size, no frame in it or in a packet is
   empty, and the numbers and times that go on the wire are natural numbers. *)
THEOREM OutTypeCorrect == OutSpec => []OutTypeOK
<1>1. IInvOut => OutTypeOK
  BY DEF IInvOut
<1> QED
  BY <1>1, Inductive, PTL

(* Within a stream no packet has a number below that of the packet before,
   and with packets of at least what a number counts each takes a new one,
   also after a pause, when the number is computed from the clock. *)
THEOREM NumbersAlwaysGrow == OutSpec => NumbersGrow
<1> DEFINE Grows == /\ out' # out /\ out'.stream = out.stream => out'.number >= out.number
                    /\ speaker = "number" /\ speaker' # "number" /\ stream' = stream
                         /\ duration >= SequenceDuration => seqno' > seqno
<1>1. IInvOut /\ [OutNext]_outVars => [Grows]_outVars
  <2> SUFFICES ASSUME IInvOut, OutNext PROVE Grows
    BY DEF outVars, clock, pcm, locals
  <2>1. CASE TakeNumber
    <3>1. out' = out /\ UpdateSequence
      BY <2>1 DEF TakeNumber
    <3> QED
      BY <3>1, NumberIsNext
  <2>2. CASE SendPacket
    <3>1. out'.stream = stream /\ out'.number = seqno /\ speaker = "send"
      BY <2>2 DEF SendPacket
    <3>2. out \in [stream : Nat, number : Nat, upto : Nat] /\ seqno \in Nat
      BY DEF IInvOut, OutTypeOK
    <3> QED
      BY <3>1, <3>2 DEF IInvOut, LastBelow
  <2>3. CASE ~TakeNumber /\ ~SendPacket
    <3>1. out' = out /\ (speaker # "number" \/ speaker' = "number")
      BY <2>3 DEF OutNext, Speaking, AddPcm, Check, Fill, TakeFrame, SendRaises, Wake, SetDuration,
             ClearBuffer, Connection, Clog, Tick
    <3> QED
      BY <3>1
  <2> QED
    BY <2>1, <2>2, <2>3
<1>2. [Grows]_outVars => [/\ out' # out /\ out'.stream = out.stream => out'.number >= out.number
                          /\ speaker = "number" /\ speaker' # "number" /\ stream' = stream
                               /\ duration >= SequenceDuration => seqno' > seqno]_outVars
  OBVIOUS
<1> HIDE DEF Grows
<1> QED
  BY <1>1, <1>2, Inductive, PTL DEF OutSpec, NumbersGrow

(***************************************************************************)
(* The order of the samples.  What has been sent, the frames of the packet *)
(* at work, the buffer and what is left over lie one after the other in    *)
(* the sound that was handed over.                                         *)
(***************************************************************************)
Bound == fed - Len(remaining)

\* Each frame is an unbroken piece, after a and not beyond b.
Ordered(fs, a, b) ==
    /\ \A i \in DOMAIN fs : InSequence(fs[i]) /\ a < fs[i][1] /\ LastOf(fs[i]) <= b
    /\ \A i, j \in DOMAIN fs : i < j => LastOf(fs[i]) < fs[j][1]

Sorted ==
    /\ Len(remaining) <= fed /\ \A i \in DOMAIN remaining : remaining[i] = Bound + i
    /\ out.upto <= Bound
    /\ Ordered(frames, out.upto, Bound) /\ Ordered(buffer, out.upto, Bound)
    /\ \A i \in DOMAIN frames, j \in DOMAIN buffer : LastOf(frames[i]) < buffer[j][1]

LEMMA FrameEnds ==
    ASSUME NEW f \in PcmFrame
    PROVE  /\ Len(f) \in Nat \ {0} /\ DOMAIN f = 1..Len(f) /\ f[1] \in Nat /\ LastOf(f) \in Nat
           /\ InSequence(f) => LastOf(f) = f[1] + Len(f) - 1
<1>1. f \in Seq(Nat) /\ f # <<>>
  BY DEF PcmFrame
<1>2. Len(f) \in Nat \ {0} /\ DOMAIN f = 1..Len(f)
  BY <1>1
<1>3. 1 \in 1..Len(f) /\ Len(f) \in 1..Len(f)
  BY <1>2
<1>4. f[1] \in Nat /\ f[Len(f)] \in Nat
  BY <1>1, <1>2, <1>3
<1> QED
  BY <1>2, <1>3, <1>4 DEF LastOf, InSequence

LEMMA OrderedWider ==
    ASSUME NEW fs \in Seq(PcmFrame), NEW a \in Nat, NEW b \in Nat, NEW c \in Nat, Ordered(fs, a, b), b <= c
    PROVE  Ordered(fs, a, c)
<1>1. ASSUME NEW i \in DOMAIN fs PROVE LastOf(fs[i]) <= c
  <2>1. fs[i] \in PcmFrame
    OBVIOUS
  <2>2. LastOf(fs[i]) \in Nat /\ LastOf(fs[i]) <= b
    BY <2>1, FrameEnds DEF Ordered
  <2> QED
    BY <2>2
<1> QED
  BY <1>1 DEF Ordered

(* What a call to add_pcm() works on is one piece of sound. *)
LEMMA PcmOnePiece ==
    ASSUME OutTypeOK, Sorted, NEW n \in Nat
    PROVE  \E base \in Nat : /\ base >= Bound /\ base + Len(Pcm(n)) = fed + n
                             /\ \A i \in 1..Len(Pcm(n)) : Pcm(n)[i] = base + i
<1> DEFINE old == IF now - lastTime <= duration THEN remaining ELSE <<>>
           new == [i \in 1..n |-> fed + i]
           base == fed - Len(old)
<1>1. /\ remaining \in Seq(Nat) /\ fed \in Nat /\ Len(remaining) <= fed /\ Len(remaining) \in Nat
      /\ \A i \in 1..Len(remaining) : remaining[i] = fed - Len(remaining) + i
  BY DEF OutTypeOK, Sorted, Bound
<1>2. /\ old \in Seq(Nat) /\ Len(old) \in Nat /\ Len(old) <= Len(remaining)
      /\ \A i \in 1..Len(old) : old[i] = base + i
  <2>1. old = remaining \/ old = <<>>
    OBVIOUS
  <2> HIDE DEF old
  <2>2. CASE old = remaining
    BY <1>1, <2>2
  <2>3. CASE old = <<>>
    <3>1. Len(old) = 0 /\ old \in Seq(Nat)
      BY <2>3
    <3> QED
      BY <1>1, <3>1
  <2> QED
    BY <2>1, <2>2, <2>3
<1>3. Pcm(n) = old \o new
  BY Zenon DEF Pcm
<1> HIDE DEF old
<1>4. new \in Seq(Nat) /\ Len(new) = n /\ \A i \in 1..n : new[i] = fed + i
  <2>1. \A i \in 1..n : fed + i \in Nat
    BY <1>1
  <2> QED
    BY <2>1
<1> HIDE DEF new
<1>5. base \in Nat /\ base >= Bound /\ base + (Len(old) + n) = fed + n
  BY <1>1, <1>2 DEF Bound
<1>6. /\ Len(Pcm(n)) = Len(old) + n
      /\ \A i \in 1..(Len(old) + n) : Pcm(n)[i] = IF i <= Len(old) THEN old[i] ELSE new[i - Len(old)]
  <2>1. /\ Len(old \o new) = Len(old) + Len(new)
        /\ \A i \in 1..(Len(old) + Len(new)) :
             (old \o new)[i] = IF i <= Len(old) THEN old[i] ELSE new[i - Len(old)]
    BY <1>2, <1>4, ConcatProperties
  <2> QED
    BY <1>3, <1>4, <2>1
<1>7. ASSUME NEW i \in 1..Len(Pcm(n)) PROVE Pcm(n)[i] = base + i
  <2>1. CASE i <= Len(old)
    <3>1. i \in 1..Len(old) /\ Pcm(n)[i] = old[i]
      BY <1>2, <1>6, <2>1
    <3> QED
      BY <1>2, <3>1
  <2>2. CASE ~(i <= Len(old))
    <3>1. i - Len(old) \in 1..n /\ Pcm(n)[i] = new[i - Len(old)]
      BY <1>2, <1>6, <2>2
    <3>2. Pcm(n)[i] = fed + (i - Len(old))
      BY <1>4, <3>1
    <3> QED
      BY <1>1, <1>2, <3>2
  <2> QED
    BY <2>1, <2>2
<1> QED
  BY <1>5, <1>6, <1>7

(* The frames of a piece of sound lie in it one after the other. *)
LEMMA FramesOfPiece ==
    ASSUME NEW p \in Seq(Nat), NEW base \in Nat, NEW d \in Nat \ {0}, Samples = d,
           \A i \in 1..Len(p) : p[i] = base + i, NEW k \in Nat \ {0}, k * d <= Len(p)
    PROVE  /\ FrameOf(p, k) \in PcmFrame /\ InSequence(FrameOf(p, k))
           /\ FrameOf(p, k)[1] = base + (k - 1) * d + 1 /\ LastOf(FrameOf(p, k)) = base + k * d
<1> DEFINE a == (k - 1) * d
           b == k * d
           f == SubSeq(p, a + 1, b)
<1>1. a \in Nat /\ b = a + d /\ b \in Nat
  <2>1. k * d = (k - 1) * d + d
    OBVIOUS
  <2>2. (k - 1) * d \in Nat
    <3>1. k - 1 \in Nat
      OBVIOUS
    <3> QED
      BY <3>1
  <2> QED
    BY <2>1, <2>2
<1>2. FrameOf(p, k) = f
  BY Zenon DEF FrameOf
<1>3. b <= Len(p)
  OBVIOUS
<1> HIDE DEF a, b
<1>4. /\ f \in PcmFrame /\ Len(f) = d
      /\ \A i \in 1..d : f[i] = p[a + i] /\ a + i \in 1..Len(p)
  <2>1. f \in PcmFrame
    BY <1>1, <1>3, Pieces
  <2>2. Len(f) = d
    BY <1>1, <1>3
  <2>3. ASSUME NEW i \in 1..d PROVE f[i] = p[a + i] /\ a + i \in 1..Len(p)
    BY <1>1, <1>3
  <2> QED
    BY <2>1, <2>2, <2>3
<1> HIDE DEF f
<1>5. \A i \in 1..d : f[i] = base + (a + i)
  BY <1>4
<1>6. 1 \in 1..d /\ d \in 1..d /\ DOMAIN f = 1..d
  BY <1>4 DEF PcmFrame
<1>7. f[1] = base + a + 1 /\ LastOf(f) = base + b
  BY <1>1, <1>4, <1>5, <1>6 DEF LastOf
<1>8. InSequence(f)
  BY <1>1, <1>5, <1>6, <1>7 DEF InSequence
<1> QED
  BY <1>2, <1>4, <1>7, <1>8 DEF a, b

LEMMA SortedAddPcm == ASSUME IInvOut, Sorted, NEW n \in Bursts, AddPcm(n) PROVE Sorted'
<1> DEFINE p     == Pcm(n)
           whole == Len(p) \div duration
           room  == capacity - Len(buffer)
           taken == IF whole <= room THEN whole ELSE IF room > 0 THEN room ELSE 0
           more  == [k \in 1..taken |-> FrameOf(p, k)]
<1>1. n \in Nat /\ OutTypeOK /\ fed \in Nat /\ fed' = fed + n /\ duration \in Nat \ {0}
  BY BurstsAssumption, DurationsAssumption DEF AddPcm, IInvOut, OutTypeOK
<1>2. p \in Seq(Nat)
  BY <1>1, TypePcm
<1>3. PICK base \in Nat : base >= Bound /\ base + Len(p) = fed + n /\ \A i \in 1..Len(p) : p[i] = base + i
  BY <1>1, PcmOnePiece
<1>4. buffer' = buffer \o more /\ remaining' = Leftover(p)
  BY Zenon DEF AddPcm, Put, Samples
<1>5. /\ UNCHANGED <<out, frames>> /\ buffer \in Seq(PcmFrame) /\ frames \in Seq(PcmFrame)
      /\ Bound \in Nat /\ out.upto \in Nat
  BY DEF AddPcm, IInvOut, OutTypeOK, locals, Sorted, Bound
<1> HIDE DEF p
<1>6. Len(p) \in Nat /\ whole \in Nat /\ room \in Nat
  <2>1. Len(p) \in Nat
    BY <1>2
  <2>2. whole \in Nat
    BY <1>1, <2>1, Quotient
  <2>3. room \in Nat
    BY <1>1, <1>5 DEF OutTypeOK
  <2> QED
    BY <2>1, <2>2, <2>3
<1>7. taken \in Nat /\ taken <= whole
  <2> HIDE DEF whole, room
  <2> QED
    BY <1>6
<1>8. whole * duration \in Nat /\ whole * duration <= Len(p)
  BY <1>1, <1>6, AtMost
<1>9. remaining' = SubSeq(p, whole * duration + 1, Len(p)) \/ remaining' = <<>>
  BY <1>4 DEF Leftover, Samples
<1>20. ASSUME NEW k \in 1..whole PROVE k * duration \in Nat /\ k * duration <= Len(p)
  <2>1. k \in Nat /\ k <= whole
    BY <1>6
  <2> QED
    BY <1>1, <1>6, <2>1, AtMost
<1> HIDE DEF whole, room, taken
<1>10. /\ Bound' \in Nat /\ base + whole * duration <= Bound' /\ Len(remaining') <= fed'
       /\ \A i \in DOMAIN remaining' : remaining'[i] = Bound' + i
  <2>1. CASE remaining' = <<>>
    <3>1. Len(remaining') = 0 /\ DOMAIN remaining' = {}
      BY <2>1
    <3> QED
      BY <1>1, <1>3, <1>6, <1>8, <3>1 DEF Bound
  <2>2. CASE remaining' = SubSeq(p, whole * duration + 1, Len(p))
    <3> DEFINE w == whole * duration
    <3> HIDE DEF w
    <3>1. w \in Nat /\ w <= Len(p) /\ remaining' = SubSeq(p, w + 1, Len(p))
      BY <1>8, <2>2 DEF w
    <3>2. /\ Len(remaining') = Len(p) - w /\ DOMAIN remaining' = 1..(Len(p) - w)
          /\ \A i \in 1..(Len(p) - w) : remaining'[i] = p[w + i] /\ w + i \in 1..Len(p)
      BY <1>2, <1>6, <3>1
    <3>5. Bound' = fed' - Len(remaining') /\ fed' = base + Len(p)
      BY <1>1, <1>3 DEF Bound
    <3>3. Bound' = base + w /\ Len(p) - w <= fed'
      BY <1>6, <3>1, <3>2, <3>5
    <3>4. \A i \in 1..(Len(p) - w) : remaining'[i] = base + (w + i)
      BY <1>3, <3>2
    <3> QED
      BY <1>3, <3>1, <3>2, <3>3, <3>4 DEF w
  <2> QED
    BY <1>9, <2>1, <2>2
<1>11. ASSUME NEW k \in 1..taken
       PROVE  /\ more[k] \in PcmFrame /\ InSequence(more[k])
              /\ more[k][1] = base + (k - 1) * duration + 1 /\ LastOf(more[k]) = base + k * duration
              /\ Bound < more[k][1] /\ LastOf(more[k]) <= Bound'
  <2>1. k \in 1..whole /\ k \in Nat \ {0} /\ more[k] = FrameOf(p, k)
    BY <1>6, <1>7
  <2>2. k * duration \in Nat /\ k * duration <= Len(p)
    BY <1>20, <2>1
  <2>3. /\ more[k] \in PcmFrame /\ InSequence(more[k])
        /\ more[k][1] = base + (k - 1) * duration + 1 /\ LastOf(more[k]) = base + k * duration
    BY <1>1, <1>2, <1>3, <2>1, <2>2, FramesOfPiece DEF Samples
  <2>4. (k - 1) * duration \in Nat
    <3>1. k - 1 \in Nat
      BY <2>1
    <3> QED
      BY <3>1, <1>1
  <2>5. k * duration <= whole * duration
    BY <1>1, <1>6, <2>1
  <2> QED
    BY <1>3, <1>5, <1>8, <1>10, <2>2, <2>3, <2>4, <2>5
<1>12. more \in Seq(PcmFrame) /\ Len(more) = taken
  BY <1>7, <1>11
<1> HIDE DEF more
<1>13. ASSUME NEW i \in 1..taken, NEW j \in 1..taken, i < j PROVE LastOf(more[i]) < more[j][1]
  <2>1. i \in Nat /\ j - 1 \in Nat /\ i <= j - 1
    BY <1>7, <1>13
  <2>2. i * duration <= (j - 1) * duration /\ i * duration \in Nat /\ (j - 1) * duration \in Nat
    BY <1>1, <2>1
  <2> QED
    BY <1>3, <1>11, <2>2
<1> DEFINE len == Len(buffer)
<1>14. /\ len \in Nat /\ DOMAIN buffer = 1..len /\ DOMAIN buffer' = 1..(len + taken)
       /\ \A i \in 1..(len + taken) : \/ i \in 1..len /\ buffer'[i] = buffer[i]
                                      \/ i - len \in 1..taken /\ buffer'[i] = more[i - len] /\ i > len
  BY <1>4, <1>5, <1>7, <1>12
<1> HIDE DEF len
<1>15. Bound <= Bound'
  BY <1>3, <1>5, <1>8, <1>10
<1>16. ASSUME NEW i \in DOMAIN buffer
       PROVE  /\ buffer[i] \in PcmFrame /\ InSequence(buffer[i]) /\ out.upto < buffer[i][1]
              /\ LastOf(buffer[i]) \in Nat /\ LastOf(buffer[i]) <= Bound
  <2>1. buffer[i] \in PcmFrame
    BY <1>5
  <2> QED
    BY <2>1, FrameEnds DEF Sorted, Ordered
<1>17. Ordered(buffer', out.upto, Bound')
  <2>1. ASSUME NEW i \in DOMAIN buffer'
        PROVE  InSequence(buffer'[i]) /\ out.upto < buffer'[i][1] /\ LastOf(buffer'[i]) <= Bound'
    <3>1. CASE i \in 1..len /\ buffer'[i] = buffer[i]
      BY <1>5, <1>10, <1>14, <1>15, <1>16, <3>1
    <3>2. CASE i - len \in 1..taken /\ buffer'[i] = more[i - len]
      <4>1. more[i - len][1] \in Nat /\ Bound < more[i - len][1] /\ out.upto <= Bound
        BY <1>11, <3>2, FrameEnds DEF Sorted
      <4>2. out.upto < more[i - len][1]
        BY <1>5, <4>1
      <4> QED
        BY <1>11, <3>2, <4>2
    <3> QED
      BY <1>14, <2>1, <3>1, <3>2
  <2>2. ASSUME NEW i \in DOMAIN buffer', NEW j \in DOMAIN buffer', i < j
        PROVE  LastOf(buffer'[i]) < buffer'[j][1]
    <3>1. CASE i \in 1..len /\ buffer'[i] = buffer[i] /\ j \in 1..len /\ buffer'[j] = buffer[j]
      BY <1>14, <2>2, <3>1 DEF Sorted, Ordered
    <3>2. CASE i \in 1..len /\ buffer'[i] = buffer[i] /\ j - len \in 1..taken /\ buffer'[j] = more[j - len]
      <4>1. more[j - len][1] \in Nat /\ Bound < more[j - len][1]
        BY <1>11, <3>2, FrameEnds
      <4> QED
        BY <1>5, <1>14, <1>16, <3>2, <4>1
    <3>3. CASE i > len /\ j \in 1..len
      BY <1>14, <2>2, <3>3
    <3>4. CASE i - len \in 1..taken /\ buffer'[i] = more[i - len] /\ j - len \in 1..taken /\ buffer'[j] = more[j - len]
      <4>1. i - len < j - len
        BY <1>14, <2>2
      <4> QED
        BY <1>13, <3>4, <4>1
    <3> QED
      BY <1>14, <2>2, <3>1, <3>2, <3>3, <3>4
  <2> QED
    BY <2>1, <2>2 DEF Ordered
<1>18. Ordered(frames, out.upto, Bound') /\ out.upto <= Bound'
  <2>1. Ordered(frames, out.upto, Bound')
    BY <1>5, <1>10, <1>15, OrderedWider DEF Sorted
  <2>2. out.upto <= Bound
    BY DEF Sorted
  <2> QED
    BY <1>5, <1>10, <1>15, <2>1, <2>2
<1>19. ASSUME NEW i \in DOMAIN frames, NEW j \in DOMAIN buffer' PROVE LastOf(frames[i]) < buffer'[j][1]
  <2>1. CASE j \in 1..len /\ buffer'[j] = buffer[j]
    BY <1>14, <2>1 DEF Sorted
  <2>2. CASE j - len \in 1..taken /\ buffer'[j] = more[j - len]
    <3>1. more[j - len][1] \in Nat /\ Bound < more[j - len][1]
      BY <1>11, <2>2, FrameEnds
    <3>2. frames[i] \in PcmFrame
      BY <1>5
    <3>3. LastOf(frames[i]) \in Nat /\ LastOf(frames[i]) <= Bound
      BY <3>2, FrameEnds DEF Sorted, Ordered
    <3> QED
      BY <1>5, <2>2, <3>1, <3>3
  <2> QED
    BY <1>14, <2>1, <2>2
<1> QED
  BY <1>5, <1>10, <1>17, <1>18, <1>19 DEF Sorted

LEMMA SortedTakeFrame == ASSUME IInvOut, Sorted, TakeFrame PROVE Sorted'
<1>1. /\ UNCHANGED <<remaining, fed, out>> /\ Bound' = Bound
      /\ buffer \in Seq(PcmFrame) /\ frames \in Seq(PcmFrame)
  BY DEF TakeFrame, IInvOut, OutTypeOK, Bound
<1>2. CASE buffer = <<>>
  <2>1. buffer' = <<>> /\ frames' = <<>>
    BY <1>2 DEF TakeFrame, Forget
  <2> QED
    BY <1>1, <2>1 DEF Sorted, Ordered
<1>3. CASE buffer # <<>>
  <2> DEFINE len == Len(buffer)
             m   == Len(frames)
  <2>1. buffer' = Tail(buffer) /\ frames' = Append(frames, Head(buffer))
    BY <1>3 DEF TakeFrame
  <2>2. /\ len \in Nat \ {0} /\ m \in Nat /\ DOMAIN buffer = 1..len /\ DOMAIN frames = 1..m
        /\ DOMAIN buffer' = 1..(len - 1) /\ DOMAIN frames' = 1..(m + 1)
        /\ \A i \in 1..(len - 1) : buffer'[i] = buffer[i + 1] /\ i + 1 \in 1..len /\ 1 < i + 1
        /\ frames'[m + 1] = buffer[1] /\ 1 \in 1..len
        /\ \A i \in 1..m : frames'[i] = frames[i]
    BY <1>1, <1>3, <2>1
  <2> HIDE DEF len, m
  <2>3. Ordered(buffer', out.upto, Bound)
    <3>1. ASSUME NEW i \in 1..(len - 1), NEW j \in 1..(len - 1), i < j PROVE LastOf(buffer'[i]) < buffer'[j][1]
      <4>1. i + 1 < j + 1 /\ i + 1 \in DOMAIN buffer /\ j + 1 \in DOMAIN buffer
        BY <2>2, <3>1
      <4> QED
        BY <2>2, <4>1 DEF Sorted, Ordered
    <3> QED
      BY <2>2, <3>1 DEF Sorted, Ordered
  <2>4. ASSUME NEW i \in 1..(m + 1) PROVE i \in 1..m \/ i = m + 1
    BY <2>2
  <2>5. Ordered(frames', out.upto, Bound)
    <3>1. ASSUME NEW i \in 1..(m + 1)
          PROVE  InSequence(frames'[i]) /\ out.upto < frames'[i][1] /\ LastOf(frames'[i]) <= Bound
      BY <2>2, <2>4 DEF Sorted, Ordered
    <3>2. ASSUME NEW i \in 1..(m + 1), NEW j \in 1..(m + 1), i < j PROVE LastOf(frames'[i]) < frames'[j][1]
      <4>1. i \in 1..m
        BY <2>2, <3>2
      <4>2. CASE j \in 1..m
        BY <2>2, <3>2, <4>1, <4>2 DEF Sorted, Ordered
      <4>3. CASE j = m + 1
        BY <2>2, <4>1, <4>3 DEF Sorted
      <4> QED
        BY <2>4, <4>2, <4>3
    <3> QED
      BY <2>2, <3>1, <3>2 DEF Ordered
  <2>6. ASSUME NEW i \in 1..(m + 1), NEW j \in 1..(len - 1) PROVE LastOf(frames'[i]) < buffer'[j][1]
    <3>0. buffer'[j] = buffer[j + 1] /\ j + 1 \in DOMAIN buffer /\ 1 \in DOMAIN buffer /\ 1 < j + 1
      BY <2>2
    <3>1. CASE i \in 1..m
      <4>1. frames'[i] = frames[i] /\ i \in DOMAIN frames
        BY <2>2, <3>1
      <4>2. LastOf(frames[i]) < buffer[j + 1][1]
        BY <3>0, <4>1 DEF Sorted
      <4> QED
        BY <3>0, <4>1, <4>2
    <3>2. CASE i = m + 1
      <4>1. frames'[i] = buffer[1]
        BY <2>2, <3>2
      <4>2. LastOf(buffer[1]) < buffer[j + 1][1]
        BY <3>0 DEF Sorted, Ordered
      <4> QED
        BY <3>0, <4>1, <4>2
    <3> QED
      BY <2>4, <3>1, <3>2
  <2> QED
    BY <1>1, <2>2, <2>3, <2>5, <2>6 DEF Sorted
<1> QED
  BY <1>2, <1>3

LEMMA SortedSend == ASSUME IInvOut, Sorted, SendPacket PROVE Sorted'
<1>1. /\ out'.upto = (IF frames = <<>> THEN out.upto ELSE LastOf(LastOf(frames))) /\ frames' = <<>>
      /\ UNCHANGED <<buffer, remaining, fed>> /\ Bound' = Bound
      /\ buffer \in Seq(PcmFrame) /\ frames \in Seq(PcmFrame)
      /\ out.upto \in Nat
  BY DEF SendPacket, Forget, pcm, Bound, IInvOut, OutTypeOK
<1>2. Ordered(frames', out'.upto, Bound)
  BY <1>1 DEF Ordered
<1>3. CASE frames = <<>>
  BY <1>1, <1>2, <1>3 DEF Sorted
<1>4. CASE frames # <<>>
  <2>1. Len(frames) \in DOMAIN frames /\ out'.upto = LastOf(frames[Len(frames)])
    BY <1>1, <1>4 DEF LastOf
  <2>2. out'.upto <= Bound /\ \A j \in DOMAIN buffer : out'.upto < buffer[j][1]
    BY <2>1 DEF Sorted, Ordered
  <2>3. Ordered(buffer, out'.upto, Bound)
    BY <2>2 DEF Sorted, Ordered
  <2> QED
    BY <1>1, <1>2, <2>2, <2>3 DEF Sorted
<1> QED
  BY <1>3, <1>4

LEMMA InductiveSorted == OutSpec => []Sorted
<1>1. OutInit => Sorted
  BY DEF OutInit, Sorted, Ordered, Bound
<1>2. IInvOut /\ Sorted /\ [OutNext]_outVars => Sorted'
  <2> SUFFICES ASSUME IInvOut, Sorted, [OutNext]_outVars PROVE Sorted'
    OBVIOUS
  <2>1. ASSUME NEW n \in Bursts, AddPcm(n) PROVE Sorted'
    BY <2>1, SortedAddPcm
  <2>2. CASE TakeFrame
    BY <2>2, SortedTakeFrame
  <2>3. CASE SendPacket
    BY <2>3, SortedSend
  <2>4. CASE ClearBuffer
    <3>1. buffer' = <<>> /\ UNCHANGED <<remaining, fed, frames, out>>
      BY <2>4 DEF ClearBuffer, locals
    <3> QED
      BY <3>1 DEF Sorted, Ordered, Bound
  <2>5. CASE UNCHANGED <<buffer, remaining, fed, frames, out>>
    BY <2>5 DEF Sorted, Ordered, Bound
  <2>6. CASE Check \/ TakeNumber \/ Fill \/ Wake \/ (\E d \in Durations : SetDuration(d)) \/ Connection \/ Clog \/ Tick
             \/ UNCHANGED outVars
    <3>1. UNCHANGED <<buffer, remaining, fed, frames, out>>
      BY <2>6 DEF Check, TakeNumber, Fill, Wake, SetDuration, Connection, Clog, Tick, outVars, pcm, locals
    <3> QED
      BY <2>5, <3>1
  <2>7. CASE SendRaises
    <3>1. frames' = <<>> /\ UNCHANGED <<buffer, remaining, fed, out>>
      BY <2>7 DEF SendRaises, Forget, pcm
    <3> QED
      BY <3>1 DEF Sorted, Ordered, Bound
  <2> QED
    BY <2>1, <2>2, <2>3, <2>4, <2>6, <2>7 DEF OutNext, Speaking
<1> QED
  BY <1>1, <1>2, Inductive, PTL DEF OutSpec

(* What is sent is what the application handed over, each frame an unbroken
   piece of sound after all that was sent before, whatever was dropped, and
   for every size of the buffer, of the bursts and of the packets. *)
THEOREM FramesSentInOrder == OutSpec => FramesInOrder
<1> DEFINE Follows == out' # out =>
             \A k \in DOMAIN frames :
                /\ InSequence(frames[k])
                /\ frames[k][1] > IF k = 1 THEN out.upto ELSE LastOf(frames[k - 1])
<1>1. IInvOut /\ Sorted => \A k \in DOMAIN frames :
                /\ InSequence(frames[k])
                /\ frames[k][1] > IF k = 1 THEN out.upto ELSE LastOf(frames[k - 1])
  <2> SUFFICES ASSUME IInvOut, Sorted, NEW k \in DOMAIN frames
               PROVE  /\ InSequence(frames[k])
                      /\ frames[k][1] > IF k = 1 THEN out.upto ELSE LastOf(frames[k - 1])
    OBVIOUS
  <2>1. frames \in Seq(PcmFrame) /\ frames[k] \in PcmFrame /\ out.upto \in Nat
    BY DEF IInvOut, OutTypeOK
  <2>2. InSequence(frames[k]) /\ frames[k][1] > out.upto
    BY <2>1, FrameEnds DEF Sorted, Ordered
  <2>3. CASE k # 1
    <3>1. k - 1 \in DOMAIN frames /\ k - 1 < k /\ frames[k - 1] \in PcmFrame
      BY <2>1, <2>3
    <3>2. LastOf(frames[k - 1]) < frames[k][1]
      BY <3>1 DEF Sorted, Ordered
    <3> QED
      BY <2>1, <2>2, <2>3, <3>1, <3>2, FrameEnds
  <2> QED
    BY <2>2, <2>3
<1>2. IInvOut /\ Sorted /\ [OutNext]_outVars => [Follows]_outVars
  BY <1>1
<1> HIDE DEF Follows
<1>3. OutSpec => [][Follows]_outVars
  BY <1>2, Inductive, InductiveSorted, PTL DEF OutSpec
<1> QED
  BY <1>3 DEF FramesInOrder, Follows

(***************************************************************************)
(* The numbers and the clock.                                              *)
(***************************************************************************)
(* A bounded set of numbers has a greatest one. *)
LEMMA LongestIs == Longest \in Durations /\ \A d \in Durations : d <= Longest
<1> DEFINE Above(d) == {e \in Durations : e > d}
           T == {Above(d) : d \in Durations}
           R == StrictSubsetOrdering(Durations)
<1>1. IsFiniteSet(Durations)
  <2>1. Durations \in SUBSET Nat /\ ResetInterval \in Nat
    BY DurationsAssumption, ClockAssumption
  <2>2. \A d \in Durations : d <= ResetInterval
    BY <2>1, DurationsAssumption
  <2> QED
    BY <2>1, <2>2, FS_BoundedSetOfNaturals
<1>2. IsWellFoundedOn(R, SUBSET Durations)
  BY <1>1, FS_StrictSubsetOrderingWellFounded, FS_FiniteSubsetsOfFinite
<1>3. T \subseteq SUBSET Durations /\ T # {}
  BY DurationsAssumption
<1>4. \E x \in T : \A y \in T : ~(<<y, x>> \in R)
  <2> HIDE DEF T, R
  <2> QED
    BY <1>2, <1>3, WFMin
<1>5. PICK d \in Durations : \A e \in Durations : ~(<<Above(e), Above(d)>> \in R)
  BY <1>4
<1>6. ASSUME NEW e \in Durations, ~(e <= d) PROVE FALSE
  <2>1. e \in Nat /\ d \in Nat /\ e > d
    BY <1>6, DurationsAssumption
  <2>2. Above(e) \subseteq Above(d) /\ e \in Above(d) /\ e \notin Above(e)
    <3>1. ASSUME NEW x \in Durations, x > e PROVE x > d
      <4>1. x \in Nat
        BY DurationsAssumption
      <4> QED
        BY <2>1, <3>1, <4>1
    <3>2. ~(e > e)
      BY <2>1
    <3> QED
      BY <2>1, <3>1, <3>2
  <2>3. Above(e) # Above(d) /\ Above(e) \in SUBSET Durations /\ Above(d) \in SUBSET Durations
    BY <2>2
  <2> HIDE DEF Above
  <2>4. <<Above(e), Above(d)>> \in R
    BY <2>2, <2>3 DEF StrictSubsetOrdering
  <2> QED
    BY <1>5, <2>4
<1>7. \A e \in Durations : e <= d
  BY <1>6
<1> QED
  BY <1>7 DEF Longest

(* Rounding misses by half of what a number counts. *)
LEMMA RoundedNear ==
    ASSUME NEW t \in Nat
    PROVE  /\ Rounded(t) * SequenceDuration \in Nat
           /\ 2 * (Rounded(t) * SequenceDuration) <= 2 * t + SequenceDuration
           /\ 2 * t <= 2 * (Rounded(t) * SequenceDuration) + SequenceDuration
<1>1. SequenceDuration \in Nat \ {0}
  BY ClockAssumption
<1>2. PICK q \in Nat, r \in Nat : /\ q = t \div SequenceDuration /\ r = t % SequenceDuration
                                  /\ t = q * SequenceDuration + r /\ r < SequenceDuration
  BY <1>1
<1>3. q * SequenceDuration \in Nat /\ (q + 1) * SequenceDuration = q * SequenceDuration + SequenceDuration
  BY <1>1
<1>4. CASE 2 * r > SequenceDuration \/ (2 * r = SequenceDuration /\ q % 2 = 1)
  <2>1. Rounded(t) = q + 1
    BY <1>2, <1>4 DEF Rounded
  <2> QED
    BY <1>1, <1>2, <1>3, <1>4, <2>1
<1>5. CASE ~(2 * r > SequenceDuration \/ (2 * r = SequenceDuration /\ q % 2 = 1))
  <2>1. Rounded(t) = q
    BY <1>2, <1>5 DEF Rounded
  <2>2. 2 * r <= SequenceDuration
    BY <1>1, <1>2, <1>5
  <2> QED
    BY <1>1, <1>2, <1>3, <2>1, <2>2
<1> QED
  BY <1>4, <1>5

(* The numbers a packet takes do not last longer than the packet. *)
LEMMA DurationRounded ==
    ASSUME NEW d \in Durations
    PROVE  Rounded(d) * SequenceDuration <= d
<1>1. SequenceDuration \in Nat \ {0} /\ d \in Nat \ {0}
  BY ClockAssumption, DurationsAssumption
<1>2. CASE 2 * d <= SequenceDuration
  <2>1. d \div SequenceDuration = 0 /\ d % SequenceDuration = d
    <3>1. d < SequenceDuration
      BY <1>1, <1>2
    <3> QED
      BY <1>1, <3>1
  <2>2. Rounded(d) = 0
    BY <1>1, <1>2, <2>1 DEF Rounded
  <2> QED
    BY <1>1, <2>2
<1>3. CASE d % SequenceDuration = 0
  <2>1. PICK q \in Nat : q = d \div SequenceDuration /\ d = q * SequenceDuration
    BY <1>1, <1>3
  <2>2. Rounded(d) = q
    BY <1>1, <1>3, <2>1 DEF Rounded
  <2> QED
    BY <1>1, <2>1, <2>2
<1> QED
  BY <1>2, <1>3, NumbersAssumption

(* How far the time of the number may be ahead of the clock: before a packet
   takes its number by the calls that did not sleep, and by the packet until
   its sleep is over. *)
Slack == Longest + SequenceDuration
Paced ==
    /\ speaker \in {"idle", "check", "number"} => lastTime - now <= cut * Slack
    /\ speaker \in {"fill", "get", "send"} => lastTime - now <= Longest + cut * Slack
    /\ speaker = "sleep" => lastTime <= wake

LEMMA SlackIs ==
    ASSUME cut \in Nat
    PROVE  /\ Longest \in Nat /\ Slack \in Nat /\ Longest <= Slack /\ SequenceDuration <= Longest
           /\ cut * Slack \in Nat /\ (cut + 1) * Slack = cut * Slack + Slack
<1>1. Longest \in Nat /\ SequenceDuration \in Nat /\ SequenceDuration <= Longest
  BY LongestIs, DurationsAssumption, ClockAssumption, NumbersAssumption
<1>2. Slack \in Nat /\ Longest <= Slack
  BY <1>1 DEF Slack
<1> HIDE DEF Slack
<1>3. cut * Slack \in Nat /\ (cut + 1) * Slack = cut * Slack + Slack
  BY <1>2
<1> QED
  BY <1>1, <1>2, <1>3

(* Where a new number lies to the clock. *)
LEMMA NumberNear ==
    ASSUME IInvOut, UpdateSequence, lastTime - now <= cut * Slack
    PROVE  now - lastTime' < duration + SequenceDuration /\ lastTime' - now <= Longest + cut * Slack
<1>1. /\ now \in Nat /\ startTime \in Nat /\ lastTime \in Nat /\ seqno \in Nat
      /\ duration \in Durations /\ duration \in Nat \ {0} /\ startTime <= now
      /\ SequenceDuration \in Nat \ {0} /\ cut \in Nat
      /\ lastTime = startTime + seqno * SequenceDuration /\ seqno * SequenceDuration \in Nat
  BY ClockAssumption, DurationsAssumption DEF IInvOut, OutTypeOK, TimeOfNumber
<1>2. PICK l \in Nat, c \in Nat : /\ l = Longest /\ c = cut * Slack
                                  /\ duration <= l /\ SequenceDuration <= l
  BY <1>1, SlackIs, LongestIs
<1>3. CASE lastTime + ResetInterval <= now
  <2>1. lastTime' = now + 0 * SequenceDuration
    BY <1>3 DEF UpdateSequence, At
  <2> QED
    BY <1>1, <1>2, <2>1
<1>4. CASE ~(lastTime + ResetInterval <= now) /\ lastTime + 2 * duration <= now
  <2>1. PICK t \in Nat : t = now - startTime
    BY <1>1
  <2>2. lastTime' = startTime + Rounded(t) * SequenceDuration
    BY <1>4, <2>1 DEF UpdateSequence, At
  <2>3. PICK x \in Nat : /\ x = Rounded(t) * SequenceDuration
                         /\ 2 * x <= 2 * t + SequenceDuration /\ 2 * t <= 2 * x + SequenceDuration
    BY RoundedNear
  <2> QED
    BY <1>1, <1>2, <2>1, <2>2, <2>3
<1>5. CASE ~(lastTime + ResetInterval <= now) /\ ~(lastTime + 2 * duration <= now)
  <2>1. lastTime' = startTime + (seqno + Rounded(duration)) * SequenceDuration
    BY <1>5 DEF UpdateSequence, At
  <2>2. PICK x \in Nat : /\ x = Rounded(duration) * SequenceDuration /\ x <= duration
                         /\ 2 * duration <= 2 * x + SequenceDuration
    BY <1>1, RoundedNear, DurationRounded
  <2>3. (seqno + Rounded(duration)) * SequenceDuration = seqno * SequenceDuration + x
    BY <1>1, <2>2, RoundedIs
  <2>4. lastTime' = lastTime + x
    BY <1>1, <2>1, <2>2, <2>3
  <2> QED
    BY <1>1, <1>2, <1>5, <2>2, <2>4
<1> QED
  BY <1>3, <1>4, <1>5

(* A step that moves neither numbers nor cut, and time only forward. *)
LEMMA PacedStill ==
    ASSUME IInvOut, Paced, now' \in Nat, now' >= now, UNCHANGED <<lastTime, cut, wake>>,
           \/ speaker' = speaker
           \/ speaker' = "check" /\ speaker = "idle"
           \/ speaker' \in {"number", "idle"} /\ speaker = "check"
           \/ speaker' \in {"get", "send"} /\ speaker = "fill"
           \/ speaker' = "fill" /\ speaker = "get"
    PROVE  Paced'
<1>1. now \in Nat /\ lastTime \in Nat /\ cut \in Nat
  BY DEF IInvOut, OutTypeOK
<1>2. PICK l \in Nat, c \in Nat : l = Longest /\ c = cut * Slack
  BY <1>1, SlackIs
<1>3. c = cut' * Slack
  BY <1>2
<1> QED
  BY <1>1, <1>2, <1>3 DEF Paced

LEMMA PacedStep == ASSUME IInvOut, Paced, [OutNext]_outVars PROVE Paced'
<1>1. now \in Nat /\ lastTime \in Nat /\ cut \in Nat /\ wake \in Nat
  BY DEF IInvOut, OutTypeOK
<1>2. PICK l \in Nat, c \in Nat : l = Longest /\ c = cut * Slack
  BY <1>1, SlackIs
<1>3. CASE \E n \in Bursts : AddPcm(n)
  BY <1>1, <1>3, PacedStill DEF AddPcm, Speak, clock, locals
<1>4. CASE Check
  BY <1>1, <1>4, PacedStill DEF Check, Speak, clock
<1>5. CASE TakeNumber
  <2>1. lastTime - now <= cut * Slack /\ UpdateSequence /\ speaker' = "fill" /\ now' = now /\ cut' = cut
    BY <1>5 DEF TakeNumber, Paced, Speak
  <2>2. lastTime' - now <= Longest + cut * Slack
    BY <2>1, NumberNear
  <2> QED
    BY <2>1, <2>2 DEF Paced
<1>6. CASE Fill
  BY <1>1, <1>6, PacedStill DEF Fill, Speak, clock, locals
<1>7. CASE TakeFrame
  <2>1. speaker = "get" /\ now' = now /\ lastTime' = lastTime
    BY <1>7 DEF TakeFrame, clock
  <2>2. CASE buffer = <<>>
    <3>1. speaker' = "idle" /\ cut' = cut + 1
      BY <1>7, <2>2 DEF TakeFrame, Speak
    <3>2. lastTime - now <= l + c
      BY <1>2, <2>1 DEF Paced
    <3>3. PICK s \in Nat : cut' * Slack = c + s /\ l <= s
      BY <1>1, <1>2, <3>1, SlackIs
    <3>4. lastTime' - now' <= cut' * Slack
      BY <1>1, <1>2, <2>1, <3>2, <3>3
    <3> QED
      BY <3>1, <3>4 DEF Paced
  <2>3. CASE buffer # <<>>
    <3>1. speaker' = "fill" /\ UNCHANGED <<wake, cut>>
      BY <1>7, <2>3 DEF TakeFrame, Speak
    <3> QED
      BY <1>1, <2>1, <3>1, PacedStill
  <2> QED
    BY <2>2, <2>3
<1>8. CASE SendPacket
  <2>1. speaker' = "sleep" /\ wake' = lastTime + due /\ lastTime' = lastTime
    BY <1>8 DEF SendPacket, Speak, clock
  <2>2. due \in Nat
    BY DurationsAssumption DEF IInvOut, OutTypeOK
  <2> QED
    BY <1>1, <2>1, <2>2 DEF Paced
<1>9. CASE Wake
  <2>1. speaker' = "check" /\ lastTime <= wake /\ wake <= now /\ UNCHANGED <<now, lastTime, cut>>
    BY <1>1, <1>9 DEF Wake, Speak, clock, Paced
  <2>2. lastTime' - now' <= cut' * Slack
    BY <1>1, <1>2, <2>1
  <2> QED
    BY <2>1, <2>2 DEF Paced
<1>10. CASE (\E d \in Durations : SetDuration(d)) \/ ClearBuffer \/ Connection \/ Clog
  BY <1>1, <1>10, PacedStill DEF SetDuration, ClearBuffer, Connection, Clog, clock, locals
<1>11. CASE Tick
  BY <1>1, <1>11, PacedStill DEF Tick, clock, locals
<1>12. CASE UNCHANGED outVars
  BY <1>1, <1>12, PacedStill DEF outVars, clock, locals
<1>13. CASE SendRaises
  <2>1. /\ speaker = "send" /\ speaker' = "idle" /\ cut' = cut + 1
        /\ now' = now /\ lastTime' = lastTime
    BY <1>13 DEF SendRaises, Speak, clock
  <2>2. lastTime - now <= l + c
    BY <1>2, <2>1 DEF Paced
  <2>3. PICK s \in Nat : cut' * Slack = c + s /\ l <= s
    BY <1>1, <1>2, <2>1, SlackIs
  <2>4. lastTime' - now' <= cut' * Slack
    BY <1>1, <1>2, <2>1, <2>2, <2>3
  <2> QED
    BY <2>1, <2>4 DEF Paced
<1> QED
  BY <1>3, <1>4, <1>5, <1>6, <1>7, <1>8, <1>9, <1>10, <1>11, <1>12, <1>13 DEF OutNext, Speaking

(* The time of a number is never a packet behind the clock by more than what a
   number counts, and ahead of it by one packet and what the interrupted calls
   took, for all pauses and changes of duration. *)
THEOREM NumbersNearClock == OutSpec => NumbersFollowClock
<1> DEFINE Near == lastTime' # lastTime =>
                     /\ now - lastTime' < duration + SequenceDuration
                     /\ lastTime' - now <= Longest + cut * (Longest + SequenceDuration)
<1>1. OutInit => Paced
  <2> SUFFICES ASSUME OutInit PROVE Paced
    OBVIOUS
  <2>1. speaker = "idle" /\ lastTime = 0 /\ now \in Nat /\ cut = 0
    BY ClockAssumption DEF OutInit
  <2>2. cut * Slack \in Nat
    BY <2>1, SlackIs
  <2>3. lastTime - now <= cut * Slack
    BY <2>1, <2>2
  <2> QED
    BY <2>1, <2>3 DEF Paced
<1>2. IInvOut /\ Paced /\ [OutNext]_outVars => Paced'
  BY PacedStep
<1>3. IInvOut /\ Paced /\ [OutNext]_outVars => [Near]_outVars
  <2> SUFFICES ASSUME IInvOut, Paced, OutNext, lastTime' # lastTime PROVE Near
    BY DEF outVars, clock
  <2>1. TakeNumber
    BY DEF OutNext, Speaking, AddPcm, Check, Fill, TakeFrame, SendPacket, SendRaises, Wake, SetDuration,
           ClearBuffer, Connection, Clog, Tick, clock
  <2>2. UpdateSequence /\ lastTime - now <= cut * Slack
    BY <2>1 DEF TakeNumber, Paced
  <2> QED
    BY <2>2, NumberNear DEF Slack
<1>4. [Near]_outVars => [lastTime' # lastTime =>
                           /\ now - lastTime' < duration + SequenceDuration
                           /\ lastTime' - now <= Longest + cut * (Longest + SequenceDuration)]_outVars
  OBVIOUS
<1> HIDE DEF Near
<1> QED
  BY <1>1, <1>2, <1>3, <1>4, Inductive, PTL DEF OutSpec, NumbersFollowClock
=============================================================================
