---------------------------- MODULE VoiceOutput -----------------------------
(***************************************************************************)
(* The sending end of voice: class VoiceOutput of sound/voice.py with the  *)
(* settings of sound/encoder.py it reads.  One thread of the application   *)
(* calls add_pcm(), which paces the frames out in real time; other threads *)
(* may clear the buffer, change the duration of a packet, or lose the      *)
(* connection between any two steps.  What the packets go through may be   *)
(* clogged for a time or for good: the queue of the control channel full,  *)
(* or the lock of the cipher held.                                         *)
(*                                                                         *)
(* Time is counted in ticks, and one sample is the sound of one tick: a    *)
(* frame of a packet of d ticks has d samples.  Samples are numbered in    *)
(* the order the application hands them over.                              *)
(***************************************************************************)
EXTENDS Integers, Sequences

CONSTANTS SequenceDuration,  \* SEQUENCE_DURATION: what a sequence number counts
          ResetInterval,     \* SEQUENCE_RESET_INTERVAL: silence after which it starts again
          BufferTime,        \* the 2 seconds of line 17
          Durations,         \* what audio_per_packet may be set to
          FirstDuration,     \* AUDIO_PER_PACKET
          Bursts,            \* numbers of samples add_pcm() is called with
          Boot,              \* the clock when the client is made
          MaxTime, MaxFed    \* bounds: end of the pauses, samples handed over

ASSUME ClockAssumption ==
    /\ SequenceDuration \in Nat \ {0} /\ ResetInterval \in Nat /\ BufferTime \in Nat
    /\ Boot \in Nat /\ Boot >= ResetInterval /\ MaxTime \in Nat
ASSUME DurationsAssumption ==
    /\ Durations \subseteq Nat \ {0} /\ FirstDuration \in Durations
    /\ \A d \in Durations : 2 * d <= ResetInterval
\* The durations of encoder.py:90 are whole numbers of 10 ms, or at most half of it.
ASSUME NumbersAssumption ==
    /\ SequenceDuration <= FirstDuration
    /\ \A d \in Durations : d % SequenceDuration = 0 \/ 2 * d <= SequenceDuration
ASSUME BurstsAssumption == Bursts \subseteq Nat /\ MaxFed \in Nat

VARIABLES
    now,                          \* monotonic()
    startTime, lastTime,          \* _sequence_start_time, _sequence_last_time
    seqno,                        \* _sequence
    duration,                     \* the encoder's audio_per_packet
    buffer, capacity,             \* _buffer and its maxsize
    remaining,                    \* _remaining_sample
    connected,                    \* is_connected() of the control channel
    clogged,                      \* msg_queue is full, or _crypt_lock held
    speaker,                      \* where the calling thread is
    due, frames, encoded, wake,   \* locals of send_audio: audio_per_packet, audio,
                                  \* audio_encoded and the end of its sleep
    fed,                          \* history: samples handed over so far
    out,                          \* history: stream and number of the last packet, and
                                  \* the last sample sent
    stream,                       \* history: how often the numbers started again
    cut                           \* history: calls that ended before their sleep

clock     == <<startTime, lastTime, seqno, stream>>
pcm       == <<buffer, capacity, remaining, fed>>
locals    == <<due, frames, encoded, wake>>
outVars   == <<now, clock, duration, pcm, connected, clogged, speaker, locals, out, cut>>

Speak(label) == speaker' = label

OutInit ==
    /\ now = Boot /\ startTime = 0 /\ lastTime = 0 /\ seqno = 0 /\ stream = 0
    /\ duration = FirstDuration
    /\ buffer = <<>> /\ capacity = BufferTime \div FirstDuration /\ remaining = <<>>
    /\ connected = TRUE /\ clogged = FALSE /\ speaker = "idle"
    /\ due = 0 /\ frames = <<>> /\ encoded = 0 /\ wake = 0
    /\ fed = 0 /\ cut = 0
    /\ out = [stream |-> 0, number |-> 0, upto |-> 0]

(***************************************************************************)
(* add_pcm(): the samples are cut into frames; what is left over waits for *)
(* the next call, unless that comes later than a packet after the last.    *)
(***************************************************************************)
Samples == duration

\* Mutant of Pcm: what was left comes after the new samples.
PcmSwapped(n) == [i \in 1..n |-> fed + i]
                   \o (IF now - lastTime <= duration THEN remaining ELSE <<>>)

Pcm(n) == (IF now - lastTime <= duration THEN remaining ELSE <<>>)
            \o [i \in 1..n |-> fed + i]
FrameOf(p, k) == SubSeq(p, (k - 1) * Samples + 1, k * Samples)

Leftover(p) == IF Len(p) \div Samples <= capacity - Len(buffer)
               THEN SubSeq(p, (Len(p) \div Samples) * Samples + 1, Len(p))
               ELSE <<>>

\* Mutant of Put: the whole burst goes in, whatever the size of the queue.
PutAll(p) == buffer \o [k \in 1..(Len(p) \div Samples) |-> FrameOf(p, k)]

\* As many frames as there is room for; the puts do not block.
Put(p) == LET whole == Len(p) \div Samples
              room  == capacity - Len(buffer)
              taken == IF whole <= room THEN whole ELSE IF room > 0 THEN room ELSE 0
          IN  buffer \o [k \in 1..taken |-> FrameOf(p, k)]

AddPcm(n) ==
    /\ speaker = "idle" /\ connected /\ fed + n <= MaxFed
    /\ buffer' = Put(Pcm(n))
    /\ remaining' = Leftover(Pcm(n))
    /\ fed' = fed + n
    /\ Speak(IF buffer' = <<>> THEN "idle" ELSE "check")
    /\ UNCHANGED <<now, clock, duration, capacity, connected, clogged, locals, out, cut>>

(***************************************************************************)
(* send_audio()                                                            *)
(***************************************************************************)
Check ==
    /\ speaker = "check"
    /\ IF buffer # <<>> /\ connected THEN Speak("number") /\ due' = duration
                                     ELSE Speak("idle") /\ UNCHANGED due
    /\ UNCHANGED <<now, clock, duration, pcm, connected, clogged, frames, encoded, wake, out, cut>>

\* int(round(t / SEQUENCE_DURATION)): a half goes to the even side.
Rounded(t) ==
    LET q == t \div SequenceDuration
        r == t % SequenceDuration
    IN  IF 2 * r > SequenceDuration \/ (2 * r = SequenceDuration /\ q % 2 = 1)
        THEN q + 1 ELSE q

At(start, number) == /\ seqno' = number
                     /\ startTime' = start
                     /\ lastTime' = start + number * SequenceDuration

\* Mutant of UpdateSequence: a pause is counted from the last packet.
UpdateSequenceFromLast ==
    IF lastTime + ResetInterval <= now
    THEN At(now, 0) /\ stream' = stream + 1
    ELSE /\ At(startTime, IF lastTime + 2 * duration <= now
                          THEN Rounded(now - lastTime)
                          ELSE seqno + Rounded(duration))
         /\ UNCHANGED stream

\* Mutant of UpdateSequence: after a pause the numbers go on where they were.
UpdateSequenceNoPause ==
    IF lastTime + ResetInterval <= now
    THEN At(now, 0) /\ stream' = stream + 1
    ELSE At(startTime, seqno + Rounded(duration)) /\ UNCHANGED stream

\* _update_sequence(): after a silence, after a pause, and in continuous sound.
UpdateSequence ==
    IF lastTime + ResetInterval <= now
    THEN At(now, 0) /\ stream' = stream + 1
    ELSE /\ At(startTime, IF lastTime + 2 * duration <= now
                          THEN Rounded(now - startTime)
                          ELSE seqno + Rounded(duration))
         /\ UNCHANGED stream

TakeNumber ==
    /\ speaker = "number"
    /\ UpdateSequence
    /\ Speak("fill")
    /\ UNCHANGED <<now, duration, pcm, connected, clogged, locals, out, cut>>

Fill ==
    /\ speaker = "fill"
    /\ Speak(IF buffer # <<>> /\ encoded < due THEN "get" ELSE "send")
    /\ UNCHANGED <<now, clock, duration, pcm, connected, clogged, locals, out, cut>>

LastOf(s) == s[Len(s)]
\* The locals of a packet are not used again.
Forget == frames' = <<>> /\ encoded' = 0 /\ due' = 0

\* Mutant of TakeFrame: the frame is read but stays in the buffer.
TakeFramePeek ==
    /\ speaker = "get" /\ buffer # <<>>
    /\ frames' = Append(frames, Head(buffer)) /\ encoded' = encoded + duration
    /\ Speak("fill")
    /\ UNCHANGED <<now, clock, duration, pcm, connected, clogged, due, wake, out, cut>>

\* The buffer may have been replaced since it was looked at: queue.Empty ends the call.
TakeFrame ==
    /\ speaker = "get"
    /\ IF buffer = <<>>
       THEN /\ Speak("idle") /\ cut' = cut + 1
            /\ Forget /\ UNCHANGED <<buffer, wake>>
       ELSE /\ buffer' = Tail(buffer)
            /\ frames' = Append(frames, Head(buffer)) /\ encoded' = encoded + duration
            /\ Speak("fill") /\ UNCHANGED <<due, wake, cut>>
    /\ UNCHANGED <<now, clock, duration, capacity, remaining, fed, connected, clogged, out>>

\* send_packet() waits while its way is clogged.
SendPacket ==
    /\ speaker = "send" /\ ~clogged
    /\ out' = [stream |-> stream, number |-> seqno,
               upto |-> IF frames = <<>> THEN out.upto ELSE LastOf(LastOf(frames))]
    /\ wake' = lastTime + due
    /\ Speak("sleep") /\ Forget
    /\ UNCHANGED <<now, clock, duration, pcm, connected, clogged, cut>>

\* encrypt() without a key, or an error of sendto() that is not caught, ends the call.
SendRaises ==
    /\ speaker = "send" /\ ~clogged
    /\ Speak("idle") /\ Forget /\ cut' = cut + 1
    /\ UNCHANGED <<now, clock, duration, pcm, connected, clogged, wake, out>>

Wake ==
    /\ speaker = "sleep" /\ now >= wake
    /\ Speak("check") /\ wake' = 0
    /\ UNCHANGED <<now, clock, duration, pcm, connected, clogged, due, frames, encoded, out, cut>>

(***************************************************************************)
(* Other threads, and time.                                                *)
(***************************************************************************)
SetDuration(d) ==
    /\ duration' = d
    /\ UNCHANGED <<now, clock, pcm, connected, clogged, speaker, locals, out, cut>>

ClearBuffer ==
    /\ buffer' = <<>> /\ capacity' = BufferTime \div duration
    /\ UNCHANGED <<now, clock, duration, remaining, fed, connected, clogged, speaker, locals, out, cut>>

Connection ==
    /\ connected' = ~connected
    /\ UNCHANGED <<now, clock, duration, pcm, clogged, speaker, locals, out, cut>>

\* Other threads fill the queue or keep the lock, and may set either right; it is
\* told only where it is noticed.
Clog ==
    /\ speaker = "send"
    /\ clogged' = ~clogged
    /\ UNCHANGED <<now, clock, duration, pcm, connected, speaker, locals, out, cut>>

Tick ==
    /\ now < MaxTime \/ (speaker = "sleep" /\ now < wake)
    /\ now' = now + 1
    /\ UNCHANGED <<clock, duration, pcm, connected, clogged, speaker, locals, out, cut>>

Speaking == Check \/ TakeNumber \/ Fill \/ TakeFrame \/ SendPacket \/ SendRaises \/ Wake

OutNext == \/ \E n \in Bursts : AddPcm(n)
           \/ Speaking
           \/ \E d \in Durations : SetDuration(d)
           \/ ClearBuffer \/ Connection \/ Clog \/ Tick

\* The calling thread goes on, and its sleep comes to an end.
OutFairness == WF_outVars(Speaking) /\ WF_outVars(Tick)

OutSpec == OutInit /\ [][OutNext]_outVars
OutFairSpec == OutSpec /\ OutFairness

(***************************************************************************)
(* What the sender guarantees.                                             *)
(***************************************************************************)
\* No frame is empty.
PcmFrame == Seq(Nat) \ {<<>>}

(* The type invariant of the sending end of voice. *)
OutTypeOK ==
    /\ now \in Nat /\ startTime \in Nat /\ lastTime \in Nat /\ seqno \in Nat
    /\ stream \in Nat /\ duration \in Durations
    /\ buffer \in Seq(PcmFrame) /\ capacity \in Nat /\ Len(buffer) <= capacity
    /\ remaining \in Seq(Nat) /\ connected \in BOOLEAN /\ clogged \in BOOLEAN
    /\ speaker \in {"idle", "check", "number", "fill", "get", "send", "sleep"}
    /\ due \in Durations \cup {0} /\ frames \in Seq(PcmFrame) /\ encoded \in Nat
    /\ wake \in Nat /\ fed \in Nat /\ cut \in Nat /\ out \in [stream : Nat, number : Nat, upto : Nat]

(* sound/voice.py:53-71: within one stream the number of a packet is never
   below that of the packet before, although it is counted in continuous sound
   and computed from the clock after a pause; and every packet that is not
   shorter than what a number counts takes a number of its own. *)
NumbersGrow ==
    [][/\ out' # out /\ out'.stream = out.stream => out'.number >= out.number
       /\ speaker = "number" /\ speaker' # "number" /\ stream' = stream
            /\ duration >= SequenceDuration => seqno' > seqno]_outVars

Longest  == CHOOSE d \in Durations : \A e \in Durations : e <= d

(* The time a number stands for stays near the clock: a receiver that plays
   each packet at its number's time neither waits for long nor skips what is
   spoken.  It runs ahead by one packet, and by one more for each call that
   ended before its sleep, because of clear_buffer() or of an error. *)
NumbersFollowClock ==
    [][lastTime' # lastTime =>
         /\ now - lastTime' < duration + SequenceDuration
         /\ lastTime' - now <= Longest + cut * (Longest + SequenceDuration)]_outVars

InSequence(f) == \A i \in DOMAIN f : f[i] = f[1] + i - 1

(* What is sent is what the application handed over, in that order: each frame
   is an unbroken piece of sound, and comes after all that was sent before,
   whatever was dropped in between because the buffer was full, was cleared, or
   the rest of a burst was too old. *)
FramesInOrder ==
    [][out' # out =>
         \A k \in DOMAIN frames :
            /\ InSequence(frames[k])
            /\ frames[k][1] > IF k = 1 THEN out.upto ELSE LastOf(frames[k - 1])]_outVars

(* add_pcm() comes back to the application, whatever other threads do to the
   buffer, the duration and the connection, if what it sends through does not
   stay clogged: then the loop of send_audio() and its sleeps end.  The put of
   control.py:350 and the acquire of voice.py:114 have no timeout, so that the
   call stays in send_packet() for as long as the queue is full or the lock is
   held. *)
CallReturns == <>[]~clogged => (speaker # "idle" ~> speaker = "idle")
=============================================================================
