----------------------------- MODULE VoiceInput -----------------------------
(***************************************************************************)
(* A voice packet of the protocol before 1.5: how AudioData of             *)
(* network/udp_data.py writes it, and how Mumble._legacy_sound_received    *)
(* reads what the server passes on, on the thread that received it         *)
(* (a listener of VoiceStack, or Control:Listen for a tunnelled packet).   *)
(***************************************************************************)
EXTENDS VarInt, FiniteSets, SequencesExt

CONSTANTS Sessions,   \* sessions packets come from, as VarInts
          Known,      \* those self.users has
          Numbers,    \* sequence numbers, as VarInts
          Lengths,    \* lengths of encoded frames
          Overwritten \* what `packet` is once a frame has been heard: an OpusPacket

ASSUME PacketAssumption == /\ Sessions \subseteq VarInts /\ Known \subseteq Sessions
                           /\ Numbers \subseteq VarInts /\ Lengths \subseteq 0..8191
\* An OpusPacket is an object, and no bytes.
ASSUME OverwrittenAssumption == Overwritten \notin Seq(Byte)

VARIABLES
    reader,      \* "idle", "header", "frame", or "ended" by an exception
    packet, pos, terminator,
    session, sequence, target,
    ahead,       \* how often sequence.value was incremented
    heard,       \* the frames given to on_sound_received
    audio        \* history: what the packet was made from, and the session that sent it

inputVars == <<reader, packet, pos, terminator, session, sequence, target, ahead, heard, audio>>

\* A number below 2^16 as a VarInt.
Small(n) == [neg |-> FALSE, mag |-> <<0, 0, 0, 0, 0, 0, n \div 256, n % 256>>]

(***************************************************************************)
(* The sender.  The bytes of the k-th frame are all k.                     *)
(***************************************************************************)
OPUS == 4
CELT == 0

FrameBytes(k, n) == [i \in 1..n |-> k]

\* Mutant of Chunk: the length is written without its VarInt.
ChunkRaw(k, n) == <<n>> \o FrameBytes(k, n)

\* add_chunk(); the official client marks the last packet of a transmission with 0x2000.
Chunk(k, n)  == Encode(Small(n)) \o FrameBytes(k, n)
MarkedChunk(k, n) == Encode(Small(n + 8192)) \o FrameBytes(k, n)
\* CELT and SPEEX: the top bit says that another frame follows.
OldChunk(k, n, more) == <<(IF more THEN 128 ELSE 0) + n>> \o FrameBytes(k, n)

Payload(a) ==
    FlattenSeq([k \in DOMAIN a.frames |->
        IF a.codec # OPUS THEN OldChunk(k, a.frames[k], k < Len(a.frames))
        ELSE IF a.marked THEN MarkedChunk(k, a.frames[k])
        ELSE Chunk(k, a.frames[k])])

\* legacy_udp_packet, with the session the server puts in.
LegacyPacket(a) ==
    <<a.codec * 32 + a.target>> \o Encode(a.session) \o Encode(a.sequence) \o Payload(a)
      \o (IF a.positional THEN [i \in 1..12 |-> 0] ELSE <<>>)

\* What a speaker sends; the frames of the old codecs have 7 bits for their length.
AudioData ==
    {a \in [codec : {OPUS, CELT}, target : {31}, session : Sessions, sequence : Numbers,
            frames : {<<n>> : n \in Lengths} \cup (Lengths \X Lengths),
            marked : BOOLEAN, positional : BOOLEAN] :
        a.codec = CELT => ~a.marked /\ \A k \in DOMAIN a.frames : a.frames[k] < 128}

(***************************************************************************)
(* The receiver.                                                           *)
(***************************************************************************)
InputInit ==
    /\ reader = "idle" /\ packet = <<>> /\ pos = 0 /\ terminator = FALSE
    /\ session = Small(0) /\ sequence = Small(0) /\ target = 0 /\ ahead = 0
    /\ heard = {} /\ audio = [frames |-> <<>>]

Arrive(a) ==
    /\ reader = "idle"
    /\ reader' = "header" /\ packet' = LegacyPacket(a) /\ audio' = a
    /\ heard' = {}
    /\ UNCHANGED <<pos, terminator, session, sequence, target, ahead>>

From(p) == SubSeq(packet, p + 1, Len(packet))
Ends    == reader' = "ended"

\* _dispatch_legacy_voice_message, and _legacy_sound_received up to its loop.
ReadHeader ==
    /\ reader = "header"
    /\ LET body == Decode(From(1))
           next == Decode(From(1 + body.size))
       IN  IF body = Invalid \/ next = Invalid
           THEN Ends /\ UNCHANGED <<pos, terminator, session, sequence, target, ahead>>
           ELSE /\ reader' = "frame"
                /\ session' = body.value /\ sequence' = next.value
                /\ target' = packet[1] % 32
                /\ pos' = 1 + body.size + next.size
                /\ terminator' = FALSE /\ ahead' = 0
    /\ UNCHANGED <<packet, heard, audio>>

Codec == packet[1] \div 32

\* The low 16 bits of a number, which is all the masks 0x2000 and 0x1FFF look at.
Low16(v) == LET n == v.mag[7] * 256 + v.mag[8]
            IN  IF v.neg THEN (65536 - n) % 65536 ELSE n

\* Mutant of FrameAt: the length's own bytes are not passed over.
FrameAtUnmoved ==
    LET size == Decode(From(pos))
    IN  IF size = Invalid THEN Invalid
        ELSE [start |-> pos, size |-> Low16(size.value) % 8192,
              last |-> (Low16(size.value) \div 8192) % 2 = 0]

\* Where the next frame begins, how long it is, and whether it is taken for the last.
FrameAt ==
    IF Codec = OPUS
    THEN LET size == Decode(From(pos))
         IN  IF size = Invalid THEN Invalid
             ELSE [start |-> pos + size.size, size |-> Low16(size.value) % 8192,
                   last |-> (Low16(size.value) \div 8192) % 2 = 0]
    ELSE [start |-> pos + 1, size |-> packet[pos + 1] % 128, last |-> packet[pos + 1] < 128]

AtEnd(p) == IF p < Len(packet) THEN p ELSE Len(packet)
Frame(f) == [session |-> session, sequence |-> sequence, ahead |-> ahead, target |-> target,
             data |-> SubSeq(packet, f.start + 1, AtEnd(f.start + f.size))]

\* Mutant of Play: the last frame is taken for the end mark alone.
PlayUnlessLast(f) ==
    IF f.size > 0 /\ ~f.last /\ session \in Known /\ Codec = OPUS
    THEN heard' = heard \cup {Frame(f)} /\ packet' = Overwritten /\ ahead' = ahead + 1
    ELSE UNCHANGED <<heard, packet, ahead>>

\* The frame at f is heard if its user and codec are known; an OpusPacket takes the packet's place.
Play(f) ==
    IF f.size > 0 /\ session \in Known /\ Codec = OPUS
    THEN heard' = heard \cup {Frame(f)} /\ packet' = Overwritten /\ ahead' = ahead + 1
    ELSE UNCHANGED <<heard, packet, ahead>>

ReadFrame ==
    /\ reader = "frame" /\ packet # Overwritten
    /\ pos < Len(packet) /\ ~terminator
    /\ IF FrameAt = Invalid THEN Ends /\ UNCHANGED <<pos, terminator, ahead, packet, heard>>
       ELSE /\ terminator' = FrameAt.last
            /\ pos' = FrameAt.start + FrameAt.size
            /\ Play(FrameAt) /\ UNCHANGED reader
    /\ UNCHANGED <<session, sequence, target, audio>>

\* The guard of the loop takes len() of an OpusPacket, which has none.
LenOfObject == /\ reader = "frame" /\ packet = Overwritten
               /\ Ends
               /\ UNCHANGED <<packet, pos, terminator, session, sequence, target, ahead, heard,
                              audio>>

Handled == /\ reader = "frame" /\ packet # Overwritten
           /\ pos >= Len(packet) \/ terminator
           /\ reader' = "idle"
           /\ UNCHANGED <<packet, pos, terminator, session, sequence, target, ahead, heard, audio>>

InputNext == \/ \E a \in AudioData : Arrive(a)
             \/ ReadHeader \/ ReadFrame \/ LenOfObject \/ Handled

InputSpec == InputInit /\ [][InputNext]_inputVars

(***************************************************************************)
(* What the reader guarantees.                                             *)
(***************************************************************************)
\* The frames of the packet before k that have anything in them.
NonemptyBefore(k) == Cardinality({j \in 1..k-1 : audio.frames[j] > 0})

(* Whatever is given to the application is a whole frame of the packet, with
   the session, target and sequence number it was sent with: the two ends
   agree on every length and position in the packet. *)
HeardAsSent ==
    \A h \in heard :
        /\ audio.session \in Known /\ audio.codec = OPUS
        /\ \E k \in DOMAIN audio.frames :
              h = [session |-> audio.session, sequence |-> audio.sequence,
                   ahead |-> NonemptyBefore(k), target |-> audio.target,
                   data |-> FrameBytes(k, audio.frames[k])]

(* The first frame of a packet of a known user is heard, even though the
   reader then ends with an exception: a client of this library sends one
   frame per packet, so that no voice is lost to the reader alone. *)
FirstFrameHeard ==
    reader \in {"idle", "ended"} /\ audio.frames # <<>> /\ audio.session \in Known
      /\ audio.codec = OPUS /\ audio.frames[1] > 0 =>
        \E h \in heard : h.data = FrameBytes(1, audio.frames[1])

(* README.md:16: the old protocol is supported, so that the thread which
   reads a packet of it goes on. *)
ListenerSurvives == reader # "ended"

(***************************************************************************)
(* Why both ends agree (VoiceInputProofs has the proofs): until a frame is *)
(* heard the reader has passed whole, empty frames of the packet.          *)
(***************************************************************************)
Header(a)     == <<a.codec * 32 + a.target>> \o Encode(a.session) \o Encode(a.sequence)
ChunkOf(a, k) == IF a.marked THEN MarkedChunk(k, a.frames[k]) ELSE Chunk(k, a.frames[k])

\* Frames this reader passes on at all.
Passed(a) == a.session \in Known /\ a.codec = OPUS

\* An unmarked frame ends the packet for the reader; after it, and after zeros
\* that are taken for a frame, terminator is set.
AtFrame ==
    \/ pos = Len(Header(audio)) /\ ~terminator
    \/ audio.frames[1] = 0 /\ terminator
    \/ audio.frames[1] = 0 /\ ~terminator /\ pos = Len(Header(audio) \o ChunkOf(audio, 1))
    \/ audio.frames[1] = 0 /\ ~terminator /\ pos = Len(Header(audio) \o Payload(audio))

Reading == reader = "frame" /\ packet # Overwritten

ReadingOK ==
    Reading => /\ packet = LegacyPacket(audio) /\ heard = {} /\ ahead = 0
               /\ session = audio.session /\ sequence = audio.sequence /\ target = audio.target
               /\ Passed(audio) => AtFrame

AudioOK == IF audio \in AudioData THEN reader = "header" => packet = LegacyPacket(audio) /\ heard = {}
           ELSE reader = "idle" /\ heard = {} /\ audio.frames = <<>>

FirstHeard ==
    reader # "header" /\ ~Reading /\ audio \in AudioData /\ Passed(audio) /\ audio.frames[1] > 0 =>
      \E h \in heard : h.data = FrameBytes(1, audio.frames[1])

InputInv == AudioOK /\ ReadingOK /\ FirstHeard /\ HeardAsSent
=============================================================================
