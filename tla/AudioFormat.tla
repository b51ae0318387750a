------------------------------ MODULE AudioFormat ------------------------------
(***************************************************************************)
(* The client's audio made canonical, PCM16 at 16 kHz in one channel       *)
(* (pkg/audio/normalize.go, resample.go): G.711 codes are decoded,         *)
(* channels are averaged, and the result is resampled by linear            *)
(* interpolation.  ProcessAudioChunk goes on with the original bytes when  *)
(* that fails (session_handler.go:185-191).                                *)
(*                                                                         *)
(* Samples are 16 bits wide, sums 32.  Rates are in units of 50 Hz.  The   *)
(* code's floating point is exact arithmetic here: where its last bit is   *)
(* short of a whole number, the code's sample is the one next to it.       *)
(***************************************************************************)
EXTENDS Integers, SequencesExt

CONSTANTS Sample,    \* the PCM16 samples a client sends
          Code,      \* the G.711 codes a client sends
          Rate,      \* its sampling rates
          MaxSamples \* bound: samples or codes in one chunk

MaxInt16 == 32767
Word     == -MaxInt16 - 1 .. MaxInt16 \* what a sample of 16 bits can be
Octet    == 0 .. 255                  \* and a code

ASSUME AudioAssumption ==
  /\ Sample \subseteq Word /\ Code \subseteq Octet
  /\ Rate \subseteq Nat \ {0} /\ MaxSamples \in Nat

InternalRate == 320 \* 16 kHz
Profile == [encoding : {"PCM16", "ulaw", "alaw", "opus"}, channels : 1 .. 2, rate : Rate]

\* A chunk: its samples or codes, and whether a byte is left over after them.
NoChunk == [values |-> <<>>, half |-> FALSE]
Chunk(p) ==
  LET pcm == p.encoding = "PCM16"
  IN [values : BoundedSeq(IF pcm THEN Sample ELSE Code, MaxSamples),
      half   : IF pcm THEN BOOLEAN ELSE {FALSE}]

VARIABLES profile,    \* what the chunk's sender says it is
          given,      \* the chunk
          normalized \* what the handler works with

audioVars == <<profile, given, normalized>>

Silence   == [error |-> FALSE, chunk |-> NoChunk]
Canonical == [encoding |-> "PCM16", channels |-> 1, rate |-> InternalRate]
AudioInit == profile = Canonical /\ given = NoChunk /\ normalized = Silence

--------------------------------------------------------------------------------
\* Decoding G.711: sign, segment and quantum of a code whose bits are put right.
Wrap16(n)   == ((n + 32768) % 65536) - 32768
Negative(c) == c >= 128
Segment(c)  == (c \div 16) % 8
Quant(c)    == c % 16

ulawDecode(u) ==
  LET c == 255 - u
      n == IF Segment(c) = 0 THEN 2 * Quant(c) + 1
                             ELSE Wrap16((33 + Quant(c)) * 2 ^ (Segment(c) + 2))
  IN IF Negative(c) THEN Wrap16(-n) ELSE n

\* Every other bit of an A-law code is inverted: a ^ 0x55.
EveryOtherBit(a) ==
  LET Bit(b) == b * ((a \div b) % 2) IN a + 85 - 2 * (Bit(1) + Bit(4) + Bit(16) + Bit(64))

alawDecode(a) ==
  LET c == EveryOtherBit(a)
      n == IF Segment(c) = 0 THEN 16 * Quant(c) + 8
                             ELSE Wrap16((16 + Quant(c)) * 2 ^ (Segment(c) + 3))
  IN Wrap16(IF Negative(c) THEN -n - 8 ELSE n + 8)

ulawToPCM16(codes) == [i \in DOMAIN codes |-> ulawDecode(codes[i])]
alawToPCM16(codes) == [i \in DOMAIN codes |-> alawDecode(codes[i])]

\* Step 1: a code becomes a sample, so that no byte is left over.
ConvertEncoding(chunk, encoding) ==
  CASE encoding = "ulaw" -> [chunk EXCEPT !.values = ulawToPCM16(@)]
    [] encoding = "alaw" -> [chunk EXCEPT !.values = alawToPCM16(@)]
    [] OTHER             -> chunk

\* Step 2: an average rounded towards zero; an incomplete frame is dropped.
Quotient(a, b) == IF a >= 0 THEN a \div b ELSE -((-a) \div b)
AcrossChannels(values, i, channels) == SubSeq(values, (i - 1) * channels + 1, i * channels)
Sum(values) ==
  LET sum[ch \in 0 .. Len(values)] == IF ch = 0 THEN 0 ELSE sum[ch - 1] + values[ch]
  IN sum[Len(values)]

\* Mutation: the channels are summed in 16 bits.
ConvertToMono16(chunk, channels) ==
  IF channels = 1 THEN chunk
  ELSE [values |-> [i \in 1 .. Len(chunk.values) \div channels |->
                      Quotient(Wrap16(Sum(AcrossChannels(chunk.values, i, channels))),
                               channels)],
        half   |-> FALSE]

ConvertToMono(chunk, channels) ==
  IF channels = 1 THEN chunk
  ELSE [values |-> [i \in 1 .. Len(chunk.values) \div channels |->
                      Quotient(Sum(AcrossChannels(chunk.values, i, channels)), channels)],
        half   |-> FALSE]

\* Step 3: a value on the line between the samples about the output's instant,
\* that of the last sample beyond its instant.
Before(i, from, to) == ((i - 1) * from) \div to + 1

Interpolate(values, i, from, to) ==
  LET k    == Before(i, from, to)
      past == ((i - 1) * from) % to
  IN IF k >= Len(values) THEN values[Len(values)]
     ELSE Quotient(values[k] * to + past * (values[k + 1] - values[k]), to)

Resample(values, from, to) ==
  [i \in 1 .. (Len(values) * to) \div from |-> Interpolate(values, i, from, to)]

Fails == [error |-> TRUE, chunk |-> NoChunk]
Done(chunk) == [error |-> FALSE, chunk |-> chunk]

Normalized(chunk, p) ==
  LET mono == ConvertToMono(ConvertEncoding(chunk, p.encoding), p.channels)
  IN IF p = Canonical THEN Done(chunk)
     ELSE IF p.encoding = "opus" THEN Fails
     ELSE IF p.rate = InternalRate THEN Done(mono)
     ELSE IF mono.half THEN Fails
     ELSE Done([values |-> Resample(mono.values, p.rate, InternalRate), half |-> FALSE])

\* A chunk is received.  On an error the handler goes on with the chunk as it came.
NormalizeChunk ==
  /\ profile = Canonical /\ given = NoChunk
  /\ profile' \in Profile
  /\ given' \in Chunk(profile')
  /\ LET result == Normalized(given', profile')
     IN normalized' = IF result.error THEN [result EXCEPT !.chunk = given'] ELSE result

NextChunk == profile' = Canonical /\ given' = NoChunk /\ normalized' = Silence

AudioNext == NormalizeChunk \/ NextChunk
AudioSpec == AudioInit /\ [][AudioNext]_audioVars

--------------------------------------------------------------------------------
AudioTypeOK ==
  /\ profile \in Profile \cup {Canonical}
  /\ normalized.error => normalized.chunk = given
  /\ ToSet(normalized.chunk.values) \subseteq Word

\* The samples of both frames about the instant of output sample i.
Neighbours(i) ==
  LET decoded == ConvertEncoding(given, profile.encoding).values
      frames  == Len(decoded) \div profile.channels
      k       == Before(i, profile.rate, InternalRate)
  IN UNION {ToSet(AcrossChannels(decoded, j, profile.channels)) : j \in {k, k + 1} \cap 1 .. frames}

\* What a code of G.711 says, from its bits: how loud it is, and on which side.
Bits(c) == IF profile.encoding = "ulaw" THEN 255 - c ELSE EveryOtherBit(c)
Louder(c, d) == Negative(Bits(c)) = Negative(Bits(d)) /\ Bits(c) > Bits(d)
Decoded(c) == IF profile.encoding = "ulaw" THEN ulawDecode(c) ELSE alawDecode(c)

\* Whatever the encoding, the rate and the number of channels, the canonical audio
\* lasts as long as what was sent, to within a sample; each of its samples lies
\* between those sent about its instant, so that nothing overflows, overshoots or
\* slips by a sample; and a louder code is a sample further out on the same side
\* (normalize.go:31-158, 271-309, resample.go:26-84).
NormalizedKeepsSound ==
  ~normalized.error =>
    LET out    == normalized.chunk.values
        frames == Len(given.values) \div profile.channels
    IN /\ frames * InternalRate - Len(out) * profile.rate \in 0 .. profile.rate - 1
       /\ \A i \in DOMAIN out : \E a, b \in Neighbours(i) : a <= out[i] /\ out[i] <= b
       /\ profile.encoding # "PCM16" =>
            \A c, d \in ToSet(given.values) :
              Louder(c, d) => IF Negative(Bits(c)) THEN Decoded(c) < Decoded(d)
                                                   ELSE Decoded(c) > Decoded(d)
================================================================================
