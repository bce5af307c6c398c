-------------------------- MODULE TextDecodingProofs --------------------------
(***************************************************************************)
(* Whatever bytes are decoded in whatever calls: only code points of       *)
(* characters come out; the strings of all calls of a stream are the text  *)
(* that its bytes are; and a text without errors can be encoded again.     *)
(* For every set of bytes and every inputs, of any length.                 *)
(*                                                                         *)
(* The first is about the decoder alone: Pending says what the bytes seen  *)
(* so far leave possible.  The second relates it to the definition of      *)
(* decoding: a byte is good after those read exactly if some character     *)
(* begins with them (BeginsIsGood), Amid says what the decoder holds of    *)
(* the bytes it has read (HandlerOutcome), and StreamInv is the invariant. *)
(* The recursions of the definitions are scans of a sequence, from the     *)
(* left in steps of one to four: that a scan exists, and what it yields    *)
(* further to the right, is shown once.                                    *)
(***************************************************************************)
EXTENDS TextDecoding, SequenceTheorems, TLAPS

Characters == {c \in Nat : IsScalar(c)}

Byte == 0..255

Inv == TypeOK /\ Pending(decoder) /\ output \in Seq(Characters)

-----------------------------------------------------------------------------
(* What the bits of a byte are, as far as the decoder uses them. *)
LEMMA LowBits ==
    ASSUME NEW byte \in Byte
    PROVE  /\ byte \in 128..191 => byte % 64 = byte - 128
           /\ byte \in 194..223 => byte % 32 = byte - 192
           /\ byte \in 224..239 => byte % 16 = byte - 224
           /\ byte \in 240..244 => byte % 8 = byte - 240
  BY SMT DEF Byte

\* The decoder a stream begins with.
LEMMA InitialPending == Initial \in Decoder /\ Pending(Initial)
  BY DEF Initial, Decoder, Pending

\* A code point that is neither too great nor a surrogate.
LEMMA IsCharacter ==
    ASSUME NEW c \in Nat, c <= 1114111, c < 55296 \/ c > 57343
    PROVE  c \in Characters
  <1>1. IsScalar(c)
    BY SMTT(30) DEF IsScalar, Surrogate
  <1> QED
    BY <1>1 DEF Characters

\* What an error is shown as.
LEMMA ReplacementIsCharacter == Replacement \in Characters
  BY IsCharacter, SMT DEF Replacement

\* What every result of the handler is.
Sound(result) ==
    /\ result.decoder \in Decoder
    /\ Pending(result.decoder)
    /\ result.emitted \in Seq(Characters)

\* Nothing is emitted.
LEMMA ContinueIsSound ==
    ASSUME NEW d \in Decoder, Pending(d)
    PROVE  Sound(Continue(d))
  <1>1. <<>> \in Seq(Characters)
    OBVIOUS
  <1> QED
    BY <1>1 DEF Sound, Continue

\* A character is emitted.
LEMMA EmitIsSound ==
    ASSUME NEW d \in Decoder, Pending(d), NEW c \in Characters
    PROVE  Sound(Emit(d, c))
  <1>1. <<c>> \in Seq(Characters)
    OBVIOUS
  <1>2. Emit(d, c).decoder = d /\ Emit(d, c).emitted = <<c>>
    BY DEF Emit
  <1> QED
    BY <1>1, <1>2 DEF Sound

\* An error is emitted as its replacement.
LEMMA ErrorIsSound ==
    ASSUME NEW d \in Decoder, Pending(d)
    PROVE  Sound(ErrorAfter(d)) /\ Sound(ErrorBefore(d))
  <1>1. <<Replacement>> \in Seq(Characters)
    BY ReplacementIsCharacter
  <1> QED
    BY <1>1 DEF Sound, ErrorAfter, ErrorBefore

\* What it may wait for: the second byte, or a later one.
Awaited(needed, seen, c, lower, upper) ==
    /\ needed \in 1..3 /\ seen \in 0..2 /\ c \in Nat /\ seen < needed
    /\ lower \in {128, 144, 160} /\ upper \in {143, 159, 191}
    /\ needed = 1 => lower = 128 /\ upper = 191 /\ 2 <= c /\ c <= 31
    /\ seen > 0 => lower = 128 /\ upper = 191
    /\ needed = 2 /\ seen = 0 =>
          /\ c <= 15
          /\ c = 0 => lower = 160
          /\ c = 13 => upper = 159
    /\ needed = 2 /\ seen = 1 => (32 <= c /\ c <= 863) \/ (896 <= c /\ c <= 1023)
    /\ needed = 3 /\ seen = 0 =>
          /\ c <= 4
          /\ c = 0 => lower = 144
          /\ c = 4 => upper = 143
    /\ needed = 3 /\ seen = 1 => 16 <= c /\ c <= 271
    /\ needed = 3 /\ seen = 2 => 1024 <= c /\ c <= 17407

\* What is awaited leaves the decoder pending.
LEMMA AwaitIsSound ==
    ASSUME NEW needed, NEW seen, NEW c, NEW lower, NEW upper,
           Awaited(needed, seen, c, lower, upper)
    PROVE  Sound(Await(needed, seen, c, lower, upper))
  <1> DEFINE d == [codePoint |-> c, seen |-> seen, needed |-> needed,
                   lower |-> lower, upper |-> upper]
  <1>1. c \in Nat /\ needed \in 0..3 /\ needed # 0 /\ seen \in 0..2
    BY DEF Awaited
  <1>2. lower \in {128, 144, 160} /\ upper \in {143, 159, 191}
    BY DEF Awaited
  <1>3. d \in Decoder
    BY <1>1, <1>2 DEF Decoder
  <1>4. /\ d.codePoint = c /\ d.seen = seen /\ d.needed = needed
        /\ d.lower = lower /\ d.upper = upper
    OBVIOUS
  <1>5. Await(needed, seen, c, lower, upper) = Continue(d)
    BY DEF Await
  <1> HIDE DEF d
  <1>6. Pending(d)
    <2>1. d.needed = 0 => d = Initial
      BY <1>1, <1>4
    <2>2. /\ d.needed # 0 => d.seen < d.needed
          /\ (d.needed = 1 \/ d.seen > 0) => d.lower = 128 /\ d.upper = 191
          /\ d.needed = 1 => d.codePoint \in 2..31
      BY <1>1, <1>4 DEF Awaited
    <2>3. d.needed = 2 /\ d.seen = 0 =>
             /\ d.codePoint \in 0..15 /\ d.lower >= 128 /\ d.upper <= 191
             /\ d.codePoint = 0 => d.lower = 160
             /\ d.codePoint = 13 => d.upper = 159
      BY <1>1, <1>2, <1>4 DEF Awaited
    <2>4. d.needed = 2 /\ d.seen = 1 => d.codePoint \in (32..863) \cup (896..1023)
      BY <1>1, <1>4 DEF Awaited
    <2>5. d.needed = 3 /\ d.seen = 0 =>
             /\ d.codePoint \in 0..4 /\ d.lower >= 128 /\ d.upper <= 191
             /\ d.codePoint = 0 => d.lower = 144
             /\ d.codePoint = 4 => d.upper = 143
      BY <1>1, <1>2, <1>4 DEF Awaited
    <2>6. d.needed = 3 /\ d.seen = 1 => d.codePoint \in 16..271
      BY <1>1, <1>4 DEF Awaited
    <2>7. d.needed = 3 /\ d.seen = 2 => 1024 <= d.codePoint /\ d.codePoint <= 17407
      BY <1>1, <1>4, SMT DEF Awaited
    <2> QED
      BY <2>1, <2>2, <2>3, <2>4, <2>5, <2>6, <2>7, SMT DEF Pending
  <1> QED
    BY <1>3, <1>5, <1>6, ContinueIsSound

-----------------------------------------------------------------------------
(* The first byte of a character, or one that can be none. *)
LEMMA LeadIsSound ==
    ASSUME NEW d \in Decoder, Pending(d), d.needed = 0, NEW byte \in Byte
    PROVE  Sound(lead(d, byte))
  <1>1. d.seen = 0 /\ d.lower = 128 /\ d.upper = 191
    BY DEF Pending, Initial
  <1>2. CASE byte \in 0..127
    <2>1. byte \in Characters
      BY <1>2, IsCharacter
    <2>2. lead(d, byte) = Emit(d, byte)
      BY <1>2 DEF lead
    <2> QED
      BY <2>1, <2>2, EmitIsSound
  <1>3. CASE byte \in 194..223
    <2>1. lead(d, byte) = Await(1, 0, byte - 192, 128, 191)
      BY <1>1, <1>3, LowBits DEF lead
    <2>2. Awaited(1, 0, byte - 192, 128, 191)
      BY <1>3 DEF Awaited
    <2> QED
      BY <2>1, <2>2, AwaitIsSound
  <1>4. CASE byte \in 224..239
    <2> DEFINE lower == IF byte = 224 THEN 160 ELSE 128
               upper == IF byte = 237 THEN 159 ELSE 191
    <2>1. lead(d, byte) = Await(2, 0, byte - 224, lower, upper)
      BY <1>1, <1>4, LowBits DEF lead
    <2>2. Awaited(2, 0, byte - 224, lower, upper)
      BY <1>4 DEF Awaited
    <2> HIDE DEF lower, upper
    <2> QED
      BY <2>1, <2>2, AwaitIsSound
  <1>5. CASE byte \in 240..244
    <2> DEFINE lower == IF byte = 240 THEN 144 ELSE 128
               upper == IF byte = 244 THEN 143 ELSE 191
    <2>1. lead(d, byte) = Await(3, 0, byte - 240, lower, upper)
      BY <1>1, <1>5, LowBits DEF lead
    <2>2. Awaited(3, 0, byte - 240, lower, upper)
      BY <1>5 DEF Awaited
    <2> HIDE DEF lower, upper
    <2> QED
      BY <2>1, <2>2, AwaitIsSound
  <1>6. CASE byte \notin (0..127) \cup (194..223) \cup (224..239) \cup (240..244)
    <2>1. lead(d, byte) = ErrorAfter(d)
      BY <1>6 DEF lead
    <2> QED
      BY <2>1, ErrorIsSound
  <1> QED
    BY <1>2, <1>3, <1>4, <1>5, <1>6

(* What the byte that completes a code point of two, three or four bytes    *)
(* can make of it.                                                          *)
LEMMA LastByte ==
    ASSUME NEW c \in Nat, NEW b \in Nat, 128 <= b, b <= 191,
           c <= 863 \/ (896 <= c /\ c <= 17407)
    PROVE  c * 64 + (b - 128) \in Characters
  <1>1. /\ c * 64 + (b - 128) \in Nat
        /\ c * 64 + (b - 128) <= 1114111
        /\ c * 64 + (b - 128) < 55296 \/ c * 64 + (b - 128) > 57343
    BY SMT
  <1> QED
    BY <1>1, IsCharacter

(* What a decoder that is amid a character has of it. *)
LEMMA WhatIsAwaited ==
    ASSUME NEW d \in Decoder, Pending(d), d.needed # 0
    PROVE  Awaited(d.needed, d.seen, d.codePoint, d.lower, d.upper)
  <1>1. d.codePoint \in Nat /\ d.seen \in 0..2 /\ d.needed \in 0..3
    BY DEF Decoder
  <1>2. d.lower \in {128, 144, 160} /\ d.upper \in {143, 159, 191}
    BY DEF Decoder
  <1>3. d.seen < d.needed /\ d.codePoint \in Nat
    <2>1. d.seen < d.needed
      BY DEF Pending
    <2> QED
      BY <1>1, <2>1
  <1>4. (d.needed = 1 \/ d.seen > 0) => d.lower = 128 /\ d.upper = 191
    BY DEF Pending
  <1>5. d.needed = 1 => 2 <= d.codePoint /\ d.codePoint <= 31
    BY DEF Pending
  <1>6. d.needed = 2 /\ d.seen = 0 =>
          /\ d.codePoint <= 15
          /\ d.codePoint = 0 => d.lower = 160
          /\ d.codePoint = 13 => d.upper = 159
    BY DEF Pending
  <1>7. d.needed = 2 /\ d.seen = 1 =>
          \/ 32 <= d.codePoint /\ d.codePoint <= 863
          \/ 896 <= d.codePoint /\ d.codePoint <= 1023
    <2>1. d.needed = 2 /\ d.seen = 1 => d.codePoint \in (32..863) \cup (896..1023)
      BY SMT DEF Pending
    <2> QED
      BY <1>1, <2>1, SMTT(30)
  <1>8. d.needed = 3 /\ d.seen = 0 =>
          /\ d.codePoint <= 4
          /\ d.codePoint = 0 => d.lower = 144
          /\ d.codePoint = 4 => d.upper = 143
    BY DEF Pending
  <1>9. d.needed = 3 /\ d.seen = 1 => 16 <= d.codePoint /\ d.codePoint <= 271
    BY DEF Pending
  <1>10. d.needed = 3 /\ d.seen = 2 => 1024 <= d.codePoint /\ d.codePoint <= 17407
    BY SMT DEF Pending
  <1> QED
    BY <1>1, <1>2, <1>3, <1>4, <1>5, <1>6, <1>7, <1>8, <1>9, <1>10 DEF Awaited

(* What the next byte makes of it, if it is in the range: the range of the  *)
(* second byte keeps what comes out away from the surrogates and from what  *)
(* is beyond the last code point.                                           *)
LEMMA NextByte ==
    ASSUME NEW needed, NEW seen, NEW c, NEW lower, NEW upper,
           Awaited(needed, seen, c, lower, upper),
           NEW b \in Nat, lower <= b, b <= upper
    PROVE  /\ seen + 1 = needed => c * 64 + (b - 128) \in Characters
           /\ seen + 1 # needed => Awaited(needed, seen + 1, c * 64 + (b - 128), 128, 191)
  <1>1. 128 <= b /\ b <= 191 /\ c \in Nat /\ c * 64 + (b - 128) \in Nat
    BY SMT DEF Awaited
  <1>2. ASSUME seen + 1 = needed
        PROVE  c <= 863 \/ (896 <= c /\ c <= 17407)
    BY <1>2, SMT DEF Awaited
  <1>3. ASSUME seen + 1 # needed
        PROVE  Awaited(needed, seen + 1, c * 64 + (b - 128), 128, 191)
    BY <1>1, <1>3, SMT DEF Awaited
  <1> QED
    BY <1>1, <1>2, <1>3, LastByte

\* A later byte of a character, or one that does not belong to it.
LEMMA ContinuationIsSound ==
    ASSUME NEW d \in Decoder, Pending(d), d.needed # 0, NEW byte \in Byte
    PROVE  Sound(continuation(d, byte))
  <1>1. CASE byte \notin d.lower..d.upper
    <2>1. continuation(d, byte) = ErrorBefore(Initial)
      BY <1>1 DEF continuation
    <2> QED
      BY <2>1, InitialPending, ErrorIsSound
  <1>2. CASE byte \in d.lower..d.upper
    <2>1. Awaited(d.needed, d.seen, d.codePoint, d.lower, d.upper)
      BY WhatIsAwaited
    <2>2. /\ byte \in Nat /\ d.lower <= byte /\ byte <= d.upper
          /\ byte \in 128..191
      BY <1>2, <2>1 DEF Awaited, Byte
    <2> DEFINE cp == d.codePoint * 64 + (byte - 128)
    <2>3. d.codePoint * 64 + (byte % 64) = cp
      BY <2>2, LowBits
    <2>4. CASE d.seen + 1 = d.needed
      <3>1. continuation(d, byte) = Emit(Initial, cp)
        BY <1>2, <2>3, <2>4 DEF continuation
      <3>2. cp \in Characters
        BY <2>1, <2>2, <2>4, NextByte
      <3> QED
        BY <3>1, <3>2, InitialPending, EmitIsSound
    <2>5. CASE d.seen + 1 # d.needed
      <3>1. continuation(d, byte) = Await(d.needed, d.seen + 1, cp, 128, 191)
        BY <1>2, <2>3, <2>5 DEF continuation
      <3>2. Awaited(d.needed, d.seen + 1, cp, 128, 191)
        BY <2>1, <2>2, <2>5, NextByte
      <3> HIDE DEF cp
      <3> QED
        BY <3>1, <3>2, AwaitIsSound
    <2> QED
      BY <2>4, <2>5
  <1> QED
    BY <1>1, <1>2

\* The two cases of the handler.
LEMMA HandlerIsSound ==
    ASSUME NEW d \in Decoder, Pending(d), NEW byte \in Byte
    PROVE  Sound(handler(d, byte))
  BY LeadIsSound, ContinuationIsSound DEF handler

-----------------------------------------------------------------------------
\* The invariant of the decoder: at the beginning,
LEMMA InvInit == Init => Inv
  <1> SUFFICES ASSUME Init PROVE Inv
    OBVIOUS
  <1>1. decoder \in Decoder /\ Pending(decoder) /\ decoder.seen = 0
    BY InitialPending DEF Init, Initial
  <1>2. stream \in Seq(Bytes) /\ input \in Seq(Bytes) /\ output \in Seq(Nat)
        /\ output \in Seq(Characters)
    BY DEF Init
  <1>3. /\ fatal \in BOOLEAN /\ ignoreBOM \in BOOLEAN
        /\ doNotFlush \in BOOLEAN /\ BOMseen \in BOOLEAN
    BY DEF Init
  <1>4. stage \in {"idle", "decoding", "thrown"}
    BY DEF Init
  <1> QED
    BY <1>1, <1>2, <1>3, <1>4 DEF Inv, TypeOK

\* What is known of characters is known of numbers.
LEMMA CharactersAreNumbers ==
    ASSUME NEW codePoints \in Seq(Characters)
    PROVE  codePoints \in Seq(Nat)
  BY SMT DEF Characters

\* What no step changes.
LEMMA OptionsStay ==
    ASSUME Inv, fatal' = fatal, ignoreBOM' = ignoreBOM
    PROVE  fatal' \in BOOLEAN /\ ignoreBOM' \in BOOLEAN
  BY DEF Inv, TypeOK

\* after a call,
LEMMA DecodeKeepsInv ==
    ASSUME Inv, NEW bytes \in Inputs, NEW more \in BOOLEAN, decode(bytes, more)
    PROVE  Inv'
  <1>1. bytes \in Seq(Bytes)
    BY BytesAssumption
  <1>2. decoder' = decoder \/ decoder' = Initial
    BY DEF decode
  <1>3. /\ decoder' \in Decoder /\ Pending(decoder')
        /\ decoder'.seen < decoder'.needed \/ decoder'.seen = 0
    <2>1. Initial.seen = 0
      BY DEF Initial
    <2> QED
      BY <1>2, <2>1, InitialPending DEF Inv, TypeOK
  <1>4. input' \in Seq(Bytes)
    <2>1. input' = input \o bytes \/ input' = bytes
      BY DEF decode
    <2>2. input \in Seq(Bytes)
      BY DEF Inv, TypeOK
    <2> QED
      BY <1>1, <2>1, <2>2, ConcatProperties
  <1>5. BOMseen' \in BOOLEAN
    BY DEF decode, Inv, TypeOK
  <1>6. doNotFlush' = more /\ stage' = "decoding" /\ stream' = bytes /\ output' = <<>>
        /\ fatal' = fatal /\ ignoreBOM' = ignoreBOM
    BY DEF decode
  <1>7. fatal' \in BOOLEAN /\ ignoreBOM' \in BOOLEAN
    BY <1>6, OptionsStay
  <1>8. stream' \in Seq(Bytes) /\ output' \in Seq(Nat) /\ output' \in Seq(Characters)
    BY <1>1, <1>6
  <1> QED
    BY <1>3, <1>4, <1>5, <1>6, <1>7, <1>8 DEF Inv, TypeOK

\* after a byte,
LEMMA HandleKeepsInv ==
    ASSUME Inv, Handle
    PROVE  Inv'
  <1> DEFINE result == handler(decoder, Head(stream))
  <1>1. stream \in Seq(Bytes) /\ stream # <<>>
    BY DEF Inv, TypeOK, Handle
  <1>2. Head(stream) \in Byte /\ Tail(stream) \in Seq(Bytes)
    BY <1>1, HeadTailProperties, BytesAssumption DEF Byte
  <1>3. Sound(result)
    BY <1>2, HandlerIsSound DEF Inv, TypeOK
  <1>4. decoder' = result.decoder /\ stream' = Remaining(result)
    BY DEF Handle
  <1>5. decoder' \in Decoder /\ Pending(decoder')
    BY <1>3, <1>4 DEF Sound
  <1>6. stream' \in Seq(Bytes)
    BY <1>1, <1>2, <1>4 DEF Remaining
  <1>7. output' \in Seq(Characters)
    <2>1. output' = output \/ output' = output \o result.emitted
      BY DEF Handle
    <2>2. output \in Seq(Characters) /\ result.emitted \in Seq(Characters)
      BY <1>3 DEF Inv, Sound
    <2> HIDE DEF result
    <2> QED
      BY <2>1, <2>2, ConcatProperties
  <1>8. decoder'.seen < decoder'.needed \/ decoder'.seen = 0
    BY <1>5 DEF Pending, Initial
  <1>9. stage' \in {"idle", "decoding", "thrown"}
    BY DEF Handle, Inv, TypeOK
  <1> QED
    BY <1>5, <1>6, <1>7, <1>8, <1>9, CharactersAreNumbers DEF Handle, Inv, TypeOK

\* at the end of a call,
LEMMA FinishKeepsInv ==
    ASSUME Inv, Finish
    PROVE  Inv'
  <1>1. decoder' \in Decoder /\ Pending(decoder')
    BY InitialPending DEF Finish, Inv, TypeOK
  <1>2. output' \in Seq(Characters)
    <2>1. output' = output \/ output' = Append(output, Replacement)
      BY DEF Finish
    <2> QED
      BY <2>1, ReplacementIsCharacter DEF Inv
  <1>3. decoder'.seen < decoder'.needed \/ decoder'.seen = 0
    BY <1>1 DEF Pending, Initial
  <1>4. stage' \in {"idle", "decoding", "thrown"} /\ BOMseen' \in BOOLEAN
    BY DEF Finish, Inv, TypeOK
  <1> QED
    BY <1>1, <1>2, <1>3, <1>4, CharactersAreNumbers DEF Finish, Inv, TypeOK

\* hence after every step,
LEMMA InvStep == Inv /\ [Next]_vars => Inv'
  <1> SUFFICES ASSUME Inv, [Next]_vars PROVE Inv'
    OBVIOUS
  <1>1. ASSUME NEW bytes \in Inputs, NEW more \in BOOLEAN, decode(bytes, more)
        PROVE  Inv'
    BY <1>1, DecodeKeepsInv
  <1>2. CASE Handle
    BY <1>2, HandleKeepsInv
  <1>3. CASE Finish
    BY <1>3, FinishKeepsInv
  <1>4. CASE UNCHANGED vars
    <2>1. /\ fatal' = fatal /\ ignoreBOM' = ignoreBOM /\ decoder' = decoder
          /\ doNotFlush' = doNotFlush /\ BOMseen' = BOMseen /\ stage' = stage
          /\ stream' = stream /\ output' = output /\ input' = input
      BY <1>4 DEF vars
    <2> QED
      BY <2>1 DEF Inv, TypeOK
  <1> QED
    BY <1>1, <1>2, <1>3, <1>4 DEF Next

\* and always.
LEMMA Invariance == Spec => []Inv
  BY InvInit, InvStep, PTL DEF Spec

(* The state of the decoder, of a call and of the stream keep their types   *)
(* (TextDecoder, encoding.js 976-1189).                                     *)
THEOREM TypeCorrect == Spec => []TypeOK
  <1>1. Inv => TypeOK
    BY DEF Inv
  <1> QED
    BY <1>1, Invariance, PTL

(* Neither surrogates nor code points beyond the last one come out, for any *)
(* bytes in any calls (UTF8Decoder, encoding.js 1331-1464).                 *)
THEOREM OnlyScalars == Spec => []ScalarsOnly
  <1>1. Inv => ScalarsOnly
    BY SMT DEF Inv, ScalarsOnly, Characters
  <1> QED
    BY <1>1, Invariance, PTL

Concatenation == INSTANCE FoldFacts WITH op <- \o

-----------------------------------------------------------------------------
(* Sequences that are put together *)

\* What the recursion of FlattenSeq yields for the first n sequences.
IsFlattening(f, seqs, n) ==
    f = [i \in 1..n |-> IF i = 1 THEN seqs[i] ELSE f[i-1] \o seqs[i]]

(* There is such a function, by induction on n. *)
LEMMA FlatteningExists ==
    ASSUME NEW seqs, NEW n \in Nat
    PROVE  \E f : IsFlattening(f, seqs, n)
  <1> DEFINE K == {m \in Nat : \E f : IsFlattening(f, seqs, m)}
  <1>1. 0 \in K
    <2>1. IsFlattening([i \in 1..0 |-> 0], seqs, 0)
      BY DEF IsFlattening
    <2> QED
      BY <2>1
  <1>2. ASSUME NEW m \in K PROVE m + 1 \in K
    <2>1. PICK f : IsFlattening(f, seqs, m)
      OBVIOUS
    <2> DEFINE last == IF m = 0 THEN seqs[1] ELSE f[m] \o seqs[m + 1]
               g == [i \in 1..(m + 1) |-> IF i = m + 1 THEN last ELSE f[i]]
    <2>2. ASSUME NEW i \in 1..(m + 1)
          PROVE  g[i] = IF i = 1 THEN seqs[i] ELSE g[i-1] \o seqs[i]
      <3>1. CASE i = m + 1
        <4>1. g[i] = last
          BY <3>1
        <4>2. m # 0 => g[m] = f[m]
          OBVIOUS
        <4> HIDE DEF g
        <4> QED
          BY <3>1, <4>1, <4>2
      <3>2. CASE i # m + 1
        <4>1. i \in 1..m /\ g[i] = f[i]
          BY <3>2
        <4>2. i # 1 => g[i - 1] = f[i - 1]
          BY <4>1
        <4>3. f[i] = IF i = 1 THEN seqs[i] ELSE f[i-1] \o seqs[i]
          BY <2>1, <4>1 DEF IsFlattening
        <4> HIDE DEF g
        <4> QED
          BY <4>1, <4>2, <4>3
      <3> QED
        BY <3>1, <3>2
    <2>3. g = [i \in 1..(m + 1) |-> g[i]]
      OBVIOUS
    <2>4. IsFlattening(g, seqs, m + 1)
      <3> HIDE DEF g
      <3> QED
        BY <2>2, <2>3 DEF IsFlattening
    <2> QED
      BY <2>4
  <1>3. K = Nat
    <2> HIDE DEF K
    <2>1. K \in SUBSET Nat
      BY DEF K
    <2> QED
      BY <1>1, <1>2, <2>1, Concatenation!SetInduction
  <1> QED
    BY <1>3

\* FlattenSeq is the last value of its recursion.
LEMMA FlattenUnfolds ==
    ASSUME NEW seqs, Len(seqs) \in Nat, Len(seqs) # 0
    PROVE  \E f : IsFlattening(f, seqs, Len(seqs)) /\ FlattenSeq(seqs) = f[Len(seqs)]
  <1> DEFINE F == CHOOSE f : IsFlattening(f, seqs, Len(seqs))
  <1>1. IsFlattening(F, seqs, Len(seqs))
    BY FlatteningExists
  <1>2. FlattenSeq(seqs) = F[Len(seqs)]
    BY DEF FlattenSeq, IsFlattening
  <1> HIDE DEF F
  <1> QED
    BY <1>1, <1>2

(* The elements are those of the sequences. *)
LEMMA FlattenType ==
    ASSUME NEW S, NEW seqs \in Seq(Seq(S))
    PROVE  FlattenSeq(seqs) \in Seq(S)
  <1>1. CASE Len(seqs) = 0
    BY <1>1 DEF FlattenSeq
  <1>2. CASE Len(seqs) # 0
    <2>1. PICK f : IsFlattening(f, seqs, Len(seqs)) /\ FlattenSeq(seqs) = f[Len(seqs)]
      BY <1>2, FlattenUnfolds
    <2>7. \A i \in 1..Len(seqs) : f[i] = IF i = 1 THEN seqs[i] ELSE f[i-1] \o seqs[i]
      BY <2>1 DEF IsFlattening
    <2> DEFINE K == {m \in Nat : m \in 1..Len(seqs) => f[m] \in Seq(S)}
    <2>2. 0 \in K
      OBVIOUS
    <2>3. ASSUME NEW m \in K PROVE m + 1 \in K
      <3>1. SUFFICES ASSUME m + 1 \in 1..Len(seqs) PROVE f[m + 1] \in Seq(S)
        OBVIOUS
      <3>2. f[m + 1] = IF m + 1 = 1 THEN seqs[m + 1] ELSE f[m] \o seqs[m + 1]
        BY <2>7, <3>1
      <3>3. seqs[m + 1] \in Seq(S)
        BY <3>1
      <3>4. m # 0 => f[m] \in Seq(S)
        BY <3>1
      <3> HIDE DEF K
      <3>5. m \in Nat
        BY DEF K
      <3>6. CASE m = 0
        BY <3>2, <3>3, <3>6
      <3>7. CASE m # 0
        <4>1. m + 1 # 1
          BY <3>5, <3>7
        <4>2. f[m + 1] = f[m] \o seqs[m + 1]
          BY <3>2, <4>1
        <4> QED
          BY <3>3, <3>4, <3>7, <4>2
      <3> QED
        BY <3>6, <3>7
    <2>4. K = Nat
      <3> HIDE DEF K
      <3>1. K \in SUBSET Nat
        BY DEF K
      <3> QED
        BY <2>2, <2>3, <3>1, Concatenation!SetInduction
    <2>5. Len(seqs) \in 1..Len(seqs)
      BY <1>2
    <2>6. Len(seqs) \in K
      BY <2>4, <2>5
    <2> QED
      BY <2>1, <2>5, <2>6
  <1> QED
    BY <1>1, <1>2

(* One more sequence at the end. *)
LEMMA FlattenAppend ==
    ASSUME NEW S, NEW seqs \in Seq(Seq(S)), NEW t \in Seq(S)
    PROVE  FlattenSeq(Append(seqs, t)) = FlattenSeq(seqs) \o t
  <1> DEFINE more == Append(seqs, t)
  <1>1. /\ more \in Seq(Seq(S)) /\ Len(more) = Len(seqs) + 1 /\ more[Len(seqs) + 1] = t
        /\ \A i \in 1..Len(seqs) : more[i] = seqs[i]
        /\ Len(seqs) \in Nat
    OBVIOUS
  <1> HIDE DEF more
  <1>2. PICK g : IsFlattening(g, more, Len(more)) /\ FlattenSeq(more) = g[Len(more)]
    BY <1>1, FlattenUnfolds
  <1>3. \A i \in 1..Len(more) : g[i] = IF i = 1 THEN more[i] ELSE g[i-1] \o more[i]
    BY <1>2 DEF IsFlattening
  <1>4. CASE Len(seqs) = 0
    <2>1. FlattenSeq(more) = t
      BY <1>1, <1>2, <1>3, <1>4
    <2>2. FlattenSeq(seqs) = <<>>
      BY <1>4 DEF FlattenSeq
    <2>3. <<>> \o t = t
      OBVIOUS
    <2> QED
      BY <2>1, <2>2, <2>3 DEF more
  <1>5. CASE Len(seqs) # 0
    <2>1. PICK f : IsFlattening(f, seqs, Len(seqs)) /\ FlattenSeq(seqs) = f[Len(seqs)]
      BY <1>1, <1>5, FlattenUnfolds
    <2>2. \A i \in 1..Len(seqs) : f[i] = IF i = 1 THEN seqs[i] ELSE f[i-1] \o seqs[i]
      BY <2>1 DEF IsFlattening
    <2> DEFINE K == {m \in Nat : m \in 1..Len(seqs) => f[m] = g[m]}
    <2>3. 0 \in K
      OBVIOUS
    <2>4. ASSUME NEW m \in K PROVE m + 1 \in K
      <3>1. SUFFICES ASSUME m + 1 \in 1..Len(seqs) PROVE f[m + 1] = g[m + 1]
        OBVIOUS
      <3>2. f[m + 1] = IF m + 1 = 1 THEN seqs[m + 1] ELSE f[m] \o seqs[m + 1]
        BY <2>2, <3>1
      <3>3. g[m + 1] = IF m + 1 = 1 THEN seqs[m + 1] ELSE g[m] \o seqs[m + 1]
        BY <1>1, <1>3, <3>1
      <3>4. m # 0 => f[m] = g[m]
        BY <3>1
      <3> HIDE DEF K
      <3>5. m \in Nat
        BY DEF K
      <3> QED
        BY <3>2, <3>3, <3>4, <3>5
    <2>5. K = Nat
      <3> HIDE DEF K
      <3>1. K \in SUBSET Nat
        BY DEF K
      <3> QED
        BY <2>3, <2>4, <3>1, Concatenation!SetInduction
    <2>6. f[Len(seqs)] = g[Len(seqs)]
      <3>1. Len(seqs) \in K
        BY <1>1, <2>5
      <3> QED
        BY <1>1, <1>5, <3>1
    <2>7. g[Len(more)] = g[Len(seqs)] \o t
      <3>1. /\ Len(more) \in 1..Len(more) /\ Len(more) # 1 /\ Len(more) - 1 = Len(seqs)
            /\ more[Len(more)] = t
        BY <1>1, <1>5
      <3> QED
        BY <1>3, <3>1
    <2> QED
      BY <1>2, <2>1, <2>6, <2>7 DEF more
  <1> QED
    BY <1>1, <1>4, <1>5

(* Two sequences of sequences. *)
LEMMA FlattenConcat ==
    ASSUME NEW S, NEW a \in Seq(Seq(S)), NEW b \in Seq(Seq(S))
    PROVE  FlattenSeq(a \o b) = FlattenSeq(a) \o FlattenSeq(b)
  <1> DEFINE Holds(c) == FlattenSeq(a \o c) = FlattenSeq(a) \o FlattenSeq(c)
             K == {m \in Nat : \A c \in Seq(Seq(S)) : Len(c) = m => Holds(c)}
  <1>1. 0 \in K
    <2>1. FlattenSeq(a) \in Seq(S)
      BY FlattenType
    <2>2. FlattenSeq(a) \o <<>> = FlattenSeq(a)
      BY <2>1
    <2>3. a \o <<>> = a
      OBVIOUS
    <2>4. FlattenSeq(<<>>) = <<>>
      BY DEF FlattenSeq
    <2>5. Holds(<<>>)
      BY <2>2, <2>3, <2>4
    <2>6. \A c \in Seq(Seq(S)) : Len(c) = 0 => c = <<>>
      OBVIOUS
    <2> HIDE DEF Holds
    <2> QED
      BY <2>5, <2>6
  <1>2. ASSUME NEW m \in K PROVE m + 1 \in K
    <2>1. SUFFICES ASSUME NEW c \in Seq(Seq(S)), Len(c) = m + 1 PROVE Holds(c)
      OBVIOUS
    <2>2. m \in Nat /\ \A e \in Seq(Seq(S)) : Len(e) = m => Holds(e)
      OBVIOUS
    <2> DEFINE d == SubSeq(c, 1, m)
               x == c[m + 1]
    <2>3. d \in Seq(Seq(S)) /\ Len(d) = m /\ x \in Seq(S) /\ c = Append(d, x)
      BY <2>1, <2>2
    <2> HIDE DEF K, d, x
    <2>4. a \o c = Append(a \o d, x)
      BY <2>3
    <2>5. FlattenSeq(c) = FlattenSeq(d) \o x
      BY <2>3, FlattenAppend
    <2>6. FlattenSeq(a \o c) = FlattenSeq(a \o d) \o x
      <3>1. a \o d \in Seq(Seq(S))
        BY <2>3
      <3> QED
        BY <2>3, <2>4, <3>1, FlattenAppend
    <2>7. FlattenSeq(a \o d) = FlattenSeq(a) \o FlattenSeq(d)
      BY <2>2, <2>3
    <2>8. (FlattenSeq(a) \o FlattenSeq(d)) \o x = FlattenSeq(a) \o (FlattenSeq(d) \o x)
      <3> DEFINE fa == FlattenSeq(a)
                 fd == FlattenSeq(d)
      <3>1. fa \in Seq(S)
        BY FlattenType
      <3>2. fd \in Seq(S)
        BY <2>3, FlattenType
      <3>3. x \in Seq(S)
        BY <2>3
      <3> HIDE DEF fa, fd
      <3>4. (fa \o fd) \o x = fa \o (fd \o x)
        BY <3>1, <3>2, <3>3, ConcatAssociative
      <3> QED
        BY <3>4 DEF fa, fd
    <2> QED
      BY <2>5, <2>6, <2>7, <2>8
  <1>3. K = Nat
    <2> HIDE DEF K
    <2>1. K \in SUBSET Nat
      BY DEF K
    <2> QED
      BY <1>1, <1>2, <2>1, Concatenation!SetInduction
  <1>4. Len(b) \in K
    BY <1>3
  <1> QED
    BY <1>4

-----------------------------------------------------------------------------
(* Code points, strings of UTF-16 and bytes *)

\* What a function makes of the elements of a sequence.
Mapped(f, s) == [i \in DOMAIN s |-> f[s[i]]]

\* The elements are values of the function.
LEMMA MappedType ==
    ASSUME NEW S, NEW T, NEW f, \A x \in S : f[x] \in T, NEW s \in Seq(S)
    PROVE  Mapped(f, s) \in Seq(T)
  <1>1. Len(s) \in Nat /\ DOMAIN s = 1..Len(s) /\ \A i \in 1..Len(s) : s[i] \in S
    OBVIOUS
  <1>2. /\ Mapped(f, s) = [i \in 1..Len(s) |-> f[s[i]]]
        /\ \A i \in 1..Len(s) : f[s[i]] \in T
    BY <1>1 DEF Mapped
  <1> QED
    BY <1>1, <1>2

\* One for each element, in its place.
LEMMA MappedElements ==
    ASSUME NEW S, NEW f, NEW s \in Seq(S)
    PROVE  /\ Len(Mapped(f, s)) = Len(s)
           /\ \A i \in 1..Len(s) : Mapped(f, s)[i] = f[s[i]]
  BY DEF Mapped

\* What is made of two sequences is put together of what is made of each.
LEMMA MappedConcat ==
    ASSUME NEW S, NEW f, NEW a \in Seq(S), NEW b \in Seq(S)
    PROVE  Mapped(f, a \o b) = Mapped(f, a) \o Mapped(f, b)
  <1> DEFINE T == {f[x] : x \in S}
  <1>7. \A x \in S : f[x] \in T
    OBVIOUS
  <1> HIDE DEF T
  <1>1. Mapped(f, a) \in Seq(T) /\ Mapped(f, b) \in Seq(T)
    BY <1>7, MappedType
  <1>2. Len(Mapped(f, a)) = Len(a) /\ \A i \in 1..Len(a) : Mapped(f, a)[i] = f[a[i]]
    BY MappedElements
  <1>3. Len(Mapped(f, b)) = Len(b) /\ \A i \in 1..Len(b) : Mapped(f, b)[i] = f[b[i]]
    BY MappedElements
  <1> DEFINE ab == a \o b
  <1>4. /\ ab \in Seq(S) /\ Len(ab) = Len(a) + Len(b)
        /\ \A i \in 1..Len(ab) : ab[i] = IF i <= Len(a) THEN a[i] ELSE b[i - Len(a)]
    OBVIOUS
  <1> HIDE DEF ab
  <1>5. /\ Mapped(f, ab) \in Seq(T) /\ Len(Mapped(f, ab)) = Len(ab)
        /\ \A i \in 1..Len(ab) : Mapped(f, ab)[i] = f[ab[i]]
    <2>1. Mapped(f, ab) \in Seq(T)
      BY <1>4, <1>7, MappedType
    <2>2. Len(Mapped(f, ab)) = Len(ab) /\ \A i \in 1..Len(ab) : Mapped(f, ab)[i] = f[ab[i]]
      BY <1>4, MappedElements
    <2> QED
      BY <2>1, <2>2
  <1>6. Mapped(f, ab) = Mapped(f, a) \o Mapped(f, b)
    <2> DEFINE u == Mapped(f, a)
               v == Mapped(f, b)
               w == Mapped(f, ab)
    <2>1. u \in Seq(T) /\ v \in Seq(T) /\ w \in Seq(T)
      BY <1>1, <1>5
    <2>2. Len(w) = Len(u) + Len(v)
      BY <1>2, <1>3, <1>4, <1>5
    <2>3. ASSUME NEW i \in 1..Len(w)
          PROVE  w[i] = IF i <= Len(u) THEN u[i] ELSE v[i - Len(u)]
      <3>1. w[i] = f[ab[i]] /\ i \in 1..Len(ab)
        BY <1>5
      <3>2. CASE i <= Len(u)
        <4>1. i \in 1..Len(a)
          BY <1>2, <3>1, <3>2
        <4> QED
          BY <1>2, <1>4, <3>1, <3>2, <4>1
      <3>3. CASE ~(i <= Len(u))
        <4>1. i - Len(a) \in 1..Len(b) /\ ~(i <= Len(a))
          BY <1>2, <1>4, <3>1, <3>3
        <4>2. ab[i] = b[i - Len(a)]
          BY <1>4, <3>1, <4>1
        <4>3. v[i - Len(a)] = f[b[i - Len(a)]]
          BY <1>3, <4>1
        <4> QED
          BY <1>2, <3>1, <3>3, <4>2, <4>3
      <3> QED
        BY <3>2, <3>3
    <2> HIDE DEF u, v, w
    <2>4. u \o v \in Seq(T) /\ Len(u \o v) = Len(u) + Len(v)
      BY <2>1
    <2>5. \A i \in 1..Len(w) : (u \o v)[i] = w[i]
      BY <2>1, <2>2, <2>3
    <2>6. w = u \o v
      BY <2>1, <2>2, <2>4, <2>5, SeqEqual
    <2> QED
      BY <2>6 DEF u, v, w
  <1> QED
    BY <1>6 DEF ab

\* A code point has at least one code unit.
LEMMA CodeUnitsType ==
    ASSUME NEW c \in Nat
    PROVE  codeUnits(c) \in Seq(Nat) /\ codeUnits(c) # <<>>
  <1>1. CASE c < 65536
    <2>1. codeUnits(c) = <<c>>
      BY <1>1 DEF codeUnits
    <2> QED
      BY <2>1
  <1>2. CASE c >= 65536
    <2>1. codeUnits(c) = <<((c - 65536) \div 1024) + 55296, ((c - 65536) % 1024) + 56320>>
      BY <1>2 DEF codeUnits
    <2>2. ((c - 65536) \div 1024) + 55296 \in Nat /\ ((c - 65536) % 1024) + 56320 \in Nat
      BY <1>2, SMT
    <2> QED
      BY <2>1, <2>2
  <1> QED
    BY <1>1, <1>2

(* The string of two texts is that of the one and that of the other. *)
LEMMA StringOfConcat ==
    ASSUME NEW a \in Seq(Nat), NEW b \in Seq(Nat)
    PROVE  /\ codePointsToString(a) \in Seq(Nat)
           /\ codePointsToString(a \o b) = codePointsToString(a) \o codePointsToString(b)
  <1> DEFINE f == [c \in Nat |-> codeUnits(c)]
  <1>1. f \in [Nat -> Seq(Nat)]
    BY CodeUnitsType
  <1>2. ASSUME NEW s \in Seq(Nat)
        PROVE  codePointsToString(s) = FlattenSeq(Mapped(f, s))
    <2>1. \A i \in DOMAIN s : f[s[i]] = codeUnits(s[i])
      OBVIOUS
    <2>2. Mapped(f, s) = [i \in DOMAIN s |-> codeUnits(s[i])]
      BY <2>1 DEF Mapped
    <2> QED
      BY <2>2 DEF codePointsToString
  <1>3. a \o b \in Seq(Nat)
    OBVIOUS
  <1> HIDE DEF f
  <1>4. /\ codePointsToString(a) = FlattenSeq(Mapped(f, a))
        /\ codePointsToString(b) = FlattenSeq(Mapped(f, b))
        /\ codePointsToString(a \o b) = FlattenSeq(Mapped(f, a \o b))
    BY <1>2, <1>3
  <1>5. Mapped(f, a) \in Seq(Seq(Nat)) /\ Mapped(f, b) \in Seq(Seq(Nat))
    BY <1>1, MappedType
  <1>6. Mapped(f, a \o b) = Mapped(f, a) \o Mapped(f, b)
    BY MappedConcat
  <1>7. FlattenSeq(Mapped(f, a)) \in Seq(Nat)
    BY <1>5, FlattenType
  <1>8. FlattenSeq(Mapped(f, a) \o Mapped(f, b))
           = FlattenSeq(Mapped(f, a)) \o FlattenSeq(Mapped(f, b))
    BY <1>5, FlattenConcat
  <1> QED
    BY <1>4, <1>6, <1>7, <1>8

\* A sequence of one sequence.
LEMMA FlattenOne ==
    ASSUME NEW S, NEW t \in Seq(S)
    PROVE  FlattenSeq(<<t>>) = t
  <1>1. <<>> \in Seq(Seq(S)) /\ Append(<<>>, t) = <<t>> /\ <<>> \o t = t
    OBVIOUS
  <1>2. FlattenSeq(<<>>) = <<>>
    BY DEF FlattenSeq
  <1>3. FlattenSeq(Append(<<>>, t)) = FlattenSeq(<<>>) \o t
    BY <1>1, FlattenAppend
  <1> QED
    BY <1>1, <1>2, <1>3

\* The strings of one code point and of none.
LEMMA StringOfOne ==
    ASSUME NEW c \in Nat
    PROVE  /\ codePointsToString(<<c>>) = codeUnits(c)
           /\ codePointsToString(<<>>) = <<>>
  <1>1. [i \in DOMAIN <<c>> |-> codeUnits(<<c>>[i])] = <<codeUnits(c)>>
    OBVIOUS
  <1>2. codePointsToString(<<c>>) = FlattenSeq(<<codeUnits(c)>>)
    BY <1>1 DEF codePointsToString
  <1>3. FlattenSeq(<<codeUnits(c)>>) = codeUnits(c)
    BY CodeUnitsType, FlattenOne
  <1>4. [i \in DOMAIN <<>> |-> codeUnits(<<>>[i])] = <<>>
    OBVIOUS
  <1>5. codePointsToString(<<>>) = FlattenSeq(<<>>)
    BY <1>4 DEF codePointsToString
  <1>6. FlattenSeq(<<>>) = <<>>
    BY DEF FlattenSeq
  <1> QED
    BY <1>2, <1>3, <1>5, <1>6

\* Shifts by 0, 6, 12 and 18 bits.
LEMMA Shifts ==
    ASSUME NEW c \in Nat
    PROVE  /\ shifted(c, 0) = c /\ shifted(c, 1) = c \div 64
           /\ shifted(c, 2) = c \div 4096 /\ shifted(c, 3) = c \div 262144
  <1>1. 64^0 = 1 /\ 64^1 = 64 /\ 64^2 = 4096 /\ 64^3 = 262144
    OBVIOUS
  <1>2. c \div 1 = c
    BY SMT
  <1> QED
    BY <1>1, <1>2, SMT DEF shifted

\* The bytes of a code point of two, three and four bytes.
InTwo(c) == <<(c \div 64) + 192, 128 + (c % 64)>>
InThree(c) == <<(c \div 4096) + 224, 128 + ((c \div 64) % 64), 128 + (c % 64)>>
InFour(c) == <<(c \div 262144) + 240, 128 + ((c \div 4096) % 64),
               128 + ((c \div 64) % 64), 128 + (c % 64)>>

(* The bytes of a code point, of whatever length. *)
LEMMA EncodedForms ==
    ASSUME NEW c \in Nat
    PROVE  /\ c <= 127 => encoded(c) = <<c>>
           /\ 128 <= c /\ c <= 2047 => encoded(c) = InTwo(c)
           /\ 2048 <= c /\ c <= 65535 => encoded(c) = InThree(c)
           /\ 65536 <= c => encoded(c) = InFour(c)
  <1>1. c <= 127 => encoded(c) = <<c>>
    BY SMT DEF encoded
  <1>2. 128 <= c /\ c <= 2047 => encoded(c) = multiple(c, 1, 192)
    BY SMT DEF encoded
  <1>3. 2048 <= c /\ c <= 65535 => encoded(c) = multiple(c, 2, 224)
    BY SMT DEF encoded
  <1>4. 65536 <= c => encoded(c) = multiple(c, 3, 240)
    BY SMT DEF encoded
  <1>5. multiple(c, 1, 192) = InTwo(c)
    <2> DEFINE f == multiple(c, 1, 192)
    <2>1. /\ f = [k \in 1..2 |-> f[k]]
          /\ f[1] = shifted(c, 1) + 192 /\ f[2] = 128 + (shifted(c, 0) % 64)
      BY SMT DEF multiple
    <2> HIDE DEF f
    <2>2. f[1] = (c \div 64) + 192 /\ f[2] = 128 + (c % 64)
      BY <2>1, Shifts, SMT
    <2>3. f = <<(c \div 64) + 192, 128 + (c % 64)>>
      BY <2>1, <2>2, SMT
    <2> QED
      BY <2>3, SMT DEF f, InTwo
  <1>6. multiple(c, 2, 224) = InThree(c)
    <2> DEFINE f == multiple(c, 2, 224)
    <2>1. /\ f = [k \in 1..3 |-> f[k]]
          /\ f[1] = shifted(c, 2) + 224 /\ f[2] = 128 + (shifted(c, 1) % 64)
          /\ f[3] = 128 + (shifted(c, 0) % 64)
      BY SMT DEF multiple
    <2> HIDE DEF f
    <2>2. /\ f[1] = (c \div 4096) + 224 /\ f[2] = 128 + ((c \div 64) % 64)
          /\ f[3] = 128 + (c % 64)
      BY <2>1, Shifts, SMT
    <2>3. f = <<(c \div 4096) + 224, 128 + ((c \div 64) % 64), 128 + (c % 64)>>
      BY <2>1, <2>2, SMT
    <2> QED
      BY <2>3, SMT DEF f, InThree
  <1>7. multiple(c, 3, 240) = InFour(c)
    <2> DEFINE f == multiple(c, 3, 240)
    <2>1. /\ f = [k \in 1..4 |-> f[k]]
          /\ f[1] = shifted(c, 3) + 240 /\ f[2] = 128 + (shifted(c, 2) % 64)
          /\ f[3] = 128 + (shifted(c, 1) % 64) /\ f[4] = 128 + (shifted(c, 0) % 64)
      BY SMT DEF multiple
    <2> HIDE DEF f
    <2>2. /\ f[1] = (c \div 262144) + 240 /\ f[2] = 128 + ((c \div 4096) % 64)
          /\ f[3] = 128 + ((c \div 64) % 64) /\ f[4] = 128 + (c % 64)
      BY <2>1, Shifts, SMT
    <2>3. f = <<(c \div 262144) + 240, 128 + ((c \div 4096) % 64),
                128 + ((c \div 64) % 64), 128 + (c % 64)>>
      BY <2>1, <2>2, SMT
    <2> QED
      BY <2>3, SMT DEF f, InFour
  <1> QED
    BY <1>1, <1>2, <1>3, <1>4, <1>5, <1>6, <1>7, SMT

\* The encoder yields numbers.
LEMMA EncodedType ==
    ASSUME NEW c \in Nat
    PROVE  encoded(c) \in Seq(Nat)
  <1>1. /\ c \div 64 \in Nat /\ c \div 4096 \in Nat /\ c \div 262144 \in Nat
        /\ c % 64 \in Nat /\ (c \div 64) % 64 \in Nat /\ (c \div 4096) % 64 \in Nat
    BY SMT
  <1>2. ASSUME c <= 127
        PROVE  encoded(c) \in Seq(Nat)
    <2> DEFINE t == <<c>>
    <2>1. t \in Seq(Nat)
      OBVIOUS
    <2>2. encoded(c) = t
      BY <1>2, EncodedForms, SMT
    <2> HIDE DEF t
    <2> QED
      BY <2>1, <2>2
  <1>3. ASSUME 128 <= c, c <= 2047
        PROVE  encoded(c) \in Seq(Nat)
    <2> DEFINE t == InTwo(c)
    <2>1. t \in Seq(Nat)
      BY <1>1, SMT DEF InTwo
    <2>2. encoded(c) = t
      BY <1>3, EncodedForms, SMT
    <2> HIDE DEF t
    <2> QED
      BY <2>1, <2>2
  <1>4. ASSUME 2048 <= c, c <= 65535
        PROVE  encoded(c) \in Seq(Nat)
    <2> DEFINE t == InThree(c)
    <2>1. t \in Seq(Nat)
      BY <1>1, SMT DEF InThree
    <2>2. encoded(c) = t
      BY <1>4, EncodedForms, SMT
    <2> HIDE DEF t
    <2> QED
      BY <2>1, <2>2
  <1>5. ASSUME 65536 <= c
        PROVE  encoded(c) \in Seq(Nat)
    <2> DEFINE t == InFour(c)
    <2>1. t \in Seq(Nat)
      BY <1>1, SMT DEF InFour
    <2>2. encoded(c) = t
      BY <1>5, EncodedForms, SMT
    <2> HIDE DEF t
    <2> QED
      BY <2>1, <2>2
  <1> QED
    BY <1>2, <1>3, <1>4, <1>5, SMT

(* The bytes of two texts are those of the one and those of the other. *)
LEMMA BytesOfConcat ==
    ASSUME NEW a \in Seq(Nat), NEW b \in Seq(Nat)
    PROVE  /\ encodedAll(a) \in Seq(Nat)
           /\ encodedAll(a \o b) = encodedAll(a) \o encodedAll(b)
  <1> DEFINE f == [c \in Nat |-> encoded(c)]
  <1>1. f \in [Nat -> Seq(Nat)]
    BY EncodedType
  <1>2. ASSUME NEW s \in Seq(Nat)
        PROVE  encodedAll(s) = FlattenSeq(Mapped(f, s))
    <2>1. \A i \in DOMAIN s : f[s[i]] = encoded(s[i])
      OBVIOUS
    <2>2. Mapped(f, s) = [i \in DOMAIN s |-> encoded(s[i])]
      BY <2>1 DEF Mapped
    <2> QED
      BY <2>2 DEF encodedAll
  <1>3. a \o b \in Seq(Nat)
    OBVIOUS
  <1> HIDE DEF f
  <1>4. /\ encodedAll(a) = FlattenSeq(Mapped(f, a))
        /\ encodedAll(b) = FlattenSeq(Mapped(f, b))
        /\ encodedAll(a \o b) = FlattenSeq(Mapped(f, a \o b))
    BY <1>2, <1>3
  <1>5. Mapped(f, a) \in Seq(Seq(Nat)) /\ Mapped(f, b) \in Seq(Seq(Nat))
    BY <1>1, MappedType
  <1>6. Mapped(f, a \o b) = Mapped(f, a) \o Mapped(f, b)
    BY MappedConcat
  <1>7. FlattenSeq(Mapped(f, a)) \in Seq(Nat)
    BY <1>5, FlattenType
  <1>8. FlattenSeq(Mapped(f, a) \o Mapped(f, b))
           = FlattenSeq(Mapped(f, a)) \o FlattenSeq(Mapped(f, b))
    BY <1>5, FlattenConcat
  <1> QED
    BY <1>4, <1>6, <1>7, <1>8

\* The bytes of one code point and of none.
LEMMA BytesOfOne ==
    ASSUME NEW c \in Nat
    PROVE  /\ encodedAll(<<c>>) = encoded(c)
           /\ encodedAll(<<>>) = <<>>
  <1>1. [i \in DOMAIN <<c>> |-> encoded(<<c>>[i])] = <<encoded(c)>>
    OBVIOUS
  <1>2. encodedAll(<<c>>) = FlattenSeq(<<encoded(c)>>)
    BY <1>1 DEF encodedAll
  <1>3. FlattenSeq(<<encoded(c)>>) = encoded(c)
    BY EncodedType, FlattenOne
  <1>4. [i \in DOMAIN <<>> |-> encoded(<<>>[i])] = <<>>
    OBVIOUS
  <1>5. encodedAll(<<>>) = FlattenSeq(<<>>)
    BY <1>4 DEF encodedAll
  <1>6. FlattenSeq(<<>>) = <<>>
    BY DEF FlattenSeq
  <1> QED
    BY <1>2, <1>3, <1>5, <1>6

-----------------------------------------------------------------------------
(* The beginnings of characters, byte by byte *)

\* How many bytes a character has that begins with this byte.
LEMMA Lengths ==
    ASSUME NEW b \in Byte
    PROVE  /\ b <= 191 => Length(b) = 1
           /\ 192 <= b /\ b <= 223 => Length(b) = 2
           /\ 224 <= b /\ b <= 239 => Length(b) = 3
           /\ 240 <= b /\ b <= 247 => Length(b) = 4
           /\ 248 <= b => Length(b) = 1
           /\ Length(b) \in 1..4
  BY SMT DEF Length, Byte

\* What the bytes of a code point stand for, by their number.
LEMMA CodeOfBytes ==
    ASSUME NEW w
    PROVE  /\ Len(w) = 1 => CodeOf(w) = w[1]
           /\ Len(w) = 2 => CodeOf(w) = (w[1] - 192) * 64 + (w[2] - 128)
           /\ Len(w) = 3 => CodeOf(w) = (w[1] - 224) * 4096 + (w[2] - 128) * 64 + (w[3] - 128)
           /\ Len(w) = 4 => CodeOf(w) = (w[1] - 240) * 262144 + (w[2] - 128) * 4096
                                        + (w[3] - 128) * 64 + (w[4] - 128)
  BY SMT DEF CodeOf

\* What the bytes that are there and m for those missing stand for.
LEMMA CompletedBytes ==
    ASSUME NEW w, NEW m \in Byte, NEW n \in 1..4, Len(w) \in Nat, Length(w[1]) = n
    PROVE  /\ Len(Completed(w, m)) = n
           /\ \A k \in 1..n : Completed(w, m)[k] = IF k <= Len(w) THEN w[k] ELSE m
  BY DEF Completed

\* The range of the second byte.
Lower(b) == IF b = 224 THEN 160 ELSE IF b = 240 THEN 144 ELSE 128

Upper(b) == IF b = 237 THEN 159 ELSE IF b = 244 THEN 143 ELSE 191

Good(w) ==
    /\ w[1] <= 127 \/ (194 <= w[1] /\ w[1] <= 244)
    /\ Len(w) <= Length(w[1])
    /\ Len(w) >= 2 => Lower(w[1]) <= w[2] /\ w[2] <= Upper(w[1])
    /\ Len(w) >= 3 => 128 <= w[3] /\ w[3] <= 191
    /\ Len(w) >= 4 => 128 <= w[4] /\ w[4] <= 191

\* The first four bytes.
LEMMA Elements ==
    ASSUME NEW w \in Seq(Byte), w # <<>>
    PROVE  /\ Len(w) \in Nat /\ Len(w) >= 1 /\ w[1] \in Byte
           /\ Len(w) >= 2 => w[2] \in Byte
           /\ Len(w) >= 3 => w[3] \in Byte
           /\ Len(w) >= 4 => w[4] \in Byte
  OBVIOUS

Ranges(w) ==
    /\ Len(w) \in Nat /\ Len(w) >= 1 /\ w[1] \in Nat /\ w[1] <= 255
    /\ Len(w) >= 2 => w[2] \in Nat
    /\ Len(w) >= 3 => w[3] \in Nat
    /\ Len(w) >= 4 => w[4] \in Nat

\* They are in these ranges.
LEMMA ElementRanges ==
    ASSUME NEW w \in Seq(Byte), w # <<>>
    PROVE  Ranges(w)
  <1>1. \A b \in Byte : b \in Nat /\ b <= 255
    BY DEF Byte
  <1> QED
    BY <1>1, Elements DEF Ranges

\* Plain arithmetic, said of numbers.
LEMMA UpToFour ==
    ASSUME NEW n \in Nat, n >= 1
    PROVE  /\ n <= 1 => n = 1
           /\ n <= 2 => n = 1 \/ n = 2
           /\ n <= 3 => n = 1 \/ n = 2 \/ n = 3
           /\ n <= 4 => n = 1 \/ n = 2 \/ n = 3 \/ n = 4
           /\ \A k \in 2..n : n <= 4 => k = 2 \/ (k = 3 /\ n >= 3) \/ (k = 4 /\ n >= 4)
           /\ n >= 2 => 2 \in 2..n
           /\ n >= 3 => 3 \in 2..n
           /\ n >= 4 => 4 \in 2..n
  OBVIOUS

\* Intervals, as comparisons.
LEMMA ByteRanges ==
    ASSUME NEW b \in Nat
    PROVE  /\ b \in (0..127) \cup (192..247) => b <= 127 \/ (192 <= b /\ b <= 247)
           /\ b <= 127 \/ (192 <= b /\ b <= 247) => b \in (0..127) \cup (192..247)
           /\ b \in 128..191 => 128 <= b /\ b <= 191
           /\ 128 <= b /\ b <= 191 => b \in 128..191
           /\ b <= 255 => b \in Byte
  BY SMT DEF Byte

\* The least and the greatest continuation.
LEMMA Filler == 128 \in Byte /\ 191 \in Byte
  BY DEF Byte

\* The bytes after the first.
Continuations(w) ==
    /\ Len(w) >= 2 => 128 <= w[2] /\ w[2] <= 191
    /\ Len(w) >= 3 => 128 <= w[3] /\ w[3] <= 191
    /\ Len(w) >= 4 => 128 <= w[4] /\ w[4] <= 191

\* All continuations, as comparisons.
LEMMA Tails ==
    ASSUME NEW w, Ranges(w), Len(w) <= 4
    PROVE  /\ (\A k \in 2..Len(w) : w[k] \in 128..191) => Continuations(w)
           /\ Continuations(w) => \A k \in 2..Len(w) : w[k] \in 128..191
  <1>1. /\ Len(w) \in Nat /\ Len(w) >= 1
        /\ Len(w) >= 2 => w[2] \in Nat
        /\ Len(w) >= 3 => w[3] \in Nat
        /\ Len(w) >= 4 => w[4] \in Nat
    BY DEF Ranges
  <1>2. ASSUME \A k \in 2..Len(w) : w[k] \in 128..191
        PROVE  Continuations(w)
    <2>1. /\ Len(w) >= 2 => w[2] \in 128..191
          /\ Len(w) >= 3 => w[3] \in 128..191
          /\ Len(w) >= 4 => w[4] \in 128..191
      BY <1>1, <1>2, UpToFour
    <2>2. \A x \in 128..191 : 128 <= x /\ x <= 191
      OBVIOUS
    <2> QED
      BY <2>1, <2>2 DEF Continuations
  <1>3. ASSUME Continuations(w), NEW k \in 2..Len(w)
        PROVE  w[k] \in 128..191
    <2>1. k = 2 \/ (k = 3 /\ Len(w) >= 3) \/ (k = 4 /\ Len(w) >= 4)
      BY <1>1, UpToFour
    <2>2. Len(w) >= 2
      BY <1>1
    <2>3. /\ 128 <= w[2] /\ w[2] <= 191 /\ w[2] \in Nat
          /\ Len(w) >= 3 => 128 <= w[3] /\ w[3] <= 191 /\ w[3] \in Nat
          /\ Len(w) >= 4 => 128 <= w[4] /\ w[4] <= 191 /\ w[4] \in Nat
      BY <1>1, <1>3, <2>2 DEF Continuations
    <2>4. /\ w[2] \in 128..191
          /\ Len(w) >= 3 => w[3] \in 128..191
          /\ Len(w) >= 4 => w[4] \in 128..191
      BY <2>3, ByteRanges
    <2> QED
      BY <2>1, <2>4
  <1> QED
    BY <1>2, <1>3

\* What Begins says of the bytes, given what they stand for.
Fitting(w, least, greatest, shortest) ==
    /\ w[1] <= 127 \/ (192 <= w[1] /\ w[1] <= 247)
    /\ Continuations(w)
    /\ greatest >= shortest /\ least <= 1114111
    /\ ~(least >= 55296 /\ greatest <= 57343)

\* Begins, by what the bytes can be completed to.
LEMMA BeginsUnfolds ==
    ASSUME NEW w, Ranges(w), NEW n \in 1..4, Length(w[1]) = n
    PROVE  LET least == CodeOf(Completed(w, 128))
               greatest == CodeOf(Completed(w, 191))
               shortest == <<0, 128, 2048, 65536>>[n]
           IN  /\ Begins(w) => Len(w) <= n /\ Fitting(w, least, greatest, shortest)
               /\ Len(w) <= n /\ Fitting(w, least, greatest, shortest) => Begins(w)
  <1> DEFINE least == CodeOf(Completed(w, 128))
             greatest == CodeOf(Completed(w, 191))
             shortest == <<0, 128, 2048, 65536>>[n]
             all == \A k \in 2..Len(w) : w[k] \in 128..191
  <1>1. Begins(w) <=>
          /\ w[1] \in (0..127) \cup (192..247)
          /\ Len(w) <= n
          /\ all
          /\ greatest >= shortest /\ least <= 1114111
          /\ ~(least >= 55296 /\ greatest <= 57343)
    BY DEF Begins
  <1>2. w[1] \in Nat /\ w[1] <= 255 /\ Len(w) \in Nat
    BY DEF Ranges
  <1>3. /\ w[1] \in (0..127) \cup (192..247) => w[1] <= 127 \/ (192 <= w[1] /\ w[1] <= 247)
        /\ w[1] <= 127 \/ (192 <= w[1] /\ w[1] <= 247) => w[1] \in (0..127) \cup (192..247)
    <2> DEFINE b == w[1]
    <2>1. b \in Nat
      BY <1>2
    <2> HIDE DEF b
    <2>2. /\ b \in (0..127) \cup (192..247) => b <= 127 \/ (192 <= b /\ b <= 247)
          /\ b <= 127 \/ (192 <= b /\ b <= 247) => b \in (0..127) \cup (192..247)
      BY <2>1, ByteRanges
    <2> QED
      BY <2>2 DEF b
  <1>4. Len(w) <= n => (all => Continuations(w)) /\ (Continuations(w) => all)
    <2>1. Len(w) <= n => Len(w) <= 4
      BY <1>2, SMT
    <2> QED
      BY <2>1, Tails
  <1> HIDE DEF least, greatest, shortest, all
  <1>5. ASSUME Begins(w)
        PROVE  Len(w) <= n /\ Fitting(w, least, greatest, shortest)
    <2>1. /\ w[1] <= 127 \/ (192 <= w[1] /\ w[1] <= 247)
          /\ Len(w) <= n
          /\ all
          /\ greatest >= shortest /\ least <= 1114111
          /\ ~(least >= 55296 /\ greatest <= 57343)
      BY <1>1, <1>3, <1>5
    <2>2. Continuations(w)
      BY <1>4, <2>1
    <2> QED
      BY <2>1, <2>2 DEF Fitting
  <1>6. ASSUME Len(w) <= n, Fitting(w, least, greatest, shortest)
        PROVE  Begins(w)
    <2>1. /\ w[1] <= 127 \/ (192 <= w[1] /\ w[1] <= 247)
          /\ Continuations(w)
          /\ greatest >= shortest /\ least <= 1114111
          /\ ~(least >= 55296 /\ greatest <= 57343)
      BY <1>6 DEF Fitting
    <2>2. all
      BY <1>4, <1>6, <2>1
    <2> QED
      BY <1>1, <1>3, <1>6, <2>1, <2>2
  <1>7. /\ Begins(w) => Len(w) <= n /\ Fitting(w, least, greatest, shortest)
        /\ Len(w) <= n /\ Fitting(w, least, greatest, shortest) => Begins(w)
    BY <1>5, <1>6
  <1> QED
    BY <1>7 DEF least, greatest, shortest

\* Begins and Good are the same.
Alike(w) == (Begins(w) => Good(w)) /\ (Good(w) => Begins(w))

\* For a byte that cannot be the first,
LEMMA BeginsNone ==
    ASSUME NEW w, Ranges(w), 128 <= w[1], w[1] <= 191 \/ 248 <= w[1]
    PROVE  Alike(w)
  <1>1. w[1] \in Nat /\ w[1] <= 255
    BY DEF Ranges
  <1>2. w[1] \notin (0..127) \cup (192..247)
    BY <1>1, SMT
  <1>3. ~Begins(w)
    BY <1>2 DEF Begins
  <1>4. ~Good(w)
    BY <1>1, SMT DEF Good
  <1> QED
    BY <1>3, <1>4 DEF Alike

\* for the only byte of a character,
LEMMA BeginsOne ==
    ASSUME NEW w, Ranges(w), w[1] <= 127
    PROVE  Alike(w)
  <1>1. /\ w[1] \in Nat /\ Len(w) \in Nat /\ Len(w) >= 1
        /\ Len(w) >= 2 => w[2] \in Nat
        /\ Len(w) >= 3 => w[3] \in Nat
        /\ Len(w) >= 4 => w[4] \in Nat
    BY DEF Ranges
  <1>2. Length(w[1]) = 1
    <2>1. w[1] \in Byte
      BY ByteRanges DEF Ranges
    <2>2. w[1] <= 191
      BY DEF Ranges
    <2> QED
      BY <2>1, <2>2, Lengths
  <1> DEFINE code(m) == w[1]
  <1>3. ASSUME NEW m \in Byte PROVE CodeOf(Completed(w, m)) = code(m)
    <2>1. /\ Len(Completed(w, m)) = 1
          /\ Completed(w, m)[1] = IF 1 <= Len(w) THEN w[1] ELSE m
      BY <1>1, <1>2, CompletedBytes
    <2>2. 1 <= Len(w)
      BY <1>1
    <2> QED
      BY <2>1, <2>2, CodeOfBytes
  <1>4. CodeOf(Completed(w, 128)) = code(128) /\ CodeOf(Completed(w, 191)) = code(191)
    BY <1>3, Filler
  <1>5. <<0, 128, 2048, 65536>>[1] = 0
    BY SMT
  <1> HIDE DEF code
  <1>6. /\ Begins(w) => Len(w) <= 1 /\ Fitting(w, code(128), code(191), 0)
        /\ Len(w) <= 1 /\ Fitting(w, code(128), code(191), 0) => Begins(w)
    BY <1>2, <1>4, <1>5, BeginsUnfolds
  <1>7. ASSUME Len(w) = 1
        PROVE  /\ Fitting(w, code(128), code(191), 0) => Good(w)
               /\ Good(w) => Fitting(w, code(128), code(191), 0)
    BY <1>1, <1>2, <1>7, SMT DEF Fitting, Good, code, Continuations, Lower, Upper
  <1>8. Good(w) => Len(w) <= 1
    BY <1>2 DEF Good
  <1>9. Len(w) <= 1 => Len(w) = 1
    BY <1>1, UpToFour
  <1> QED
    BY <1>6, <1>7, <1>8, <1>9 DEF Alike

\* for the first of two,
LEMMA BeginsTwo ==
    ASSUME NEW w, Ranges(w), 192 <= w[1], w[1] <= 223
    PROVE  Alike(w)
  <1>1. /\ w[1] \in Nat /\ Len(w) \in Nat /\ Len(w) >= 1
        /\ Len(w) >= 2 => w[2] \in Nat
        /\ Len(w) >= 3 => w[3] \in Nat
        /\ Len(w) >= 4 => w[4] \in Nat
    BY DEF Ranges
  <1>2. Length(w[1]) = 2
    <2>1. w[1] \in Byte
      BY ByteRanges DEF Ranges
    <2>2. 192 <= w[1] /\ w[1] <= 223
      BY DEF Ranges
    <2> QED
      BY <2>1, <2>2, Lengths
  <1> DEFINE code(m) == (w[1] - 192) * 64
               + ((IF 2 <= Len(w) THEN w[2] ELSE m) - 128)
  <1>3. ASSUME NEW m \in Byte PROVE CodeOf(Completed(w, m)) = code(m)
    <2>1. /\ Len(Completed(w, m)) = 2
          /\ Completed(w, m)[1] = IF 1 <= Len(w) THEN w[1] ELSE m
          /\ Completed(w, m)[2] = IF 2 <= Len(w) THEN w[2] ELSE m
      BY <1>1, <1>2, CompletedBytes
    <2>2. 1 <= Len(w)
      BY <1>1
    <2> QED
      BY <2>1, <2>2, CodeOfBytes
  <1>4. CodeOf(Completed(w, 128)) = code(128) /\ CodeOf(Completed(w, 191)) = code(191)
    BY <1>3, Filler
  <1>5. <<0, 128, 2048, 65536>>[2] = 128
    BY SMT
  <1> HIDE DEF code
  <1>6. /\ Begins(w) => Len(w) <= 2 /\ Fitting(w, code(128), code(191), 128)
        /\ Len(w) <= 2 /\ Fitting(w, code(128), code(191), 128) => Begins(w)
    BY <1>2, <1>4, <1>5, BeginsUnfolds
  <1>7. ASSUME Len(w) = 1
        PROVE  /\ Fitting(w, code(128), code(191), 128) => Good(w)
               /\ Good(w) => Fitting(w, code(128), code(191), 128)
    BY <1>1, <1>2, <1>7, SMT DEF Fitting, Good, code, Continuations, Lower, Upper
  <1>8. ASSUME Len(w) = 2
        PROVE  /\ Fitting(w, code(128), code(191), 128) => Good(w)
               /\ Good(w) => Fitting(w, code(128), code(191), 128)
    BY <1>1, <1>2, <1>8, SMT DEF Fitting, Good, code, Continuations, Lower, Upper
  <1>9. Good(w) => Len(w) <= 2
    BY <1>2 DEF Good
  <1>10. Len(w) <= 2 => Len(w) = 1 \/ Len(w) = 2
    BY <1>1, UpToFour
  <1> QED
    BY <1>6, <1>7, <1>8, <1>9, <1>10 DEF Alike

\* for the first of three: neither a longer form than needed nor a surrogate,
LEMMA BeginsThree ==
    ASSUME NEW w, Ranges(w), 224 <= w[1], w[1] <= 239
    PROVE  Alike(w)
  <1>1. /\ w[1] \in Nat /\ Len(w) \in Nat /\ Len(w) >= 1
        /\ Len(w) >= 2 => w[2] \in Nat
        /\ Len(w) >= 3 => w[3] \in Nat
        /\ Len(w) >= 4 => w[4] \in Nat
    BY DEF Ranges
  <1>2. Length(w[1]) = 3
    <2>1. w[1] \in Byte
      BY ByteRanges DEF Ranges
    <2>2. 224 <= w[1] /\ w[1] <= 239
      BY DEF Ranges
    <2> QED
      BY <2>1, <2>2, Lengths
  <1> DEFINE code(m) == (w[1] - 224) * 4096
               + ((IF 2 <= Len(w) THEN w[2] ELSE m) - 128) * 64
               + ((IF 3 <= Len(w) THEN w[3] ELSE m) - 128)
  <1>3. ASSUME NEW m \in Byte PROVE CodeOf(Completed(w, m)) = code(m)
    <2>1. /\ Len(Completed(w, m)) = 3
          /\ Completed(w, m)[1] = IF 1 <= Len(w) THEN w[1] ELSE m
          /\ Completed(w, m)[2] = IF 2 <= Len(w) THEN w[2] ELSE m
          /\ Completed(w, m)[3] = IF 3 <= Len(w) THEN w[3] ELSE m
      BY <1>1, <1>2, CompletedBytes
    <2>2. 1 <= Len(w)
      BY <1>1
    <2> QED
      BY <2>1, <2>2, CodeOfBytes
  <1>4. CodeOf(Completed(w, 128)) = code(128) /\ CodeOf(Completed(w, 191)) = code(191)
    BY <1>3, Filler
  <1>5. <<0, 128, 2048, 65536>>[3] = 2048
    BY SMT
  <1> HIDE DEF code
  <1>6. /\ Begins(w) => Len(w) <= 3 /\ Fitting(w, code(128), code(191), 2048)
        /\ Len(w) <= 3 /\ Fitting(w, code(128), code(191), 2048) => Begins(w)
    BY <1>2, <1>4, <1>5, BeginsUnfolds
  <1>7. ASSUME Len(w) = 1
        PROVE  /\ Fitting(w, code(128), code(191), 2048) => Good(w)
               /\ Good(w) => Fitting(w, code(128), code(191), 2048)
    BY <1>1, <1>2, <1>7, SMT DEF Fitting, Good, code, Continuations, Lower, Upper
  <1>8. ASSUME Len(w) = 2
        PROVE  /\ Fitting(w, code(128), code(191), 2048) => Good(w)
               /\ Good(w) => Fitting(w, code(128), code(191), 2048)
    BY <1>1, <1>2, <1>8, SMT DEF Fitting, Good, code, Continuations, Lower, Upper
  <1>9. ASSUME Len(w) = 3
        PROVE  /\ Fitting(w, code(128), code(191), 2048) => Good(w)
               /\ Good(w) => Fitting(w, code(128), code(191), 2048)
    BY <1>1, <1>2, <1>9, SMT DEF Fitting, Good, code, Continuations, Lower, Upper
  <1>10. Good(w) => Len(w) <= 3
    BY <1>2 DEF Good
  <1>11. Len(w) <= 3 => Len(w) = 1 \/ Len(w) = 2 \/ Len(w) = 3
    BY <1>1, UpToFour
  <1> QED
    BY <1>6, <1>7, <1>8, <1>9, <1>10, <1>11 DEF Alike

\* and for the first of four: nor beyond the last code point.
LEMMA BeginsFour ==
    ASSUME NEW w, Ranges(w), 240 <= w[1], w[1] <= 247
    PROVE  Alike(w)
  <1>1. /\ w[1] \in Nat /\ Len(w) \in Nat /\ Len(w) >= 1
        /\ Len(w) >= 2 => w[2] \in Nat
        /\ Len(w) >= 3 => w[3] \in Nat
        /\ Len(w) >= 4 => w[4] \in Nat
    BY DEF Ranges
  <1>2. Length(w[1]) = 4
    <2>1. w[1] \in Byte
      BY ByteRanges DEF Ranges
    <2>2. 240 <= w[1] /\ w[1] <= 247
      BY DEF Ranges
    <2> QED
      BY <2>1, <2>2, Lengths
  <1> DEFINE code(m) == (w[1] - 240) * 262144
               + ((IF 2 <= Len(w) THEN w[2] ELSE m) - 128) * 4096
               + ((IF 3 <= Len(w) THEN w[3] ELSE m) - 128) * 64
               + ((IF 4 <= Len(w) THEN w[4] ELSE m) - 128)
  <1>3. ASSUME NEW m \in Byte PROVE CodeOf(Completed(w, m)) = code(m)
    <2>1. /\ Len(Completed(w, m)) = 4
          /\ Completed(w, m)[1] = IF 1 <= Len(w) THEN w[1] ELSE m
          /\ Completed(w, m)[2] = IF 2 <= Len(w) THEN w[2] ELSE m
          /\ Completed(w, m)[3] = IF 3 <= Len(w) THEN w[3] ELSE m
          /\ Completed(w, m)[4] = IF 4 <= Len(w) THEN w[4] ELSE m
      BY <1>1, <1>2, CompletedBytes
    <2>2. 1 <= Len(w)
      BY <1>1
    <2> QED
      BY <2>1, <2>2, CodeOfBytes
  <1>4. CodeOf(Completed(w, 128)) = code(128) /\ CodeOf(Completed(w, 191)) = code(191)
    BY <1>3, Filler
  <1>5. <<0, 128, 2048, 65536>>[4] = 65536
    BY SMT
  <1> HIDE DEF code
  <1>6. /\ Begins(w) => Len(w) <= 4 /\ Fitting(w, code(128), code(191), 65536)
        /\ Len(w) <= 4 /\ Fitting(w, code(128), code(191), 65536) => Begins(w)
    BY <1>2, <1>4, <1>5, BeginsUnfolds
  <1>7. ASSUME Len(w) = 1
        PROVE  /\ Fitting(w, code(128), code(191), 65536) => Good(w)
               /\ Good(w) => Fitting(w, code(128), code(191), 65536)
    BY <1>1, <1>2, <1>7, SMT DEF Fitting, Good, code, Continuations, Lower, Upper
  <1>8. ASSUME Len(w) = 2
        PROVE  /\ Fitting(w, code(128), code(191), 65536) => Good(w)
               /\ Good(w) => Fitting(w, code(128), code(191), 65536)
    BY <1>1, <1>2, <1>8, SMT DEF Fitting, Good, code, Continuations, Lower, Upper
  <1>9. ASSUME Len(w) = 3
        PROVE  /\ Fitting(w, code(128), code(191), 65536) => Good(w)
               /\ Good(w) => Fitting(w, code(128), code(191), 65536)
    BY <1>1, <1>2, <1>9, SMT DEF Fitting, Good, code, Continuations, Lower, Upper
  <1>10. ASSUME Len(w) = 4
        PROVE  /\ Fitting(w, code(128), code(191), 65536) => Good(w)
               /\ Good(w) => Fitting(w, code(128), code(191), 65536)
    BY <1>1, <1>2, <1>10, SMT DEF Fitting, Good, code, Continuations, Lower, Upper
  <1>11. Good(w) => Len(w) <= 4
    BY <1>2 DEF Good
  <1>12. Len(w) <= 4 => Len(w) = 1 \/ Len(w) = 2 \/ Len(w) = 3 \/ Len(w) = 4
    BY <1>1, UpToFour
  <1> QED
    BY <1>6, <1>7, <1>8, <1>9, <1>10, <1>11, <1>12 DEF Alike

(* The beginnings of characters are told by the first byte, the range it has *)
(* the second one in, and the top bits of the others.                        *)
LEMMA BeginsIsGood ==
    ASSUME NEW w \in Seq(Byte), w # <<>>
    PROVE  (Begins(w) => Good(w)) /\ (Good(w) => Begins(w))
  <1>1. w[1] \in Nat
    BY ElementRanges DEF Ranges
  <1>2. \/ w[1] <= 127
        \/ 128 <= w[1] /\ (w[1] <= 191 \/ 248 <= w[1])
        \/ 192 <= w[1] /\ w[1] <= 223
        \/ 224 <= w[1] /\ w[1] <= 239
        \/ 240 <= w[1] /\ w[1] <= 247
    BY <1>1, SMT
  <1>3. Alike(w)
    BY <1>2, ElementRanges, BeginsNone, BeginsOne, BeginsTwo, BeginsThree, BeginsFour
  <1> QED
    BY <1>3 DEF Alike

-----------------------------------------------------------------------------
(* The longest beginning of a character *)

\* The elements of a part of a sequence.
LEMMA SubSeqElements ==
    ASSUME NEW S, NEW s \in Seq(S), NEW m \in 1..(Len(s) + 1), NEW n \in 0..Len(s), m <= n + 1
    PROVE  /\ SubSeq(s, m, n) \in Seq(S)
           /\ Len(SubSeq(s, m, n)) = n + 1 - m
           /\ \A i \in 1..(n + 1 - m) : SubSeq(s, m, n)[i] = s[m + i - 1]
  OBVIOUS

\* What a beginning begins with is one itself.
LEMMA GoodIsClosed ==
    ASSUME NEW v, NEW w, Len(v) \in Nat, Len(w) \in Nat, Len(v) <= Len(w), Good(w),
           v[1] = w[1], Len(v) >= 2 => v[2] = w[2], Len(v) >= 3 => v[3] = w[3],
           Len(v) >= 4 => v[4] = w[4], Length(w[1]) \in Nat
    PROVE  Good(v)
  BY DEF Good

\* The first bytes.
LEMMA Firsts ==
    ASSUME NEW bytes \in Seq(Byte), NEW n \in 1..Len(bytes)
    PROVE  /\ SubSeq(bytes, 1, n) \in Seq(Byte) /\ SubSeq(bytes, 1, n) # <<>>
           /\ Len(SubSeq(bytes, 1, n)) = n
           /\ \A i \in 1..n : SubSeq(bytes, 1, n)[i] = bytes[i]
  <1>1. 1 \in 1..(Len(bytes) + 1) /\ n \in 0..Len(bytes) /\ 1 <= n + 1
    OBVIOUS
  <1> DEFINE v == SubSeq(bytes, 1, n)
  <1>2. v \in Seq(Byte) /\ Len(v) = n + 1 - 1 /\ \A i \in 1..(n + 1 - 1) : v[i] = bytes[1 + i - 1]
    BY <1>1, SubSeqElements
  <1> HIDE DEF v
  <1>3. v \in Seq(Byte) /\ v # <<>> /\ Len(v) = n /\ \A i \in 1..n : v[i] = bytes[i]
    BY <1>2
  <1> QED
    BY <1>3 DEF v

\* The first bytes of a beginning are one.
LEMMA GoodFirsts ==
    ASSUME NEW bytes \in Seq(Byte), NEW n \in 1..Len(bytes), NEW m \in 1..n,
           Good(SubSeq(bytes, 1, n))
    PROVE  Good(SubSeq(bytes, 1, m))
  <1>1. m \in 1..Len(bytes) /\ m <= n /\ m \in Nat /\ n \in Nat
    OBVIOUS
  <1> DEFINE v == SubSeq(bytes, 1, m)
             w == SubSeq(bytes, 1, n)
  <1>2. v # <<>> /\ Len(v) = m /\ \A i \in 1..m : v[i] = bytes[i]
    BY <1>1, Firsts
  <1>3. w \in Seq(Byte) /\ w # <<>> /\ Len(w) = n /\ \A i \in 1..n : w[i] = bytes[i]
    BY Firsts
  <1>4. Length(w[1]) \in Nat
    BY <1>3, Elements, Lengths
  <1>5. Good(w)
    OBVIOUS
  <1> HIDE DEF v, w
  <1>6. \A i \in 1..m : v[i] = w[i]
    BY <1>1, <1>2, <1>3
  <1>7. /\ v[1] = w[1] /\ (m >= 2 => v[2] = w[2]) /\ (m >= 3 => v[3] = w[3])
        /\ (m >= 4 => v[4] = w[4])
    BY <1>1, <1>6
  <1>8. Good(v)
    BY <1>1, <1>2, <1>3, <1>4, <1>5, <1>7, GoodIsClosed
  <1> QED
    BY <1>8 DEF v

\* The greatest of at most four lengths, or 0.
LEMMA MaxWithZero ==
    ASSUME NEW s \in SUBSET (1..4)
    PROVE  /\ Max({0} \cup s) \in {0} \cup s
           /\ \A n \in 0..4 : n \in {0} \cup s /\ (\A m \in s : m <= n) => Max({0} \cup s) = n
  <1>1. \E x \in {0} \cup s : \A y \in {0} \cup s : x >= y
    <2>1. CASE 4 \in s
      BY <2>1
    <2>2. CASE 4 \notin s /\ 3 \in s
      BY <2>2
    <2>3. CASE 4 \notin s /\ 3 \notin s /\ 2 \in s
      BY <2>3
    <2>4. CASE 4 \notin s /\ 3 \notin s /\ 2 \notin s
      BY <2>4
    <2> QED
      BY <2>1, <2>2, <2>3, <2>4
  <1>2. Max({0} \cup s) \in {0} \cup s /\ \A y \in {0} \cup s : Max({0} \cup s) >= y
    BY <1>1 DEF Max
  <1>3. ASSUME NEW n \in 0..4, n \in {0} \cup s, \A m \in s : m <= n
        PROVE  Max({0} \cup s) = n
    <2> DEFINE x == Max({0} \cup s)
    <2>1. x \in {0} \cup s /\ x >= n
      BY <1>2, <1>3
    <2> HIDE DEF x
    <2>2. x = n
      BY <1>3, <2>1
    <2> QED
      BY <2>2 DEF x
  <1> QED
    BY <1>2, <1>3

\* The lengths among which LongestAt takes the greatest.
Fits(bytes, i) ==
    {n \in 1..4 : i + n - 1 <= Len(bytes) /\ Begins(SubSeq(bytes, i, i + n - 1))}

\* How long it is, and where the next one begins.
LEMMA LongestRange ==
    ASSUME NEW bytes \in Seq(Byte), NEW i \in 1..Len(bytes)
    PROVE  /\ LongestAt(bytes, i) \in 0..4
           /\ i + LongestAt(bytes, i) <= Len(bytes) + 1
           /\ Max({1, LongestAt(bytes, i)}) \in 1..4
           /\ i + Max({1, LongestAt(bytes, i)}) \in (i + 1)..(Len(bytes) + 1)
           /\ LongestAt(bytes, i) > 0 => Max({1, LongestAt(bytes, i)}) = LongestAt(bytes, i)
           /\ LongestAt(bytes, i) = 0 => Max({1, LongestAt(bytes, i)}) = 1
  <1> DEFINE n == LongestAt(bytes, i)
  <1>1. Fits(bytes, i) \in SUBSET (1..4)
    BY DEF Fits
  <1>2. n = Max({0} \cup Fits(bytes, i))
    BY DEF LongestAt, Fits
  <1>3. n \in {0} \cup Fits(bytes, i)
    BY <1>1, <1>2, MaxWithZero
  <1>4. \A m \in Fits(bytes, i) : m \in 1..4 /\ i + m - 1 <= Len(bytes)
    BY DEF Fits
  <1>5. Len(bytes) \in Nat /\ i \in Nat /\ 1 <= i /\ i <= Len(bytes)
    OBVIOUS
  <1> HIDE DEF n
  <1>6. n \in 0..4 /\ i + n <= Len(bytes) + 1
    BY <1>3, <1>4, <1>5
  <1>7. (n > 0 => Max({1, n}) = n) /\ (n = 0 => Max({1, n}) = 1)
    <2>1. n > 0 => \A y \in {1, n} : n >= y
      BY <1>6
    <2>2. n = 0 => \A y \in {1, n} : 1 >= y
      BY <1>6
    <2>3. ASSUME NEW x \in {1, n}, \A y \in {1, n} : x >= y
          PROVE  Max({1, n}) = x
      <3>1. Max({1, n}) \in {1, n} /\ \A y \in {1, n} : Max({1, n}) >= y
        BY <2>3 DEF Max
      <3> QED
        BY <1>6, <2>3, <3>1
    <2> QED
      BY <2>1, <2>2, <2>3
  <1>8. Max({1, n}) \in 1..4 /\ i + Max({1, n}) \in (i + 1)..(Len(bytes) + 1)
    <2>1. CASE n > 0
      <3>1. Max({1, n}) = n
        BY <1>7, <2>1
      <3> QED
        BY <1>5, <1>6, <2>1, <3>1
    <2>2. CASE n = 0
      <3>1. Max({1, n}) = 1
        BY <1>7, <2>2
      <3> QED
        BY <1>5, <3>1
    <2> QED
      BY <1>6, <2>1, <2>2
  <1> QED
    BY <1>6, <1>7, <1>8 DEF n

(* The longest beginning at the front is one with which it ends, or after    *)
(* which there is a byte that does not belong to it.                         *)
LEMMA LongestIs ==
    ASSUME NEW bytes \in Seq(Byte), bytes # <<>>, NEW n \in 0..4, n <= Len(bytes),
           n # 0 => Good(SubSeq(bytes, 1, n)),
           n = Len(bytes) \/ n = 4 \/ ~Good(SubSeq(bytes, 1, n + 1))
    PROVE  LongestAt(bytes, 1) = n
  <1>1. Fits(bytes, 1) \in SUBSET (1..4)
    BY DEF Fits
  <1>2. LongestAt(bytes, 1) = Max({0} \cup Fits(bytes, 1))
    BY DEF LongestAt, Fits
  <1>0. Len(bytes) \in Nat
    OBVIOUS
  <1>3. n \in {0} \cup Fits(bytes, 1)
    <2>1. SUFFICES ASSUME n # 0 PROVE n \in Fits(bytes, 1)
      OBVIOUS
    <2>2. n \in 1..Len(bytes) /\ n \in 1..4 /\ 1 + n - 1 = n
      BY <1>0, <2>1
    <2>3. SubSeq(bytes, 1, n) \in Seq(Byte) /\ SubSeq(bytes, 1, n) # <<>>
      BY <2>2, Firsts
    <2>4. Begins(SubSeq(bytes, 1, n))
      BY <2>1, <2>3, BeginsIsGood
    <2> QED
      BY <2>2, <2>4 DEF Fits
  <1>4. ASSUME NEW m \in Fits(bytes, 1) PROVE m <= n
    <2>1. m \in 1..4 /\ 1 + m - 1 <= Len(bytes) /\ Begins(SubSeq(bytes, 1, 1 + m - 1))
      BY DEF Fits
    <2>2. m \in 1..Len(bytes) /\ 1 + m - 1 = m
      BY <1>0, <2>1
    <2>3. SubSeq(bytes, 1, m) \in Seq(Byte) /\ SubSeq(bytes, 1, m) # <<>>
      BY <2>2, Firsts
    <2>4. Good(SubSeq(bytes, 1, m))
      BY <2>1, <2>2, <2>3, BeginsIsGood
    <2>5. SUFFICES ASSUME m > n PROVE FALSE
      BY <2>1
    <2>6. n + 1 \in 1..m /\ n # Len(bytes) /\ n # 4
      BY <1>0, <2>1, <2>2, <2>5
    <2>7. Good(SubSeq(bytes, 1, n + 1))
      BY <2>2, <2>4, <2>6, GoodFirsts
    <2> QED
      BY <2>6, <2>7
  <1>5. n \in 0..4
    OBVIOUS
  <1> QED
    BY <1>1, <1>2, <1>3, <1>4, <1>5, MaxWithZero

\* It is the same wherever the bytes are.
LEMMA LongestShift ==
    ASSUME NEW bytes \in Seq(Byte), NEW k \in 0..Len(bytes), NEW i \in 1..(Len(bytes) - k)
    PROVE  LET rest == SubSeq(bytes, k + 1, Len(bytes))
           IN  /\ LongestAt(rest, i) = LongestAt(bytes, i + k)
               /\ \A n \in 0..4 : i + n <= Len(rest) + 1 =>
                     SubSeq(rest, i, i + n - 1) = SubSeq(bytes, i + k, i + k + n - 1)
               /\ rest[i] = bytes[i + k]
               /\ Len(rest) = Len(bytes) - k
               /\ rest \in Seq(Byte)
  <1> DEFINE rest == SubSeq(bytes, k + 1, Len(bytes))
  <1>0. Len(bytes) \in Nat /\ k \in Nat /\ i \in Nat /\ 1 <= i /\ i <= Len(bytes) - k
    OBVIOUS
  <1>1. /\ rest \in Seq(Byte) /\ Len(rest) = Len(bytes) - k
        /\ \A j \in 1..(Len(bytes) - k) : rest[j] = bytes[j + k]
    <2>1. k + 1 \in 1..(Len(bytes) + 1) /\ Len(bytes) \in 0..Len(bytes) /\ k + 1 <= Len(bytes) + 1
      BY <1>0
    <2>2. /\ rest \in Seq(Byte) /\ Len(rest) = Len(bytes) + 1 - (k + 1)
          /\ \A j \in 1..(Len(bytes) + 1 - (k + 1)) : rest[j] = bytes[k + 1 + j - 1]
      BY <2>1, SubSeqElements
    <2> HIDE DEF rest
    <2>3. Len(bytes) + 1 - (k + 1) = Len(bytes) - k /\ \A j \in Nat : k + 1 + j - 1 = j + k
      BY <1>0
    <2> QED
      BY <2>2, <2>3
  <1> HIDE DEF rest
  <1>2. ASSUME NEW n \in 0..4, i + n <= Len(rest) + 1
        PROVE  SubSeq(rest, i, i + n - 1) = SubSeq(bytes, i + k, i + k + n - 1)
    <2> DEFINE a == SubSeq(rest, i, i + n - 1)
               b == SubSeq(bytes, i + k, i + k + n - 1)
    <2>1. a \in Seq(Byte) /\ Len(a) = n /\ \A j \in 1..n : a[j] = rest[i + j - 1]
      <3>1. i \in 1..(Len(rest) + 1) /\ i + n - 1 \in 0..Len(rest) /\ i <= i + n - 1 + 1
        BY <1>0, <1>1, <1>2
      <3>2. i + n - 1 + 1 - i = n
        BY <1>0
      <3> QED
        BY <1>1, <3>1, <3>2, SubSeqElements
    <2>2. b \in Seq(Byte) /\ Len(b) = n /\ \A j \in 1..n : b[j] = bytes[i + k + j - 1]
      <3>1. /\ i + k \in 1..(Len(bytes) + 1) /\ i + k + n - 1 \in 0..Len(bytes)
            /\ i + k <= i + k + n - 1 + 1
        BY <1>0, <1>1, <1>2
      <3>2. i + k + n - 1 + 1 - (i + k) = n
        BY <1>0
      <3> QED
        BY <3>1, <3>2, SubSeqElements
    <2> HIDE DEF a, b
    <2>3. ASSUME NEW j \in 1..n PROVE a[j] = b[j]
      <3>1. i + j - 1 \in 1..(Len(bytes) - k) /\ i + j - 1 + k = i + k + j - 1
        BY <1>0, <1>1, <1>2
      <3>2. rest[i + j - 1] = bytes[i + k + j - 1]
        BY <1>1, <3>1
      <3> QED
        BY <2>1, <2>2, <3>2
    <2>4. a = b
      BY <2>1, <2>2, <2>3, SeqEqual
    <2> QED
      BY <2>4 DEF a, b
  <1>3. Fits(rest, i) = Fits(bytes, i + k)
    <2>1. ASSUME NEW n \in 1..4
          PROVE  /\ i + n - 1 <= Len(rest) => i + k + n - 1 <= Len(bytes)
                 /\ i + k + n - 1 <= Len(bytes) => i + n - 1 <= Len(rest)
                 /\ i + n - 1 <= Len(rest) => n \in 0..4 /\ i + n <= Len(rest) + 1
      BY <1>0, <1>1
    <2>2. \A n \in 1..4 : i + n - 1 <= Len(rest) =>
              SubSeq(rest, i, i + n - 1) = SubSeq(bytes, i + k, i + k + n - 1)
      BY <1>2, <2>1
    <2> QED
      BY <2>1, <2>2, Zenon DEF Fits
  <1>4. LongestAt(rest, i) = LongestAt(bytes, i + k)
    <2>1. LongestAt(rest, i) = Max({0} \cup Fits(rest, i))
      BY DEF LongestAt, Fits
    <2>2. LongestAt(bytes, i + k) = Max({0} \cup Fits(bytes, i + k))
      BY DEF LongestAt, Fits
    <2> QED
      BY <1>3, <2>1, <2>2
  <1>5. rest[i] = bytes[i + k]
    BY <1>0, <1>1
  <1> QED
    BY <1>1, <1>2, <1>4, <1>5 DEF rest

-----------------------------------------------------------------------------
(* Scans: what goes through a sequence from the left, by one place or more *)

\* From the i-th place of n on, x[i] is what is found and next[i] where it goes on.
IsScan(f, x, next, n, m) ==
    f = [i \in 1..m |-> IF i > n THEN <<>> ELSE <<x[i]>> \o f[next[i]]]

\* There is a scan, from the right to the left.
LEMMA ScanExists ==
    ASSUME NEW x, NEW next, NEW n \in Nat, NEW m \in Nat, n <= m,
           \A i \in 1..n : next[i] \in (i + 1)..m
    PROVE  \E f : IsScan(f, x, next, n, m)
  <1> DEFINE From(f, k) ==
        f = [i \in (m + 1 - k)..m |-> IF i > n THEN <<>> ELSE <<x[i]>> \o f[next[i]]]
             K == {k \in Nat : k <= m => \E f : From(f, k)}
  <1> HIDE DEF From
  <1>1. 0 \in K
    <2>1. From([i \in (m + 1 - 0)..m |-> 0], 0)
      <3>1. (m + 1 - 0)..m = {}
        OBVIOUS
      <3> QED
        BY <3>1 DEF From
    <2> QED
      BY <2>1
  <1>2. ASSUME NEW k \in K PROVE k + 1 \in K
    <2>1. SUFFICES ASSUME k + 1 <= m PROVE \E f : From(f, k + 1)
      OBVIOUS
    <2>2. k \in Nat /\ k <= m
      BY <2>1
    <2>3. PICK f : From(f, k)
      BY <2>2
    <2>4. \A i \in (m + 1 - k)..m : f[i] = IF i > n THEN <<>> ELSE <<x[i]>> \o f[next[i]]
      BY <2>3 DEF From
    <2> DEFINE j == m - k
               first == IF j > n THEN <<>> ELSE <<x[j]>> \o f[next[j]]
               g == [i \in (m + 1 - (k + 1))..m |-> IF i = j THEN first ELSE f[i]]
    <2>5. j \in Nat /\ j >= 1 /\ j <= m /\ m + 1 - (k + 1) = j /\ m + 1 - k = j + 1
      BY <2>1, <2>2
    <2> HIDE DEF K
    <2>6. g[j] = first
      BY <2>5
    <2>7. \A i \in (j + 1)..m : g[i] = f[i]
      BY <2>5
    <2>10. g = [i \in j..m |-> g[i]]
      BY <2>5
    <2> HIDE DEF g
    <2>8. ASSUME NEW i \in j..m
          PROVE  g[i] = IF i > n THEN <<>> ELSE <<x[i]>> \o g[next[i]]
      <3>1. i <= n => next[i] \in (j + 1)..m
        <4>1. i <= n => i \in 1..n
          BY <2>5
        <4> QED
          BY <2>5, <4>1
      <3>2. i <= n => g[next[i]] = f[next[i]]
        BY <2>7, <3>1
      <3>3. CASE i = j
        BY <2>6, <3>2, <3>3, <2>5
      <3>4. CASE i # j
        <4>1. i \in (j + 1)..m
          BY <2>5, <3>4
        <4>2. g[i] = f[i]
          BY <2>7, <4>1
        <4>3. f[i] = IF i > n THEN <<>> ELSE <<x[i]>> \o f[next[i]]
          BY <2>4, <2>5, <4>1
        <4> QED
          BY <2>5, <3>2, <4>2, <4>3
      <3> QED
        BY <3>3, <3>4
    <2>9. From(g, k + 1)
      BY <2>5, <2>8, <2>10 DEF From
    <2> QED
      BY <2>9
  <1>3. K = Nat
    <2> HIDE DEF K
    <2>1. K \in SUBSET Nat
      BY DEF K
    <2> QED
      BY <1>1, <1>2, <2>1, Concatenation!SetInduction
  <1>4. m \in K
    BY <1>3
  <1>5. PICK f : From(f, m)
    <2>1. m <= m
      OBVIOUS
    <2> QED
      BY <1>4, <2>1
  <1>6. m + 1 - m = 1
    OBVIOUS
  <1> QED
    BY <1>5, <1>6 DEF IsScan, From

\* What is found, and where it goes on, k places further to the left.
IsShift(x, next, y, onward, n, m, k) ==
    /\ \A i \in 1..(n - k) : onward[i] \in (i + 1)..(m - k)
    /\ \A i \in 1..(n - k) : y[i] = x[i + k] /\ next[i + k] = onward[i] + k

(* A scan of what is right of the k-th place finds the same from there on. *)
LEMMA ScanShift ==
    ASSUME NEW f, NEW x, NEW next, NEW g, NEW y, NEW onward,
           NEW n \in Nat, NEW m \in Nat, NEW k \in 0..n, n <= m,
           IsScan(f, x, next, n, m), NEW p, NEW q, p = n - k, q = m - k, IsScan(g, y, onward, p, q),
           IsShift(x, next, y, onward, n, m, k)
    PROVE  \A i \in 1..(m - k) : g[i] = f[i + k]
  <1>1. /\ \A i \in 1..m : f[i] = IF i > n THEN <<>> ELSE <<x[i]>> \o f[next[i]]
        /\ \A i \in 1..(m - k) : g[i] = IF i > n - k THEN <<>> ELSE <<y[i]>> \o g[onward[i]]
    BY DEF IsScan
  <1>7. /\ \A i \in 1..(n - k) : onward[i] \in (i + 1)..(m - k)
        /\ \A i \in 1..(n - k) : y[i] = x[i + k] /\ next[i + k] = onward[i] + k
    BY DEF IsShift
  <1> DEFINE K == {l \in Nat : \A i \in 1..(m - k) : m - k - i <= l => g[i] = f[i + k]}
  <1>2. ASSUME NEW i \in 1..(m - k), \A j \in (i + 1)..(m - k) : g[j] = f[j + k]
        PROVE  g[i] = f[i + k]
    <2>1. i + k \in 1..m /\ (i + k > n <=> i > n - k) /\ i \in Nat
      OBVIOUS
    <2>2. CASE i > n - k
      BY <1>1, <2>1, <2>2
    <2>3. CASE ~(i > n - k)
      <3>1. i \in 1..(n - k)
        BY <2>1, <2>3
      <3>2. onward[i] \in (i + 1)..(m - k) /\ y[i] = x[i + k] /\ next[i + k] = onward[i] + k
        BY <1>7, <3>1
      <3>3. g[onward[i]] = f[onward[i] + k]
        BY <1>2, <3>2
      <3>4. g[i] = <<y[i]>> \o g[onward[i]]
        BY <1>1, <2>3
      <3>5. f[i + k] = <<x[i + k]>> \o f[next[i + k]]
        BY <1>1, <2>1, <2>3
      <3> QED
        BY <3>2, <3>3, <3>4, <3>5
    <2> QED
      BY <2>2, <2>3
  <1>3. 0 \in K
    <2>1. ASSUME NEW i \in 1..(m - k), m - k - i <= 0 PROVE g[i] = f[i + k]
      <3>1. (i + 1)..(m - k) = {}
        BY <2>1
      <3> QED
        BY <1>2, <3>1
    <2> QED
      BY <2>1
  <1>4. ASSUME NEW l \in K PROVE l + 1 \in K
    <2>1. l \in Nat /\ \A i \in 1..(m - k) : m - k - i <= l => g[i] = f[i + k]
      OBVIOUS
    <2>2. ASSUME NEW i \in 1..(m - k), m - k - i <= l + 1 PROVE g[i] = f[i + k]
      <3>1. ASSUME NEW j \in (i + 1)..(m - k) PROVE g[j] = f[j + k]
        <4>1. j \in 1..(m - k) /\ m - k - j <= l
          BY <2>1, <2>2
        <4> QED
          BY <2>1, <4>1
      <3> QED
        BY <1>2, <3>1
    <2> QED
      BY <2>1, <2>2
  <1>5. K = Nat
    <2> HIDE DEF K
    <2>1. K \in SUBSET Nat
      BY DEF K
    <2> QED
      BY <1>3, <1>4, <2>1, Concatenation!SetInduction
  <1>6. ASSUME NEW i \in 1..(m - k) PROVE g[i] = f[i + k]
    <2>1. m - k - i \in Nat /\ m - k - i <= m - k - i
      OBVIOUS
    <2> QED
      BY <1>5, <2>1
  <1> QED
    BY <1>6

(* What is found are sequences. *)
LEMMA ScanType ==
    ASSUME NEW S, NEW f, NEW x, NEW next, NEW n \in Nat, NEW m \in Nat, n <= m,
           IsScan(f, x, next, n, m), \A i \in 1..n : x[i] \in S /\ next[i] \in (i + 1)..m
    PROVE  \A i \in 1..m : f[i] \in Seq(S)
  <1>1. \A i \in 1..m : f[i] = IF i > n THEN <<>> ELSE <<x[i]>> \o f[next[i]]
    BY DEF IsScan
  <1> DEFINE K == {l \in Nat : \A i \in 1..m : m - i <= l => f[i] \in Seq(S)}
  <1>2. ASSUME NEW i \in 1..m, \A j \in (i + 1)..m : f[j] \in Seq(S)
        PROVE  f[i] \in Seq(S)
    <2>1. CASE i > n
      <3>1. f[i] = <<>>
        BY <1>1, <2>1
      <3>2. <<>> \in Seq(S)
        OBVIOUS
      <3> QED
        BY <3>1, <3>2
    <2>2. CASE ~(i > n)
      <3>1. i \in 1..n
        BY <2>2
      <3>2. x[i] \in S /\ f[next[i]] \in Seq(S)
        BY <1>2, <3>1
      <3>3. f[i] = <<x[i]>> \o f[next[i]]
        BY <1>1, <2>2
      <3>4. \A a \in S, s \in Seq(S) : <<a>> \o s \in Seq(S)
        OBVIOUS
      <3> QED
        BY <3>2, <3>3, <3>4
    <2> QED
      BY <2>1, <2>2
  <1>3. 0 \in K
    <2>1. ASSUME NEW i \in 1..m, m - i <= 0 PROVE f[i] \in Seq(S)
      <3>1. (i + 1)..m = {}
        BY <2>1
      <3> QED
        BY <1>2, <3>1
    <2> QED
      BY <2>1
  <1>4. ASSUME NEW l \in K PROVE l + 1 \in K
    <2>1. l \in Nat /\ \A i \in 1..m : m - i <= l => f[i] \in Seq(S)
      OBVIOUS
    <2>2. ASSUME NEW i \in 1..m, m - i <= l + 1 PROVE f[i] \in Seq(S)
      <3>1. ASSUME NEW j \in (i + 1)..m PROVE f[j] \in Seq(S)
        <4>1. j \in 1..m /\ m - j <= l
          BY <2>1, <2>2
        <4> QED
          BY <2>1, <4>1
      <3> QED
        BY <1>2, <3>1
    <2> QED
      BY <2>1, <2>2
  <1>5. K = Nat
    <2> HIDE DEF K
    <2>1. K \in SUBSET Nat
      BY DEF K
    <2> QED
      BY <1>3, <1>4, <2>1, Concatenation!SetInduction
  <1>6. ASSUME NEW i \in 1..m PROVE f[i] \in Seq(S)
    <2>1. m - i \in Nat /\ m - i <= m - i
      OBVIOUS
    <2> QED
      BY <1>5, <2>1
  <1> QED
    BY <1>6

-----------------------------------------------------------------------------
(* Decoded, one code point or error at a time *)

\* What there is at the i-th of the bytes, and where the next begins.
Found(bytes, i) ==
    IF LongestAt(bytes, i) = Length(bytes[i])
    THEN CodeOf(SubSeq(bytes, i, i + LongestAt(bytes, i) - 1)) ELSE Errors

Onward(bytes, i) == i + Max({1, LongestAt(bytes, i)})

IsDecoding(f, bytes) ==
    f = [i \in 1..(Len(bytes) + 1) |->
            IF i > Len(bytes) THEN <<>>
            ELSE <<IF LongestAt(bytes, i) = Length(bytes[i])
                   THEN CodeOf(SubSeq(bytes, i, i + LongestAt(bytes, i) - 1)) ELSE Errors>>
                 \o f[i + Max({1, LongestAt(bytes, i)})]]

\* The recursion of Decoded is a scan of what is found.
LEMMA DecodingIsScan ==
    ASSUME NEW bytes \in Seq(Byte)
    PROVE  \E x, next :
              /\ \A i \in 1..Len(bytes) : /\ x[i] = Found(bytes, i)
                                          /\ next[i] = Onward(bytes, i)
                                          /\ next[i] \in (i + 1)..(Len(bytes) + 1)
              /\ \A f : /\ IsScan(f, x, next, Len(bytes), Len(bytes) + 1) => IsDecoding(f, bytes)
                        /\ IsDecoding(f, bytes) => IsScan(f, x, next, Len(bytes), Len(bytes) + 1)
  <1> DEFINE x == [i \in 1..Len(bytes) |-> Found(bytes, i)]
             next == [i \in 1..Len(bytes) |-> Onward(bytes, i)]
             n == Len(bytes)
  <1>1. ASSUME NEW i \in 1..Len(bytes)
        PROVE  /\ x[i] = Found(bytes, i) /\ next[i] = Onward(bytes, i)
               /\ next[i] \in (i + 1)..(Len(bytes) + 1)
    BY LongestRange DEF Onward
  <1>2. ASSUME NEW f
        PROVE  /\ IsScan(f, x, next, n, n + 1) => IsDecoding(f, bytes)
               /\ IsDecoding(f, bytes) => IsScan(f, x, next, n, n + 1)
    <2> DEFINE a(i) == IF i > n THEN <<>> ELSE <<x[i]>> \o f[next[i]]
               b(i) == IF i > n THEN <<>> ELSE <<Found(bytes, i)>> \o f[Onward(bytes, i)]
    <2>1. IsScan(f, x, next, n, n + 1) <=> f = [i \in 1..(n + 1) |-> a(i)]
      BY DEF IsScan
    <2>2. IsDecoding(f, bytes) <=> f = [i \in 1..(n + 1) |-> b(i)]
      BY Zenon DEF IsDecoding, Found, Onward
    <2>3. \A i \in 1..(n + 1) : a(i) = b(i)
      <3>1. \A i \in 1..(n + 1) : ~(i > n) => i \in 1..n
        OBVIOUS
      <3> HIDE DEF x, next
      <3> QED
        BY <1>1, <3>1
    <2> HIDE DEF a, b
    <2>4. [i \in 1..(n + 1) |-> a(i)] = [i \in 1..(n + 1) |-> b(i)]
      BY <2>3
    <2> QED
      BY <2>1, <2>2, <2>4
  <1> HIDE DEF x, next
  <1> QED
    BY <1>1, <1>2

\* Decoded is its value at the first byte.
LEMMA DecodedIs ==
    ASSUME NEW bytes \in Seq(Byte)
    PROVE  \E f : IsDecoding(f, bytes) /\ Decoded(bytes) = f[1]
  <1> DEFINE F == CHOOSE f : IsDecoding(f, bytes)
  <1>1. PICK x, next :
              /\ \A i \in 1..Len(bytes) : /\ x[i] = Found(bytes, i)
                                          /\ next[i] = Onward(bytes, i)
                                          /\ next[i] \in (i + 1)..(Len(bytes) + 1)
              /\ \A f : /\ IsScan(f, x, next, Len(bytes), Len(bytes) + 1) => IsDecoding(f, bytes)
                        /\ IsDecoding(f, bytes) => IsScan(f, x, next, Len(bytes), Len(bytes) + 1)
    BY DecodingIsScan
  <1>2. Len(bytes) \in Nat /\ Len(bytes) + 1 \in Nat /\ Len(bytes) <= Len(bytes) + 1
    OBVIOUS
  <1>3. \E f : IsScan(f, x, next, Len(bytes), Len(bytes) + 1)
    BY <1>1, <1>2, ScanExists
  <1>4. IsDecoding(F, bytes)
    BY <1>1, <1>3
  <1>5. Decoded(bytes) = F[1]
    BY DEF Decoded, IsDecoding
  <1> HIDE DEF F
  <1> QED
    BY <1>4, <1>5

\* Without bytes there is nothing.
LEMMA DecodedEmpty == Decoded(<<>>) = <<>>
  <1>1. <<>> \in Seq(Byte) /\ Len(<<>>) = 0
    OBVIOUS
  <1>2. PICK f : IsDecoding(f, <<>>) /\ Decoded(<<>>) = f[1]
    BY <1>1, DecodedIs
  <1>3. 1 \in 1..(Len(<<>>) + 1) /\ 1 > Len(<<>>)
    BY <1>1
  <1>4. f[1] = <<>>
    BY <1>2, <1>3 DEF IsDecoding
  <1> QED
    BY <1>2, <1>4

(* One character or error is taken from the front, and the others are those *)
(* of what is left.                                                         *)
LEMMA DecodedStep ==
    ASSUME NEW bytes \in Seq(Byte), bytes # <<>>
    PROVE  Decoded(bytes) =
              <<Found(bytes, 1)>> \o Decoded(SubSeq(bytes, Onward(bytes, 1), Len(bytes)))
  <1>1. PICK x, next :
              /\ \A i \in 1..Len(bytes) : /\ x[i] = Found(bytes, i)
                                          /\ next[i] = Onward(bytes, i)
                                          /\ next[i] \in (i + 1)..(Len(bytes) + 1)
              /\ \A f : /\ IsScan(f, x, next, Len(bytes), Len(bytes) + 1) => IsDecoding(f, bytes)
                        /\ IsDecoding(f, bytes) => IsScan(f, x, next, Len(bytes), Len(bytes) + 1)
    BY DecodingIsScan
  <1>2. PICK f : IsDecoding(f, bytes) /\ Decoded(bytes) = f[1]
    BY DecodedIs
  <1> DEFINE n == Len(bytes)
             k == Onward(bytes, 1) - 1
             rest == SubSeq(bytes, Onward(bytes, 1), n)
  <1>3. n \in Nat /\ n >= 1 /\ 1 \in 1..n /\ 1 \in 1..(n + 1)
    OBVIOUS
  <1>4. k \in 1..n /\ k \in 0..n /\ k + 1 = Onward(bytes, 1) /\ k \in Nat
    BY <1>1, <1>3
  <1>5. Decoded(bytes) = <<Found(bytes, 1)>> \o f[k + 1]
    <2>1. f[1] = IF 1 > n THEN <<>> ELSE <<x[1]>> \o f[next[1]]
      BY <1>1, <1>2, <1>3 DEF IsScan
    <2>2. x[1] = Found(bytes, 1) /\ next[1] = k + 1
      BY <1>1, <1>3, <1>4
    <2> QED
      BY <1>2, <1>3, <2>1, <2>2
  <1>6. rest = SubSeq(bytes, k + 1, n)
    BY <1>4
  <1> HIDE DEF k
  <1>7. rest \in Seq(Byte) /\ Len(rest) = n - k
    <2>1. k + 1 \in 1..(n + 1) /\ n \in 0..n /\ k + 1 <= n + 1 /\ n + 1 - (k + 1) = n - k
      BY <1>3, <1>4
    <2>2. SubSeq(bytes, k + 1, n) \in Seq(Byte) /\ Len(SubSeq(bytes, k + 1, n)) = n + 1 - (k + 1)
      BY <2>1, SubSeqElements
    <2> HIDE DEF rest, n
    <2> QED
      BY <1>6, <2>1, <2>2
  <1>8. PICK y, onward :
              /\ \A i \in 1..Len(rest) : /\ y[i] = Found(rest, i)
                                         /\ onward[i] = Onward(rest, i)
                                         /\ onward[i] \in (i + 1)..(Len(rest) + 1)
              /\ \A h : /\ IsScan(h, y, onward, Len(rest), Len(rest) + 1) => IsDecoding(h, rest)
                        /\ IsDecoding(h, rest) => IsScan(h, y, onward, Len(rest), Len(rest) + 1)
    BY <1>7, DecodingIsScan
  <1>9. PICK g : IsDecoding(g, rest) /\ Decoded(rest) = g[1]
    BY <1>7, DecodedIs
  <1>10. ASSUME NEW i \in 1..(n - k)
         PROVE  Found(rest, i) = Found(bytes, i + k) /\ Onward(bytes, i + k) = Onward(rest, i) + k
    <2>1. /\ LongestAt(rest, i) = LongestAt(bytes, i + k)
          /\ \A l \in 0..4 : i + l <= Len(rest) + 1 =>
                SubSeq(rest, i, i + l - 1) = SubSeq(bytes, i + k, i + k + l - 1)
          /\ rest[i] = bytes[i + k]
      BY <1>4, <1>6, LongestShift
    <2>2. i \in 1..Len(rest) /\ i \in Nat
      BY <1>3, <1>4, <1>7
    <2> HIDE DEF rest
    <2>3. /\ LongestAt(rest, i) \in 0..4 /\ i + LongestAt(rest, i) <= Len(rest) + 1
          /\ Max({1, LongestAt(rest, i)}) \in 1..4
      BY <1>7, <2>2, LongestRange
    <2>4. SubSeq(rest, i, i + LongestAt(rest, i) - 1)
             = SubSeq(bytes, i + k, i + k + LongestAt(rest, i) - 1)
      BY <2>1, <2>3
    <2>5. Found(rest, i) = Found(bytes, i + k)
      BY <2>1, <2>4 DEF Found
    <2>6. Onward(bytes, i + k) = Onward(rest, i) + k
      <3> DEFINE z == Max({1, LongestAt(rest, i)})
      <3>1. Onward(bytes, i + k) = i + k + z /\ Onward(rest, i) = i + z
        BY <2>1 DEF Onward
      <3>2. z \in Nat
        BY <2>3
      <3> HIDE DEF z
      <3> QED
        BY <1>4, <2>2, <3>1, <3>2
    <2> QED
      BY <2>5, <2>6
  <1>11. \A i \in 1..(n + 1 - k) : g[i] = f[i + k]
    <2>1. IsScan(f, x, next, n, n + 1)
      BY <1>1, <1>2
    <2>2. IsScan(g, y, onward, n - k, n + 1 - k)
      <3>1. n - k + 1 = n + 1 - k
        BY <1>3, <1>4
      <3>2. IsScan(g, y, onward, Len(rest), Len(rest) + 1)
        BY <1>8, <1>9
      <3> QED
        BY <1>7, <3>1, <3>2
    <2>3. \A i \in 1..(n - k) : onward[i] \in (i + 1)..(n + 1 - k)
      <3>1. n - k + 1 = n + 1 - k
        BY <1>3, <1>4
      <3> QED
        BY <1>7, <1>8, <3>1
    <2>4. ASSUME NEW i \in 1..(n - k)
          PROVE  y[i] = x[i + k] /\ next[i + k] = onward[i] + k
      <3>1. i + k \in 1..n /\ i \in 1..Len(rest)
        BY <1>3, <1>4, <1>7
      <3>2. x[i + k] = Found(bytes, i + k) /\ next[i + k] = Onward(bytes, i + k)
        BY <1>1, <3>1
      <3>3. y[i] = Found(rest, i) /\ onward[i] = Onward(rest, i)
        BY <1>8, <3>1
      <3> QED
        BY <1>10, <3>2, <3>3
    <2>5. n + 1 \in Nat /\ n <= n + 1
      BY <1>3
    <2> DEFINE m == n + 1
    <2>6. m \in Nat /\ n <= m /\ n \in Nat /\ k \in 0..n
      BY <1>3, <1>4
    <2>10. m - k = n + 1 - k
      BY <1>3, <1>4
    <2>7. IsScan(f, x, next, n, m) /\ IsScan(g, y, onward, n - k, m - k)
      BY <2>1, <2>2, <2>10
    <2>8. \A i \in 1..(n - k) : onward[i] \in (i + 1)..(m - k)
      BY <2>3, <2>10
    <2> HIDE DEF n, rest, m
    <2>13. IsShift(x, next, y, onward, n, m, k)
      BY <2>4, <2>8, Zenon DEF IsShift
    <2> DEFINE p == n - k
               q == m - k
    <2>11. p = n - k /\ q = m - k /\ IsScan(g, y, onward, p, q)
      BY <2>7
    <2>12. IsScan(f, x, next, n, m)
      BY <2>7
    <2> HIDE DEF p, q
    <2>9. \A i \in 1..(m - k) : g[i] = f[i + k]
      BY <2>6, <2>11, <2>12, <2>13, ScanShift
    <2> QED
      BY <2>9, <2>10
  <1>12. g[1] = f[k + 1]
    <2>1. 1 \in 1..(n + 1 - k) /\ 1 + k = k + 1
      BY <1>3, <1>4
    <2> QED
      BY <1>11, <2>1
  <1> QED
    BY <1>5, <1>9, <1>12

\* What comes before the rest, and the rest.
LEMMA Cuts ==
    ASSUME NEW S, NEW w \in Seq(S), NEW rest \in Seq(S), NEW all, all = w \o rest
    PROVE  /\ all \in Seq(S) /\ Len(all) = Len(w) + Len(rest)
           /\ SubSeq(all, 1, Len(w)) = w
           /\ SubSeq(all, Len(w) + 1, Len(all)) = rest
           /\ rest # <<>> => SubSeq(all, 1, Len(w) + 1) = Append(w, rest[1])
           /\ w # <<>> => all # <<>> /\ all[1] = w[1]
  <1>1. /\ all \in Seq(S) /\ Len(all) = Len(w) + Len(rest)
        /\ \A i \in 1..Len(w) : all[i] = w[i]
        /\ \A i \in 1..Len(rest) : all[Len(w) + i] = rest[i]
        /\ Len(w) \in Nat /\ Len(rest) \in Nat
    OBVIOUS
  <1>2. SubSeq(all, 1, Len(w)) = w
    <2> DEFINE a == SubSeq(all, 1, Len(w))
    <2>1. 1 \in 1..(Len(all) + 1) /\ Len(w) \in 0..Len(all) /\ 1 <= Len(w) + 1
      BY <1>1
    <2>2. /\ a \in Seq(S) /\ Len(a) = Len(w) + 1 - 1
          /\ \A i \in 1..(Len(w) + 1 - 1) : a[i] = all[1 + i - 1]
      BY <1>1, <2>1, SubSeqElements
    <2> HIDE DEF a
    <2>3. Len(a) = Len(w) /\ \A i \in 1..Len(w) : a[i] = w[i]
      BY <1>1, <2>2
    <2>4. a = w
      BY <2>2, <2>3, SeqEqual
    <2> QED
      BY <2>4 DEF a
  <1>3. SubSeq(all, Len(w) + 1, Len(all)) = rest
    <2> DEFINE a == SubSeq(all, Len(w) + 1, Len(all))
    <2>1. /\ Len(w) + 1 \in 1..(Len(all) + 1) /\ Len(all) \in 0..Len(all)
          /\ Len(w) + 1 <= Len(all) + 1
      BY <1>1
    <2>2. /\ a \in Seq(S) /\ Len(a) = Len(all) + 1 - (Len(w) + 1)
          /\ \A i \in 1..(Len(all) + 1 - (Len(w) + 1)) : a[i] = all[Len(w) + 1 + i - 1]
      BY <1>1, <2>1, SubSeqElements
    <2> HIDE DEF a
    <2>5. /\ Len(all) + 1 - (Len(w) + 1) = Len(rest)
          /\ \A i \in 1..Len(rest) : Len(w) + 1 + i - 1 = Len(w) + i
      BY <1>1
    <2>3. Len(a) = Len(rest) /\ \A i \in 1..Len(rest) : a[i] = rest[i]
      BY <1>1, <2>2, <2>5
    <2>4. a = rest
      BY <2>2, <2>3, SeqEqual
    <2> QED
      BY <2>4 DEF a
  <1>4. ASSUME rest # <<>>
        PROVE  SubSeq(all, 1, Len(w) + 1) = Append(w, rest[1])
    <2> DEFINE a == SubSeq(all, 1, Len(w) + 1)
               b == Append(w, rest[1])
    <2>1. /\ 1 \in 1..(Len(all) + 1) /\ Len(w) + 1 \in 0..Len(all) /\ 1 <= Len(w) + 1 + 1
          /\ Len(rest) >= 1 /\ rest[1] \in S
      BY <1>1, <1>4
    <2>2. /\ a \in Seq(S) /\ Len(a) = Len(w) + 1 + 1 - 1
          /\ \A i \in 1..(Len(w) + 1 + 1 - 1) : a[i] = all[1 + i - 1]
      BY <1>1, <2>1, SubSeqElements
    <2>3. /\ b \in Seq(S) /\ Len(b) = Len(w) + 1 /\ b[Len(w) + 1] = rest[1]
          /\ \A i \in 1..Len(w) : b[i] = w[i]
      BY <2>1
    <2> HIDE DEF a, b
    <2>6. all[Len(w) + 1] = rest[1]
      BY <1>1, <2>1
    <2>8. /\ Len(w) + 1 + 1 - 1 = Len(w) + 1
          /\ \A i \in 1..(Len(w) + 1) : 1 + i - 1 = i
      BY <1>1
    <2>4. Len(a) = Len(w) + 1 /\ \A i \in 1..(Len(w) + 1) : a[i] = all[i]
      BY <2>2, <2>8
    <2>5. ASSUME NEW i \in 1..(Len(w) + 1) PROVE a[i] = b[i]
      <3>1. CASE i = Len(w) + 1
        BY <2>3, <2>4, <2>6, <3>1
      <3>2. CASE i # Len(w) + 1
        <4>1. i \in 1..Len(w)
          BY <1>1, <3>2
        <4> QED
          BY <1>1, <2>3, <2>4, <4>1
      <3> QED
        BY <3>1, <3>2
    <2>7. a = b
      BY <2>2, <2>3, <2>4, <2>5, SeqEqual
    <2> QED
      BY <2>7 DEF a, b
  <1>5. w # <<>> => all # <<>> /\ all[1] = w[1]
    <2>1. w # <<>> => 1 \in 1..Len(w)
      BY <1>1
    <2> QED
      BY <1>1, <2>1
  <1> QED
    BY <1>1, <1>2, <1>3, <1>4, <1>5

(* The bytes of a beginning, as far as they go together: a character if they *)
(* are all of it, and an error if not.                                       *)
LEMMA DecodedFront ==
    ASSUME NEW w \in Seq(Byte), w # <<>>, Good(w), NEW rest \in Seq(Byte),
           rest = <<>> \/ ~Good(Append(w, rest[1]))
    PROVE  Decoded(w \o rest) =
              <<IF Len(w) = Length(w[1]) THEN CodeOf(w) ELSE Errors>> \o Decoded(rest)
  <1> DEFINE bytes == w \o rest
             n == Len(w)
  <1>0. bytes = w \o rest
    OBVIOUS
  <1> HIDE DEF bytes
  <1>1. /\ bytes \in Seq(Byte) /\ Len(bytes) = n + Len(rest)
        /\ SubSeq(bytes, 1, n) = w
        /\ SubSeq(bytes, n + 1, Len(bytes)) = rest
        /\ rest # <<>> => SubSeq(bytes, 1, n + 1) = Append(w, rest[1])
        /\ bytes # <<>> /\ bytes[1] = w[1]
    BY <1>0, Cuts
  <1>2. n \in 1..4
    <2>1. Ranges(w) /\ Length(w[1]) \in 1..4
      BY ElementRanges, Elements, Lengths
    <2>2. n \in Nat /\ n >= 1 /\ n <= Length(w[1])
      BY <2>1 DEF Ranges, Good
    <2> DEFINE l == Length(w[1])
    <2>3. l \in 1..4 /\ n \in Nat /\ n >= 1 /\ n <= l
      BY <2>1, <2>2
    <2> HIDE DEF n, l
    <2> QED
      BY <2>3
  <1>3. Len(rest) \in Nat /\ (rest = <<>> => Len(rest) = 0)
    OBVIOUS
  <1> HIDE DEF n
  <1>4. LongestAt(bytes, 1) = n
    <2>1. n \in 0..4 /\ n <= Len(bytes) /\ (n # 0 => Good(SubSeq(bytes, 1, n)))
      <3>1. n \in 0..4 /\ n <= Len(bytes)
        BY <1>1, <1>2, <1>3
      <3>2. Good(SubSeq(bytes, 1, n))
        BY <1>1, Zenon
      <3> QED
        BY <3>1, <3>2
    <2>2. n = Len(bytes) \/ n = 4 \/ ~Good(SubSeq(bytes, 1, n + 1))
      <3>1. CASE rest = <<>>
        BY <1>1, <1>2, <1>3, <3>1
      <3>2. CASE rest # <<>>
        BY <1>1, <3>2
      <3> QED
        BY <3>1, <3>2
    <2> QED
      BY <1>1, <2>1, <2>2, LongestIs
  <1>5. Found(bytes, 1) = IF n = Length(w[1]) THEN CodeOf(w) ELSE Errors
    <2>1. 1 + n - 1 = n
      BY <1>2
    <2> QED
      BY <1>1, <1>4, <2>1 DEF Found
  <1>6. Onward(bytes, 1) = n + 1
    <2>0. Len(bytes) \in Nat /\ Len(bytes) # 0
      BY <1>1
    <2>1. 1 \in 1..Len(bytes)
      BY <2>0
    <2>2. Max({1, LongestAt(bytes, 1)}) = n
      BY <1>1, <1>2, <1>4, <2>1, LongestRange
    <2> QED
      BY <1>2, <1>4, <2>2 DEF Onward
  <1>7. Decoded(bytes) =
           <<Found(bytes, 1)>> \o Decoded(SubSeq(bytes, Onward(bytes, 1), Len(bytes)))
    BY <1>1, DecodedStep
  <1> QED
    BY <1>1, <1>5, <1>6, <1>7 DEF bytes, n

\* All bytes of a character.
Complete(w) == Good(w) /\ Len(w) = Length(w[1])

\* A character is followed by whatever follows it.
LEMMA DecodedUnit ==
    ASSUME NEW w \in Seq(Byte), w # <<>>, Complete(w), NEW rest \in Seq(Byte)
    PROVE  Decoded(w \o rest) = <<CodeOf(w)>> \o Decoded(rest)
  <1>1. Good(w) /\ Len(w) = Length(w[1])
    BY DEF Complete
  <1>2. ASSUME rest # <<>> PROVE ~Good(Append(w, rest[1]))
    <2> DEFINE v == Append(w, rest[1])
    <2>1. Len(v) = Len(w) + 1 /\ v[1] = w[1] /\ Len(w) \in Nat
      <3>1. rest[1] \in Byte /\ Len(w) \in Nat /\ Len(w) >= 1
        BY <1>2
      <3> QED
        BY <3>1
    <2> HIDE DEF v
    <2>2. ~(Len(v) <= Length(v[1]))
      BY <1>1, <2>1
    <2>3. ~Good(v)
      BY <2>2 DEF Good
    <2> QED
      BY <2>3 DEF v
  <1> QED
    BY <1>1, <1>2, DecodedFront

\* So is an error of bytes that another one does not go on with,
LEMMA DecodedBroken ==
    ASSUME NEW w \in Seq(Byte), w # <<>>, Good(w), Len(w) # Length(w[1]),
           NEW rest \in Seq(Byte), rest = <<>> \/ ~Good(Append(w, rest[1]))
    PROVE  Decoded(w \o rest) = <<Errors>> \o Decoded(rest)
  BY DecodedFront

\* and an error of a byte that can begin no character.
LEMMA DecodedBadLead ==
    ASSUME NEW b \in Byte, ~Good(<<b>>), NEW rest \in Seq(Byte)
    PROVE  Decoded(<<b>> \o rest) = <<Errors>> \o Decoded(rest)
  <1> DEFINE w == <<b>>
             bytes == w \o rest
  <1>0. w \in Seq(Byte) /\ w # <<>> /\ Len(w) = 1 /\ w[1] = b
    OBVIOUS
  <1>7. bytes = w \o rest /\ ~Good(w)
    OBVIOUS
  <1> HIDE DEF bytes, w
  <1>1. /\ bytes \in Seq(Byte) /\ Len(bytes) = Len(w) + Len(rest)
        /\ SubSeq(bytes, 1, Len(w)) = w
        /\ SubSeq(bytes, Len(w) + 1, Len(bytes)) = rest
        /\ bytes # <<>> /\ bytes[1] = w[1]
    BY <1>0, <1>7, Cuts
  <1>3. LongestAt(bytes, 1) = 0
    <2>1. Len(bytes) \in Nat /\ 0 \in 0..4 /\ 0 + 1 = 1
      BY <1>1
    <2>2. ~Good(SubSeq(bytes, 1, 0 + 1))
      <3>1. SubSeq(bytes, 1, 1) = w
        BY <1>0, <1>1
      <3>2. ~Good(SubSeq(bytes, 1, 1))
        BY <1>7, <3>1, Zenon
      <3> QED
        BY <2>1, <3>2, Zenon
    <2> QED
      BY <1>1, <2>1, <2>2, LongestIs
  <1>4. Found(bytes, 1) = Errors
    <2>1. Length(b) \in 1..4
      BY Lengths
    <2>2. LongestAt(bytes, 1) # Length(bytes[1])
      BY <1>0, <1>1, <1>3, <2>1
    <2> QED
      BY <2>2 DEF Found
  <1>5. Onward(bytes, 1) = Len(w) + 1
    <2>0. Len(bytes) \in Nat /\ Len(bytes) # 0
      BY <1>1
    <2>1. 1 \in 1..Len(bytes)
      BY <2>0
    <2>2. Max({1, LongestAt(bytes, 1)}) = 1
      BY <1>1, <1>3, <2>1, LongestRange
    <2> QED
      BY <1>0, <2>2 DEF Onward
  <1>6. Decoded(bytes) =
           <<Found(bytes, 1)>> \o Decoded(SubSeq(bytes, Onward(bytes, 1), Len(bytes)))
    BY <1>1, DecodedStep
  <1> QED
    BY <1>1, <1>4, <1>5, <1>6 DEF bytes, w

-----------------------------------------------------------------------------
(* What the decoder has read *)

\* The bits of the first byte that say how many there are.
Mark(b) == IF b <= 223 THEN 192 ELSE IF b <= 239 THEN 224 ELSE 240

\* What the first bytes contribute to the code point.
OfOne(w) == w[1] - Mark(w[1])
OfTwo(w) == OfOne(w) * 64 + (w[2] - 128)
OfThree(w) == OfTwo(w) * 64 + (w[3] - 128)

\* The decoder has read w of a character that has more bytes.
Amid(d, w) ==
    /\ w # <<>> /\ Good(w) /\ Len(w) < Length(w[1])
    /\ d.needed = Length(w[1]) - 1
    /\ d.seen = Len(w) - 1
    /\ d.lower = IF Len(w) = 1 THEN Lower(w[1]) ELSE 128
    /\ d.upper = IF Len(w) = 1 THEN Upper(w[1]) ELSE 191
    /\ Len(w) = 1 => d.codePoint = OfOne(w)
    /\ Len(w) = 2 => d.codePoint = OfTwo(w)
    /\ Len(w) = 3 => d.codePoint = OfThree(w)

HasRead(d, w) == (d = Initial /\ w = <<>>) \/ Amid(d, w)

\* What comes of the next byte: more are needed, a character, or an error of it
\* or of those before it.
Outcome(r, w, v) ==
    \/ Amid(r.decoder, v) /\ r = Continue(r.decoder)
    \/ Complete(v) /\ r = Emit(Initial, CodeOf(v))
    \/ w = <<>> /\ ~Good(v) /\ r = ErrorAfter(Initial)
    \/ w # <<>> /\ ~Good(v) /\ r = ErrorBefore(Initial)

\* A byte alone is a beginning, or a character.
LEMMA OneByte ==
    ASSUME NEW b \in Byte
    PROVE  /\ b <= 127 \/ (194 <= b /\ b <= 244) => Good(<<b>>)
           /\ Good(<<b>>) => b <= 127 \/ (194 <= b /\ b <= 244)
           /\ Len(<<b>>) = 1 /\ <<b>>[1] = b
           /\ CodeOf(<<b>>) = b
  <1> DEFINE v == <<b>>
  <1>1. Len(v) = 1 /\ v[1] = b
    OBVIOUS
  <1>2. Length(b) \in 1..4 /\ b \in Nat
    BY Lengths DEF Byte
  <1> HIDE DEF v
  <1>3. CodeOf(v) = b
    BY <1>1, CodeOfBytes
  <1>4. /\ b <= 127 \/ (194 <= b /\ b <= 244) => Good(v)
        /\ Good(v) => b <= 127 \/ (194 <= b /\ b <= 244)
    BY <1>1, <1>2, SMT DEF Good
  <1> QED
    BY <1>1, <1>3, <1>4 DEF v

\* A decoder that waits after the first byte is amid a character.
LEMMA AwaitLead ==
    ASSUME NEW b \in Byte, 194 <= b, b <= 244, NEW needed, needed = Length(b) - 1,
           NEW code, code = b - Mark(b), NEW lower, lower = Lower(b), NEW upper, upper = Upper(b)
    PROVE  LET r == Await(needed, 0, code, lower, upper)
           IN  Amid(r.decoder, <<b>>) /\ r = Continue(r.decoder)
  <1> DEFINE d == [codePoint |-> code, seen |-> 0, needed |-> needed,
                   lower |-> lower, upper |-> upper]
             v == <<b>>
  <1>1. Await(needed, 0, code, lower, upper) = Continue(d)
    BY DEF Await
  <1>2. Continue(d).decoder = d
    BY DEF Continue
  <1>3. /\ d.codePoint = code /\ d.seen = 0 /\ d.needed = needed
        /\ d.lower = lower /\ d.upper = upper
    OBVIOUS
  <1>4. v # <<>> /\ Len(v) = 1 /\ v[1] = b
    OBVIOUS
  <1>5. Good(v)
    BY OneByte
  <1>6. Length(b) > 1
    BY Lengths DEF Byte
  <1> HIDE DEF d, v
  <1>7. OfOne(v) = b - Mark(b)
    BY <1>4 DEF OfOne
  <1>8. Amid(d, v)
    BY <1>3, <1>4, <1>5, <1>6, <1>7, SMT DEF Amid
  <1> QED
    BY <1>1, <1>2, <1>8 DEF v

\* The fields of the decoder a stream begins with.
LEMMA InitialIs ==
    /\ Initial.needed = 0 /\ Initial.seen = 0 /\ Initial.lower = 128 /\ Initial.upper = 191
  BY DEF Initial

\* What lead makes of the first byte is what it says.
LEMMA LeadOutcome ==
    ASSUME NEW b \in Byte
    PROVE  Outcome(lead(Initial, b), <<>>, <<b>>)
  <1>0. b \in Nat /\ b <= 255
    BY DEF Byte
  <1>1. CASE b \in 0..127
    <2>1. lead(Initial, b) = Emit(Initial, b)
      BY <1>1 DEF lead
    <2>2. Good(<<b>>) /\ Len(<<b>>) = 1 /\ <<b>>[1] = b /\ CodeOf(<<b>>) = b
      BY <1>1, OneByte
    <2>3. Length(b) = 1
      BY <1>1, Lengths
    <2> QED
      BY <2>1, <2>2, <2>3 DEF Outcome, Complete
  <1>2. CASE b \in 194..223
    <2>1. lead(Initial, b) = Await(1, 0, b - 192, 128, 191)
      BY <1>2, LowBits, InitialIs DEF lead
    <2>2. 1 = Length(b) - 1
      BY <1>2, Lengths
    <2>3. b - 192 = b - Mark(b) /\ 128 = Lower(b) /\ 191 = Upper(b)
      BY <1>2 DEF Mark, Lower, Upper
    <2>4. 194 <= b /\ b <= 244
      BY <1>2
    <2> QED
      BY <2>1, <2>2, <2>3, <2>4, AwaitLead DEF Outcome
  <1>3. CASE b \in 224..239
    <2>1. lead(Initial, b) = Await(2, 0, b - 224, IF b = 224 THEN 160 ELSE 128,
                                   IF b = 237 THEN 159 ELSE 191)
      BY <1>3, LowBits, InitialIs DEF lead
    <2>2. 2 = Length(b) - 1
      BY <1>3, Lengths
    <2> DEFINE l == IF b = 224 THEN 160 ELSE 128
               u == IF b = 237 THEN 159 ELSE 191
    <2>3. b - 224 = b - Mark(b) /\ l = Lower(b) /\ u = Upper(b)
      BY <1>3 DEF Mark, Lower, Upper
    <2>4. 194 <= b /\ b <= 244
      BY <1>3
    <2> HIDE DEF l, u
    <2>5. LET r == Await(2, 0, b - 224, l, u)
          IN  Amid(r.decoder, <<b>>) /\ r = Continue(r.decoder)
      BY <2>2, <2>3, <2>4, AwaitLead
    <2> QED
      BY <2>1, <2>5 DEF Outcome, l, u
  <1>4. CASE b \in 240..244
    <2>1. lead(Initial, b) = Await(3, 0, b - 240, IF b = 240 THEN 144 ELSE 128,
                                   IF b = 244 THEN 143 ELSE 191)
      BY <1>4, LowBits, InitialIs DEF lead
    <2>2. 3 = Length(b) - 1
      BY <1>4, Lengths
    <2> DEFINE l == IF b = 240 THEN 144 ELSE 128
               u == IF b = 244 THEN 143 ELSE 191
    <2>3. b - 240 = b - Mark(b) /\ l = Lower(b) /\ u = Upper(b)
      BY <1>4 DEF Mark, Lower, Upper
    <2>4. 194 <= b /\ b <= 244
      BY <1>4
    <2> HIDE DEF l, u
    <2>5. LET r == Await(3, 0, b - 240, l, u)
          IN  Amid(r.decoder, <<b>>) /\ r = Continue(r.decoder)
      BY <2>2, <2>3, <2>4, AwaitLead
    <2> QED
      BY <2>1, <2>5 DEF Outcome, l, u
  <1>5. CASE b \notin (0..127) \cup (194..223) \cup (224..239) \cup (240..244)
    <2>1. lead(Initial, b) = ErrorAfter(Initial)
      BY <1>5 DEF lead
    <2>2. ~(b <= 127 \/ (194 <= b /\ b <= 244))
      BY <1>0, <1>5
    <2>3. ~Good(<<b>>)
      BY <2>2, OneByte
    <2> QED
      BY <2>1, <2>3 DEF Outcome
  <1> QED
    BY <1>1, <1>2, <1>3, <1>4, <1>5

\* By how many bytes there are, which the mark says.
LEMMA Marks ==
    ASSUME NEW b \in Byte, 194 <= b, b <= 244
    PROVE  /\ Length(b) = 2 => Mark(b) = 192
           /\ Length(b) = 3 => Mark(b) = 224
           /\ Length(b) = 4 => Mark(b) = 240
           /\ Length(b) \in 2..4
           /\ 128 <= Lower(b) /\ Upper(b) <= 191 /\ Lower(b) \in Nat /\ Upper(b) \in Nat
  <1>1. b \in Nat
    BY DEF Byte
  <1>2. 128 <= Lower(b) /\ Upper(b) <= 191 /\ Lower(b) \in Nat /\ Upper(b) \in Nat
    BY SMT DEF Lower, Upper
  <1>3. CASE b <= 223
    <2>1. Length(b) = 2
      BY <1>1, <1>3, Lengths
    <2> QED
      BY <1>2, <1>3, <2>1, SMT DEF Mark
  <1>4. CASE 224 <= b /\ b <= 239
    <2>1. Length(b) = 3
      BY <1>1, <1>4, Lengths
    <2> QED
      BY <1>1, <1>2, <1>4, <2>1, SMT DEF Mark
  <1>5. CASE 240 <= b
    <2>1. Length(b) = 4
      BY <1>1, <1>5, Lengths
    <2> QED
      BY <1>1, <1>2, <1>5, <2>1, SMT DEF Mark
  <1> QED
    BY <1>1, <1>3, <1>4, <1>5, SMT

\* One more byte.
LEMMA OneMore ==
    ASSUME NEW w \in Seq(Byte), w # <<>>, NEW b \in Byte, NEW v, v = Append(w, b)
    PROVE  /\ v \in Seq(Byte) /\ v # <<>> /\ Len(v) = Len(w) + 1 /\ Len(w) \in Nat
           /\ v[1] = w[1] /\ w[1] \in Byte
           /\ Len(w) >= 2 => v[2] = w[2]
           /\ Len(w) >= 3 => v[3] = w[3]
           /\ Len(w) >= 4 => v[4] = w[4]
           /\ \A i \in 1..Len(w) : v[i] = w[i]
           /\ v[Len(w) + 1] = b
  OBVIOUS

\* The byte is in the range of the second byte, or of a later one.
InRange(w, b) ==
    b \in (IF Len(w) = 1 THEN Lower(w[1]) ELSE 128)..(IF Len(w) = 1 THEN Upper(w[1]) ELSE 191)

\* The byte belongs to those before it if it is in the range.
LEMMA GoodAppend ==
    ASSUME NEW w \in Seq(Byte), Good(w), w # <<>>, Len(w) < Length(w[1]), NEW b \in Byte,
           NEW v, v = Append(w, b)
    PROVE  (InRange(w, b) => Good(v)) /\ (Good(v) => InRange(w, b))
  <1>1. /\ Len(v) = Len(w) + 1 /\ Len(w) \in Nat /\ v[1] = w[1] /\ w[1] \in Byte
        /\ Len(w) >= 2 => v[2] = w[2]
        /\ Len(w) >= 3 => v[3] = w[3]
        /\ v[Len(w) + 1] = b
    BY OneMore
  <1>2. b \in Nat /\ Length(w[1]) \in 1..4
    <2>1. b \in Nat
      BY DEF Byte
    <2>2. Length(w[1]) \in 1..4
      BY <1>1, Lengths
    <2> QED
      BY <2>1, <2>2
  <1>3. Len(w) >= 1 /\ w[1] \in Nat
    BY ElementRanges DEF Ranges
  <1>4. 194 <= w[1] /\ w[1] <= 244
    <2>1. w[1] <= 127 => Length(w[1]) = 1
      BY <1>1, <1>3, Lengths, SMT
    <2> QED
      BY <1>3, <2>1, SMT DEF Good
  <1>5. 128 <= Lower(w[1]) /\ Upper(w[1]) <= 191 /\ Lower(w[1]) \in Nat /\ Upper(w[1]) \in Nat
    BY <1>1, <1>4, Marks
  <1>6. Len(w) = 1 \/ Len(w) = 2 \/ Len(w) = 3
    <2> DEFINE l == Len(w)
               n == Length(w[1])
    <2>1. l \in Nat /\ n \in 1..4 /\ l >= 1 /\ l < n
      BY <1>1, <1>2, <1>3
    <2> HIDE DEF l, n
    <2>2. l = 1 \/ l = 2 \/ l = 3
      BY <2>1
    <2> QED
      BY <2>2 DEF l
  <1>7. CASE Len(w) = 1
    <2>1. Len(v) = 2 /\ v[2] = b
      BY <1>1, <1>7
    <2>2. /\ Lower(w[1]) <= b /\ b <= Upper(w[1]) => Good(v)
          /\ Good(v) => Lower(w[1]) <= b /\ b <= Upper(w[1])
      BY <1>1, <1>2, <1>4, <1>7, <2>1, SMT DEF Good
    <2>3. b \in Lower(w[1])..Upper(w[1]) <=> Lower(w[1]) <= b /\ b <= Upper(w[1])
      BY <1>2, <1>5
    <2> QED
      BY <1>7, <2>2, <2>3 DEF InRange
  <1>8. CASE Len(w) = 2
    <2>1. Len(v) = 3 /\ v[3] = b /\ v[2] = w[2]
      BY <1>1, <1>8
    <2>2. /\ 128 <= b /\ b <= 191 => Good(v)
          /\ Good(v) => 128 <= b /\ b <= 191
      BY <1>1, <1>2, <1>4, <1>8, <2>1, SMT DEF Good
    <2>3. b \in 128..191 <=> 128 <= b /\ b <= 191
      BY <1>2
    <2> QED
      BY <1>8, <2>2, <2>3 DEF InRange
  <1>9. CASE Len(w) = 3
    <2>1. Len(v) = 4 /\ v[4] = b /\ v[2] = w[2] /\ v[3] = w[3]
      BY <1>1, <1>9
    <2>2. /\ 128 <= b /\ b <= 191 => Good(v)
          /\ Good(v) => 128 <= b /\ b <= 191
      BY <1>1, <1>2, <1>4, <1>9, <2>1, SMT DEF Good
    <2>3. b \in 128..191 <=> 128 <= b /\ b <= 191
      BY <1>2
    <2> QED
      BY <1>9, <2>2, <2>3 DEF InRange
  <1> QED
    BY <1>6, <1>7, <1>8, <1>9

\* What two to four bytes stand for, by what the first of them contribute.
AllParts(v) ==
    /\ v[1] \in Byte /\ 194 <= v[1] /\ v[1] <= 244 /\ Len(v) = Length(v[1])
    /\ Len(v) >= 2 => v[2] \in Int
    /\ Len(v) >= 3 => v[3] \in Int
    /\ Len(v) >= 4 => v[4] \in Int

IsCodeByParts(v) ==
    /\ Len(v) = 2 => CodeOf(v) = OfOne(v) * 64 + (v[2] - 128)
    /\ Len(v) = 3 => CodeOf(v) = OfTwo(v) * 64 + (v[3] - 128)
    /\ Len(v) = 4 => CodeOf(v) = OfThree(v) * 64 + (v[4] - 128)

\* The bits of the last byte come after those before.
LEMMA CodeByParts ==
    ASSUME NEW v, AllParts(v)
    PROVE  IsCodeByParts(v)
  <1> DEFINE b == v[1]
  <1>1. b \in Byte /\ 194 <= b /\ b <= 244 /\ Length(b) = Len(v) /\ v[1] = b
    BY DEF AllParts
  <1> HIDE DEF b
  <1>2. b \in Int
    BY <1>1 DEF Byte
  <1>3. OfOne(v) = b - Mark(b)
    BY <1>1, Zenon DEF OfOne
  <1>4. ASSUME Len(v) = 2
        PROVE  CodeOf(v) = OfOne(v) * 64 + (v[2] - 128)
    <2>8. Length(b) = 2
      BY <1>1, <1>4
    <2>1. Mark(b) = 192
      BY <1>1, <2>8, Marks
    <2>2. CodeOf(v) = (b - 192) * 64 + (v[2] - 128)
      BY <1>1, <1>4, CodeOfBytes
    <2>3. OfOne(v) = b - 192
      BY <1>3, <2>1
    <2> QED
      BY <2>2, <2>3
  <1>5. ASSUME Len(v) = 3
        PROVE  CodeOf(v) = OfTwo(v) * 64 + (v[3] - 128)
    <2>8. Length(b) = 3
      BY <1>1, <1>5
    <2>1. Mark(b) = 224
      BY <1>1, <2>8, Marks
    <2>2. CodeOf(v) = (b - 224) * 4096 + (v[2] - 128) * 64 + (v[3] - 128)
      BY <1>1, <1>5, CodeOfBytes
    <2>3. OfOne(v) = b - 224
      BY <1>3, <2>1
    <2>4. OfTwo(v) = (b - 224) * 64 + (v[2] - 128)
      BY <2>3, Zenon DEF OfTwo
    <2>5. v[2] \in Int /\ v[3] \in Int
      BY <1>5 DEF AllParts
    <2>6. \A x, y, z \in Int : (x - 224) * 4096 + y * 64 + z = ((x - 224) * 64 + y) * 64 + z
      BY SMT
    <2>7. v[2] - 128 \in Int /\ v[3] - 128 \in Int
      BY <2>5
    <2> QED
      BY <1>2, <2>2, <2>4, <2>6, <2>7
  <1>6. ASSUME Len(v) = 4
        PROVE  CodeOf(v) = OfThree(v) * 64 + (v[4] - 128)
    <2>8. Length(b) = 4
      BY <1>1, <1>6
    <2>1. Mark(b) = 240
      BY <1>1, <2>8, Marks
    <2>2. CodeOf(v) = (b - 240) * 262144 + (v[2] - 128) * 4096
                      + (v[3] - 128) * 64 + (v[4] - 128)
      BY <1>1, <1>6, CodeOfBytes
    <2>3. OfOne(v) = b - 240
      BY <1>3, <2>1
    <2>4. OfThree(v) = ((b - 240) * 64 + (v[2] - 128)) * 64 + (v[3] - 128)
      BY <2>3, Zenon DEF OfTwo, OfThree
    <2>5. v[2] \in Int /\ v[3] \in Int /\ v[4] \in Int
      BY <1>6 DEF AllParts
    <2>6. \A w, x, y, z \in Int : (w - 240) * 262144 + x * 4096 + y * 64 + z
                                     = (((w - 240) * 64 + x) * 64 + y) * 64 + z
      BY SMT
    <2>7. v[2] - 128 \in Int /\ v[3] - 128 \in Int /\ v[4] - 128 \in Int
      BY <2>5
    <2> QED
      BY <1>2, <2>2, <2>4, <2>6, <2>7
  <1> QED
    BY <1>4, <1>5, <1>6 DEF IsCodeByParts

\* The first byte of several.
LEMMA AmidLeads ==
    ASSUME NEW w \in Seq(Byte), w # <<>>, Good(w), Length(w[1]) > 1
    PROVE  w[1] \in Byte /\ 194 <= w[1] /\ w[1] <= 244 /\ Length(w[1]) \in 2..4
  <1>1. w[1] \in Byte
    BY Elements
  <1>2. w[1] \in Nat
    BY ElementRanges DEF Ranges
  <1>3. w[1] <= 127 => Length(w[1]) = 1
    BY <1>1, <1>2, Lengths, SMT
  <1>4. 194 <= w[1] /\ w[1] <= 244
    BY <1>2, <1>3, SMT DEF Good
  <1> QED
    BY <1>1, <1>4, Marks

(* What continuation makes of the next byte is what it says of those read.  *)
LEMMA ContinuationOutcome ==
    ASSUME NEW d \in Decoder, NEW w \in Seq(Byte), Amid(d, w), NEW b \in Byte,
           NEW v, v = Append(w, b)
    PROVE  Outcome(continuation(d, b), w, v)
  <1>1. w # <<>> /\ Good(w) /\ Len(w) < Length(w[1])
    BY DEF Amid
  <1>2. /\ v \in Seq(Byte) /\ v # <<>> /\ Len(v) = Len(w) + 1 /\ Len(w) \in Nat
        /\ v[1] = w[1]
        /\ Len(w) >= 2 => v[2] = w[2]
        /\ Len(w) >= 3 => v[3] = w[3]
        /\ v[Len(w) + 1] = b
    BY <1>1, OneMore
  <1>0. Ranges(w) /\ Ranges(v) /\ b \in Nat
    <2>1. b \in Nat
      BY DEF Byte
    <2> QED
      BY <1>1, <1>2, <2>1, ElementRanges
  <1>3. w[1] \in Byte /\ 194 <= w[1] /\ w[1] <= 244 /\ Length(w[1]) \in 2..4
    <2>1. Length(w[1]) > 1
      <3> DEFINE l == Len(w)
                 n == Length(w[1])
      <3>1. l \in Nat /\ l >= 1 /\ l < n /\ n \in 1..4
        BY <1>0, <1>1, <1>2, Elements, Lengths DEF Ranges
      <3> HIDE DEF l, n
      <3>2. n > 1
        BY <3>1
      <3> QED
        BY <3>2 DEF n
    <2> QED
      BY <1>1, <2>1, AmidLeads
  <1>4. d.lower = (IF Len(w) = 1 THEN Lower(w[1]) ELSE 128)
        /\ d.upper = (IF Len(w) = 1 THEN Upper(w[1]) ELSE 191)
    BY DEF Amid
  <1>5. (b \in d.lower..d.upper => Good(v)) /\ (Good(v) => b \in d.lower..d.upper)
    <2>1. (InRange(w, b) => Good(v)) /\ (Good(v) => InRange(w, b))
      BY <1>1, GoodAppend
    <2>2. InRange(w, b) <=> b \in d.lower..d.upper
      BY <1>4 DEF InRange
    <2> QED
      BY <2>1, <2>2
  <1>6. CASE b \notin d.lower..d.upper
    <2>1. continuation(d, b) = ErrorBefore(Initial)
      BY <1>6 DEF continuation
    <2> QED
      BY <1>1, <1>5, <1>6, <2>1 DEF Outcome
  <1>7. CASE b \in d.lower..d.upper
    <2>1. Good(v)
      BY <1>5, <1>7
    <2>2. /\ d.lower >= 128 /\ d.upper <= 191 /\ d.lower \in Nat /\ d.upper \in Nat
      BY <1>3, <1>4, Marks
    <2>3. 128 <= b /\ b <= 191 /\ b % 64 = b - 128
      <3>1. b \in 128..191
        BY <1>0, <1>7, <2>2
      <3> QED
        BY <3>1, LowBits
    <2> DEFINE c == d.codePoint * 64 + (b - 128)
               l == Len(w)
               n == Length(w[1])
    <2>4. l = 1 \/ l = 2 \/ l = 3
      <3>1. l \in Nat /\ l >= 1 /\ l < n /\ n \in 2..4
        BY <1>0, <1>1, <1>3 DEF Ranges
      <3> HIDE DEF l, n
      <3> QED
        BY <3>1
    <2>5. /\ l = 1 => c = OfOne(v) * 64 + (v[2] - 128)
          /\ l = 2 => c = OfTwo(v) * 64 + (v[3] - 128)
          /\ l = 3 => c = OfThree(v) * 64 + (v[4] - 128)
      <3>1. l = 1 => d.codePoint = OfOne(v) /\ v[2] = b
        BY <1>2 DEF Amid, OfOne
      <3>2. l = 2 => d.codePoint = OfTwo(v) /\ v[3] = b
        BY <1>2 DEF Amid, OfOne, OfTwo
      <3>3. l = 3 => d.codePoint = OfThree(v) /\ v[4] = b
        BY <1>2 DEF Amid, OfOne, OfTwo, OfThree
      <3> QED
        BY <3>1, <3>2, <3>3
    <2>6. d.needed = n - 1 /\ d.seen = l - 1 /\ l \in Nat /\ n \in Nat /\ l < n
      BY <1>1, <1>2, <1>3 DEF Amid
    <2>7. d.codePoint * 64 + (b % 64) = c
      BY <2>3
    <2>8. CASE d.seen + 1 = d.needed
      <3>1. continuation(d, b) = Emit(Initial, c)
        BY <1>7, <2>7, <2>8 DEF continuation
      <3>2. Len(v) = Length(v[1])
        <4> HIDE DEF l, n
        <4>1. l + 1 = n
          BY <2>6, <2>8
        <4> QED
          BY <1>2, <4>1 DEF l, n
      <3>3. Complete(v)
        BY <2>1, <3>2 DEF Complete
      <3>4. c = CodeOf(v)
        <4>1. /\ Len(v) = 2 => CodeOf(v) = OfOne(v) * 64 + (v[2] - 128)
              /\ Len(v) = 3 => CodeOf(v) = OfTwo(v) * 64 + (v[3] - 128)
              /\ Len(v) = 4 => CodeOf(v) = OfThree(v) * 64 + (v[4] - 128)
          <5>1. v[1] \in Byte /\ 194 <= v[1] /\ v[1] <= 244
            BY <1>2, <1>3
          <5>2. /\ Len(v) >= 2 => v[2] \in Int
                /\ Len(v) >= 3 => v[3] \in Int
                /\ Len(v) >= 4 => v[4] \in Int
            BY <1>0 DEF Ranges
          <5>3. AllParts(v)
            BY <3>2, <5>1, <5>2 DEF AllParts
          <5>4. IsCodeByParts(v)
            BY <5>3, CodeByParts
          <5> QED
            BY <5>4 DEF IsCodeByParts
        <4>2. (l = 1 => Len(v) = 2) /\ (l = 2 => Len(v) = 3) /\ (l = 3 => Len(v) = 4)
          BY <1>2
        <4> HIDE DEF c, l
        <4> QED
          BY <2>4, <2>5, <4>1, <4>2
      <3> QED
        BY <3>1, <3>3, <3>4 DEF Outcome
    <2>9. CASE d.seen + 1 # d.needed
      <3>1. continuation(d, b) = Await(d.needed, d.seen + 1, c, 128, 191)
        BY <1>7, <2>7, <2>9 DEF continuation
      <3> DEFINE e == [codePoint |-> c, seen |-> d.seen + 1, needed |-> d.needed,
                       lower |-> 128, upper |-> 191]
      <3>2. continuation(d, b) = Continue(e) /\ Continue(e).decoder = e
        BY <3>1 DEF Await, Continue
      <3>3. /\ e.codePoint = c /\ e.seen = d.seen + 1 /\ e.needed = d.needed
            /\ e.lower = 128 /\ e.upper = 191
        OBVIOUS
      <3> HIDE DEF e
      <3>4. Amid(e, v)
        <4>1. Len(v) < Length(v[1]) /\ e.needed = Length(v[1]) - 1 /\ e.seen = Len(v) - 1
          <5> HIDE DEF l, n, c
          <5>1. l + 1 < n /\ e.needed = n - 1 /\ e.seen = l
            BY <2>6, <2>9, <3>3
          <5>2. Len(v) - 1 = l
            BY <1>2, <2>6 DEF l
          <5> QED
            BY <1>2, <5>1, <5>2 DEF l, n
        <4>2. Len(v) # 1 /\ e.lower = 128 /\ e.upper = 191
          BY <1>0, <1>2, <3>3 DEF Ranges
        <4>3. /\ Len(v) = 2 => e.codePoint = OfTwo(v)
              /\ Len(v) = 3 => e.codePoint = OfThree(v)
          <5>2. Len(v) = l + 1 /\ l \in Nat
            BY <1>2
          <5> HIDE DEF c, l
          <5>1. (Len(v) = 2 => l = 1) /\ (Len(v) = 3 => l = 2)
            BY <5>2
          <5> QED
            BY <2>5, <3>3, <5>1 DEF OfTwo, OfThree
        <4> QED
          BY <1>2, <2>1, <4>1, <4>2, <4>3 DEF Amid
      <3> QED
        BY <3>2, <3>4 DEF Outcome
    <2> QED
      BY <2>8, <2>9
  <1> QED
    BY <1>6, <1>7

(* The four things that come of a byte. *)
LEMMA HandlerOutcome ==
    ASSUME NEW d \in Decoder, NEW w \in Seq(Byte), HasRead(d, w), NEW b \in Byte
    PROVE  Outcome(handler(d, b), w, Append(w, b))
  <1>1. CASE d = Initial /\ w = <<>>
    <2>1. Append(w, b) = <<b>>
      BY <1>1
    <2>2. handler(d, b) = lead(Initial, b)
      BY <1>1, InitialIs DEF handler
    <2> QED
      BY <1>1, <2>1, <2>2, LeadOutcome
  <1>2. CASE Amid(d, w)
    <2>1. d.needed # 0
      <3>1. w # <<>> /\ Len(w) < Length(w[1]) /\ d.needed = Length(w[1]) - 1
        BY <1>2 DEF Amid
      <3>2. Len(w) >= 1 /\ Len(w) \in Nat /\ Length(w[1]) \in 1..4
        BY <3>1, Elements, Lengths
      <3> DEFINE l == Len(w)
                 n == Length(w[1])
      <3>3. l < n /\ d.needed = n - 1 /\ l >= 1 /\ l \in Nat /\ n \in 1..4
        BY <3>1, <3>2
      <3> HIDE DEF l, n
      <3> QED
        BY <3>3
    <2>2. handler(d, b) = continuation(d, b)
      BY <2>1 DEF handler
    <2> DEFINE v == Append(w, b)
    <2>3. v = Append(w, b)
      OBVIOUS
    <2> HIDE DEF v
    <2>4. Outcome(continuation(d, b), w, v)
      BY <1>2, <2>3, ContinuationOutcome
    <2> QED
      BY <2>2, <2>4 DEF v
  <1> QED
    BY <1>1, <1>2 DEF HasRead

-----------------------------------------------------------------------------
(* Characters and their bytes *)

\* The code point of two bytes.
OfTwoBytes(a, b) == (a - 192) * 64 + (b - 128)

\* It is a character, and these are its bytes.
LEMMA TwoBytes ==
    ASSUME NEW a \in Nat, 194 <= a, a <= 223, NEW b \in Nat, 128 <= b, b <= 191
    PROVE  OfTwoBytes(a, b) \in Characters /\ encoded(OfTwoBytes(a, b)) = <<a, b>>
  <1> DEFINE c == OfTwoBytes(a, b)
  <1>0. c = (a - 192) * 64 + (b - 128)
    BY DEF OfTwoBytes
  <1> HIDE DEF c
  <1>1. c \in Nat /\ 128 <= c /\ c <= 2047
    BY <1>0, SMT
  <1>2. c \div 64 = a - 192 /\ c % 64 = b - 128
    BY <1>0, SMT
  <1>3. c \in Characters
    BY <1>1, IsCharacter, SMT
  <1>4. encoded(c) = InTwo(c)
    BY <1>1, EncodedForms, SMT
  <1>5. (c \div 64) + 192 = a /\ 128 + (c % 64) = b
    BY <1>2, SMT
  <1>6. encoded(c) = <<a, b>>
    BY <1>4, <1>5, SMT DEF InTwo
  <1> QED
    BY <1>3, <1>6 DEF c

OfThreeBytes(a, b, d) == (a - 224) * 4096 + (b - 128) * 64 + (d - 128)

\* Of three.
LEMMA ThreeBytes ==
    ASSUME NEW a \in Nat, 224 <= a, a <= 239, NEW b \in Nat, Lower(a) <= b, b <= Upper(a),
           NEW d \in Nat, 128 <= d, d <= 191
    PROVE  /\ OfThreeBytes(a, b, d) \in Characters
           /\ encoded(OfThreeBytes(a, b, d)) = <<a, b, d>>
  <1> DEFINE c == OfThreeBytes(a, b, d)
  <1>0. c = (a - 224) * 4096 + (b - 128) * 64 + (d - 128)
    BY DEF OfThreeBytes
  <1> HIDE DEF c
  <1>1. /\ 128 <= b /\ b <= 191
        /\ a = 224 => b >= 160
        /\ a = 237 => b <= 159
    BY SMT DEF Lower, Upper
  <1>2. c \in Nat /\ 2048 <= c /\ c <= 65535 /\ (c < 55296 \/ c > 57343)
    BY <1>0, <1>1, SMT
  <1>3. c % 64 = d - 128 /\ c \div 64 = (a - 224) * 64 + (b - 128)
    BY <1>0, <1>1, SMT
  <1>4. c \div 4096 = a - 224
    BY <1>0, <1>1, SMT
  <1>5. (c \div 64) % 64 = b - 128
    BY <1>1, <1>3, SMT
  <1>6. c \in Characters
    BY <1>2, IsCharacter, SMT
  <1>7. encoded(c) = InThree(c)
    BY <1>2, EncodedForms, SMT
  <1>8. /\ (c \div 4096) + 224 = a /\ 128 + ((c \div 64) % 64) = b /\ 128 + (c % 64) = d
    BY <1>3, <1>4, <1>5, SMT
  <1>9. encoded(c) = <<a, b, d>>
    BY <1>7, <1>8, SMT DEF InThree
  <1> QED
    BY <1>6, <1>9 DEF c

OfFourBytes(a, b, d, e) ==
    (a - 240) * 262144 + (b - 128) * 4096 + (d - 128) * 64 + (e - 128)

\* Of four.
LEMMA FourBytes ==
    ASSUME NEW a \in Nat, 240 <= a, a <= 244, NEW b \in Nat, Lower(a) <= b, b <= Upper(a),
           NEW d \in Nat, 128 <= d, d <= 191, NEW e \in Nat, 128 <= e, e <= 191
    PROVE  /\ OfFourBytes(a, b, d, e) \in Characters
           /\ encoded(OfFourBytes(a, b, d, e)) = <<a, b, d, e>>
  <1> DEFINE c == OfFourBytes(a, b, d, e)
  <1>0. c = (a - 240) * 262144 + (b - 128) * 4096 + (d - 128) * 64 + (e - 128)
    BY DEF OfFourBytes
  <1> HIDE DEF c
  <1>1. /\ 128 <= b /\ b <= 191
        /\ a = 240 => b >= 144
        /\ a = 244 => b <= 143
    BY SMT DEF Lower, Upper
  <1>2. c \in Nat /\ 65536 <= c /\ c <= 1114111
    BY <1>0, <1>1, SMT
  <1>3. c % 64 = e - 128 /\ c \div 64 = (a - 240) * 4096 + (b - 128) * 64 + (d - 128)
    BY <1>0, <1>1, SMT
  <1>4. c \div 4096 = (a - 240) * 64 + (b - 128)
    BY <1>0, <1>1, SMT
  <1>5. c \div 262144 = a - 240
    BY <1>0, <1>1, SMT
  <1>6. (c \div 64) % 64 = d - 128
    BY <1>1, <1>3, SMT
  <1>7. (c \div 4096) % 64 = b - 128
    BY <1>1, <1>4, SMT
  <1>8. c \in Characters
    BY <1>2, IsCharacter, SMT
  <1>9. encoded(c) = InFour(c)
    BY <1>2, EncodedForms, SMT
  <1>10. /\ (c \div 262144) + 240 = a /\ 128 + ((c \div 4096) % 64) = b
         /\ 128 + ((c \div 64) % 64) = d /\ 128 + (c % 64) = e
    BY <1>3, <1>5, <1>6, <1>7, SMT
  <1>11. encoded(c) = <<a, b, d, e>>
    BY <1>9, <1>10, SMT DEF InFour
  <1> QED
    BY <1>8, <1>11 DEF c

\* Sequences of one to four elements.
LEMMA Tuples ==
    ASSUME NEW S, NEW w \in Seq(S)
    PROVE  /\ Len(w) = 1 => w = <<w[1]>>
           /\ Len(w) = 2 => w = <<w[1], w[2]>>
           /\ Len(w) = 3 => w = <<w[1], w[2], w[3]>>
           /\ Len(w) = 4 => w = <<w[1], w[2], w[3], w[4]>>
  OBVIOUS

(* The bytes of a character stand for one, and encoded gives them back.     *)
LEMMA CompleteIsCharacter ==
    ASSUME NEW w \in Seq(Byte), w # <<>>, Complete(w)
    PROVE  CodeOf(w) \in Characters /\ encoded(CodeOf(w)) = w
  <1> DEFINE a == w[1]
             n == Len(w)
             c == CodeOf(w)
  <1>1. /\ a \in Byte /\ a \in Nat /\ n \in Nat /\ n >= 1
        /\ n >= 2 => w[2] \in Nat
        /\ n >= 3 => w[3] \in Nat
        /\ n >= 4 => w[4] \in Nat
    BY Elements, ElementRanges DEF Ranges
  <1>2. /\ a <= 127 \/ (194 <= a /\ a <= 244)
        /\ n = Length(a)
        /\ n >= 2 => Lower(a) <= w[2] /\ w[2] <= Upper(a)
        /\ n >= 3 => 128 <= w[3] /\ w[3] <= 191
        /\ n >= 4 => 128 <= w[4] /\ w[4] <= 191
    BY DEF Complete, Good
  <1>3. /\ n = 1 => c = a
        /\ n = 2 => c = OfTwoBytes(a, w[2])
        /\ n = 3 => c = OfThreeBytes(a, w[2], w[3])
        /\ n = 4 => c = OfFourBytes(a, w[2], w[3], w[4])
    BY CodeOfBytes DEF OfTwoBytes, OfThreeBytes, OfFourBytes
  <1>4. /\ n = 1 => w = <<a>>
        /\ n = 2 => w = <<a, w[2]>>
        /\ n = 3 => w = <<a, w[2], w[3]>>
        /\ n = 4 => w = <<a, w[2], w[3], w[4]>>
    BY Tuples
  <1>5. /\ a <= 127 => n = 1
        /\ 194 <= a /\ a <= 223 => n = 2
        /\ 224 <= a /\ a <= 239 => n = 3
        /\ 240 <= a /\ a <= 244 => n = 4
    <2>1. /\ a <= 191 => Length(a) = 1
          /\ 192 <= a /\ a <= 223 => Length(a) = 2
          /\ 224 <= a /\ a <= 239 => Length(a) = 3
          /\ 240 <= a /\ a <= 247 => Length(a) = 4
      BY <1>1, Lengths
    <2> HIDE DEF a, n
    <2> QED
      BY <1>1, <1>2, <2>1, SMT
  <1> HIDE DEF a, n, c
  <1>6. CASE a <= 127
    <2>1. n = 1 /\ c = a
      BY <1>3, <1>5, <1>6
    <2>2. c \in Characters
      BY <1>1, <1>6, <2>1, IsCharacter, SMT
    <2>3. encoded(c) = <<a>>
      BY <1>1, <1>6, <2>1, EncodedForms, SMT
    <2> QED
      BY <1>4, <2>1, <2>2, <2>3 DEF c
  <1>7. CASE 194 <= a /\ a <= 223
    <2>1. n = 2 /\ c = OfTwoBytes(a, w[2])
      BY <1>3, <1>5, <1>7
    <2>2. w[2] \in Nat /\ 128 <= w[2] /\ w[2] <= 191
      BY <1>1, <1>2, <1>7, <2>1, SMT DEF Lower, Upper
    <2>3. c \in Characters /\ encoded(c) = <<a, w[2]>>
      BY <1>1, <1>7, <2>1, <2>2, TwoBytes, SMT
    <2> QED
      BY <1>4, <2>1, <2>3 DEF c
  <1>8. CASE 224 <= a /\ a <= 239
    <2>1. n = 3 /\ c = OfThreeBytes(a, w[2], w[3])
      BY <1>3, <1>5, <1>8
    <2>2. /\ w[2] \in Nat /\ w[3] \in Nat /\ Lower(a) <= w[2] /\ w[2] <= Upper(a)
          /\ 128 <= w[3] /\ w[3] <= 191
      BY <1>1, <1>2, <2>1
    <2>3. c \in Characters /\ encoded(c) = <<a, w[2], w[3]>>
      BY <1>1, <1>8, <2>1, <2>2, ThreeBytes, SMT
    <2> QED
      BY <1>4, <2>1, <2>3 DEF c
  <1>9. CASE 240 <= a /\ a <= 244
    <2>1. n = 4 /\ c = OfFourBytes(a, w[2], w[3], w[4])
      BY <1>3, <1>5, <1>9
    <2>2. /\ w[2] \in Nat /\ w[3] \in Nat /\ w[4] \in Nat
          /\ Lower(a) <= w[2] /\ w[2] <= Upper(a)
          /\ 128 <= w[3] /\ w[3] <= 191 /\ 128 <= w[4] /\ w[4] <= 191
      BY <1>1, <1>2, <2>1
    <2>3. c \in Characters /\ encoded(c) = <<a, w[2], w[3], w[4]>>
      BY <1>1, <1>9, <2>1, <2>2, FourBytes, SMT
    <2> QED
      BY <1>4, <2>1, <2>3 DEF c
  <1> QED
    BY <1>1, <1>2, <1>6, <1>7, <1>8, <1>9, SMT

\* What is no error is the code point of the bytes in front.
LEMMA FoundIs ==
    ASSUME NEW bytes \in Seq(Byte), NEW i \in 1..Len(bytes)
    PROVE  /\ LongestAt(bytes, i) # Length(bytes[i]) => Found(bytes, i) = Errors
           /\ LongestAt(bytes, i) = Length(bytes[i]) =>
                 LET w == SubSeq(bytes, i, i + LongestAt(bytes, i) - 1)
                 IN  /\ w \in Seq(Byte) /\ w # <<>> /\ Complete(w)
                     /\ Found(bytes, i) = CodeOf(w)
                     /\ Len(w) = LongestAt(bytes, i) /\ Onward(bytes, i) = i + Len(w)
  <1> DEFINE n == LongestAt(bytes, i)
             w == SubSeq(bytes, i, i + LongestAt(bytes, i) - 1)
  <1>1. n # Length(bytes[i]) => Found(bytes, i) = Errors
    BY DEF Found
  <1>2. ASSUME n = Length(bytes[i])
        PROVE  /\ w \in Seq(Byte) /\ w # <<>> /\ Complete(w)
               /\ Found(bytes, i) = CodeOf(w)
               /\ Len(w) = n /\ Onward(bytes, i) = i + Len(w)
    <2>1. bytes[i] \in Byte /\ Len(bytes) \in Nat /\ i \in Nat /\ 1 <= i /\ i <= Len(bytes)
      OBVIOUS
    <2>2. n \in 1..4 /\ i + n <= Len(bytes) + 1
      BY <1>2, <2>1, Lengths, LongestRange
    <2>3. Max({1, LongestAt(bytes, i)}) = n
      BY <2>2, LongestRange
    <2>4. n \in Fits(bytes, i)
      <3>1. Fits(bytes, i) \in SUBSET (1..4)
        BY DEF Fits
      <3>2. n = Max({0} \cup Fits(bytes, i))
        BY DEF LongestAt, Fits
      <3> HIDE DEF n
      <3>3. n \in {0} \cup Fits(bytes, i)
        BY <3>1, <3>2, MaxWithZero
      <3> QED
        BY <2>2, <3>3
    <2>5. Begins(w)
      BY <2>4 DEF Fits
    <2>6. w \in Seq(Byte) /\ Len(w) = n /\ w[1] = bytes[i]
      <3> DEFINE m == i + LongestAt(bytes, i) - 1
      <3>1. i \in 1..(Len(bytes) + 1) /\ m \in 0..Len(bytes) /\ i <= m + 1 /\ m + 1 - i = n
        <4> HIDE DEF n
        <4>1. m = i + n - 1
          BY DEF n
        <4> HIDE DEF m
        <4> QED
          BY <2>1, <2>2, <4>1
      <3>2. w = SubSeq(bytes, i, m)
        OBVIOUS
      <3> HIDE DEF m, n, w
      <3>3. w \in Seq(Byte) /\ Len(w) = n /\ \A j \in 1..n : w[j] = bytes[i + j - 1]
        BY <3>1, <3>2, SubSeqElements
      <3>4. 1 \in 1..n /\ i + 1 - 1 = i
        BY <2>1, <2>2
      <3>5. w[1] = bytes[i + 1 - 1]
        BY <3>3, <3>4
      <3> QED
        BY <3>3, <3>4, <3>5
    <2>8. Found(bytes, i) = CodeOf(w)
      BY <1>2 DEF Found
    <2>9. Onward(bytes, i) = i + n
      BY <2>3 DEF Onward
    <2> HIDE DEF w, n
    <2>7. w # <<>>
      BY <2>2, <2>6
    <2>10. Good(w)
      BY <2>5, <2>6, <2>7, BeginsIsGood
    <2>11. Complete(w)
      BY <1>2, <2>6, <2>10 DEF Complete
    <2> QED
      BY <2>6, <2>7, <2>8, <2>9, <2>11
  <1> QED
    BY <1>1, <1>2

Decodings == Seq(Characters \cup {Errors})

\* Characters and errors are decoded.
LEMMA DecodedType ==
    ASSUME NEW bytes \in Seq(Byte)
    PROVE  Decoded(bytes) \in Decodings
  <1>1. PICK x, next :
              /\ \A i \in 1..Len(bytes) : /\ x[i] = Found(bytes, i)
                                          /\ next[i] = Onward(bytes, i)
                                          /\ next[i] \in (i + 1)..(Len(bytes) + 1)
              /\ \A f : /\ IsScan(f, x, next, Len(bytes), Len(bytes) + 1) => IsDecoding(f, bytes)
                        /\ IsDecoding(f, bytes) => IsScan(f, x, next, Len(bytes), Len(bytes) + 1)
    BY DecodingIsScan
  <1>2. PICK f : IsDecoding(f, bytes) /\ Decoded(bytes) = f[1]
    BY DecodedIs
  <1>3. ASSUME NEW i \in 1..Len(bytes) PROVE Found(bytes, i) \in Characters \cup {Errors}
    <2>1. CASE LongestAt(bytes, i) # Length(bytes[i])
      BY <2>1, FoundIs
    <2>2. CASE LongestAt(bytes, i) = Length(bytes[i])
      <3> DEFINE w == SubSeq(bytes, i, i + LongestAt(bytes, i) - 1)
      <3>1. w \in Seq(Byte) /\ w # <<>> /\ Complete(w) /\ Found(bytes, i) = CodeOf(w)
        BY <2>2, FoundIs
      <3> HIDE DEF w
      <3> QED
        BY <3>1, CompleteIsCharacter
    <2> QED
      BY <2>1, <2>2
  <1> DEFINE n == Len(bytes)
             S == Characters \cup {Errors}
  <1>4. n \in Nat /\ n + 1 \in Nat /\ n <= n + 1 /\ 1 \in 1..(n + 1)
    OBVIOUS
  <1>5. IsScan(f, x, next, n, n + 1)
    BY <1>1, <1>2
  <1>6. \A i \in 1..n : x[i] \in S /\ next[i] \in (i + 1)..(n + 1)
    BY <1>1, <1>3
  <1> HIDE DEF n, S
  <1>7. \A i \in 1..(n + 1) : f[i] \in Seq(S)
    BY <1>4, <1>5, <1>6, ScanType
  <1> QED
    BY <1>2, <1>4, <1>7 DEF Decodings, S

-----------------------------------------------------------------------------
(* How far a text is decoded *)

\* Whatever follows: of the bytes that have been put in, D is what was made of those
\* before w, which is still open, and the stream comes after it.
Parses(D, w, bytes, rest) ==
    \A more \in Seq(Byte) : Decoded(bytes \o more) = D \o Decoded(w \o (rest \o more))

\* Before anything has been read.
LEMMA ParsesAnew ==
    ASSUME NEW bytes \in Seq(Byte)
    PROVE  Parses(<<>>, <<>>, bytes, bytes)
  <1>1. ASSUME NEW more \in Seq(Byte)
        PROVE  Decoded(bytes \o more) = <<>> \o Decoded(<<>> \o (bytes \o more))
    <2> DEFINE all == bytes \o more
    <2>1. all \in Seq(Byte)
      OBVIOUS
    <2> HIDE DEF all
    <2>2. <<>> \o all = all
      BY <2>1, ConcatEmptySeq
    <2>3. Decoded(all) \in Decodings
      BY <2>1, DecodedType
    <2>4. <<>> \o Decoded(all) = Decoded(all)
      BY <2>3, ConcatEmptySeq DEF Decodings
    <2> QED
      BY <2>2, <2>4 DEF all
  <1> QED
    BY <1>1 DEF Parses

(* Bytes are appended when all have been read. *)
LEMMA ParsesMore ==
    ASSUME NEW D, NEW w, NEW bytes \in Seq(Byte), Parses(D, w, bytes, <<>>), NEW new \in Seq(Byte)
    PROVE  Parses(D, w, bytes \o new, new)
  <1>1. ASSUME NEW more \in Seq(Byte)
        PROVE  Decoded((bytes \o new) \o more) = D \o Decoded(w \o (new \o more))
    <2> DEFINE all == new \o more
    <2>1. all \in Seq(Byte)
      OBVIOUS
    <2>2. (bytes \o new) \o more = bytes \o all
      BY ConcatAssociative
    <2> HIDE DEF all
    <2>3. <<>> \o all = all
      BY <2>1, ConcatEmptySeq
    <2>4. Decoded(bytes \o all) = D \o Decoded(w \o (<<>> \o all))
      BY <2>1 DEF Parses
    <2> QED
      BY <2>2, <2>3, <2>4 DEF all
  <1> QED
    BY <1>1 DEF Parses

\* Bytes are put together in any order.
LEMMA BytesAssociative ==
    ASSUME NEW a \in Seq(Byte), NEW b \in Seq(Byte), NEW c \in Seq(Byte)
    PROVE  (a \o b) \o c = a \o (b \o c)
  BY ConcatAssociative

\* So is what was decoded.
LEMMA DecodingsAssociative ==
    ASSUME NEW a \in Decodings, NEW b \in Decodings, NEW c \in Decodings
    PROVE  (a \o b) \o c = a \o (b \o c)
  BY ConcatAssociative DEF Decodings

\* The first byte of the rest belongs to either side.
LEMMA HeadMoves ==
    ASSUME NEW w \in Seq(Byte), NEW rest \in Seq(Byte), rest # <<>>, NEW more \in Seq(Byte)
    PROVE  /\ w \o (rest \o more) = Append(w, Head(rest)) \o (Tail(rest) \o more)
           /\ Append(w, Head(rest)) \in Seq(Byte) /\ Append(w, Head(rest)) # <<>>
           /\ Tail(rest) \in Seq(Byte) /\ Tail(rest) \o more \in Seq(Byte)
           /\ rest \o more \in Seq(Byte) /\ rest \o more # <<>>
           /\ (rest \o more)[1] = Head(rest) /\ Head(rest) \in Byte
  <1> DEFINE b == Head(rest)
             t == Tail(rest)
             o == <<b>>
  <1>1. b \in Byte /\ t \in Seq(Byte) /\ rest = o \o t /\ rest[1] = b
    OBVIOUS
  <1>2. o \in Seq(Byte) /\ Append(w, b) = w \o o
    BY <1>1
  <1>3. Append(w, b) \in Seq(Byte) /\ Append(w, b) # <<>>
    BY <1>1
  <1> HIDE DEF b, t, o
  <1>4. t \in Seq(Byte) /\ t \o more \in Seq(Byte)
    BY <1>1
  <1>5. rest \o more = o \o (t \o more)
    <2>1. (o \o t) \o more = o \o (t \o more)
      BY <1>2, <1>4, BytesAssociative
    <2> QED
      BY <1>1, <2>1
  <1>6. w \o (o \o (t \o more)) = (w \o o) \o (t \o more)
    <2> DEFINE tm == t \o more
    <2>1. tm \in Seq(Byte)
      BY <1>4
    <2> HIDE DEF tm
    <2>2. w \o (o \o tm) = (w \o o) \o tm
      BY <1>2, <2>1, BytesAssociative
    <2> QED
      BY <2>2 DEF tm
  <1>7. rest \o more \in Seq(Byte) /\ rest \o more # <<>> /\ (rest \o more)[1] = b
    BY <1>1
  <1>8. w \o (rest \o more) = Append(w, b) \o (t \o more)
    BY <1>2, <1>5, <1>6
  <1> QED
    BY <1>1, <1>3, <1>4, <1>7, <1>8 DEF b, t

\* The byte is one more of the beginning.
LEMMA ParsesContinue ==
    ASSUME NEW D, NEW w \in Seq(Byte), NEW bytes, NEW rest \in Seq(Byte), rest # <<>>,
           Parses(D, w, bytes, rest)
    PROVE  Parses(D, Append(w, Head(rest)), bytes, Tail(rest))
  <1>1. ASSUME NEW more \in Seq(Byte)
        PROVE  Decoded(bytes \o more)
                  = D \o Decoded(Append(w, Head(rest)) \o (Tail(rest) \o more))
    <2>1. Decoded(bytes \o more) = D \o Decoded(w \o (rest \o more))
      BY DEF Parses
    <2>2. w \o (rest \o more) = Append(w, Head(rest)) \o (Tail(rest) \o more)
      BY HeadMoves
    <2> QED
      BY <2>1, <2>2
  <1> QED
    BY <1>1 DEF Parses

\* One thing is found, and it is the next of what has been decoded.
LEMMA ParsesOne ==
    ASSUME NEW D \in Decodings, NEW w \in Seq(Byte), NEW bytes, NEW rest \in Seq(Byte),
           Parses(D, w, bytes, rest), NEW x \in Characters \cup {Errors},
           NEW left \in Seq(Byte),
           \A more \in Seq(Byte) :
              Decoded(w \o (rest \o more)) = <<x>> \o Decoded(left \o more)
    PROVE  Parses(D \o <<x>>, <<>>, bytes, left)
  <1>1. ASSUME NEW more \in Seq(Byte)
        PROVE  Decoded(bytes \o more) = (D \o <<x>>) \o Decoded(<<>> \o (left \o more))
    <2> DEFINE all == left \o more
               d == Decoded(all)
               o == <<x>>
               S == Characters \cup {Errors}
    <2>1. all \in Seq(Byte)
      OBVIOUS
    <2>2. Decoded(w \o (rest \o more)) = o \o d
      OBVIOUS
    <2>3. Decoded(bytes \o more) = D \o Decoded(w \o (rest \o more))
      BY DEF Parses
    <2> HIDE DEF all
    <2>4. <<>> \o all = all
      BY <2>1, ConcatEmptySeq
    <2>5. D \in Seq(S)
      BY DEF Decodings
    <2>10. d \in Seq(S)
      BY <2>1, DecodedType DEF Decodings
    <2>6. o \in Seq(S)
      OBVIOUS
    <2> HIDE DEF d, o, S
    <2>7. (D \o o) \o d = D \o (o \o d)
      BY <2>5, <2>6, <2>10, DecodingsAssociative DEF Decodings, S
    <2>8. Decoded(bytes \o more) = (D \o o) \o d
      BY <2>2, <2>3, <2>7
    <2> QED
      BY <2>4, <2>8 DEF d, o, all
  <1> QED
    BY <1>1 DEF Parses

(* The byte completes a character. *)
LEMMA ParsesUnit ==
    ASSUME NEW D \in Decodings, NEW w \in Seq(Byte), NEW bytes, NEW rest \in Seq(Byte),
           rest # <<>>, Parses(D, w, bytes, rest), Complete(Append(w, Head(rest)))
    PROVE  /\ Parses(D \o <<CodeOf(Append(w, Head(rest)))>>, <<>>, bytes, Tail(rest))
           /\ CodeOf(Append(w, Head(rest))) \in Characters
  <1> DEFINE v == Append(w, Head(rest))
             x == CodeOf(v)
             left == Tail(rest)
  <1>1. v \in Seq(Byte) /\ v # <<>> /\ left \in Seq(Byte)
    <2>1. <<>> \in Seq(Byte)
      OBVIOUS
    <2> QED
      BY <2>1, HeadMoves
  <1>2. x \in Characters
    BY <1>1, CompleteIsCharacter
  <1>3. ASSUME NEW more \in Seq(Byte)
        PROVE  Decoded(w \o (rest \o more)) = <<x>> \o Decoded(left \o more)
    <2>1. w \o (rest \o more) = v \o (left \o more) /\ left \o more \in Seq(Byte)
      BY HeadMoves
    <2>2. Complete(v)
      OBVIOUS
    <2> HIDE DEF v, left
    <2>3. Decoded(v \o (left \o more)) = <<x>> \o Decoded(left \o more)
      BY <1>1, <2>1, <2>2, DecodedUnit
    <2> QED
      BY <2>1, <2>3
  <1> HIDE DEF v, x, left
  <1>4. Parses(D \o <<x>>, <<>>, bytes, left)
    BY <1>1, <1>2, <1>3, ParsesOne
  <1> QED
    BY <1>2, <1>4 DEF v, x, left

(* The byte can begin no character. *)
LEMMA ParsesBadLead ==
    ASSUME NEW D \in Decodings, NEW bytes, NEW rest \in Seq(Byte),
           rest # <<>>, Parses(D, <<>>, bytes, rest), ~Good(Append(<<>>, Head(rest)))
    PROVE  Parses(D \o <<Errors>>, <<>>, bytes, Tail(rest))
  <1> DEFINE v == Append(<<>>, Head(rest))
             left == Tail(rest)
             b == Head(rest)
  <1>0. <<>> \in Seq(Byte)
    OBVIOUS
  <1>1. left \in Seq(Byte) /\ b \in Byte
    BY <1>0, HeadMoves
  <1>2. v = <<b>> /\ ~Good(v)
    OBVIOUS
  <1>3. ASSUME NEW more \in Seq(Byte)
        PROVE  Decoded(<<>> \o (rest \o more)) = <<Errors>> \o Decoded(left \o more)
    <2>1. <<>> \o (rest \o more) = v \o (left \o more) /\ left \o more \in Seq(Byte)
      BY <1>0, HeadMoves
    <2> HIDE DEF v, left, b
    <2>3. Decoded(<<b>> \o (left \o more)) = <<Errors>> \o Decoded(left \o more)
      BY <1>1, <1>2, <2>1, DecodedBadLead
    <2> QED
      BY <1>2, <2>1, <2>3
  <1> HIDE DEF v, left, b
  <1>4. Parses(D \o <<Errors>>, <<>>, bytes, left)
    BY <1>0, <1>1, <1>3, ParsesOne
  <1> QED
    BY <1>4 DEF left

(* The byte does not belong to those before it. *)
LEMMA ParsesBroken ==
    ASSUME NEW D \in Decodings, NEW w \in Seq(Byte), NEW bytes, NEW rest \in Seq(Byte),
           rest # <<>>, Parses(D, w, bytes, rest), ~Good(Append(w, Head(rest))),
           w # <<>>, Good(w), Len(w) # Length(w[1])
    PROVE  Parses(D \o <<Errors>>, <<>>, bytes, rest)
  <1>1. ASSUME NEW more \in Seq(Byte)
        PROVE  Decoded(w \o (rest \o more)) = <<Errors>> \o Decoded(rest \o more)
    <2> DEFINE all == rest \o more
    <2>1. all \in Seq(Byte) /\ all[1] = Head(rest)
      BY HeadMoves
    <2> HIDE DEF all
    <2>2. ~Good(Append(w, all[1]))
      BY <2>1
    <2>3. Decoded(w \o all) = <<Errors>> \o Decoded(all)
      BY <2>1, <2>2, DecodedBroken
    <2> QED
      BY <2>3 DEF all
  <1> QED
    BY <1>1, ParsesOne

(* Nothing follows: what is open is an error. *)
LEMMA ParsesEnd ==
    ASSUME NEW D \in Decodings, NEW w \in Seq(Byte), NEW bytes \in Seq(Byte),
           Parses(D, w, bytes, <<>>)
    PROVE  /\ w = <<>> => Decoded(bytes) = D
           /\ w # <<>> /\ Good(w) /\ Len(w) # Length(w[1]) => Decoded(bytes) = D \o <<Errors>>
  <1>1. <<>> \in Seq(Byte) /\ <<>> \o <<>> = <<>>
    OBVIOUS
  <1>2. bytes \o <<>> = bytes /\ w \o <<>> = w
    BY ConcatEmptySeq
  <1>3. Decoded(bytes \o <<>>) = D \o Decoded(w \o (<<>> \o <<>>))
    BY <1>1 DEF Parses
  <1>4. Decoded(bytes) = D \o Decoded(w)
    BY <1>1, <1>2, <1>3
  <1>5. D \o <<>> = D
    BY ConcatEmptySeq DEF Decodings
  <1>6. ASSUME w # <<>>, Good(w), Len(w) # Length(w[1])
        PROVE  Decoded(w) = <<Errors>>
    <2>1. Decoded(w \o <<>>) = <<Errors>> \o Decoded(<<>>)
      BY <1>1, <1>6, DecodedBroken
    <2>2. <<Errors>> \o <<>> = <<Errors>>
      OBVIOUS
    <2> QED
      BY <1>2, <2>1, <2>2, DecodedEmpty
  <1> QED
    BY <1>4, <1>5, <1>6, DecodedEmpty

-----------------------------------------------------------------------------
(* What is made of what was decoded *)

\* What an error is replaced with.
Shown(x) == IF x = Errors THEN Replacement ELSE x

\* An error is told from every character.
LEMMA ErrorsIsNone == Errors \notin Nat /\ Errors \notin Characters
  BY SMT DEF Errors, Characters

\* Characters are shown as they are.
LEMMA ShownType ==
    ASSUME NEW x \in Characters \cup {Errors}
    PROVE  /\ Shown(x) \in Characters
           /\ x \in Characters => Shown(x) = x
           /\ Shown(Errors) = Replacement
  <1>1. Shown(Errors) = Replacement
    BY DEF Shown
  <1>2. x \in Characters => Shown(x) = x
    BY ErrorsIsNone DEF Shown
  <1> QED
    BY <1>1, <1>2, ReplacementIsCharacter

(* Replaced goes through what was decoded one by one. *)
LEMMA ReplacedConcat ==
    ASSUME NEW D \in Decodings, NEW R \in Decodings
    PROVE  /\ Replaced(D) \in Seq(Characters)
           /\ Replaced(D \o R) = Replaced(D) \o Replaced(R)
  <1> DEFINE S == Characters \cup {Errors}
             f == [x \in S |-> Shown(x)]
  <1>1. \A x \in S : f[x] \in Characters
    BY ShownType
  <1>2. ASSUME NEW X \in Seq(S)
        PROVE  Replaced(X) = Mapped(f, X)
    <2>1. ASSUME NEW i \in DOMAIN X
          PROVE  f[X[i]] = Shown(X[i])
      <3>1. X[i] \in S
        OBVIOUS
      <3> QED
        BY <3>1
    <2> HIDE DEF f
    <2> QED
      BY <2>1 DEF Replaced, Mapped, Shown
  <1>3. D \in Seq(S) /\ R \in Seq(S)
    BY DEF Decodings
  <1> HIDE DEF f, S
  <1>4. D \o R \in Seq(S)
    BY <1>3
  <1>5. Mapped(f, D) \in Seq(Characters)
    BY <1>1, <1>3, MappedType
  <1>6. Mapped(f, D \o R) = Mapped(f, D) \o Mapped(f, R)
    BY <1>3, MappedConcat
  <1> QED
    BY <1>2, <1>3, <1>4, <1>5, <1>6

\* One more character or error.
LEMMA ReplacedOne ==
    ASSUME NEW D \in Decodings, NEW x \in Characters \cup {Errors}
    PROVE  /\ D \o <<x>> \in Decodings
           /\ Replaced(D \o <<x>>) = Replaced(D) \o <<Shown(x)>>
           /\ Replaced(<<>>) = <<>>
  <1>1. <<x>> \in Decodings
    BY DEF Decodings
  <1>2. Replaced(D \o <<x>>) = Replaced(D) \o Replaced(<<x>>)
    BY <1>1, ReplacedConcat
  <1>3. Replaced(<<x>>) = <<Shown(x)>>
    BY DEF Replaced, Shown
  <1>4. Replaced(<<>>) = <<>>
    BY DEF Replaced
  <1>5. D \o <<x>> \in Decodings
    BY <1>1 DEF Decodings
  <1> QED
    BY <1>2, <1>3, <1>4, <1>5

\* There is an error in what was decoded.
Failed(D) == Errors \in ToSet(D)

\* An error is in one of two parts.
LEMMA FailedConcat ==
    ASSUME NEW D \in Decodings, NEW R \in Decodings
    PROVE  /\ Failed(D \o R) => Failed(D) \/ Failed(R)
           /\ Failed(D) \/ Failed(R) => Failed(D \o R)
  <1> DEFINE S == Characters \cup {Errors}
             all == D \o R
  <1>1. D \in Seq(S) /\ R \in Seq(S)
    BY DEF Decodings
  <1>2. /\ Len(all) = Len(D) + Len(R) /\ DOMAIN all = 1..Len(all)
        /\ DOMAIN D = 1..Len(D) /\ DOMAIN R = 1..Len(R) /\ Len(D) \in Nat /\ Len(R) \in Nat
        /\ \A i \in 1..Len(all) : all[i] = IF i <= Len(D) THEN D[i] ELSE R[i - Len(D)]
    BY <1>1
  <1> HIDE DEF all, S
  <1>3. ASSUME Failed(all) PROVE Failed(D) \/ Failed(R)
    <2>1. PICK i \in DOMAIN all : all[i] = Errors
      BY <1>3 DEF Failed, ToSet
    <2>2. CASE i <= Len(D)
      <3>1. i \in DOMAIN D /\ D[i] = Errors
        BY <1>2, <2>1, <2>2
      <3> QED
        BY <3>1 DEF Failed, ToSet
    <2>3. CASE ~(i <= Len(D))
      <3>1. i - Len(D) \in DOMAIN R /\ R[i - Len(D)] = Errors
        BY <1>2, <2>1, <2>3
      <3> QED
        BY <3>1 DEF Failed, ToSet
    <2> QED
      BY <2>2, <2>3
  <1>4. ASSUME Failed(D) PROVE Failed(all)
    <2>1. PICK i \in DOMAIN D : D[i] = Errors
      BY <1>4 DEF Failed, ToSet
    <2>2. i \in DOMAIN all /\ all[i] = Errors
      BY <1>2, <2>1
    <2> QED
      BY <2>2 DEF Failed, ToSet
  <1>5. ASSUME Failed(R) PROVE Failed(all)
    <2>1. PICK i \in DOMAIN R : R[i] = Errors
      BY <1>5 DEF Failed, ToSet
    <2>2. Len(D) + i \in DOMAIN all /\ all[Len(D) + i] = Errors
      <3> DEFINE j == Len(D) + i
      <3>1. j \in 1..Len(all) /\ ~(j <= Len(D)) /\ j - Len(D) = i
        BY <1>2, <2>1
      <3> HIDE DEF j
      <3>2. all[j] = R[i]
        BY <1>2, <3>1
      <3> QED
        BY <1>2, <2>1, <3>1, <3>2 DEF j
    <2> QED
      BY <2>2 DEF Failed, ToSet
  <1> QED
    BY <1>3, <1>4, <1>5 DEF all

\* In a part of one, or of none.
LEMMA FailedOne ==
    /\ ~Failed(<<>>)
    /\ \A x : x # Errors => ~Failed(<<x>>)
    /\ Failed(<<Errors>>)
  <1>1. ~Failed(<<>>)
    BY DEF Failed, ToSet
  <1>2. ASSUME NEW x PROVE ToSet(<<x>>) = {x}
    BY DEF ToSet
  <1> QED
    BY <1>1, <1>2 DEF Failed

-----------------------------------------------------------------------------
(* The byte order mark *)

\* WithoutBOM, for a decoder with this option.
Stripped(codePoints, ignore) ==
    IF ~ignore /\ codePoints # <<>> /\ Head(codePoints) = ByteOrderMark
    THEN Tail(codePoints) ELSE codePoints

\* What serialized makes a string of.
Rest(codePoints, ignore, seen) ==
    IF ~ignore /\ ~seen /\ codePoints # <<>> /\ Head(codePoints) = ByteOrderMark
    THEN Tail(codePoints) ELSE codePoints

\* What BOMseen is after E.
SeenIs(seen, ignore, E) == (seen => ~ignore /\ E # <<>>) /\ (~ignore /\ E # <<>> => seen)

\* What comes first is in the first part, unless that is empty.
LEMMA Heads ==
    ASSUME NEW S, NEW a \in Seq(S), NEW b \in Seq(S), a # <<>>
    PROVE  /\ a \o b # <<>> /\ Head(a \o b) = Head(a) /\ Tail(a \o b) = Tail(a) \o b
           /\ Tail(a) \in Seq(S)
  OBVIOUS

(* The mark is taken from the beginning of the text, whatever is decoded with *)
(* it, when it is known whether there was something before.                  *)
LEMMA StrippedConcat ==
    ASSUME NEW E \in Seq(Characters), NEW R \in Seq(Characters), NEW ignore, NEW seen,
           SeenIs(seen, ignore, E)
    PROVE  /\ Stripped(E \o R, ignore) = Stripped(E, ignore) \o Rest(R, ignore, seen)
           /\ Stripped(E, ignore) \in Seq(Characters)
           /\ Rest(R, ignore, seen) \in Seq(Characters)
  <1>1. CASE ignore
    BY <1>1 DEF Stripped, Rest, SeenIs
  <1>2. CASE ~ignore /\ E = <<>>
    <2>1. E \o R = R /\ Stripped(E, ignore) = <<>>
      BY <1>2, ConcatEmptySeq DEF Stripped
    <2>2. Rest(R, ignore, seen) = Stripped(R, ignore)
      BY <1>2 DEF Stripped, Rest, SeenIs
    <2>3. Stripped(R, ignore) \in Seq(Characters)
      BY DEF Stripped
    <2>4. <<>> \o Stripped(R, ignore) = Stripped(R, ignore)
      BY <2>3, ConcatEmptySeq
    <2> QED
      BY <2>1, <2>2, <2>3, <2>4
  <1>3. CASE ~ignore /\ E # <<>>
    <2>1. Rest(R, ignore, seen) = R
      BY <1>3 DEF Rest, SeenIs
    <2>2. E \o R # <<>> /\ Head(E \o R) = Head(E) /\ Tail(E \o R) = Tail(E) \o R
          /\ Tail(E) \in Seq(Characters)
      BY <1>3, Heads
    <2> QED
      BY <1>3, <2>1, <2>2 DEF Stripped
  <1> QED
    BY <1>1, <1>2, <1>3

\* The string of what there is more of.
LEMMA StringOfMore ==
    ASSUME NEW E \in Seq(Characters), NEW R \in Seq(Characters), NEW ignore, NEW seen,
           SeenIs(seen, ignore, E)
    PROVE  /\ codePointsToString(Stripped(E, ignore)) \in Seq(Nat)
           /\ codePointsToString(Rest(R, ignore, seen)) \in Seq(Nat)
           /\ codePointsToString(Stripped(E \o R, ignore))
                = codePointsToString(Stripped(E, ignore))
                  \o codePointsToString(Rest(R, ignore, seen))
  <1> DEFINE a == Stripped(E, ignore)
             b == Rest(R, ignore, seen)
  <1>1. a \in Seq(Characters) /\ b \in Seq(Characters)
    BY StrippedConcat
  <1>2. Stripped(E \o R, ignore) = a \o b
    BY StrippedConcat
  <1> HIDE DEF a, b
  <1>3. a \in Seq(Nat) /\ b \in Seq(Nat)
    BY <1>1, CharactersAreNumbers
  <1>4. codePointsToString(a \o b) = codePointsToString(a) \o codePointsToString(b)
    BY <1>3, StringOfConcat
  <1>5. codePointsToString(a) \in Seq(Nat) /\ codePointsToString(b) \in Seq(Nat)
    BY <1>3, StringOfConcat
  <1> QED
    BY <1>2, <1>4, <1>5 DEF a, b

\* What comes first is a prefix, and so is everything.
LEMMA PrefixOfConcat ==
    ASSUME NEW S, NEW a \in Seq(S), NEW b \in Seq(S)
    PROVE  IsPrefix(a, a \o b) /\ IsPrefix(a, a)
  <1> DEFINE all == a \o b
             front == SubSeq(all, 1, Len(a))
  <1>1. /\ all \in Seq(S) /\ Len(all) = Len(a) + Len(b) /\ Len(a) \in Nat /\ Len(b) \in Nat
        /\ \A i \in 1..Len(a) : all[i] = a[i]
    OBVIOUS
  <1> HIDE DEF all
  <1>2. front \in Seq(S) /\ Len(front) = Len(a) /\ \A i \in 1..Len(a) : front[i] = all[i]
    BY <1>1
  <1>3. SubSeq(a, 1, Len(a)) = a
    OBVIOUS
  <1> HIDE DEF front
  <1>4. front = a
    BY <1>1, <1>2
  <1> QED
    BY <1>1, <1>3, <1>4 DEF IsPrefix, front, all

-----------------------------------------------------------------------------
\* A decoder that is fatal goes on as long as there is no error.
Allowed(strict, D) == strict => ~Failed(D)

(* A call, or a stream between two calls: D was made of the bytes before w,  *)
(* which the decoder has read of what comes next; of D the string is the     *)
(* beginning E, and what this call has found comes after it.                 *)
Progress(D, w, E, d, bytes, rest, out, str, seen, ignore, strict) ==
    /\ D \in Decodings /\ w \in Seq(Byte)
    /\ E \in Seq(Characters) /\ out \in Seq(Characters)
    /\ HasRead(d, w)
    /\ Parses(D, w, bytes, rest)
    /\ Replaced(D) = E \o out
    /\ str = codePointsToString(Stripped(E, ignore))
    /\ SeenIs(seen, ignore, E)
    /\ Allowed(strict, D)

InProgress(d, bytes, rest, out, str, seen, ignore, strict) ==
    \E D, w, E : Progress(D, w, E, d, bytes, rest, out, str, seen, ignore, strict)

\* The string of all the bytes.
Whole(bytes, ignore) == codePointsToString(Stripped(Replaced(Decoded(bytes)), ignore))

\* Whether something is open is seen in the number of bytes the decoder needs.
LEMMA OpenIs ==
    ASSUME NEW d, NEW w \in Seq(Byte), HasRead(d, w)
    PROVE  /\ d.needed = 0 => w = <<>>
           /\ d.needed # 0 => w # <<>> /\ Amid(d, w)
           /\ w # <<>> => Good(w) /\ Len(w) # Length(w[1]) /\ Amid(d, w)
  <1>1. CASE d = Initial /\ w = <<>>
    BY <1>1, InitialIs
  <1>2. CASE Amid(d, w)
    <2>1. w # <<>> /\ Good(w) /\ Len(w) < Length(w[1]) /\ d.needed = Length(w[1]) - 1
      BY <1>2 DEF Amid
    <2>2. Len(w) \in Nat /\ Len(w) >= 1 /\ w[1] \in Byte
      BY <2>1, Elements
    <2>3. Length(w[1]) \in 1..4
      BY <2>2, Lengths
    <2>4. Len(w) # Length(w[1]) /\ d.needed # 0
      BY <2>1, <2>2, <2>3
    <2> QED
      BY <1>2, <2>1, <2>4
  <1> QED
    BY <1>1, <1>2 DEF HasRead

(* A call begins anew. *)
LEMMA ProgressAnew ==
    ASSUME NEW bytes \in Seq(Byte), NEW ignore, NEW strict
    PROVE  InProgress(Initial, bytes, bytes, <<>>, <<>>, FALSE, ignore, strict)
  <1>1. <<>> \in Decodings /\ <<>> \in Seq(Byte) /\ <<>> \in Seq(Characters)
    BY DEF Decodings
  <1>2. HasRead(Initial, <<>>)
    BY DEF HasRead
  <1>3. Parses(<<>>, <<>>, bytes, bytes)
    BY ParsesAnew
  <1>4. Replaced(<<>>) = <<>> \o <<>>
    BY DEF Replaced
  <1>5. <<>> = codePointsToString(Stripped(<<>>, ignore))
    <2>1. Stripped(<<>>, ignore) = <<>>
      BY DEF Stripped
    <2>2. codePointsToString(<<>>) = <<>>
      <3>1. 0 \in Nat
        OBVIOUS
      <3> QED
        BY <3>1, StringOfOne
    <2> QED
      BY <2>1, <2>2
  <1>6. Allowed(strict, <<>>) /\ SeenIs(FALSE, ignore, <<>>)
    BY FailedOne DEF SeenIs, Allowed
  <1>7. Progress(<<>>, <<>>, <<>>, Initial, bytes, bytes, <<>>, <<>>, FALSE, ignore, strict)
    BY <1>1, <1>2, <1>3, <1>4, <1>5, <1>6 DEF Progress
  <1> QED
    BY <1>7 DEF InProgress

(* A call goes on with a stream. *)
LEMMA ProgressMore ==
    ASSUME NEW d, NEW bytes \in Seq(Byte), NEW str, NEW seen, NEW ignore, NEW strict,
           InProgress(d, bytes, <<>>, <<>>, str, seen, ignore, strict), NEW new \in Seq(Byte)
    PROVE  InProgress(d, bytes \o new, new, <<>>, str, seen, ignore, strict)
  <1>1. PICK D, w, E : Progress(D, w, E, d, bytes, <<>>, <<>>, str, seen, ignore, strict)
    BY DEF InProgress
  <1>2. Parses(D, w, bytes \o new, new)
    <2>1. Parses(D, w, bytes, <<>>)
      BY <1>1 DEF Progress
    <2> QED
      BY <2>1, ParsesMore
  <1>3. Progress(D, w, E, d, bytes \o new, new, <<>>, str, seen, ignore, strict)
    BY <1>1, <1>2 DEF Progress
  <1> QED
    BY <1>3 DEF InProgress

(* One character or error more has been found. *)
LEMMA ProgressOne ==
    ASSUME NEW D, NEW w, NEW E, NEW d, NEW bytes, NEW rest, NEW out, NEW str, NEW seen,
           NEW ignore, NEW strict,
           Progress(D, w, E, d, bytes, rest, out, str, seen, ignore, strict),
           NEW x \in Characters \cup {Errors}, NEW left, Parses(D \o <<x>>, <<>>, bytes, left),
           strict => x # Errors
    PROVE  InProgress(Initial, bytes, left, out \o <<Shown(x)>>, str, seen, ignore, strict)
  <1> DEFINE o == <<Shown(x)>>
             D1 == D \o <<x>>
  <1>1. D \in Decodings /\ E \in Seq(Characters) /\ out \in Seq(Characters)
    BY DEF Progress
  <1>2. Shown(x) \in Characters
    BY ShownType
  <1>3. o \in Seq(Characters)
    BY <1>2
  <1>4. D1 \in Decodings /\ Replaced(D1) = Replaced(D) \o o
    BY <1>1, ReplacedOne
  <1>5. Allowed(strict, D1)
    <2>1. <<x>> \in Decodings
      BY DEF Decodings
    <2>2. Failed(D1) => Failed(D) \/ Failed(<<x>>)
      BY <1>1, <2>1, FailedConcat
    <2>3. Allowed(strict, D)
      BY DEF Progress
    <2> HIDE DEF D1
    <2> QED
      BY <2>2, <2>3, FailedOne DEF Allowed
  <1>6. Parses(D1, <<>>, bytes, left)
    OBVIOUS
  <1>7. <<>> \in Seq(Byte) /\ HasRead(Initial, <<>>)
    BY DEF HasRead
  <1> HIDE DEF o, D1
  <1>8. (E \o out) \o o = E \o (out \o o)
    BY <1>1, <1>3, ConcatAssociative
  <1>9. Replaced(D1) = E \o (out \o o)
    BY <1>4, <1>8 DEF Progress
  <1>10. out \o o \in Seq(Characters)
    BY <1>1, <1>3
  <1>11. Progress(D1, <<>>, E, Initial, bytes, left, out \o o, str, seen, ignore, strict)
    BY <1>1, <1>4, <1>5, <1>6, <1>7, <1>9, <1>10 DEF Progress
  <1> QED
    BY <1>11 DEF InProgress, o

\* An error among the first is one of all.
LEMMA FailedFirst ==
    ASSUME NEW D \in Decodings, NEW w \in Seq(Byte), NEW bytes \in Seq(Byte),
           NEW rest \in Seq(Byte), Parses(D, w, bytes, rest), Failed(D)
    PROVE  Failed(Decoded(bytes))
  <1> DEFINE all == w \o (rest \o <<>>)
  <1>1. bytes \o <<>> = bytes /\ <<>> \in Seq(Byte) /\ all \in Seq(Byte)
    OBVIOUS
  <1>2. Decoded(bytes) = D \o Decoded(all)
    <2>1. Decoded(bytes \o <<>>) = D \o Decoded(all)
      BY <1>1 DEF Parses
    <2> QED
      BY <1>1, <2>1
  <1> HIDE DEF all
  <1>3. Decoded(all) \in Decodings
    BY <1>1, DecodedType
  <1> QED
    BY <1>2, <1>3, FailedConcat

\* An error at the end.
LEMMA FailedLast ==
    ASSUME NEW D \in Decodings
    PROVE  Failed(D \o <<Errors>>) /\ D \o <<Errors>> \in Decodings
  <1>1. <<Errors>> \in Decodings
    BY DEF Decodings
  <1>2. Failed(D \o <<Errors>>)
    BY <1>1, FailedOne, FailedConcat
  <1>3. D \o <<Errors>> \in Decodings
    BY <1>1 DEF Decodings
  <1> QED
    BY <1>2, <1>3

\* The error is an exception.
Throws(r, strict) == r.error /\ strict

(* The handler goes on with the next byte, as Handle has it. *)
LEMMA ProgressHandle ==
    ASSUME NEW d \in Decoder, NEW bytes \in Seq(Byte), NEW rest \in Seq(Byte), rest # <<>>,
           NEW out, NEW str, NEW seen, NEW ignore, NEW strict,
           InProgress(d, bytes, rest, out, str, seen, ignore, strict),
           NEW r, r = handler(d, Head(rest)),
           NEW left, left = IF r.prepend THEN rest ELSE Tail(rest)
    PROVE  /\ ~Throws(r, strict) =>
                 InProgress(r.decoder, bytes, left, out \o r.emitted, str, seen, ignore, strict)
           /\ r.error => Failed(Decoded(bytes))
  <1>1. PICK D, w, E : Progress(D, w, E, d, bytes, rest, out, str, seen, ignore, strict)
    BY DEF InProgress
  <1> DEFINE b == Head(rest)
             v == Append(w, b)
  <1>2. /\ D \in Decodings /\ w \in Seq(Byte) /\ out \in Seq(Characters)
        /\ HasRead(d, w) /\ Parses(D, w, bytes, rest)
    BY <1>1 DEF Progress
  <1>3. b \in Byte /\ v \in Seq(Byte) /\ v # <<>> /\ Tail(rest) \in Seq(Byte)
    <2>1. <<>> \in Seq(Byte)
      OBVIOUS
    <2> QED
      BY <1>2, <2>1, HeadMoves
  <1>4. Outcome(r, w, v)
    BY <1>2, <1>3, HandlerOutcome
  <1>5. CASE Amid(r.decoder, v) /\ r = Continue(r.decoder)
    <2>1. ~r.error /\ ~r.prepend /\ r.emitted = <<>>
      <3> DEFINE e == r.decoder
      <3>1. r = Continue(e)
        BY <1>5
      <3> HIDE DEF e
      <3> QED
        BY <3>1 DEF Continue
    <2>2. left = Tail(rest)
      BY <2>1
    <2>3. Parses(D, v, bytes, Tail(rest))
      BY <1>2, ParsesContinue
    <2>4. HasRead(r.decoder, v)
      BY <1>5 DEF HasRead
    <2>5. out \o r.emitted = out
      BY <1>2, <2>1, ConcatEmptySeq
    <2> HIDE DEF v
    <2>6. Progress(D, v, E, r.decoder, bytes, left, out, str, seen, ignore, strict)
      BY <1>1, <1>3, <2>2, <2>3, <2>4 DEF Progress
    <2>7. InProgress(r.decoder, bytes, left, out, str, seen, ignore, strict)
      BY <2>6 DEF InProgress
    <2> QED
      BY <2>1, <2>5, <2>7 DEF Throws
  <1>6. CASE Complete(v) /\ r = Emit(Initial, CodeOf(v))
    <2> DEFINE x == CodeOf(v)
    <2>1. /\ ~r.error /\ ~r.prepend /\ r.emitted = <<x>> /\ r.decoder = Initial
      BY <1>6 DEF Emit
    <2>2. Parses(D \o <<x>>, <<>>, bytes, Tail(rest)) /\ x \in Characters
      BY <1>2, <1>6, ParsesUnit
    <2> HIDE DEF x, v
    <2>3. x # Errors /\ Shown(x) = x /\ x \in Characters \cup {Errors}
      BY <2>2, ErrorsIsNone, ShownType
    <2>4. left = Tail(rest)
      BY <2>1
    <2>5. Parses(D \o <<x>>, <<>>, bytes, left)
      BY <2>2, <2>4
    <2>6. InProgress(Initial, bytes, left, out \o <<Shown(x)>>, str, seen, ignore, strict)
      BY <1>1, <2>3, <2>5, ProgressOne
    <2> QED
      BY <2>1, <2>3, <2>6 DEF Throws
  <1>7. ASSUME r.error, r.decoder = Initial, r.emitted = <<Replacement>>, left \in Seq(Byte),
               Parses(D \o <<Errors>>, <<>>, bytes, left)
        PROVE  /\ ~Throws(r, strict) =>
                    InProgress(r.decoder, bytes, left, out \o r.emitted, str, seen, ignore, strict)
               /\ Failed(Decoded(bytes))
    <2>1. Errors \in Characters \cup {Errors} /\ Shown(Errors) = Replacement
      BY DEF Shown
    <2>2. ASSUME ~strict
          PROVE  InProgress(Initial, bytes, left, out \o <<Shown(Errors)>>, str, seen,
                            ignore, strict)
      BY <1>1, <1>7, <2>1, <2>2, ProgressOne
    <2>3. Failed(Decoded(bytes))
      <3> DEFINE D1 == D \o <<Errors>>
      <3>1. D1 \in Decodings /\ Failed(D1)
        BY <1>2, FailedLast
      <3>2. Parses(D1, <<>>, bytes, left) /\ <<>> \in Seq(Byte)
        BY <1>7
      <3> HIDE DEF D1
      <3> QED
        BY <1>7, <3>1, <3>2, FailedFirst
    <2> QED
      BY <1>7, <2>1, <2>2, <2>3 DEF Throws
  <1>8. CASE w = <<>> /\ ~Good(v) /\ r = ErrorAfter(Initial)
    <2>1. /\ r.error /\ ~r.prepend /\ r.emitted = <<Replacement>> /\ r.decoder = Initial
      BY <1>8 DEF ErrorAfter
    <2>2. left = Tail(rest)
      BY <2>1
    <2>3. Parses(D, <<>>, bytes, rest) /\ ~Good(Append(<<>>, Head(rest)))
      BY <1>2, <1>8
    <2>4. Parses(D \o <<Errors>>, <<>>, bytes, left)
      BY <1>2, <2>2, <2>3, ParsesBadLead
    <2> QED
      BY <1>3, <1>7, <2>1, <2>2, <2>4
  <1>9. CASE w # <<>> /\ ~Good(v) /\ r = ErrorBefore(Initial)
    <2>1. /\ r.error /\ r.prepend /\ r.emitted = <<Replacement>> /\ r.decoder = Initial
      BY <1>9 DEF ErrorBefore
    <2>2. left = rest
      BY <2>1
    <2>3. w # <<>> /\ Good(w) /\ Len(w) # Length(w[1])
      BY <1>2, <1>9, OpenIs
    <2>4. Parses(D \o <<Errors>>, <<>>, bytes, left)
      BY <1>2, <1>9, <2>2, <2>3, ParsesBroken
    <2> QED
      BY <1>7, <2>1, <2>2, <2>4
  <1> HIDE DEF v, b
  <1> QED
    BY <1>4, <1>5, <1>6, <1>8, <1>9 DEF Outcome

(* A call ends, and the stream goes on. *)
LEMMA ProgressKept ==
    ASSUME NEW d, NEW bytes \in Seq(Byte), NEW out, NEW str, NEW seen, NEW ignore, NEW strict,
           InProgress(d, bytes, <<>>, out, str, seen, ignore, strict),
           NEW seen1, seen1 => seen \/ (~ignore /\ out # <<>>),
           seen \/ (~ignore /\ out # <<>>) => seen1
    PROVE  InProgress(d, bytes, <<>>, <<>>, str \o codePointsToString(Rest(out, ignore, seen)),
                      seen1, ignore, strict)
  <1>1. PICK D, w, E : Progress(D, w, E, d, bytes, <<>>, out, str, seen, ignore, strict)
    BY DEF InProgress
  <1> DEFINE E1 == E \o out
             str1 == str \o codePointsToString(Rest(out, ignore, seen))
  <1>2. E \in Seq(Characters) /\ out \in Seq(Characters)
    BY <1>1 DEF Progress
  <1>3. E1 \in Seq(Characters) /\ E1 \o <<>> = E1 /\ <<>> \in Seq(Characters)
    BY <1>2
  <1>4. (E1 = <<>> => E = <<>> /\ out = <<>>) /\ (E = <<>> /\ out = <<>> => E1 = <<>>)
    BY <1>2
  <1>5. SeenIs(seen, ignore, E)
    BY <1>1 DEF Progress
  <1>6. SeenIs(seen1, ignore, E1)
    <2> HIDE DEF E1
    <2> QED
      BY <1>4, <1>5 DEF SeenIs
  <1>7. str1 = codePointsToString(Stripped(E1, ignore))
    <2>1. str = codePointsToString(Stripped(E, ignore))
      BY <1>1 DEF Progress
    <2>2. codePointsToString(Stripped(E \o out, ignore))
            = codePointsToString(Stripped(E, ignore)) \o codePointsToString(Rest(out, ignore, seen))
      BY <1>2, <1>5, StringOfMore
    <2> QED
      BY <2>1, <2>2
  <1>8. Replaced(D) = E1
    BY <1>1 DEF Progress
  <1> HIDE DEF E1, str1
  <1>9. Progress(D, w, E1, d, bytes, <<>>, <<>>, str1, seen1, ignore, strict)
    BY <1>1, <1>3, <1>6, <1>7, <1>8 DEF Progress
  <1> QED
    BY <1>9 DEF InProgress, str1

\* The output when the stream is flushed.
AtEnd(d, out) == IF d.needed # 0 THEN Append(out, Replacement) ELSE out

\* With the string of these code points it is that of all the bytes.
IsWhole(str, codePoints, ignore, seen, bytes) ==
    str \o codePointsToString(Rest(codePoints, ignore, seen)) = Whole(bytes, ignore)

(* A call ends, and with it the stream. *)
LEMMA ProgressFlushed ==
    ASSUME NEW d, NEW bytes \in Seq(Byte), NEW out, NEW str, NEW seen, NEW ignore, NEW strict,
           InProgress(d, bytes, <<>>, out, str, seen, ignore, strict)
    PROVE  /\ d.needed # 0 => Failed(Decoded(bytes))
           /\ IsWhole(str, AtEnd(d, out), ignore, seen, bytes)
           /\ d.needed = 0 => Allowed(strict, Decoded(bytes))
  <1> DEFINE result == AtEnd(d, out)
  <1>7. result = AtEnd(d, out)
    OBVIOUS
  <1> HIDE DEF result
  <1>1. PICK D, w, E : Progress(D, w, E, d, bytes, <<>>, out, str, seen, ignore, strict)
    BY DEF InProgress
  <1>2. /\ D \in Decodings /\ w \in Seq(Byte) /\ E \in Seq(Characters)
        /\ out \in Seq(Characters) /\ HasRead(d, w) /\ Parses(D, w, bytes, <<>>)
        /\ Replaced(D) = E \o out
    BY <1>1 DEF Progress
  <1>3. SeenIs(seen, ignore, E)
    BY <1>1 DEF Progress
  <1>4. ASSUME result \in Seq(Characters), Replaced(Decoded(bytes)) = E \o result
        PROVE  IsWhole(str, result, ignore, seen, bytes)
    <2>1. str = codePointsToString(Stripped(E, ignore))
      BY <1>1 DEF Progress
    <2>2. codePointsToString(Stripped(E \o result, ignore))
            = codePointsToString(Stripped(E, ignore))
              \o codePointsToString(Rest(result, ignore, seen))
      <3>1. E \in Seq(Characters)
        BY <1>2
      <3>2. result \in Seq(Characters)
        BY <1>4
      <3> QED
        BY <1>3, <3>1, <3>2, StringOfMore
    <2> QED
      BY <1>4, <2>1, <2>2 DEF Whole, IsWhole
  <1>5. CASE d.needed = 0
    <2>1. Decoded(bytes) = D
      BY <1>2, <1>5, OpenIs, ParsesEnd
    <2>2. result = out
      BY <1>5, <1>7 DEF AtEnd
    <2>3. Allowed(strict, D)
      BY <1>1 DEF Progress
    <2> QED
      BY <1>2, <1>4, <1>5, <1>7, <2>1, <2>2, <2>3
  <1>6. CASE d.needed # 0
    <2>1. Decoded(bytes) = D \o <<Errors>>
      BY <1>2, <1>6, OpenIs, ParsesEnd
    <2> DEFINE o == <<Replacement>>
    <2>2. result = out \o o /\ o \in Seq(Characters)
      BY <1>2, <1>6, <1>7, ReplacementIsCharacter DEF AtEnd
    <2>3. Replaced(Decoded(bytes)) = (E \o out) \o o
      <3>1. Errors \in Characters \cup {Errors} /\ Shown(Errors) = Replacement
        BY DEF Shown
      <3> QED
        BY <1>2, <2>1, <3>1, ReplacedOne
    <2> HIDE DEF o
    <2>4. (E \o out) \o o = E \o (out \o o)
      <3>1. E \in Seq(Characters)
        BY <1>2
      <3>2. out \in Seq(Characters)
        BY <1>2
      <3>3. o \in Seq(Characters)
        BY <2>2
      <3> QED
        BY <3>1, <3>2, <3>3, ConcatAssociative
    <2>5. result \in Seq(Characters)
      BY <1>2, <2>2
    <2>6. Failed(Decoded(bytes))
      BY <1>2, <2>1, FailedLast
    <2> QED
      BY <1>4, <1>6, <1>7, <2>2, <2>3, <2>4, <2>5, <2>6
  <1> QED
    BY <1>5, <1>6, <1>7

(* Between two calls the string is a beginning of that of all the bytes, and *)
(* the whole of it when nothing is open.                                     *)
LEMMA ProgressIdle ==
    ASSUME NEW d, NEW bytes \in Seq(Byte), NEW str, NEW seen, NEW ignore, NEW strict,
           InProgress(d, bytes, <<>>, <<>>, str, seen, ignore, strict)
    PROVE  /\ IsPrefix(str, Whole(bytes, ignore))
           /\ d.needed = 0 => str = Whole(bytes, ignore)
  <1>1. PICK D, w, E : Progress(D, w, E, d, bytes, <<>>, <<>>, str, seen, ignore, strict)
    BY DEF InProgress
  <1> DEFINE R == AtEnd(d, <<>>)
             more == codePointsToString(Rest(R, ignore, seen))
  <1>2. str \o more = Whole(bytes, ignore)
    <2>1. IsWhole(str, R, ignore, seen, bytes)
      BY ProgressFlushed
    <2> HIDE DEF R
    <2> QED
      BY <2>1 DEF IsWhole
  <1>3. E \in Seq(Characters) /\ R \in Seq(Characters)
    <2>1. Append(<<>>, Replacement) \in Seq(Characters) /\ <<>> \in Seq(Characters)
      BY ReplacementIsCharacter
    <2> QED
      BY <1>1, <2>1 DEF Progress, AtEnd
  <1>4. SeenIs(seen, ignore, E) /\ str = codePointsToString(Stripped(E, ignore))
    BY <1>1 DEF Progress
  <1>5. d.needed = 0 => more = <<>>
    <2>1. d.needed = 0 => Rest(R, ignore, seen) = <<>>
      BY DEF Rest, AtEnd
    <2>2. codePointsToString(<<>>) = <<>>
      <3>1. 0 \in Nat
        OBVIOUS
      <3> QED
        BY <3>1, StringOfOne
    <2> QED
      BY <2>1, <2>2
  <1> HIDE DEF R
  <1>6. str \in Seq(Nat) /\ more \in Seq(Nat)
    BY <1>3, <1>4, StringOfMore
  <1> HIDE DEF more
  <1>7. IsPrefix(str, str \o more)
    BY <1>6, PrefixOfConcat
  <1>8. str \o <<>> = str
    BY <1>6, ConcatEmptySeq
  <1> QED
    BY <1>2, <1>5, <1>7, <1>8

-----------------------------------------------------------------------------
(* The invariant: what the decoder has read, and the string so far, say how  *)
(* the input is decoded; when nothing is left to read, that is the string.   *)
StreamInv ==
    /\ Inv
    /\ stage = "decoding" =>
          InProgress(decoder, input, stream, output, text, BOMseen, ignoreBOM, fatal)
    /\ stage = "idle" /\ doNotFlush =>
          InProgress(decoder, input, <<>>, <<>>, text, BOMseen, ignoreBOM, fatal)
    /\ Flushed => text = Whole(input, ignoreBOM) /\ Allowed(fatal, Decoded(input))
    /\ stage = "thrown" => fatal /\ Failed(Decoded(input))

\* The bytes of an instance are bytes.
LEMMA BytesAreBytes ==
    ASSUME NEW s \in Seq(Bytes)
    PROVE  s \in Seq(Byte)
  <1>1. Bytes \subseteq Byte
    BY BytesAssumption DEF Byte
  <1>2. s \in [1..Len(s) -> Bytes] /\ Len(s) \in Nat
    OBVIOUS
  <1>3. s \in [1..Len(s) -> Byte]
    BY <1>1, <1>2
  <1> QED
    BY <1>2, <1>3

\* The string of no bytes.
LEMMA WholeOfNone == \A ignore : Whole(<<>>, ignore) = <<>>
  <1> SUFFICES ASSUME NEW ignore PROVE Whole(<<>>, ignore) = <<>>
    OBVIOUS
  <1>1. Decoded(<<>>) = <<>>
    BY DecodedEmpty
  <1>2. Replaced(<<>>) = <<>>
    BY DEF Replaced
  <1>3. Stripped(<<>>, ignore) = <<>>
    BY DEF Stripped
  <1>4. codePointsToString(<<>>) = <<>>
    <2>1. 0 \in Nat
      OBVIOUS
    <2> QED
      BY <2>1, StringOfOne
  <1> QED
    BY <1>1, <1>2, <1>3, <1>4 DEF Whole

\* It is a string, and is made of characters.
LEMMA WholeType ==
    ASSUME NEW bytes \in Seq(Byte), NEW ignore
    PROVE  /\ Stripped(Replaced(Decoded(bytes)), ignore) \in Seq(Characters)
           /\ Whole(bytes, ignore) \in Seq(Nat)
  <1> DEFINE all == Replaced(Decoded(bytes))
             s == Stripped(all, ignore)
  <1>1. all \in Seq(Characters)
    BY DecodedType, ReplacedConcat
  <1> HIDE DEF all
  <1>2. s \in Seq(Characters)
    BY <1>1 DEF Stripped
  <1> HIDE DEF s
  <1>3. s \in Seq(Nat)
    BY <1>2, CharactersAreNumbers
  <1>4. codePointsToString(s) \in Seq(Nat)
    BY <1>3, StringOfConcat
  <1> QED
    BY <1>2, <1>4 DEF Whole, all, s

\* At the beginning nothing has been decoded.
LEMMA StreamInit == Init => StreamInv
  <1> SUFFICES ASSUME Init PROVE StreamInv
    OBVIOUS
  <1>1. stage = "idle" /\ doNotFlush = FALSE /\ input = <<>> /\ text = <<>>
    BY DEF Init
  <1>2. Whole(input, ignoreBOM) = text
    BY <1>1, WholeOfNone
  <1>3. Allowed(fatal, Decoded(input))
    BY <1>1, DecodedEmpty, FailedOne DEF Allowed
  <1> QED
    BY <1>1, <1>2, <1>3, InvInit DEF StreamInv

(* A call: of a stream that goes on, or anew. *)
LEMMA StreamDecode ==
    ASSUME StreamInv, NEW bytes \in Inputs, NEW more \in BOOLEAN, decode(bytes, more)
    PROVE  StreamInv'
  <1>1. Inv'
    BY DecodeKeepsInv DEF StreamInv
  <1>2. /\ stage' = "decoding" /\ stream' = bytes /\ output' = <<>>
        /\ fatal' = fatal /\ ignoreBOM' = ignoreBOM
    BY DEF decode
  <1>3. bytes \in Seq(Byte) /\ input \in Seq(Byte)
    <2>1. bytes \in Seq(Bytes)
      BY BytesAssumption
    <2>2. input \in Seq(Bytes)
      BY DEF StreamInv, Inv, TypeOK
    <2> QED
      BY <2>1, <2>2, BytesAreBytes
  <1>4. CASE doNotFlush
    <2>1. stage = "idle"
      BY <1>4 DEF decode
    <2>2. input' = input \o bytes /\ decoder' = decoder /\ BOMseen' = BOMseen /\ text' = text
      BY <1>4 DEF decode
    <2>3. InProgress(decoder, input, <<>>, <<>>, text, BOMseen, ignoreBOM, fatal)
      BY <1>4, <2>1 DEF StreamInv
    <2>4. InProgress(decoder, input \o bytes, bytes, <<>>, text, BOMseen, ignoreBOM, fatal)
      BY <1>3, <2>3, ProgressMore
    <2>5. InProgress(decoder', input', stream', output', text', BOMseen', ignoreBOM', fatal')
      BY <1>2, <2>2, <2>4
    <2> QED
      BY <1>1, <1>2, <2>5 DEF StreamInv, Flushed
  <1>5. CASE ~doNotFlush
    <2>1. input' = bytes /\ decoder' = Initial /\ BOMseen' = FALSE /\ text' = <<>>
      BY <1>5 DEF decode
    <2>2. InProgress(Initial, bytes, bytes, <<>>, <<>>, FALSE, ignoreBOM, fatal)
      BY <1>3, ProgressAnew
    <2>3. InProgress(decoder', input', stream', output', text', BOMseen', ignoreBOM', fatal')
      BY <1>2, <2>1, <2>2
    <2> QED
      BY <1>1, <1>2, <2>3 DEF StreamInv, Flushed
  <1> QED
    BY <1>4, <1>5

(* A byte. *)
LEMMA StreamHandle ==
    ASSUME StreamInv, Handle
    PROVE  StreamInv'
  <1> DEFINE r == handler(decoder, Head(stream))
             left == Remaining(r)
  <1>1. Inv'
    BY HandleKeepsInv DEF StreamInv
  <1>2. /\ decoder \in Decoder /\ stream \in Seq(Byte) /\ input \in Seq(Byte)
    BY BytesAreBytes DEF StreamInv, Inv, TypeOK
  <1>3. stage = "decoding" /\ stream # <<>>
    BY DEF Handle
  <1>4. InProgress(decoder, input, stream, output, text, BOMseen, ignoreBOM, fatal)
    BY <1>3 DEF StreamInv
  <1>5. /\ decoder' = r.decoder /\ stream' = left
        /\ text' = text /\ BOMseen' = BOMseen /\ ignoreBOM' = ignoreBOM /\ fatal' = fatal
        /\ input' = input
    BY DEF Handle
  <1>6. /\ Throws(r, fatal) => stage' = "thrown"
        /\ ~Throws(r, fatal) => stage' = "decoding" /\ output' = output \o r.emitted
    BY <1>3 DEF Handle, Throws
  <1>7. left = IF r.prepend THEN stream ELSE Tail(stream)
    BY DEF Remaining
  <1>8. r = handler(decoder, Head(stream))
    OBVIOUS
  <1> HIDE DEF r, left
  <1>9. /\ ~Throws(r, fatal) =>
             InProgress(r.decoder, input, left, output \o r.emitted, text, BOMseen,
                        ignoreBOM, fatal)
        /\ r.error => Failed(Decoded(input))
    BY <1>2, <1>3, <1>4, <1>7, <1>8, ProgressHandle
  <1>10. CASE Throws(r, fatal)
    <2>1. fatal /\ Failed(Decoded(input))
      BY <1>9, <1>10 DEF Throws
    <2> QED
      BY <1>1, <1>5, <1>6, <1>10, <2>1 DEF StreamInv, Flushed
  <1>11. CASE ~Throws(r, fatal)
    <2>1. InProgress(decoder', input', stream', output', text', BOMseen', ignoreBOM', fatal')
      BY <1>5, <1>6, <1>9, <1>11
    <2> QED
      BY <1>1, <1>6, <1>11, <2>1 DEF StreamInv, Flushed
  <1> QED
    BY <1>10, <1>11

(* The end of a call. *)
LEMMA StreamFinish ==
    ASSUME StreamInv, Finish
    PROVE  StreamInv'
  <1>1. Inv'
    BY FinishKeepsInv DEF StreamInv
  <1>2. input \in Seq(Byte)
    BY BytesAreBytes DEF StreamInv, Inv, TypeOK
  <1>3. stage = "decoding" /\ stream = <<>>
    BY DEF Finish
  <1>4. InProgress(decoder, input, <<>>, output, text, BOMseen, ignoreBOM, fatal)
    BY <1>3 DEF StreamInv
  <1>5. /\ doNotFlush' = doNotFlush /\ input' = input
        /\ ignoreBOM' = ignoreBOM /\ fatal' = fatal
    BY DEF Finish
  <1>6. ASSUME NEW codePoints
        PROVE  serialized(codePoints) = codePointsToString(Rest(codePoints, ignoreBOM, BOMseen))
    BY DEF serialized, Rest
  <1>7. CASE doNotFlush
    <2>1. /\ decoder' = decoder /\ stage' = "idle"
          /\ text' = text \o serialized(output)
          /\ BOMseen' = (BOMseen \/ (~ignoreBOM /\ output # <<>>))
      BY <1>7 DEF Finish
    <2>2. text' = text \o codePointsToString(Rest(output, ignoreBOM, BOMseen))
      BY <1>6, <2>1
    <2> DEFINE seen1 == BOMseen'
    <2>3. /\ seen1 => BOMseen \/ (~ignoreBOM /\ output # <<>>)
          /\ BOMseen \/ (~ignoreBOM /\ output # <<>>) => seen1
      BY <2>1
    <2> HIDE DEF seen1
    <2>4. InProgress(decoder, input, <<>>, <<>>,
                     text \o codePointsToString(Rest(output, ignoreBOM, BOMseen)),
                     seen1, ignoreBOM, fatal)
      BY <1>2, <1>4, <2>3, ProgressKept
    <2>5. InProgress(decoder', input', <<>>, <<>>, text', BOMseen', ignoreBOM', fatal')
      BY <1>5, <2>1, <2>2, <2>4 DEF seen1
    <2>6. doNotFlush'
      BY <1>5, <1>7
    <2> QED
      BY <1>1, <2>1, <2>5, <2>6 DEF StreamInv, Flushed
  <1>8. CASE ~doNotFlush
    <2>1. /\ decoder.needed # 0 => Failed(Decoded(input))
          /\ decoder.needed = 0 => Allowed(fatal, Decoded(input))
          /\ IsWhole(text, AtEnd(decoder, output), ignoreBOM, BOMseen, input)
      BY <1>2, <1>4, ProgressFlushed
    <2>2. CASE decoder.needed # 0 /\ fatal
      <3>1. stage' = "thrown"
        BY <1>8, <2>2 DEF Finish
      <3>2. fatal' /\ Failed(Decoded(input'))
        BY <1>5, <2>1, <2>2
      <3> QED
        BY <1>1, <3>1, <3>2 DEF StreamInv, Flushed
    <2>3. CASE ~(decoder.needed # 0 /\ fatal)
      <3>1. /\ stage' = "idle" /\ text' = text \o serialized(AtEnd(decoder, output))
        BY <1>8, <2>3 DEF Finish, AtEnd
      <3>2. text' = Whole(input, ignoreBOM)
        BY <1>6, <2>1, <3>1 DEF IsWhole
      <3>3. Allowed(fatal, Decoded(input))
        BY <2>1, <2>3 DEF Allowed
      <3>4. text' = Whole(input', ignoreBOM') /\ Allowed(fatal', Decoded(input'))
        BY <1>5, <3>2, <3>3
      <3>5. ~doNotFlush'
        BY <1>5, <1>8
      <3> QED
        BY <1>1, <3>1, <3>4, <3>5 DEF StreamInv
    <2> QED
      BY <2>2, <2>3
  <1> QED
    BY <1>7, <1>8

\* Every step keeps the invariant.
LEMMA StreamStep == StreamInv /\ [Next]_vars => StreamInv'
  <1> SUFFICES ASSUME StreamInv, [Next]_vars PROVE StreamInv'
    OBVIOUS
  <1>1. ASSUME NEW bytes \in Inputs, NEW more \in BOOLEAN, decode(bytes, more)
        PROVE  StreamInv'
    BY <1>1, StreamDecode
  <1>2. CASE Handle
    BY <1>2, StreamHandle
  <1>3. CASE Finish
    BY <1>3, StreamFinish
  <1>4. CASE UNCHANGED vars
    <2>1. /\ fatal' = fatal /\ ignoreBOM' = ignoreBOM /\ decoder' = decoder
          /\ doNotFlush' = doNotFlush /\ BOMseen' = BOMseen /\ stage' = stage
          /\ stream' = stream /\ output' = output /\ input' = input /\ text' = text
      BY <1>4 DEF vars
    <2>2. Inv'
      BY <1>4, InvStep DEF StreamInv
    <2> QED
      BY <2>1, <2>2 DEF StreamInv, Flushed
  <1> QED
    BY <1>1, <1>2, <1>3, <1>4 DEF Next

\* It holds always.
LEMMA StreamInvariance == Spec => []StreamInv
  BY StreamInit, StreamStep, PTL DEF Spec

\* It says that the strings are the text.
LEMMA StreamImplies == StreamInv => StreamEqualsWhole
  <1> SUFFICES ASSUME StreamInv PROVE StreamEqualsWhole
    OBVIOUS
  <1> DEFINE whole == codePointsToString(WithoutBOM(Replaced(Decoded(input))))
  <1>1. whole = Whole(input, ignoreBOM)
    BY DEF Whole, WithoutBOM, Stripped
  <1>2. input \in Seq(Byte)
    BY BytesAreBytes DEF StreamInv, Inv, TypeOK
  <1>3. Flushed => text = whole /\ (fatal => Errors \notin ToSet(Decoded(input)))
    BY <1>1 DEF StreamInv, Allowed, Failed
  <1>4. stage = "thrown" => fatal /\ Errors \in ToSet(Decoded(input))
    BY DEF StreamInv, Failed
  <1> HIDE DEF whole
  <1>5. stage = "idle" => IsPrefix(text, whole) /\ (decoder.needed = 0 => text = whole)
    <2>1. CASE stage = "idle" /\ doNotFlush
      <3>1. InProgress(decoder, input, <<>>, <<>>, text, BOMseen, ignoreBOM, fatal)
        BY <2>1 DEF StreamInv
      <3> QED
        BY <1>1, <1>2, <3>1, ProgressIdle
    <2>2. CASE stage = "idle" /\ ~doNotFlush
      <3>1. text = whole
        BY <1>3, <2>2 DEF Flushed
      <3>2. whole \in Seq(Nat)
        BY <1>1, <1>2, WholeType
      <3>3. IsPrefix(whole, whole)
        BY <3>2, PrefixOfConcat
      <3> QED
        BY <3>1, <3>3
    <2> QED
      BY <2>1, <2>2
  <1> QED
    BY <1>3, <1>4, <1>5 DEF StreamEqualsWhole, whole

(* However the bytes are cut into calls, what the calls return is the text, *)
(* and an exception is thrown exactly if it is ill-formed: for every input, *)
(* of any length, in any number of calls (decode, encoding.js 1068-1189).   *)
THEOREM StreamWhole == Spec => []StreamEqualsWhole
  BY StreamInvariance, StreamImplies, PTL

-----------------------------------------------------------------------------
(* Strings are read back *)

\* A pair of surrogates, what is read at the i-th place, and where the next is.
PairAt(string, i) == string[i] \in High /\ i < Len(string) /\ string[i + 1] \in Low

Paired(high, low) == 65536 + (high % 1024) * 1024 + (low % 1024)

PointAt(string, i) ==
    IF PairAt(string, i) THEN Paired(string[i], string[i + 1])
    ELSE IF string[i] \in High \cup Low THEN Replacement ELSE string[i]

After(string, i) == IF PairAt(string, i) THEN i + 2 ELSE i + 1

IsReading(f, string) ==
    f = [i \in 1..(Len(string) + 2) |->
            IF i > Len(string) THEN <<>>
            ELSE IF string[i] \in High /\ i < Len(string) /\ string[i + 1] \in Low THEN
                <<65536 + (string[i] % 1024) * 1024 + (string[i + 1] % 1024)>> \o f[i + 2]
            ELSE <<IF string[i] \in High \cup Low THEN Replacement ELSE string[i]>>
                 \o f[i + 1]]

\* The next place is one or two further on.
LEMMA AfterRange ==
    ASSUME NEW string, Len(string) \in Nat, NEW i \in 1..Len(string)
    PROVE  /\ After(string, i) \in (i + 1)..(Len(string) + 2)
           /\ After(string, i) - 1 \in 1..(Len(string) + 1)
           /\ i = 1 => After(string, i) - 1 \in 1..Len(string)
  <1>1. After(string, i) = i + 1 \/ (After(string, i) = i + 2 /\ i < Len(string))
    BY DEF After, PairAt
  <1>2. i \in Nat /\ i >= 1 /\ i <= Len(string)
    OBVIOUS
  <1> QED
    BY <1>1, <1>2

\* The recursion of stringToCodePoints is a scan of what is read.
LEMMA ReadingIsScan ==
    ASSUME NEW string, Len(string) \in Nat
    PROVE  \E x, next :
              /\ \A i \in 1..Len(string) : /\ x[i] = PointAt(string, i)
                                           /\ next[i] = After(string, i)
                                           /\ next[i] \in (i + 1)..(Len(string) + 2)
              /\ \A f : /\ IsScan(f, x, next, Len(string), Len(string) + 2) => IsReading(f, string)
                        /\ IsReading(f, string) => IsScan(f, x, next, Len(string), Len(string) + 2)
  <1> DEFINE n == Len(string)
             x == [i \in 1..n |-> PointAt(string, i)]
             next == [i \in 1..n |-> After(string, i)]
  <1>1. ASSUME NEW i \in 1..n
        PROVE  /\ x[i] = PointAt(string, i) /\ next[i] = After(string, i)
               /\ next[i] \in (i + 1)..(n + 2)
    BY AfterRange
  <1>2. ASSUME NEW f
        PROVE  /\ IsScan(f, x, next, n, n + 2) => IsReading(f, string)
               /\ IsReading(f, string) => IsScan(f, x, next, n, n + 2)
    <2> DEFINE a(i) == IF i > n THEN <<>> ELSE <<x[i]>> \o f[next[i]]
               b(i) == IF i > n THEN <<>>
                       ELSE IF string[i] \in High /\ i < n /\ string[i + 1] \in Low THEN
                           <<65536 + (string[i] % 1024) * 1024 + (string[i + 1] % 1024)>>
                           \o f[i + 2]
                       ELSE <<IF string[i] \in High \cup Low THEN Replacement ELSE string[i]>>
                            \o f[i + 1]
    <2>1. IsScan(f, x, next, n, n + 2) <=> f = [i \in 1..(n + 2) |-> a(i)]
      BY DEF IsScan
    <2>2. IsReading(f, string) <=> f = [i \in 1..(n + 2) |-> b(i)]
      BY DEF IsReading
    <2>3. ASSUME NEW i \in 1..(n + 2) PROVE a(i) = b(i)
      <3>1. CASE i > n
        BY <3>1
      <3>2. CASE ~(i > n) /\ PairAt(string, i)
        <4>1. i \in 1..n
          BY <3>2
        <4>2. x[i] = PointAt(string, i) /\ next[i] = After(string, i)
          BY <1>1, <4>1
        <4>3. PointAt(string, i) = Paired(string[i], string[i + 1]) /\ After(string, i) = i + 2
          BY <3>2 DEF PointAt, After
        <4>4. PointAt(string, i)
                 = 65536 + (string[i] % 1024) * 1024 + (string[i + 1] % 1024)
          BY <4>3 DEF Paired
        <4> HIDE DEF x, next
        <4> QED
          BY <3>2, <4>2, <4>3, <4>4 DEF PairAt
      <3>3. CASE ~(i > n) /\ ~PairAt(string, i)
        <4>1. i \in 1..n
          BY <3>3
        <4>2. /\ x[i] = IF string[i] \in High \cup Low THEN Replacement ELSE string[i]
              /\ next[i] = i + 1
          <5> HIDE DEF x, next
          <5> QED
            BY <1>1, <3>3, <4>1 DEF PointAt, After
        <4> HIDE DEF x, next
        <4> QED
          BY <3>3, <4>2 DEF PairAt
      <3> QED
        BY <3>1, <3>2, <3>3
    <2> HIDE DEF a, b
    <2>4. [i \in 1..(n + 2) |-> a(i)] = [i \in 1..(n + 2) |-> b(i)]
      BY <2>3
    <2> QED
      BY <2>1, <2>2, <2>4
  <1> HIDE DEF x, next
  <1> QED
    BY <1>1, <1>2

\* stringToCodePoints is its value at the first place.
LEMMA ReadingIs ==
    ASSUME NEW string, Len(string) \in Nat
    PROVE  \E f : IsReading(f, string) /\ stringToCodePoints(string) = f[1]
  <1> DEFINE F == CHOOSE f : IsReading(f, string)
  <1>1. PICK x, next :
              /\ \A i \in 1..Len(string) : /\ x[i] = PointAt(string, i)
                                           /\ next[i] = After(string, i)
                                           /\ next[i] \in (i + 1)..(Len(string) + 2)
              /\ \A f : /\ IsScan(f, x, next, Len(string), Len(string) + 2) => IsReading(f, string)
                        /\ IsReading(f, string) => IsScan(f, x, next, Len(string), Len(string) + 2)
    BY ReadingIsScan
  <1>2. Len(string) + 2 \in Nat /\ Len(string) <= Len(string) + 2
    OBVIOUS
  <1>3. \E f : IsScan(f, x, next, Len(string), Len(string) + 2)
    BY <1>1, <1>2, ScanExists
  <1>4. IsReading(F, string)
    BY <1>1, <1>3
  <1>5. stringToCodePoints(string) = F[1]
    BY DEF stringToCodePoints, IsReading
  <1> HIDE DEF F
  <1> QED
    BY <1>4, <1>5

\* Without code units there is nothing.
LEMMA ReadEmpty == stringToCodePoints(<<>>) = <<>>
  <1>1. Len(<<>>) = 0 /\ Len(<<>>) \in Nat
    OBVIOUS
  <1>2. PICK f : IsReading(f, <<>>) /\ stringToCodePoints(<<>>) = f[1]
    BY <1>1, ReadingIs
  <1>3. 1 \in 1..(Len(<<>>) + 2) /\ 1 > Len(<<>>)
    BY <1>1
  <1>4. f[1] = <<>>
    BY <1>2, <1>3 DEF IsReading
  <1> QED
    BY <1>2, <1>4

(* One code point is read at the front, and the others are those of what is *)
(* left.                                                                    *)
LEMMA ReadStep ==
    ASSUME NEW string \in Seq(Nat), string # <<>>
    PROVE  stringToCodePoints(string) =
              <<PointAt(string, 1)>>
              \o stringToCodePoints(SubSeq(string, After(string, 1), Len(string)))
  <1> DEFINE n == Len(string)
             m == n + 2
             k == After(string, 1) - 1
             rest == SubSeq(string, After(string, 1), n)
             p == n - k
             q == m - k
  <1>1. PICK x, next :
              /\ \A i \in 1..n : /\ x[i] = PointAt(string, i)
                                 /\ next[i] = After(string, i)
                                 /\ next[i] \in (i + 1)..(n + 2)
              /\ \A f : /\ IsScan(f, x, next, n, n + 2) => IsReading(f, string)
                        /\ IsReading(f, string) => IsScan(f, x, next, n, n + 2)
    <2>1. Len(string) \in Nat
      OBVIOUS
    <2> QED
      BY <2>1, ReadingIsScan
  <1>2. PICK f : IsReading(f, string) /\ stringToCodePoints(string) = f[1]
    <2>1. Len(string) \in Nat
      OBVIOUS
    <2> QED
      BY <2>1, ReadingIs
  <1>3. n \in Nat /\ n >= 1 /\ 1 \in 1..n /\ m \in Nat /\ n <= m /\ 1 \in 1..m
    OBVIOUS
  <1>4. k \in 1..n /\ k + 1 = After(string, 1)
    <2>1. k \in 1..n
      BY <1>3, AfterRange
    <2>2. After(string, 1) \in 2..m
      BY <1>3, AfterRange
    <2> QED
      BY <2>1, <2>2
  <1>5. IsScan(f, x, next, n, m)
    BY <1>1, <1>2
  <1>6. stringToCodePoints(string) = <<PointAt(string, 1)>> \o f[k + 1]
    <2>1. f[1] = IF 1 > n THEN <<>> ELSE <<x[1]>> \o f[next[1]]
      BY <1>3, <1>5 DEF IsScan
    <2>2. x[1] = PointAt(string, 1) /\ next[1] = k + 1
      BY <1>1, <1>3, <1>4
    <2> QED
      BY <1>2, <1>3, <2>1, <2>2
  <1>7. rest = SubSeq(string, k + 1, n)
    BY <1>4
  <1> HIDE DEF k
  <1>8. /\ rest \in Seq(Nat) /\ Len(rest) = p
        /\ \A i \in 1..p : rest[i] = string[i + k]
    <2>1. k + 1 \in 1..(n + 1) /\ n \in 0..n /\ k + 1 <= n + 1 /\ n + 1 - (k + 1) = p
      BY <1>3, <1>4
    <2>2. /\ SubSeq(string, k + 1, n) \in Seq(Nat)
          /\ Len(SubSeq(string, k + 1, n)) = n + 1 - (k + 1)
          /\ \A i \in 1..(n + 1 - (k + 1)) : SubSeq(string, k + 1, n)[i] = string[k + 1 + i - 1]
      BY <2>1, SubSeqElements
    <2>3. \A i \in 1..p : k + 1 + i - 1 = i + k
      BY <1>3, <1>4
    <2> HIDE DEF rest, n, p
    <2> QED
      BY <1>7, <2>1, <2>2, <2>3
  <1>9. p \in Nat /\ p + 2 = q /\ q \in Nat /\ 1 \in 1..q
    BY <1>3, <1>4
  <1>10. PICK y, onward :
              /\ \A i \in 1..Len(rest) : /\ y[i] = PointAt(rest, i)
                                         /\ onward[i] = After(rest, i)
                                         /\ onward[i] \in (i + 1)..(Len(rest) + 2)
              /\ \A h : /\ IsScan(h, y, onward, Len(rest), Len(rest) + 2) => IsReading(h, rest)
                        /\ IsReading(h, rest) => IsScan(h, y, onward, Len(rest), Len(rest) + 2)
    BY <1>8, <1>9, ReadingIsScan
  <1>11. PICK g : IsReading(g, rest) /\ stringToCodePoints(rest) = g[1]
    BY <1>8, <1>9, ReadingIs
  <1>12. IsScan(g, y, onward, p, q)
    <2>1. IsScan(g, y, onward, Len(rest), Len(rest) + 2)
      BY <1>10, <1>11
    <2> QED
      BY <1>8, <1>9, <2>1
  <1>13. ASSUME NEW i \in 1..p
         PROVE  /\ PointAt(rest, i) = PointAt(string, i + k)
                /\ After(string, i + k) = After(rest, i) + k
    <2>1. i \in Nat /\ i + k \in Nat /\ (i + 1) + k = (i + k) + 1 /\ (i + 2) + k = (i + k) + 2
      BY <1>3, <1>4, <1>9
    <2>2. (i < p => i + k < n) /\ (i + k < n => i < p) /\ (i < p => i + 1 \in 1..p)
      BY <1>3, <1>4, <1>9
    <2>3. rest[i] = string[i + k]
      BY <1>8
    <2>4. i < p => rest[i + 1] = string[(i + k) + 1]
      <3>1. i < p => rest[i + 1] = string[(i + 1) + k]
        BY <1>8, <2>2
      <3> QED
        BY <2>1, <3>1
    <2> HIDE DEF rest, p
    <2>5. /\ PairAt(rest, i) => PairAt(string, i + k)
          /\ PairAt(string, i + k) => PairAt(rest, i)
      BY <1>8, <2>2, <2>3, <2>4 DEF PairAt
    <2>6. PairAt(rest, i) => i < p
      BY <1>8 DEF PairAt
    <2>7. CASE PairAt(rest, i)
      <3>1. After(rest, i) = i + 2 /\ After(string, i + k) = (i + k) + 2
        BY <2>5, <2>7 DEF After
      <3>2. PointAt(rest, i) = PointAt(string, i + k)
        <4>1. PointAt(rest, i) = Paired(rest[i], rest[i + 1])
          BY <2>7 DEF PointAt
        <4>2. PointAt(string, i + k) = Paired(string[i + k], string[(i + k) + 1])
          BY <2>5, <2>7 DEF PointAt
        <4> QED
          BY <2>3, <2>4, <2>6, <2>7, <4>1, <4>2
      <3> QED
        BY <2>1, <3>1, <3>2
    <2>8. CASE ~PairAt(rest, i)
      <3>1. After(rest, i) = i + 1 /\ After(string, i + k) = (i + k) + 1
        BY <2>5, <2>8 DEF After
      <3>2. PointAt(rest, i) = PointAt(string, i + k)
        BY <2>3, <2>5, <2>8 DEF PointAt
      <3> QED
        BY <2>1, <3>1, <3>2
    <2> QED
      BY <2>7, <2>8
  <1>14. \A i \in 1..p : onward[i] \in (i + 1)..q
    BY <1>8, <1>9, <1>10
  <1>15. ASSUME NEW i \in 1..p
         PROVE  y[i] = x[i + k] /\ next[i + k] = onward[i] + k
    <2>1. i + k \in 1..n /\ i \in 1..Len(rest)
      BY <1>3, <1>4, <1>8, <1>9
    <2>2. x[i + k] = PointAt(string, i + k) /\ next[i + k] = After(string, i + k)
      BY <1>1, <2>1
    <2>3. y[i] = PointAt(rest, i) /\ onward[i] = After(rest, i)
      BY <1>10, <2>1
    <2> QED
      BY <1>13, <2>2, <2>3
  <1>16. IsShift(x, next, y, onward, n, m, k)
    <2>1. \A i \in 1..(n - k) : onward[i] \in (i + 1)..(m - k)
      BY <1>14
    <2>2. \A i \in 1..(n - k) : y[i] = x[i + k] /\ next[i + k] = onward[i] + k
      BY <1>15
    <2> HIDE DEF n, m, p, q, rest
    <2> QED
      BY <2>1, <2>2, Zenon DEF IsShift
  <1>17. p = n - k /\ q = m - k /\ k \in 0..n
    BY <1>3, <1>4
  <1>18. g[1] = f[k + 1]
    <2> HIDE DEF n, m, p, q, rest
    <2>1. \A i \in 1..(m - k) : g[i] = f[i + k]
      BY <1>3, <1>5, <1>12, <1>16, <1>17, ScanShift
    <2>2. 1 \in 1..(m - k) /\ 1 + k = k + 1
      BY <1>4, <1>9, <1>17
    <2> QED
      BY <2>1, <2>2
  <1> HIDE DEF n, m, p, q
  <1> QED
    BY <1>6, <1>11, <1>18 DEF n

(* Two halves of a pair, as the numbers they are. *)
LEMMA Halves ==
    ASSUME NEW c \in Nat, 65536 <= c, c <= 1114111
    PROVE  LET high == ((c - 65536) \div 1024) + 55296
               low == ((c - 65536) % 1024) + 56320
           IN  /\ codeUnits(c) = <<high, low>> /\ high \in High /\ low \in Low
               /\ high \in Nat /\ low \in Nat /\ Paired(high, low) = c
  <1> DEFINE cp == c - 65536
             a == cp \div 1024
             b == cp % 1024
             high == a + 55296
             low == b + 56320
  <1>1. cp \in Nat /\ cp <= 1048575 /\ ~(cp < 0)
    BY SMT
  <1> HIDE DEF cp
  <1>2. a \in Nat /\ a <= 1023 /\ b \in Nat /\ b <= 1023 /\ cp = 1024 * a + b
    BY <1>1, SMT
  <1>3. codeUnits(c) = <<high, low>>
    BY <1>1, SMT DEF codeUnits, cp
  <1> HIDE DEF a, b
  <1>4. high \in High /\ low \in Low /\ high \in Nat /\ low \in Nat
    BY <1>2, SMT DEF High, Low
  <1>5. high % 1024 = a /\ low % 1024 = b
    BY <1>2, SMT
  <1> HIDE DEF high, low
  <1>6. Paired(high, low) = 65536 + a * 1024 + b
    BY <1>5, SMT DEF Paired
  <1>7. 65536 + a * 1024 + b = c
    BY <1>2, SMT DEF cp
  <1> QED
    BY <1>3, <1>4, <1>6, <1>7 DEF high, low, a, b, cp

\* A code point that is no surrogate.
LEMMA NoSurrogate ==
    ASSUME NEW c \in Characters
    PROVE  /\ c \in Nat /\ c <= 1114111
           /\ c \notin High /\ c \notin Low /\ c \notin High \cup Low
  BY SMT DEF Characters, IsScalar, Surrogate, High, Low

(* The string of a character is read as the character, whatever follows. *)
LEMMA ReadUnits ==
    ASSUME NEW c \in Characters, NEW rest \in Seq(Nat)
    PROVE  stringToCodePoints(codeUnits(c) \o rest) = <<c>> \o stringToCodePoints(rest)
  <1> DEFINE u == codeUnits(c)
             string == u \o rest
  <1>1. c \in Nat /\ c <= 1114111 /\ c \notin High /\ c \notin High \cup Low
    BY NoSurrogate
  <1>2. u \in Seq(Nat) /\ u # <<>>
    BY <1>1, CodeUnitsType
  <1>3. string = u \o rest
    OBVIOUS
  <1> HIDE DEF u, string
  <1>4. /\ string \in Seq(Nat) /\ Len(string) = Len(u) + Len(rest) /\ string # <<>>
        /\ SubSeq(string, Len(u) + 1, Len(string)) = rest
        /\ string[1] = u[1]
    BY <1>2, <1>3, Cuts
  <1>5. SUFFICES PointAt(string, 1) = c /\ After(string, 1) = Len(u) + 1
    BY <1>3, <1>4, ReadStep DEF u
  <1>6. CASE c < 65536
    <2>1. u = <<c>>
      BY <1>1, <1>6 DEF codeUnits, u
    <2>2. Len(u) = 1 /\ string[1] = c
      BY <1>4, <2>1
    <2>3. ~PairAt(string, 1)
      BY <1>1, <2>2 DEF PairAt
    <2> QED
      BY <1>1, <2>2, <2>3 DEF PointAt, After
  <1>7. CASE 65536 <= c
    <2>1. PICK high, low :
             /\ u = <<high, low>> /\ high \in High /\ low \in Low
             /\ high \in Nat /\ low \in Nat /\ Paired(high, low) = c
      BY <1>1, <1>7, Halves DEF u
    <2>2. Len(u) = 2 /\ u[1] = high /\ u[2] = low
      BY <2>1
    <2>3. Len(rest) \in Nat
      OBVIOUS
    <2>4. 1 < Len(string) /\ string[1] = high /\ string[2] = low
      <3>1. string[1] = high /\ 1 < Len(string)
        BY <1>4, <2>2, <2>3
      <3>2. string[2] = u[2]
        <4>1. \A i \in 1..Len(u) : (u \o rest)[i] = u[i]
          BY <1>2
        <4>2. 2 \in 1..Len(u)
          BY <2>2
        <4> QED
          BY <1>3, <4>1, <4>2
      <3> QED
        BY <2>2, <3>1, <3>2
    <2>5. 1 + 1 = 2
      OBVIOUS
    <2>6. PairAt(string, 1)
      BY <2>1, <2>4, <2>5 DEF PairAt
    <2>7. PointAt(string, 1) = Paired(high, low)
      BY <2>4, <2>5, <2>6 DEF PointAt
    <2>8. After(string, 1) = Len(u) + 1
      BY <2>2, <2>6 DEF After
    <2> QED
      BY <2>1, <2>7, <2>8
  <1> QED
    BY <1>1, <1>6, <1>7, SMT

\* A sequence is its first element and the others.
LEMMA FirstAndOthers ==
    ASSUME NEW S, NEW s \in Seq(S), s # <<>>
    PROVE  /\ s = <<Head(s)>> \o Tail(s) /\ Head(s) \in S /\ Tail(s) \in Seq(S)
           /\ Len(Tail(s)) = Len(s) - 1
           /\ <<Head(s)>> \in Seq(S)
  OBVIOUS

(* Characters are read back from their string. *)
LEMMA ReadBack ==
    ASSUME NEW X \in Seq(Characters)
    PROVE  stringToCodePoints(codePointsToString(X)) = X
  <1> DEFINE Holds(Y) == stringToCodePoints(codePointsToString(Y)) = Y
             K == {m \in Nat : \A Y \in Seq(Characters) : Len(Y) = m => Holds(Y)}
  <1>1. 0 \in K
    <2>1. codePointsToString(<<>>) = <<>>
      <3>1. 0 \in Nat
        OBVIOUS
      <3> QED
        BY <3>1, StringOfOne
    <2>2. Holds(<<>>)
      BY <2>1, ReadEmpty
    <2>3. \A Y \in Seq(Characters) : Len(Y) = 0 => Y = <<>>
      OBVIOUS
    <2> HIDE DEF Holds
    <2> QED
      BY <2>2, <2>3
  <1>2. ASSUME NEW m \in K PROVE m + 1 \in K
    <2>1. SUFFICES ASSUME NEW Y \in Seq(Characters), Len(Y) = m + 1 PROVE Holds(Y)
      OBVIOUS
    <2>2. m \in Nat /\ \A Z \in Seq(Characters) : Len(Z) = m => Holds(Z)
      OBVIOUS
    <2> DEFINE c == Head(Y)
               Z == Tail(Y)
               o == <<c>>
    <2>3. Y # <<>>
      BY <2>1, <2>2
    <2>4. Y = o \o Z /\ c \in Characters /\ Z \in Seq(Characters) /\ Len(Z) = Len(Y) - 1
          /\ o \in Seq(Characters)
      BY <2>3, FirstAndOthers
    <2>5. Len(Z) = m
      BY <2>1, <2>2, <2>4
    <2> HIDE DEF c, Z
    <2>6. Holds(Z)
      BY <2>2, <2>4, <2>5
    <2>7. c \in Nat
      BY <2>4, NoSurrogate
    <2>8. codePointsToString(o) = codeUnits(c)
      BY <2>7, StringOfOne
    <2> HIDE DEF o
    <2>9. codePointsToString(o \o Z) = codePointsToString(o) \o codePointsToString(Z)
          /\ codePointsToString(Z) \in Seq(Nat)
      <3>1. o \in Seq(Nat) /\ Z \in Seq(Nat)
        BY <2>4, CharactersAreNumbers
      <3> QED
        BY <3>1, StringOfConcat
    <2>10. stringToCodePoints(codeUnits(c) \o codePointsToString(Z))
              = <<c>> \o stringToCodePoints(codePointsToString(Z))
      BY <2>4, <2>9, ReadUnits
    <2> QED
      BY <2>4, <2>6, <2>8, <2>9, <2>10 DEF o
  <1>3. K = Nat
    <2> HIDE DEF K
    <2>1. K \in SUBSET Nat
      BY DEF K
    <2> QED
      BY <1>1, <1>2, <2>1, Concatenation!SetInduction
  <1>4. Len(X) \in K
    BY <1>3
  <1> QED
    BY <1>4

-----------------------------------------------------------------------------
(* Bytes are encoded again *)

\* A sequence is its first elements and the others.
LEMMA CutInTwo ==
    ASSUME NEW S, NEW s \in Seq(S), NEW n \in 0..Len(s)
    PROVE  s = SubSeq(s, 1, n) \o SubSeq(s, n + 1, Len(s))
  <1> DEFINE a == SubSeq(s, 1, n)
             b == SubSeq(s, n + 1, Len(s))
             ab == a \o b
  <1>1. Len(s) \in Nat /\ n \in Nat /\ n <= Len(s)
    OBVIOUS
  <1>2. a \in Seq(S) /\ Len(a) = n /\ \A i \in 1..n : a[i] = s[i]
    <2>1. 1 \in 1..(Len(s) + 1) /\ n \in 0..Len(s) /\ 1 <= n + 1 /\ n + 1 - 1 = n
      BY <1>1
    <2>2. /\ a \in Seq(S) /\ Len(a) = n + 1 - 1
          /\ \A i \in 1..(n + 1 - 1) : a[i] = s[1 + i - 1]
      BY <2>1, SubSeqElements
    <2>3. \A i \in 1..n : 1 + i - 1 = i
      OBVIOUS
    <2> HIDE DEF a
    <2> QED
      BY <2>1, <2>2, <2>3
  <1>3. /\ b \in Seq(S) /\ Len(b) = Len(s) - n
        /\ \A i \in 1..(Len(s) - n) : b[i] = s[n + i]
    <2>1. /\ n + 1 \in 1..(Len(s) + 1) /\ Len(s) \in 0..Len(s) /\ n + 1 <= Len(s) + 1
          /\ Len(s) + 1 - (n + 1) = Len(s) - n
      BY <1>1
    <2>2. /\ b \in Seq(S) /\ Len(b) = Len(s) + 1 - (n + 1)
          /\ \A i \in 1..(Len(s) + 1 - (n + 1)) : b[i] = s[n + 1 + i - 1]
      BY <2>1, SubSeqElements
    <2>3. \A i \in 1..(Len(s) - n) : n + 1 + i - 1 = n + i
      BY <1>1
    <2> HIDE DEF b
    <2> QED
      BY <2>1, <2>2, <2>3
  <1> HIDE DEF a, b
  <1>4. /\ ab \in Seq(S) /\ Len(ab) = Len(a) + Len(b)
        /\ \A i \in 1..Len(ab) : ab[i] = IF i <= Len(a) THEN a[i] ELSE b[i - Len(a)]
    <2>1. a \in Seq(S)
      BY <1>2
    <2>2. b \in Seq(S)
      BY <1>3
    <2> QED
      BY <2>1, <2>2
  <1> HIDE DEF ab
  <1>5. Len(ab) = Len(s)
    BY <1>1, <1>2, <1>3, <1>4
  <1>6. ASSUME NEW i \in 1..Len(s) PROVE ab[i] = s[i]
    <2>1. ab[i] = IF i <= n THEN a[i] ELSE b[i - n]
      BY <1>2, <1>4, <1>5
    <2>2. CASE i <= n
      <3>1. i \in 1..n
        BY <2>2
      <3> QED
        BY <1>2, <2>1, <2>2, <3>1
    <2>3. CASE ~(i <= n)
      <3>1. i - n \in 1..(Len(s) - n) /\ n + (i - n) = i
        BY <1>1, <2>3
      <3>2. b[i - n] = s[n + (i - n)]
        BY <1>3, <3>1
      <3> QED
        BY <2>1, <2>3, <3>1, <3>2
    <2> QED
      BY <2>2, <2>3
  <1>7. ab = s
    BY <1>4, <1>5, <1>6, SeqEqual
  <1> QED
    BY <1>7 DEF ab, a, b

\* What has no error are characters, and nothing is replaced.
LEMMA WithoutErrors ==
    ASSUME NEW D \in Decodings, ~Failed(D)
    PROVE  D \in Seq(Characters) /\ Replaced(D) = D
  <1>1. ASSUME NEW i \in DOMAIN D
        PROVE  D[i] \in Characters /\ D[i] # Errors
    <2>1. D[i] \in Characters \cup {Errors}
      BY DEF Decodings
    <2>2. D[i] # Errors
      BY DEF Failed, ToSet
    <2> QED
      BY <2>1, <2>2
  <1>2. /\ D \in Seq(Characters \cup {Errors}) /\ DOMAIN D = 1..Len(D) /\ Len(D) \in Nat
        /\ D = [i \in DOMAIN D |-> D[i]]
    BY DEF Decodings
  <1>3. D \in Seq(Characters)
    <2>1. \A i \in 1..Len(D) : D[i] \in Characters
      BY <1>1, <1>2
    <2>2. D = [i \in 1..Len(D) |-> D[i]]
      BY <1>2
    <2> QED
      BY <1>2, <2>1, <2>2
  <1>4. Replaced(D) = D
    BY <1>1, <1>2 DEF Replaced
  <1> QED
    BY <1>3, <1>4

(* Where there is no error the bytes are those of the characters. *)
LEMMA EncodedBack ==
    ASSUME NEW bytes \in Seq(Byte), ~Failed(Decoded(bytes))
    PROVE  encodedAll(Decoded(bytes)) = bytes
  <1> DEFINE Holds(b) == ~Failed(Decoded(b)) => encodedAll(Decoded(b)) = b
             K == {m \in Nat : \A b \in Seq(Byte) : Len(b) <= m => Holds(b)}
  <1>1. Holds(<<>>)
    <2>1. encodedAll(<<>>) = <<>>
      <3>1. 0 \in Nat
        OBVIOUS
      <3> QED
        BY <3>1, BytesOfOne
    <2> QED
      BY <2>1, DecodedEmpty
  <1>2. 0 \in K
    <2>1. \A b \in Seq(Byte) : Len(b) <= 0 => b = <<>>
      OBVIOUS
    <2> HIDE DEF Holds
    <2> QED
      BY <1>1, <2>1
  <1>3. ASSUME NEW m \in K PROVE m + 1 \in K
    <2>1. SUFFICES ASSUME NEW b \in Seq(Byte), Len(b) <= m + 1, ~Failed(Decoded(b))
                   PROVE  encodedAll(Decoded(b)) = b
      OBVIOUS
    <2>2. m \in Nat /\ \A e \in Seq(Byte) : Len(e) <= m => Holds(e)
      OBVIOUS
    <2> HIDE DEF K
    <2>3. CASE b = <<>>
      BY <1>1, <2>1, <2>3
    <2>4. CASE b # <<>>
      <3> DEFINE x == Found(b, 1)
                 w == SubSeq(b, 1, 1 + LongestAt(b, 1) - 1)
                 n == Len(w)
                 rest == SubSeq(b, n + 1, Len(b))
      <3>1. Len(b) \in Nat /\ Len(b) >= 1 /\ 1 \in 1..Len(b)
        BY <2>4
      <3>2. Decoded(b) = <<x>> \o Decoded(SubSeq(b, Onward(b, 1), Len(b)))
        BY <2>4, DecodedStep
      <3>3. x # Errors
        <4> DEFINE t == SubSeq(b, Onward(b, 1), Len(b))
        <4>1. t \in Seq(Byte)
          <5>1. Onward(b, 1) \in 2..(Len(b) + 1)
            BY <3>1, LongestRange DEF Onward
          <5>2. Onward(b, 1) \in 1..(Len(b) + 1) /\ Len(b) \in 0..Len(b)
                /\ Onward(b, 1) <= Len(b) + 1
            BY <3>1, <5>1
          <5> QED
            BY <5>2, SubSeqElements
        <4> HIDE DEF t
        <4>2. Decoded(t) \in Decodings
          BY <4>1, DecodedType
        <4>3. ASSUME x = Errors PROVE FALSE
          <5>1. <<x>> \in Decodings /\ Failed(<<x>>)
            BY <4>3, FailedOne DEF Decodings
          <5>2. Failed(<<x>> \o Decoded(t))
            BY <4>2, <5>1, FailedConcat
          <5> QED
            BY <2>1, <3>2, <5>2 DEF t
        <4> QED
          BY <4>3
      <3>4. LongestAt(b, 1) = Length(b[1])
        BY <3>1, <3>3, FoundIs
      <3>5. /\ w \in Seq(Byte) /\ w # <<>> /\ Complete(w) /\ x = CodeOf(w)
            /\ n = LongestAt(b, 1) /\ Onward(b, 1) = 1 + n
        BY <3>1, <3>4, FoundIs
      <3>6. n \in 1..Len(b) /\ 1 + n = n + 1 /\ 1 + LongestAt(b, 1) - 1 = n
        <4>1. n \in 0..4 /\ 1 + n <= Len(b) + 1
          BY <3>1, <3>5, LongestRange
        <4>2. n \in Nat /\ n >= 1
          BY <3>5
        <4> HIDE DEF n
        <4> QED
          BY <3>1, <3>5, <4>1, <4>2
      <3>7. w = SubSeq(b, 1, n)
        BY <3>6
      <3> HIDE DEF w, x
      <3>8. b = w \o rest
        <4>1. n \in 0..Len(b)
          BY <3>6
        <4> HIDE DEF n
        <4> QED
          BY <3>7, <4>1, CutInTwo
      <3>9. rest \in Seq(Byte) /\ Len(rest) <= m
        <4>1. /\ n + 1 \in 1..(Len(b) + 1) /\ Len(b) \in 0..Len(b) /\ n + 1 <= Len(b) + 1
              /\ Len(b) + 1 - (n + 1) <= m
          BY <2>1, <2>2, <3>1, <3>6
        <4> HIDE DEF n
        <4>2. rest \in Seq(Byte) /\ Len(rest) = Len(b) + 1 - (n + 1)
          BY <4>1, SubSeqElements
        <4> QED
          BY <4>1, <4>2
      <3>10. Decoded(b) = <<x>> \o Decoded(rest)
        BY <3>2, <3>5, <3>6
      <3> HIDE DEF rest, n
      <3>11. Decoded(rest) \in Decodings /\ <<x>> \in Decodings
        <4>1. Decoded(rest) \in Decodings
          BY <3>9, DecodedType
        <4>2. x \in Characters
          BY <3>5, CompleteIsCharacter
        <4> QED
          BY <4>1, <4>2 DEF Decodings
      <3>12. ~Failed(Decoded(rest))
        BY <2>1, <3>10, <3>11, FailedConcat
      <3>13. encodedAll(Decoded(rest)) = rest
        BY <2>2, <3>9, <3>12
      <3>14. encodedAll(<<x>>) = w
        <4>1. x \in Characters /\ encoded(x) = w
          BY <3>5, CompleteIsCharacter
        <4> QED
          BY <4>1, NoSurrogate, BytesOfOne
      <3>15. encodedAll(<<x>> \o Decoded(rest)) = encodedAll(<<x>>) \o encodedAll(Decoded(rest))
        <4>1. Decoded(rest) \in Seq(Nat)
          BY <3>11, <3>12, WithoutErrors, CharactersAreNumbers
        <4>2. <<x>> \in Seq(Nat)
          <5>1. x \in Nat
            BY <3>5, CompleteIsCharacter, NoSurrogate
          <5> QED
            BY <5>1
        <4> QED
          BY <4>1, <4>2, BytesOfConcat
      <3> QED
        BY <3>8, <3>10, <3>13, <3>14, <3>15
    <2> QED
      BY <2>3, <2>4
  <1>4. K = Nat
    <2> HIDE DEF K
    <2>1. K \in SUBSET Nat
      BY DEF K
    <2> QED
      BY <1>2, <1>3, <2>1, Concatenation!SetInduction
  <1>5. Len(bytes) \in Nat /\ Len(bytes) <= Len(bytes)
    OBVIOUS
  <1>6. Len(bytes) \in K
    <2> HIDE DEF K
    <2> QED
      BY <1>4, <1>5
  <1> QED
    BY <1>5, <1>6

\* The byte order mark has three bytes.
LEMMA MarkBytes == encoded(ByteOrderMark) = <<239, 187, 191>> /\ ByteOrderMark \in Nat
  <1>1. ByteOrderMark \in Nat /\ 2048 <= ByteOrderMark /\ ByteOrderMark <= 65535
    BY SMT DEF ByteOrderMark
  <1>2. /\ (ByteOrderMark \div 4096) + 224 = 239
        /\ 128 + ((ByteOrderMark \div 64) % 64) = 187
        /\ 128 + (ByteOrderMark % 64) = 191
    BY SMT DEF ByteOrderMark
  <1>3. encoded(ByteOrderMark) = InThree(ByteOrderMark)
    BY <1>1, EncodedForms, SMT
  <1> QED
    BY <1>1, <1>2, <1>3, SMT DEF InThree

(* Without the mark the bytes are those after it. *)
LEMMA EncodedStripped ==
    ASSUME NEW D \in Seq(Characters), NEW bytes \in Seq(Byte), encodedAll(D) = bytes,
           NEW ignore
    PROVE  encodedAll(Stripped(D, ignore))
              = SubSeq(bytes, IF Stripped(D, ignore) = D THEN 1 ELSE 4, Len(bytes))
  <1>1. CASE Stripped(D, ignore) = D
    <2>1. SubSeq(bytes, 1, Len(bytes)) = bytes
      OBVIOUS
    <2> QED
      BY <1>1, <2>1
  <1>2. CASE Stripped(D, ignore) # D
    <2> DEFINE t == Tail(D)
               o == <<ByteOrderMark>>
               e == encodedAll(t)
               w == encoded(ByteOrderMark)
    <2>1. D # <<>> /\ Head(D) = ByteOrderMark /\ Stripped(D, ignore) = t
      BY <1>2 DEF Stripped
    <2>2. D = o \o t /\ t \in Seq(Characters)
      BY <2>1, FirstAndOthers
    <2>3. t \in Seq(Nat) /\ o \in Seq(Nat) /\ encodedAll(o) = w
      BY <2>2, CharactersAreNumbers, MarkBytes, BytesOfOne
    <2> HIDE DEF t, o
    <2>4. bytes = encodedAll(o) \o encodedAll(t) /\ encodedAll(t) \in Seq(Nat)
      BY <2>2, <2>3, BytesOfConcat
    <2>5. w \in Seq(Nat) /\ Len(w) = 3
      BY MarkBytes
    <2>6. bytes = w \o e /\ e \in Seq(Nat)
      BY <2>3, <2>4
    <2> HIDE DEF w, e
    <2>7. SubSeq(bytes, Len(w) + 1, Len(bytes)) = e
      <3>1. w \in Seq(Nat)
        BY <2>5
      <3>2. e \in Seq(Nat)
        BY <2>6
      <3>3. ASSUME NEW all, all = w \o e
            PROVE  SubSeq(all, Len(w) + 1, Len(all)) = e
        BY <3>1, <3>2, <3>3, Cuts
      <3> QED
        BY <2>6, <3>3
    <2>8. Len(w) + 1 = 4
      BY <2>5
    <2> QED
      BY <1>2, <2>1, <2>7, <2>8 DEF e
  <1> QED
    BY <1>1, <1>2

\* The invariant says that the text can be had again.
LEMMA StreamRoundTrip == StreamInv => RoundTrip
  <1> SUFFICES ASSUME StreamInv, Flushed PROVE RoundTrip
    BY DEF RoundTrip
  <1> DEFINE D == Decoded(input)
             X == Stripped(Replaced(D), ignoreBOM)
  <1>1. input \in Seq(Byte)
    BY BytesAreBytes DEF StreamInv, Inv, TypeOK
  <1>2. text = codePointsToString(X)
    BY DEF StreamInv, Whole
  <1>3. X \in Seq(Characters) /\ D \in Decodings
    BY <1>1, WholeType, DecodedType
  <1>4. ASSUME NEW codePoints
        PROVE  WithoutBOM(codePoints) = Stripped(codePoints, ignoreBOM)
    BY DEF WithoutBOM, Stripped
  <1>5. D = Decoded(input) /\ X = Stripped(Replaced(D), ignoreBOM)
    OBVIOUS
  <1> HIDE DEF X, D
  <1>6. stringToCodePoints(text) = X
    BY <1>2, <1>3, ReadBack
  <1>7. X = WithoutBOM(Replaced(D))
    BY <1>4, <1>5
  <1>8. ASSUME Errors \notin ToSet(D)
        PROVE  encode(text) = SubSeq(input, IF WithoutBOM(D) = D THEN 1 ELSE 4, Len(input))
    <2>1. ~Failed(D)
      BY <1>8 DEF Failed
    <2>2. D \in Seq(Characters) /\ Replaced(D) = D
      BY <1>3, <2>1, WithoutErrors
    <2>3. encodedAll(D) = input
      BY <1>1, <1>5, <2>1, EncodedBack
    <2>4. encode(text) = encodedAll(Stripped(D, ignoreBOM))
      BY <1>5, <1>6, <2>2 DEF encode
    <2>5. encodedAll(Stripped(D, ignoreBOM))
             = SubSeq(input, IF Stripped(D, ignoreBOM) = D THEN 1 ELSE 4, Len(input))
      BY <1>1, <2>2, <2>3, EncodedStripped
    <2>6. WithoutBOM(D) = Stripped(D, ignoreBOM)
      BY <1>4
    <2> QED
      BY <2>4, <2>5, <2>6
  <1> QED
    BY <1>5, <1>6, <1>7, <1>8 DEF RoundTrip

(* A text that is well-formed can be had again from its string, of whatever *)
(* characters it is and however it was cut (stringToCodePoints,             *)
(* codePointsToString, UTF8Encoder).                                        *)
THEOREM TextRoundTrip == Spec => []RoundTrip
  BY StreamInvariance, StreamRoundTrip, PTL

==============================================================================
