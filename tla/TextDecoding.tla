----------------------------- MODULE TextDecoding -----------------------------
(***************************************************************************)
(* The polyfill of TextDecoder the log viewer decodes a log with: a text   *)
(* of UTF-8 is decoded in one call, or in several calls of which all but   *)
(* the last have the option stream.  A step is one token of the input; no  *)
(* two calls overlap.  The encoder and the two conversions between code    *)
(* points and strings of UTF-16 are there to say what the decoder is for.  *)
(***************************************************************************)
EXTENDS Integers, SequencesExt

CONSTANTS
    Bytes,      \* the bytes the input consists of
    Inputs,     \* the inputs of a call
    MaxInput    \* bound on the length of what is decoded until it is flushed

ASSUME BytesAssumption ==
    /\ Bytes \subseteq 0..255
    /\ Inputs \subseteq Seq(Bytes)
    /\ MaxInput \in Nat

VARIABLES
    fatal, ignoreBOM,   \* the options of the TextDecoder
    decoder,            \* its UTF8Decoder
    doNotFlush,
    BOMseen,
    stage,              \* of the call to decode: idle when there is none
    stream,             \* the bytes it has not read yet
    output,             \* its code points so far
    input, text         \* history: the bytes and the strings since the last flush

vars == <<fatal, ignoreBOM, decoder, doNotFlush, BOMseen, stage, stream, output,
          input, text>>

Replacement == 65533        \* U+FFFD
ByteOrderMark == 65279      \* U+FEFF
Surrogate == 55296..57343   \* U+D800 to U+DFFF
IsScalar(codePoint) == codePoint <= 1114111 /\ codePoint \notin Surrogate
CodeUnit == 0..65535

-----------------------------------------------------------------------------
(* UTF8Decoder *)

Initial == [codePoint |-> 0, seen |-> 0, needed |-> 0, lower |-> 128, upper |-> 191]

Decoder == [codePoint : Nat, seen : 0..2, needed : 0..3,
            lower : {128, 144, 160}, upper : {143, 159, 191}]

\* The results of the handler: null, a code point, an error after the byte,
\* and an error before it - the byte is prepended to the stream.
Continue(d) == [decoder |-> d, emitted |-> <<>>, error |-> FALSE, prepend |-> FALSE]
Emit(d, codePoint) == [decoder |-> d, emitted |-> <<codePoint>>, error |-> FALSE,
                       prepend |-> FALSE]
ErrorAfter(d) == [decoder |-> d, emitted |-> <<Replacement>>, error |-> TRUE,
                  prepend |-> FALSE]
ErrorBefore(d) == [decoder |-> d, emitted |-> <<Replacement>>, error |-> TRUE,
                   prepend |-> TRUE]

\* The bytes of a code point that are still needed are waited for.
Await(needed, seen, codePoint, lower, upper) ==
    Continue([codePoint |-> codePoint, seen |-> seen, needed |-> needed,
              lower |-> lower, upper |-> upper])

(* Slip: the surrogates are not told from the other code points. *)
leadOfAnyThree(d, byte) ==
    CASE byte \in 0..127 -> Emit(d, byte)
      [] byte \in 194..223 -> Await(1, d.seen, byte % 32, d.lower, d.upper)
      [] byte \in 224..239 ->
            Await(2, d.seen, byte % 16, IF byte = 224 THEN 160 ELSE d.lower, d.upper)
      [] byte \in 240..244 ->
            Await(3, d.seen, byte % 8, IF byte = 240 THEN 144 ELSE d.lower,
                  IF byte = 244 THEN 143 ELSE d.upper)
      [] OTHER -> ErrorAfter(d)

lead(d, byte) ==
    CASE byte \in 0..127 -> Emit(d, byte)
      [] byte \in 194..223 -> Await(1, d.seen, byte % 32, d.lower, d.upper)
      [] byte \in 224..239 ->
            Await(2, d.seen, byte % 16, IF byte = 224 THEN 160 ELSE d.lower,
                  IF byte = 237 THEN 159 ELSE d.upper)
      [] byte \in 240..244 ->
            Await(3, d.seen, byte % 8, IF byte = 240 THEN 144 ELSE d.lower,
                  IF byte = 244 THEN 143 ELSE d.upper)
      [] OTHER -> ErrorAfter(d)

(* Slip: the number of bytes seen is not reset. *)
continuationCounting(d, byte) ==
    LET codePoint == d.codePoint * 64 + (byte % 64)
    IN  IF byte \notin d.lower..d.upper THEN ErrorBefore(Initial)
        ELSE IF d.seen + 1 = d.needed THEN
            Emit([Initial EXCEPT !.seen = d.seen + 1], codePoint)
        ELSE Await(d.needed, d.seen + 1, codePoint, 128, 191)

continuation(d, byte) ==
    LET codePoint == d.codePoint * 64 + (byte % 64)
    IN  IF byte \notin d.lower..d.upper THEN ErrorBefore(Initial)
        ELSE IF d.seen + 1 = d.needed THEN Emit(Initial, codePoint)
        ELSE Await(d.needed, d.seen + 1, codePoint, 128, 191)

handler(d, byte) == IF d.needed = 0 THEN lead(d, byte) ELSE continuation(d, byte)

-----------------------------------------------------------------------------
(* Strings *)

(* Slip: the surrogates of a code point are made of all its bits. *)
codePointsToStringUnshifted(codePoints) ==
    FlattenSeq([i \in DOMAIN codePoints |->
        LET cp == codePoints[i]
        IN  IF cp <= 65535 THEN <<cp>>
            ELSE <<(cp \div 1024) + 55296, (cp % 1024) + 56320>>])

\* The UTF-16 of a code point: itself, or a pair of surrogates.
codeUnits(codePoint) ==
    LET cp == codePoint - 65536
    IN  IF cp < 0 THEN <<codePoint>>
        ELSE <<(cp \div 1024) + 55296, (cp % 1024) + 56320>>

codePointsToString(codePoints) ==
    FlattenSeq([i \in DOMAIN codePoints |-> codeUnits(codePoints[i])])

High == 55296..56319
Low == 56320..57343

stringToCodePoints(string) ==
    LET paired(i) == string[i] \in High /\ i < Len(string) /\ string[i + 1] \in Low
        from[i \in 1..(Len(string) + 2)] ==
            IF i > Len(string) THEN <<>>
            ELSE IF paired(i) THEN
                <<65536 + (string[i] % 1024) * 1024 + (string[i + 1] % 1024)>> \o from[i + 2]
            ELSE <<IF string[i] \in High \cup Low THEN Replacement ELSE string[i]>>
                 \o from[i + 1]
    IN  from[1]

\* codePoint >> 6n
shifted(codePoint, n) == codePoint \div 64^n

\* A lead with the offset and as many continuations.
multiple(codePoint, count, offset) ==
    [k \in 1..(count + 1) |->
        IF k = 1 THEN shifted(codePoint, count) + offset
        ELSE 128 + (shifted(codePoint, count + 1 - k) % 64)]

\* UTF8Encoder
encoded(codePoint) ==
    IF codePoint <= 127 THEN <<codePoint>>
    ELSE IF codePoint <= 2047 THEN multiple(codePoint, 1, 192)
    ELSE IF codePoint <= 65535 THEN multiple(codePoint, 2, 224)
    ELSE multiple(codePoint, 3, 240)

encodedAll(codePoints) == FlattenSeq([i \in DOMAIN codePoints |-> encoded(codePoints[i])])

encode(string) == encodedAll(stringToCodePoints(string))

-----------------------------------------------------------------------------
(* TextDecoder *)

Init ==
    /\ fatal \in BOOLEAN /\ ignoreBOM \in BOOLEAN
    /\ decoder = Initial
    /\ doNotFlush = FALSE
    /\ BOMseen = FALSE
    /\ stage = "idle"
    /\ stream = <<>> /\ output = <<>>
    /\ input = <<>> /\ text = <<>>

(* Slip: each call begins anew. *)
decodeAnew(bytes, more) ==
    /\ stage \in {"idle", "thrown"} /\ (stage = "thrown" => ~doNotFlush)
    /\ decoder' = Initial /\ BOMseen' = FALSE
    /\ IF doNotFlush THEN input' = input \o bytes /\ UNCHANGED text
       ELSE input' = bytes /\ text' = <<>>
    /\ Len(input') <= MaxInput
    /\ doNotFlush' = more
    /\ stage' = "decoding" /\ stream' = bytes /\ output' = <<>>
    /\ UNCHANGED <<fatal, ignoreBOM>>

\* A call.  Who decodes a stream and gets an exception gives up.
decode(bytes, more) ==
    /\ stage \in {"idle", "thrown"} /\ (stage = "thrown" => ~doNotFlush)
    /\ IF doNotFlush
       THEN input' = input \o bytes /\ UNCHANGED <<decoder, BOMseen, text>>
       ELSE /\ decoder' = Initial /\ BOMseen' = FALSE
            /\ input' = bytes /\ text' = <<>>
    /\ Len(input') <= MaxInput
    /\ doNotFlush' = more
    /\ stage' = "decoding" /\ stream' = bytes /\ output' = <<>>
    /\ UNCHANGED <<fatal, ignoreBOM>>

\* The stream after a byte was read and, as the case may be, prepended again.
Remaining(result) == IF result.prepend THEN stream ELSE Tail(stream)

Handle ==
    /\ stage = "decoding" /\ stream # <<>>
    /\ LET result == handler(decoder, Head(stream))
       IN  /\ decoder' = result.decoder
           /\ stream' = Remaining(result)
           /\ IF result.error /\ fatal
              THEN stage' = "thrown" /\ UNCHANGED output
              ELSE output' = output \o result.emitted /\ UNCHANGED stage
    /\ UNCHANGED <<fatal, ignoreBOM, doNotFlush, BOMseen, input, text>>

serialized(codePoints) ==
    IF ~ignoreBOM /\ ~BOMseen /\ codePoints # <<>> /\ Head(codePoints) = ByteOrderMark
    THEN codePointsToString(Tail(codePoints))
    ELSE codePointsToString(codePoints)

\* Bytes that wait for more are kept for the next call, or are an error.
Finish ==
    /\ stage = "decoding" /\ stream = <<>>
    /\ LET incomplete == ~doNotFlush /\ decoder.needed # 0
           result == IF incomplete THEN Append(output, Replacement) ELSE output
       IN  /\ decoder' = IF doNotFlush THEN decoder ELSE Initial
           /\ IF incomplete /\ fatal
              THEN stage' = "thrown" /\ UNCHANGED <<output, text, BOMseen>>
              ELSE /\ stage' = "idle"
                   /\ output' = result
                   /\ text' = text \o serialized(result)
                   /\ BOMseen' = (BOMseen \/ (~ignoreBOM /\ result # <<>>))
    /\ UNCHANGED <<fatal, ignoreBOM, doNotFlush, stream, input>>

Next ==
    \/ \E bytes \in Inputs, more \in BOOLEAN : decode(bytes, more)
    \/ Handle
    \/ Finish

Spec == Init /\ [][Next]_vars

-----------------------------------------------------------------------------
TypeOK ==
    /\ fatal \in BOOLEAN /\ ignoreBOM \in BOOLEAN
    /\ doNotFlush \in BOOLEAN /\ BOMseen \in BOOLEAN
    /\ decoder \in Decoder
    /\ decoder.seen < decoder.needed \/ decoder.seen = 0
    /\ stage \in {"idle", "decoding", "thrown"}
    /\ stream \in Seq(Bytes) /\ input \in Seq(Bytes)
    /\ output \in Seq(Nat)

(* Whatever the bytes are, what the decoder returns are code points of      *)
(* characters: neither a surrogate nor anything beyond the last one comes   *)
(* out of it (UTF8Decoder, encoding.js 1331-1464).                          *)
ScalarsOnly == \A i \in DOMAIN output : IsScalar(output[i])

\* The inductive invariant behind ScalarsOnly: what the bytes seen so far leave
\* possible for those needed.
Pending(d) ==
    /\ d.needed = 0 => d = Initial
    /\ d.needed # 0 => d.seen < d.needed
    /\ (d.needed = 1 \/ d.seen > 0) => d.lower = 128 /\ d.upper = 191
    /\ d.needed = 1 => d.codePoint \in 2..31
    /\ d.needed = 2 /\ d.seen = 0 =>
          /\ d.codePoint \in 0..15 /\ d.lower >= 128 /\ d.upper <= 191
          /\ d.codePoint = 0 => d.lower = 160
          /\ d.codePoint = 13 => d.upper = 159
    /\ d.needed = 2 /\ d.seen = 1 => d.codePoint \in (32..863) \cup (896..1023)
    /\ d.needed = 3 /\ d.seen = 0 =>
          /\ d.codePoint \in 0..4 /\ d.lower >= 128 /\ d.upper <= 191
          /\ d.codePoint = 0 => d.lower = 144
          /\ d.codePoint = 4 => d.upper = 143
    /\ d.needed = 3 /\ d.seen = 1 => d.codePoint \in 16..271
    /\ d.needed = 3 /\ d.seen = 2 => 1024 <= d.codePoint /\ d.codePoint <= 17407

-----------------------------------------------------------------------------
(* What decoding is: read from the left, the bytes of a code point give the *)
(* code point, and the longest beginning of some code point's bytes, or a   *)
(* byte that is none, an error.                                             *)

Length(byte) == CASE byte \in 192..223 -> 2 [] byte \in 224..239 -> 3
                  [] byte \in 240..247 -> 4 [] OTHER -> 1

\* What a lead and its continuations stand for.
CodeOf(bytes) ==
    CASE Len(bytes) = 1 -> bytes[1]
      [] Len(bytes) = 2 -> (bytes[1] - 192) * 64 + (bytes[2] - 128)
      [] Len(bytes) = 3 -> (bytes[1] - 224) * 4096 + (bytes[2] - 128) * 64 + (bytes[3] - 128)
      [] OTHER -> (bytes[1] - 240) * 262144 + (bytes[2] - 128) * 4096
                  + (bytes[3] - 128) * 64 + (bytes[4] - 128)

\* These bytes, and all that are missing to a code point alike.
Completed(bytes, missing) ==
    [k \in 1..Length(bytes[1]) |-> IF k <= Len(bytes) THEN bytes[k] ELSE missing]

\* From the least to the greatest they are the beginning of, some code point is
\* a character that has no shorter form.
Begins(bytes) ==
    /\ bytes[1] \in (0..127) \cup (192..247)
    /\ Len(bytes) <= Length(bytes[1])
    /\ \A k \in 2..Len(bytes) : bytes[k] \in 128..191
    /\ LET least == CodeOf(Completed(bytes, 128))
           greatest == CodeOf(Completed(bytes, 191))
       IN  /\ greatest >= <<0, 128, 2048, 65536>>[Length(bytes[1])]
           /\ least <= 1114111
           /\ ~(least >= 55296 /\ greatest <= 57343)

\* How many bytes from the i-th are the beginning of a code point's.
LongestAt(bytes, i) ==
    Max({0} \cup {n \in 1..4 : i + n - 1 <= Len(bytes) /\ Begins(SubSeq(bytes, i, i + n - 1))})

Errors == -1

Decoded(bytes) ==
    LET whole(i) == LongestAt(bytes, i) = Length(bytes[i])
        code(i) == CodeOf(SubSeq(bytes, i, i + LongestAt(bytes, i) - 1))
        from[i \in 1..(Len(bytes) + 1)] ==
            IF i > Len(bytes) THEN <<>>
            ELSE <<IF whole(i) THEN code(i) ELSE Errors>> \o from[i + Max({1, LongestAt(bytes, i)})]
    IN  from[1]

Replaced(codePoints) ==
    [i \in DOMAIN codePoints |-> IF codePoints[i] = Errors THEN Replacement
                                 ELSE codePoints[i]]

WithoutBOM(codePoints) ==
    IF ~ignoreBOM /\ codePoints # <<>> /\ Head(codePoints) = ByteOrderMark
    THEN Tail(codePoints) ELSE codePoints

Flushed == stage = "idle" /\ ~doNotFlush

(* However a text is cut into calls, also within a character or within the  *)
(* byte order mark, the strings they return are the text; and a decoder     *)
(* that is fatal throws its exception exactly if the text is ill-formed     *)
(* (decode, encoding.js 1068-1189).                                         *)
StreamEqualsWhole ==
    LET decoded == Decoded(input)
        whole == codePointsToString(WithoutBOM(Replaced(decoded)))
    IN  /\ stage = "idle" => IsPrefix(text, whole)
        /\ Flushed => text = whole /\ (fatal => Errors \notin ToSet(decoded))
        /\ stage = "idle" /\ decoder.needed = 0 => text = whole
        /\ stage = "thrown" => fatal /\ Errors \in ToSet(decoded)

(* A text that is well-formed can be had again from the string it is        *)
(* decoded to, and no string has a half of a pair of surrogates             *)
(* (stringToCodePoints, codePointsToString, UTF8Encoder).                   *)
RoundTrip ==
    LET decoded == Decoded(input)
    IN  Flushed =>
        /\ stringToCodePoints(text) = WithoutBOM(Replaced(decoded))
        /\ Errors \notin ToSet(decoded) =>
              encode(text) = SubSeq(input, IF WithoutBOM(decoded) = decoded THEN 1 ELSE 4,
                                    Len(input))

==============================================================================
