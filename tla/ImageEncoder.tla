---------------------------- MODULE ImageEncoder ----------------------------
(***************************************************************************)
(* imageEncoder of helpers/UtilsString.h: base64, without and with         *)
(* padding.  A step is a round of its loop, which takes one byte.  A       *)
(* character is its index in base64_chars, and 64 is the character "=".    *)
(***************************************************************************)
EXTENDS Integers, Sequences

CONSTANT Objects   \* the sequences of bytes that are encoded

ASSUME EncoderAssumption == Objects \subseteq Seq(0 .. 255)

VARIABLES
    bytes,       \* what is encoded
    padding,     \* whether the length is to be a multiple of four
    index,       \* of the next byte
    state,       \* which of three bytes that is
    lastStuff,   \* the bits that are left over
    result,
    encoded      \* imageEncoder has returned

encoderVars == <<bytes, padding, index, state, lastStuff, result, encoded>>

EncoderInit ==
    /\ bytes \in Objects /\ padding \in BOOLEAN
    /\ index = 0 /\ state = 0 /\ lastStuff = 0
    /\ result = << >> /\ encoded = FALSE

(* Mutant: the bits that are left over are lost between two bytes.         *)
EncodeByteAlone ==
    /\ index < Len(bytes)
    /\ LET byte == bytes[index + 1]
       IN \/ /\ state = 0 /\ result' = Append(result, byte \div 4)
             /\ lastStuff' = (byte % 4) * 16
          \/ /\ state = 1 /\ result' = Append(result, byte \div 16)
             /\ lastStuff' = (byte % 16) * 4
          \/ /\ state = 2 /\ result' = Append(Append(result, byte \div 64), byte % 64)
             /\ UNCHANGED lastStuff
    /\ state' = (state + 1) % 3
    /\ index' = index + 1
    /\ UNCHANGED <<bytes, padding, encoded>>

(* The bits that are put together by "|" are apart, so it is a sum.        *)
EncodeByte ==
    /\ index < Len(bytes)
    /\ LET byte == bytes[index + 1]
       IN \/ /\ state = 0 /\ result' = Append(result, byte \div 4)
             /\ lastStuff' = (byte % 4) * 16
          \/ /\ state = 1 /\ result' = Append(result, byte \div 16 + lastStuff)
             /\ lastStuff' = (byte % 16) * 4
          \/ /\ state = 2 /\ result' = Append(Append(result, byte \div 64 + lastStuff), byte % 64)
             /\ UNCHANGED lastStuff
    /\ state' = (state + 1) % 3
    /\ index' = index + 1
    /\ UNCHANGED <<bytes, padding, encoded>>

Padding == IF padding THEN IF state = 1 THEN <<64, 64>> ELSE <<64>> ELSE << >>

EncodeEnd ==
    /\ index = Len(bytes) /\ ~encoded
    /\ result' = IF state = 0 THEN result ELSE Append(result, lastStuff) \o Padding
    /\ encoded' = TRUE
    /\ UNCHANGED <<bytes, padding, index, state, lastStuff>>

EncoderNext == EncodeByte \/ EncodeEnd

EncoderSpec == EncoderInit /\ [][EncoderNext]_encoderVars

-----------------------------------------------------------------------------
(* The characters that hold bits, of which each has six.                   *)
TextLength == (8 * Len(bytes) + 5) \div 6

(* The bits of a byte and of a character; the first one has the number 0.  *)
Weight == <<128, 64, 32, 16, 8, 4, 2, 1>>
BitOfByte(n, i) == (n \div Weight[i + 1]) % 2
BitOfChar(n, i) == (n \div Weight[i + 3]) % 2

ObjectBit(i) ==
    IF i < 8 * Len(bytes) THEN BitOfByte(bytes[(i \div 8) + 1], i % 8) ELSE 0
ResultBit(i) == BitOfChar(result[(i \div 6) + 1], i % 6)

(* The text holds the bits of the bytes in their order, followed by zeros, *)
(* then only "=", and with padding has a length that is a multiple of      *)
(* four.                                                                   *)
EncodedBytes ==
    encoded =>
        /\ Len(result) >= TextLength
        /\ \A i \in 0 .. 6 * TextLength - 1 : ResultBit(i) = ObjectBit(i)
        /\ \A k \in 1 .. Len(result) :
              IF k <= TextLength THEN result[k] \in 0 .. 63 ELSE result[k] = 64
        /\ IF padding THEN Len(result) % 4 = 0 ELSE Len(result) = TextLength

-----------------------------------------------------------------------------
(* What EncodedBytes rests on: after index bytes the text has all of their *)
(* bits but those of lastStuff, which are the next ones.                   *)
EncoderTypeOK ==
    /\ bytes \in Objects /\ padding \in BOOLEAN /\ encoded \in BOOLEAN
    /\ index \in 0 .. Len(bytes) /\ (encoded => index = Len(bytes)) /\ state = index % 3
    /\ lastStuff \in {n \in 0 .. 60 : n % 4 = 0} /\ (state = 1 => lastStuff % 16 = 0)
    /\ result \in Seq(0 .. 64)

TextSoFar ==
    ~encoded =>
        /\ Len(result) = (4 * index) \div 3
        /\ \A k \in 1 .. Len(result) : result[k] \in 0 .. 63
        /\ \A i \in 0 .. 6 * Len(result) - 1 : ResultBit(i) = ObjectBit(i)

BitsLeftOver ==
    ~encoded /\ state # 0 =>
        \A j \in 0 .. 5 :
            LET i == 6 * Len(result) + j
            IN BitOfChar(lastStuff, j) = IF i < 8 * index THEN ObjectBit(i) ELSE 0

EncoderIInv == EncoderTypeOK /\ TextSoFar /\ BitsLeftOver /\ EncodedBytes
=============================================================================
