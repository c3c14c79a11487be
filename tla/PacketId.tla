------------------------------ MODULE PacketId ------------------------------
(***************************************************************************)
(* How a packet identifier the broker chose travels to a subscriber and    *)
(* back: ML_encode (mqtt_encode.c) writes it into the two bytes of the     *)
(* PUBLISH, the subscriber copies the bytes into its PUBACK or PUBREC, and *)
(* string_len (mqtt_decode.c) reads them.  Both treat the two bytes as     *)
(* MQTT's variable-length integer of 7-bit digits, the first byte being    *)
(* the one overwritten by every digit but the last.                        *)
(***************************************************************************)
EXTENDS Integers

CONSTANT Base   \* 128 in the code: values of a 7-bit digit

ASSUME BaseAssumption == Base \in Nat /\ Base >= 2

(* A byte is its low digit and whether its high bit is set. *)
Byte(digit, high) == [digit |-> digit, high |-> high]

(* Two mutants of the next operator: the bound of the first digit is one   *)
(* off; the other byte is never written.                                   *)
MLEncodeOneOff(x) ==
  IF x <= Base
  THEN [msb |-> Byte(0, FALSE), lsb |-> Byte(x, FALSE)]
  ELSE [msb |-> Byte(x % Base, TRUE), lsb |-> Byte(x \div Base, FALSE)]

MLEncodeOneByte(x) ==
  [msb |-> Byte(0, FALSE), lsb |-> Byte(IF x < Base THEN x ELSE x \div Base, FALSE)]

(* ML_encode: digits from the lowest; each one that is not the last goes   *)
(* to both bytes with its high bit set, the last one to the LSB alone.     *)
(* Three digits are enough for the identifiers of session_publish_add when *)
(* Base is 128 (65535 < 128^3).                                            *)
MLEncode(x) ==
  IF x < Base
  THEN [msb |-> Byte(0, FALSE), lsb |-> Byte(x, FALSE)]
  ELSE IF x < Base * Base
  THEN [msb |-> Byte(x % Base, TRUE), lsb |-> Byte(x \div Base, FALSE)]
  ELSE [msb |-> Byte((x \div Base) % Base, TRUE),
        lsb |-> Byte(x \div (Base * Base), FALSE)]

(* string_len: from the LSB towards the MSB while the high bit is set.  A  *)
(* set bit in the MSB would make it read the byte before the buffer; the   *)
(* LSB's never is.                                                         *)
StringLen(bytes) ==
  IF bytes.lsb.high THEN bytes.lsb.digit + Base * bytes.msb.digit
  ELSE bytes.lsb.digit

(* The row an acknowledgement of identifier x frees. *)
AckedId(x) == StringLen(MLEncode(x))
=============================================================================
