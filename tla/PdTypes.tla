------------------------------- MODULE PdTypes -------------------------------
(* Constants and conversions of src/include/core/types.h. *)
EXTENDS Integers

DefaultTxPower == -59
DefaultRssiCutoff == -85
DefaultWindow == 500
DefaultInterval == 5
DefaultTtl == 60

\* A cast to int8_t.
Int8(x) == ((x + 128) % 256) - 128
==============================================================================
