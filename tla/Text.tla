-------------------------------- MODULE Text --------------------------------
(***************************************************************************)
(* What requests are made of: sequences of bytes, and the strings that C   *)
(* sees in them, which end before the first NUL.                           *)
(***************************************************************************)
EXTENDS Integers, Sequences, SequencesExt

CONSTANTS
  Bytes,  \* bytes, and what stands for several: an escape, a header line
  NoText  \* a NULL pointer, where there may be a text

NUL == "NUL"

Text == Seq(Bytes)
Entries == [key : Text, val : Text]

ASSUME TextAssumption == NUL \in Bytes /\ NoText \notin Text

\* ap_getword: the part of text before the first of the stops.
Before(text, stops) ==
  LET i == SelectInSeq(text, LAMBDA c : c \in stops)
  IN  IF i = 0 THEN text ELSE SubSeq(text, 1, i - 1)

CString(bytes) == Before(bytes, {NUL})
=============================================================================
