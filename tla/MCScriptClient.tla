---------------------------- MODULE MCScriptClient ----------------------------
(* ScriptClient for TLC: a 5.3 controller, markers needing 3.x or 5.x, and
   every script of up to MaxLen characters over a five-character alphabet. *)
EXTENDS ScriptClient

MaxLen == 6
ShortLen == 4
MCMajor == 5
MCMinor == 3
MCDigits == {"3", "5"}
MCDigitValue == "3" :> 3 @@ "5" :> 5
Alphabet == {"$", "\n", " ", "3", "5"}
AllTexts == BoundedSeq(Alphabet, ShortLen)
\* Scripts ending with a newline, as the control script and script files are.
NewlineTexts == {t \in BoundedSeq(Alphabet, MaxLen) : t # <<>> /\ Last(t) = "\n"}
MCSizeBits == 8
=============================================================================
