----------------------------- MODULE LogWindow -----------------------------
(***************************************************************************)
(* What the RAM log promises (docs/RUNTIME.md): it retains the newest      *)
(* bytes written, as many as it has room for.                              *)
(***************************************************************************)
EXTENDS Naturals, Sequences

CONSTANTS Size, \* bytes retained
          Byte

VARIABLE window \* the bytes retained, oldest first

\* The window w after one more byte.
Shifted(w, b) == IF Len(w) < Size THEN Append(w, b) ELSE Append(Tail(w), b)

WindowInit == window = <<>>

Write(b) == window' = Shifted(window, b)
Forget   == window' = <<>>

WindowNext == Forget \/ \E b \in Byte : Write(b)

WindowSpec == WindowInit /\ [][WindowNext]_window
=============================================================================
