------------------------------ MODULE EEBits ------------------------------
(* Bitwise operations on the words of EEWord, tabulated.                   *)
EXTENDS EEWord, Bitwise

AndTable == [a \in Words |-> [b \in Words |-> a & b]]
XorTable == [a \in Words |-> [b \in Words |-> a ^^ b]]

AndW(a, b) == AndTable[a][b]
XorW(a, b) == XorTable[a][b]
OrW(a, b) == a + b - AndTable[a][b]

\* The same on doublewords.
And64(a, b) == Pair(AndW(High(a), High(b)), AndW(Low(a), Low(b)))
Xor64(a, b) == Pair(XorW(High(a), High(b)), XorW(Low(a), Low(b)))
Or64(a, b) == a + b - And64(a, b)
=============================================================================
