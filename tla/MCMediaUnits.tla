---------------------------- MODULE MCMediaUnits ----------------------------
(***************************************************************************)
(* The instance of MediaUnits that TLC checks.                             *)
(***************************************************************************)
EXTENDS MediaUnits

Plain == [version |-> 2, csrc |-> 0, words |-> -1, announced |-> 0, padding |-> 0, count |-> 0,
          trailing |-> 0, cut |-> 0]

MCDresses ==
    {Plain,
     [Plain EXCEPT !.csrc = 2, !.words = 1, !.announced = 1, !.padding = 3, !.count = 3],
     [Plain EXCEPT !.words = 0, !.padding = 1, !.count = 1]}

\* A wrong version, a datagram cut short in the data, in the header or in the
\* extension, and padding that counts nothing or more than there is.
MCDamages ==
    {[Plain EXCEPT !.version = 1],
     [Plain EXCEPT !.cut = 1],
     [Plain EXCEPT !.words = 0, !.announced = 100],
     [Plain EXCEPT !.padding = 1],
     [Plain EXCEPT !.padding = 1, !.count = 200]}

MCAudioMedia == {[bits |-> b, channels |-> 2, samples |-> 2] : b \in {16, 24}}
MCSampleEdges ==
    [b \in {16, 24} |-> <<-(2^(b - 1)), -(2^(b - 2)) - 1, -1, 0, 1, 2^(b - 2), 2^(b - 1) - 1>>]
=============================================================================
