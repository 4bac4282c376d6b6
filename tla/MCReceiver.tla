------------------------------ MODULE MCReceiver ------------------------------
(* Instances of Receiver for TLC: a packet with nothing in it at all, one whose *)
(* header is cut, an empty one, one of a refused size, two good ones.          *)
EXTENDS Receiver

CONSTANTS nothing, cut, empty, big, good, other

MCPackets == {nothing, cut, empty, big, good, other}
MCSize == [p \in MCPackets |->
    CASE p = nothing -> -257 [] p = cut -> -3 [] p = empty -> 0 [] p = big -> 9 [] OTHER -> 4]
MCAllowed == {4}

\* A reload may find a changed directory.
MCDeclared == {{good}, {good, other, big}}
=============================================================================
