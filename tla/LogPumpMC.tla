------------------------------ MODULE LogPumpMC ------------------------------
(***************************************************************************)
(* An instance of LogPump for TLC: every short output, and some with lines *)
(* longer than the reader's limit.                                         *)
(***************************************************************************)
EXTENDS LogPump

CONSTANT MaxOutput  \* bound of the model: length of the short outputs

ShortOutputs == UNION {[1..n -> Byte] : n \in 0..MaxOutput}

x(n) == [i \in 1..n |-> "x"]
nl == <<"nl">>

SomeOutputs ==
  ShortOutputs \cup {x(6), x(5) \o nl, x(2) \o nl \o x(2), x(4) \o nl \o x(1)}

=============================================================================
