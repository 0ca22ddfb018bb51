------------------------------- MODULE MCFraming -------------------------------
(* An instance of Framing for TLC.                                         *)
EXTENDS Framing

(* Payloads of n bytes that are all the same.                              *)
Filled(sizes, bytes) == {[k \in 1..n |-> b] : n \in sizes, b \in bytes}

Short == Filled({0, 3, 19}, {170})
===============================================================================
