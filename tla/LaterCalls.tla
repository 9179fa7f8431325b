------------------------------ MODULE LaterCalls ------------------------------
(***************************************************************************)
(* What callLater promises to other threads: the functions they hand over  *)
(* are called one after the other, each once, in the order they were       *)
(* handed over.                                                            *)
(***************************************************************************)
EXTENDS Naturals, Sequences

CONSTANT Callers

VARIABLES asked,    \* the functions handed over, in order
          done      \* those that have been called, in order

vars == <<asked, done>>

Init == asked = << >> /\ done = << >>

Ask(c) == asked' = Append(asked, c) /\ UNCHANGED done

Call ==
    /\ Len(done) < Len(asked)
    /\ done' = Append(done, asked[Len(done) + 1])
    /\ UNCHANGED asked

Next == Call \/ \E c \in Callers : Ask(c)

Spec == Init /\ [][Next]_vars
=============================================================================
