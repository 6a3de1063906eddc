------------------------------ MODULE MCEntryLog ------------------------------
(***************************************************************************)
(* EntryLog on a small instance: two appenders, two keys, two messages     *)
(* that compete for the first key, one message for the second and one      *)
(* without an EntryID; the clock shows one of two seconds.                 *)
(***************************************************************************)
EXTENDS EntryLog

CONSTANTS a1, a2, m1, m2, m3, bad

MCAppenders == {a1, a2}
MCMsgs  == {m1, m2, m3, bad}
MCKeys  == 1..2
MCKeyOf == [m \in MCMsgs |-> CASE m \in {m1, m2} -> 1
                               [] m = m3 -> 2
                               [] OTHER -> NilKey]
MCTimes == {10, 11}
=============================================================================
