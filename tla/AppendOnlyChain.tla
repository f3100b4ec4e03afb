--------------------------- MODULE AppendOnlyChain ---------------------------
(***************************************************************************)
(* The store src/audit.py describes in its docstrings: records are added   *)
(* at the end and at no other place, each carries the hash of the record   *)
(* before it, and a crash of the host takes at most records whose fsync    *)
(* has not succeeded, from the end.  AuditLog implements this module while *)
(* processes take turns, records are short and no write fails or is cut.   *)
(***************************************************************************)
EXTENDS Naturals, Sequences

CONSTANTS Events,     \* audit events
          Genesis     \* prev_hash of the first record

VARIABLES log,        \* the records, [event, prev]: the hash of a record stands for its event
          kept        \* leading records that are on stable storage

chainVars == <<log, kept>>

LastHashOf(l) == IF l = <<>> THEN Genesis ELSE l[Len(l)].event

ChainInit == log = <<>> /\ kept = 0

Add(e) ==
  /\ \A k \in 1..Len(log) : log[k].event # e
  /\ log' = Append(log, [event |-> e, prev |-> LastHashOf(log)])
  /\ UNCHANGED kept

Secure == kept' = Len(log) /\ UNCHANGED log

LoseTail ==
  /\ \E n \in kept..Len(log) : log' = SubSeq(log, 1, n)
  /\ kept' = Len(log')

ChainNext == (\E e \in Events : Add(e)) \/ Secure \/ LoseTail

ChainSpec == ChainInit /\ [][ChainNext]_chainVars

=============================================================================
