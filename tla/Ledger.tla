------------------------------- MODULE Ledger -------------------------------
(***************************************************************************)
(* What a reader of a run's audit trail relies on, with the writers, their *)
(* transactions and their locks left out: entries are only ever added at   *)
(* the end, each carries the hash of the one before it, and marks, once    *)
(* set, stay on the entry they were set on.                                *)
(***************************************************************************)
EXTENDS Naturals, Sequences

CONSTANT Genesis     \* what the first entry carries

VARIABLES
  entries,   \* the events, in their order
  marks      \* the signed checkpoints

Init == entries = <<>> /\ marks = {}

\* The entries of before are the first ones of after.
Extends(before, after) ==
  /\ Len(before) <= Len(after)
  /\ \A i \in 1..Len(before) : after[i] = before[i]

\* An entry carries its own place and the hash of the entry before it.
Linked(i) ==
  /\ entries'[i].seq = i
  /\ entries'[i].prev_hash = IF i = 1 THEN Genesis ELSE entries'[i-1].event_hash

\* A mark names an entry by its place and its hash.
Marks(m, i) == m.seq = i /\ m.hash = entries'[i].event_hash

\* Linked entries are added, and marks on entries; an entry that ends the run is
\* marked in the step that adds it.
Grow ==
  /\ Extends(entries, entries') /\ marks \subseteq marks'
  /\ \A i \in Len(entries) + 1 .. Len(entries') :
       /\ Linked(i)
       /\ entries'[i].type = "final" => \E m \in marks' : Marks(m, i)
  /\ \A m \in marks' \ marks : \E i \in 1..Len(entries') : Marks(m, i)

Spec == Init /\ [][Grow]_<<entries, marks>>
=============================================================================
