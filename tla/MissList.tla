------------------------------ MODULE MissList ------------------------------
(***************************************************************************)
(* What buildMissList of e3x/channel.go computes.                          *)
(***************************************************************************)
EXTENDS Integers, FiniteSets

CONSTANT cReadBufferSize

\* The seqs from the first one that is neither read nor buffered to the
\* highest one seen.  Those that are buffered beyond the first gap are among
\* them: the loop does not step over an entry that ends a gap.
FromFirstGap(read, seen, buffered) ==
  {n \in read + 1 .. seen : ~(read + 1 .. n \subseteq buffered)}

\* The list, as distances from the last seq read: cut at cReadBufferSize - 1
\* entries, followed by the highest acceptable seq.  MissListLoop checks that
\* the loops of the code build this list.
BuildMissList(read, seen, buffered) ==
  LET missing == FromFirstGap(read, seen, buffered)
      listed == {n \in missing :
                   Cardinality({k \in missing : k < n}) < cReadBufferSize - 1}
  IN IF missing = {} THEN {}
     ELSE {n - read : n \in listed} \cup {cReadBufferSize}

=============================================================================
