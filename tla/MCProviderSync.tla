---------------------------- MODULE MCProviderSync ----------------------------
(***************************************************************************)
(* What the origin publishes in the runs of ProviderSync.                  *)
(***************************************************************************)
EXTENDS ProviderSync

CONSTANTS stops, trips, x, y, tagA, tagB

Feed(tag, stopsCrc, tripsCrc) ==
  [tag |-> tag, crc |-> [f \in Files |-> IF f = stops THEN stopsCrc ELSE tripsCrc]]

(* One file changes and the other disappears, in a feed without an ETag; then
   the first changes back and the second returns. *)
Changing == <<Feed(tagA, x, x), Feed(NoTag, y, None), Feed(tagB, x, y)>>

(* A feed is replaced, then withdrawn: the first one is served again, under
   its ETag. *)
Returning == <<Feed(tagA, x, x), Feed(tagB, y, x), Feed(tagA, x, x)>>

(* Failures with a feed that changes, and a feed that returns without any *)
Supported == {Changing, Returning}
SupportedFailures == [h \in Supported |-> IF h = Changing THEN 2 ELSE 0]

Withdrawn == {Returning}
WithdrawnFailures == [h \in Withdrawn |-> 1]
=============================================================================
