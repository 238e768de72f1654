------------------------------- MODULE Statistics -------------------------------
(***************************************************************************)
(* client/stats.h: how many messages were processed, how large they were,  *)
(* and how long that took, in all and in a ring of slots of delta_size_.   *)
(* A slot has the number and the sizes; the accumulators of times and      *)
(* speeds are fed alike.  print_, which formats this, is left out.         *)
(***************************************************************************)
EXTENDS Integers, Sequences, SequencesExt

CONSTANTS
  Half,        (* half of the values a time may have: 2 ^ 63 in the code       *)
  Delta,       (* delta_size_                                                  *)
  MaxSlots,    (* max_slots_                                                   *)
  Deferred     (* defer_total_calculations ()                                  *)

ASSUME StatisticsAssumption ==
  /\ Half \in Nat \ {0} /\ Delta \in Nat \ {0} /\ MaxSlots \in Nat \ {0}
  /\ Deferred \in Nat /\ Deferred < 2 * Delta   \* both are 15 seconds

Earliest == -Half   \* time_point::min ()

EmptySlot == [count |-> 0, size |-> 0]

Unknown == -1

\* The constructor.
NoStatistics ==
  [samples |-> <<>>, last |-> Earliest, start |-> Unknown, messages |-> 0, size |-> 0]

\* A difference of times, which wraps.
Wrapped(t) == LET u == t % (2 * Half)
              IN  IF u >= Half THEN u - 2 * Half ELSE u

\* Division to zero, and a negative quotient taken for a large number.
Slots(elapsed) ==
  LET q == IF elapsed >= 0 THEN elapsed \div Delta ELSE -((-elapsed) \div Delta)
  IN  IF q < 0 \/ q > MaxSlots THEN MaxSlots ELSE q

\* rinsert at the beginning of a ring that is full of what it can hold.
RInsert(samples, n) ==
  LET all == [i \in 1 .. n |-> EmptySlot] \o samples
  IN  SubSeq(all, 1, IF Len(all) < MaxSlots THEN Len(all) ELSE MaxSlots)

FaultyRolled(st, n) == RInsert(st.samples, 1)   \* a pause is one slot

Rolled(st, n) == IF st.samples = <<>> THEN <<EmptySlot>> ELSE RInsert(st.samples, n)

\* roll_acc at time now.  late is whether the first slot counts, for the two
\* clocks are read one after the other.
RollAcc(st, now, late) ==
  LET n     == Slots(Wrapped(now - st.last))
      start == IF st.start = Unknown THEN now ELSE st.start
      adds  == st.samples # <<>> /\ (now - start > Deferred \/ (now - start = Deferred /\ late))
      first == IF adds THEN st.samples[1] ELSE EmptySlot
  IN  IF n = 0 THEN st
      ELSE [samples  |-> Rolled(st, n),
            last     |-> now,
            start    |-> start,
            messages |-> st.messages + first.count,
            size     |-> st.size + first.size]

\* log, which holds the mutex.
Log(st, now, late, size) ==
  LET r == RollAcc(st, now, late)
  IN  [r EXCEPT !.samples[1].count = @ + 1, !.samples[1].size = @ + size]

\* What print (deltas, label) sums up.
Window(st, deltas) ==
  LET n == IF deltas < Len(st.samples) THEN deltas ELSE Len(st.samples)
      upTo[k \in 0 .. n] ==
        IF k = 0 THEN EmptySlot
        ELSE [count |-> upTo[k - 1].count + st.samples[k].count,
              size  |-> upTo[k - 1].size + st.samples[k].size]
  IN  upTo[n]
=============================================================================
