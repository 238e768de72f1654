------------------------------- MODULE MCLoadRun -------------------------------
(* Archives for TLC: messages with digits and line ends in them. *)
EXTENDS LoadRun, TLC

Message(digits, text) == [digits |-> digits, text |-> text]

MCArchives ==
  {<<Message(<<0, 2>>, <<NL, 1>>), Message(<<1>>, <<Other>>)>>,
   <<Message(<<1>>, <<3>>), Message(<<1, 0>>, [i \in 1 .. 10 |-> IF i = 2 THEN NL ELSE 1]),
     Message(<<2>>, <<Other, NL>>)>>}
MCHeaders == {<<>>, <<Other, 5>>}
MCLimits == {<<2, 0>>, <<1, 2>>, <<1, 10>>, <<2, 1>>}
MCSymmetry == Permutations(Clients)
=============================================================================
