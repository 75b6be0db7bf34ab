------------------------------ MODULE MCRecovery ------------------------------
(***************************************************************************)
(* Instances of Gather for TLC, and of Recovery, which tells what becomes  *)
(* of the old ring's packets.  The two share nothing but the daemons, so each behaviour  *)
(* is one of one of them.                                                  *)
(***************************************************************************)
EXTENDS Gather, TLC

CONSTANTS OldRing, Pasts

VARIABLES
  which,                                    \* the one of this behaviour
  past, ring, late, tokens, rounds, astray

Exchange == INSTANCE Recovery WITH st <- ring, air <- late, forms <- rounds

ASSUME ExchangeAssumption == Exchange!RecoveryAssumption

Pkt(d, safe) == [from |-> d, safe |-> safe]
NoneBefore == [d \in OldRing |-> {d}]
Past(sent, lost1, lost2) ==
  [sent |-> sent, lost |-> (1 :> lost1 @@ 2 :> lost2 @@ 3 :> {}), base |-> 1, commit |-> NoneBefore,
   late |-> FALSE, maxForms |-> 2]
\* A hole that only 3 could fill, before a SAFE packet of 3 and before one of 2.
MCHoles ==
  {Past(<<Pkt(1, FALSE), Pkt(3, FALSE), Pkt(3, TRUE)>>, {2}, {2}),
   Past(<<Pkt(1, FALSE), Pkt(3, TRUE), Pkt(2, TRUE)>>, {2}, {2})}
\* 1 and 2 with a hole each that the other can fill; the last packets known to 3 alone.
MCEach ==
  {[p EXCEPT !.maxForms = 1] :
     p \in {Past(<<Pkt(1, FALSE), Pkt(3, FALSE), Pkt(3, TRUE)>>, {2}, {3}),
            Past(<<Pkt(1, FALSE), Pkt(3, TRUE), Pkt(3, FALSE)>>, {3}, {2, 3})}}
\* One SAFE packet, missed by 2: it has none of the old ring's.
MCFirstMissed == {[Past(<<Pkt(3, TRUE)>>, {}, {1}) EXCEPT !.base = 0, !.maxForms = 1]}
\* Two packets of 3, the first missed by 1 and 2; before, 1 and 3 were on a ring.
MCGap == {[Past(<<Pkt(3, FALSE), Pkt(3, FALSE)>>, {1}, {1}) EXCEPT
             !.base = 0, !.maxForms = 1, !.commit = (1 :> {1, 3} @@ 2 :> {2} @@ 3 :> {1, 3})]}
\* One packet, missed by 1 or by 1 and 2, and still on its way.
MCLate == {[Past(<<Pkt(3, FALSE)>>, {1}, l) EXCEPT !.base = 0, !.maxForms = 1, !.late = TRUE] : l \in {{}, {1}}}
MCPasts == MCHoles \cup MCEach \cup MCFirstMissed \cup MCGap \cup MCLate

\* 1 and 2 are of one segment, 3 of another: 1 and 3 on a ring and 2 just started, or all
\* just started.
MCSeg == <<1, 1, 2>>
MCStarts == {{{1, 3}}, {}}

--------------------------------------------------------------------------------
exchangeVars == <<past, ring, late, tokens, rounds, astray>>

BothInit ==
  \/ /\ which = "exchange" /\ Exchange!Init
     /\ st = [d \in Daemons |-> Started(d)]
     /\ air = {} /\ forms = 0 /\ formed = {} /\ timeouts = 0 /\ unwritten = <<>>
  \/ /\ which = "search" /\ Init
     /\ past = [sent |-> <<>>] /\ ring = [d \in Daemons |-> Exchange!Alone(d)]
     /\ late = [d \in Daemons |-> {}] /\ tokens = late /\ rounds = 0 /\ astray = {}

BothNext ==
  /\ UNCHANGED which
  /\ \/ which = "search" /\ Next /\ UNCHANGED exchangeVars
     \/ which = "exchange" /\ Exchange!Next /\ UNCHANGED vars

Both == BothInit /\ [][BothNext]_<<which, exchangeVars, vars>> /\ Exchange!Fairness

\* The counters of the exchange in step, and none of its alarms (Recovery).
ExchangeSound == Exchange!Sound
\* What extended virtual synchrony asks of one change of rings (Recovery).
ExtendedVirtualSynchrony == Exchange!ExtendedVirtualSynchrony
\* What a SAFE message delivered promises of the others (Recovery).
SafeReached == Exchange!SafeReached
\* The exchange comes to an end (Recovery).
ExchangeEnds == Exchange!ExchangeEnds
=============================================================================
