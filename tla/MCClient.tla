------------------------------ MODULE MCClient ------------------------------
(***************************************************************************)
(* Instances of the replicated account for TLC.                            *)
(***************************************************************************)
EXTENDS ClientProperties

CONSTANTS c1, c2, c3

Line(name, value) == [name |-> name, value |-> value]

\* Two commands that do not commute: the order of execution is visible.
DepositAndInterest == {Line("deposit", 1), Line("addInterest", 100)}
DepositAndRead == {Line("deposit", 1), Line("getSyncedBalance", 0)}
OnlyDeposit == {Line("deposit", 1)}
DepositAndTypo == {Line("deposit", 1), Line("deposit", NotANumber)}
ReadAndTypo == DepositAndRead \cup DepositAndTypo

\* Bounds for all clients, and for a founder among joiners with fewer.
One == [r \in Replicas |-> 1]
Two == [r \in Replicas |-> 2]
FounderTwo == [r \in Replicas |-> IF r \in Founders THEN 2 ELSE 1]
FoundersOnlyTwo == [r \in Replicas |-> IF r \in Founders THEN 2 ELSE 0]

\* The clients differ in their ids only.
Clients == Permutations(Replicas)
=============================================================================
