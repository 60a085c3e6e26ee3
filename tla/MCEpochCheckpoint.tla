------------------------- MODULE MCEpochCheckpoint -------------------------
(* Instances of EpochCheckpoint and of CheckpointTree for TLC.             *)
EXTENDS EpochCheckpoint, CheckpointTree

CONSTANTS w1, w2, acme, zenith

TwoWorkers == {w1, w2}
TwoTenants == {acme, zenith}
AcmeFirst == << acme, zenith >>

\* The second invocation is told to redo the first hour, whenever it runs.
SecondRedoesFirstHour == [w \in TwoWorkers |-> IF w = w2 THEN 0 ELSE None]

\* The chain of the first partition outgrows a page.
ChainBounds == [t \in TwoTenants |-> IF t = acme THEN 2 ELSE 1]

-----------------------------------------------------------------------------
\* The heads of up to seven tenants, and short lists of the heads of two, in
\* any order, with a tenant's head given more than once.
TwoHashes == {"h1", "h2"}
ShortLists ==
    {[i \in 1 .. n |-> [tenantId |-> i, headHash |-> "h1"]] : n \in 3 .. 7}
        \cup UNION {[1 .. n -> [tenantId : 1 .. 2, headHash : TwoHashes]] : n \in 0 .. 3}
        \cup [1 .. 4 -> [tenantId : 1 .. 2, headHash : {"h1"}]]

\* A behaviour either runs the workers, or stays at a pair of lists.
MCInit == Init /\ TreeInit

MCNext == heads = << >> /\ other = << >> /\ Next /\ UNCHANGED << heads, other >>

MCSpec == MCInit /\ [][MCNext]_<< vars, heads, other >> /\ Fairness

=============================================================================
