--------------------------- MODULE MCSendMessages ---------------------------
(* Topologies for TLC: accounts with their keys, and profiles of one or    *)
(* two tiers.                                                              *)
EXTENDS SendMessages, TLC

CONSTANTS m1, m2, g1, g2, r1, r2

Key(g) == [group |-> g, enabled |-> TRUE]
Disabled(g) == [group |-> g, enabled |-> FALSE]

TwoAccounts == <<Key(g1), Key(g2)>>
BigAccount == <<Key(g1), Key(g1), Key(g2)>>
LastDisabled == Append(BigAccount, Disabled(g2))
FirstDisabled == <<Disabled(g1), Key(g1), Key(g2)>>

Interchangeable == Permutations(Requests)

OneTier == <<<<m1>>>>
TwoTiers == <<<<m1>>, <<m2>>>>
=============================================================================
