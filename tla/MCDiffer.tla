------------------------------ MODULE MCDiffer ------------------------------
(***************************************************************************)
(* Instances of Differ for TLC: values for the constants the .cfg files    *)
(* refer to.                                                               *)
(***************************************************************************)
EXTENDS Differ, TLC

CONSTANTS o1, o2, c1, c2, a, b

KafkaOnly == {"NotificationBackend"}
ServiceLogOnly == {"ServiceLog"}
BothTargets == Target

AllImportant == [t \in Target |-> Issue]

JustA == {{a}}
AThenBoth == {{a}, {a, b}}
AThenB == {{a}, {b}}
EveryKindOfReport == {{a}, {a, b}, Malformed}

Nothing == {}
ToggleB == [entry : Entry, issue : {b}]
FirstOrgAcksB == [org : {o1}, issue : {b}]

\* No constant of a run with two clusters tells them apart.
ClustersAreAlike == Permutations({c1, c2})
=============================================================================
