-------------------------- MODULE MCRequestBodies --------------------------
(* Instance of RequestBodies for TLC: at most MaxFields fields set.        *)
EXTENDS RequestBodies, FiniteSets

CONSTANT MaxFields

Fields(p) ==
  Cardinality(UNION p.track) + Cardinality(p.top) + Cardinality(UNION p.filters)

UpTo(S) == {T \in SUBSET S : Cardinality(T) <= MaxFields}

FewFields ==
  {p \in [track : {{}} \cup {{S} : S \in UpTo({"encoded", "identifier", "userData"})},
          top : UpTo({"position", "endTime", "volume", "paused"}),
          filters : {{}} \cup {{S} : S \in UpTo(FilterNames)}] :
     Fields(p) <= MaxFields}
=============================================================================
