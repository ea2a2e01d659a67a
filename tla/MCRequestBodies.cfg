SPECIFICATION Spec
CONSTANTS
  Players <- FewFields
  MaxTracks = 3
  MaxFields = 3
CHECK_DEADLOCK FALSE
INVARIANTS TextInBlock BodyButForSeparators ExactUnlessScalarFollowed
