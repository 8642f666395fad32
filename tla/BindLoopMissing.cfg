SPECIFICATION Spec
CONSTANTS
  Null = Null  Absent = Absent  Bad = Bad
  Zero = 0  Empty = 1
  Plans <- RequiredPlans
  Values <- SmallValues
  Size <- SmallSize
  Texts <- SmallTexts
  Decode <- SmallDecode
  Encode <- SmallEncode
  Codec <- SmallCodec
  Skips <- SmallSkips
  MaxBinds = 1
INVARIANT AllowMissingRequired
