CONSTANT Texts <- AllTexts
SPECIFICATION Spec
INVARIANT ScanMatchesReference
INVARIANT ParseAsSpecified
