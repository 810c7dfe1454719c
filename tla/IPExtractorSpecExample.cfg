CONSTANT Texts <- SpecExampleTexts
SPECIFICATION Spec
INVARIANT WholeLiteralsOnly
