SPECIFICATION Spec
CONSTANT Nothing = Nothing
INVARIANT StoredAlphaIsOne
