CONSTANT MaxReal = 24
SPECIFICATION Spec
INVARIANT CanariesSpread
