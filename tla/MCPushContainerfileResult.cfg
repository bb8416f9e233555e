SPECIFICATION Spec
CONSTANT ParamSet <- AllParams
INVARIANT ResultWhereAsked
