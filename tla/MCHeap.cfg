SPECIFICATION Spec
INVARIANT BumpTypeOK LlTypeOK FreeRegionsHoldNodes FsbTypeOK BlocksAccounted
PROPERTY BumpImplementsHeap LlImplementsHeap FsbImplementsHeap
