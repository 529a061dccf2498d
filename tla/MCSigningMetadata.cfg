\* The documentation's claim for every endpoint, metadata included.
SPECIFICATION Spec
CONSTANTS
  Chunk = {c1, c2}
  Line = {l1, l2, l3}
  ErrorText = error
  MaxPieces = 2
  SignatureOf <- MCSignatureOf
INVARIANT
  EverySignatureVerifies
