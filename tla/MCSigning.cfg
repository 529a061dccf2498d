\* A config and its signature, fetched together.
SPECIFICATION Spec
CONSTANTS
  Chunk = {c1, c2}
  Line = {l1, l2, l3}
  ErrorText = error
  MaxPieces = 2
  SignatureOf <- MCSignatureOf
INVARIANTS
  TypeOK
  StatusAgrees
  SignatureVerifies
  SignErrorIsApparent
