\* The comment of writer.go on when a reply is a success.
SPECIFICATION Spec
CONSTANTS
  Chunk = {c1, c2}
  Line = {l1, l2, l3}
  ErrorText = error
  MaxPieces = 2
  SignatureOf <- MCSignatureOf
INVARIANT
  SigningDeterminesSuccess
