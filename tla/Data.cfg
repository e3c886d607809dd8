SPECIFICATION Spec
CONSTANT BTreeHalfOrder = 2
INVARIANTS
  RoundTrip
  LengthsAgree
  SignatureCovers
  ArrayIntact
  MultisigInOrder
  TextReadsBack
  TransactionRules
  AddressesReadBack
  TargetsOrdered
  MerkleRootsAgree
  SeparatorsRemoved
