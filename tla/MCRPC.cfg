\* Two RPC clients select, get, list and put, with I/O errors and crashes.
SPECIFICATION Spec
CONSTANTS
  Id = {1, 2}
  Key <- MCKey
  MacKey <- MCMacKey
  Value <- MCValue
  EmptyValue = ""
  ParseMAC <- MCParseMAC
  NoMac = NoMac
  TextRank <- MCTextRank
  Var <- MCVar
  ToLower <- MCToLower
  Metadata <- MCMetadata
  NoBytes = NoBytes
  Unmarshal <- MCUnmarshal
  Marshal <- MCMarshal
  BadJSON = BadJSON
  NilMap = NilMap
  NilLabels = NilLabels
  OtherJSON = {tmpl1}
  Failed = Failed
  Proc = {r1, r2}
  HTTPProc = {}
  RPCProc = {r1, r2}
  HTTPKind = {}
  RPCKind <- MCMethods
  Query <- MCLabels
  MacLabel = "mac"
  RequestVar = "request"
  RawName <- MCRawName
  Needs <- MCNeeds
  Accepts <- MCAccepts
  Template = {tmpl0, tmpl1, tmpl2}
  tmpl0 = tmpl0
  tmpl1 = tmpl1
  tmpl2 = tmpl2
  Name <- MCNames
  Alias <- MCAlias
  Size <- MCSize
  Mixed <- MCMixed
  Hole = Hole
  NoDoc = NoDoc
  Torn = Torn
  NoFile = NoFile
  Faults = TRUE
  Tree <- MCTreesRPC
  GroupIn <- MCGroupIn
  ProfileIn <- None
  TemplateIn <- MCTemplateInRPC
  GetIn <- MCGetIn
  ListIn = {}
SYMMETRY Symmetry
INVARIANTS
  TypeOK
  StableGroupPreferred
  AnswersFromOneChain
  UndisturbedAnswer
