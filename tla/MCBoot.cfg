\* A machine boots while an RPC client moves its group and its profile.
SPECIFICATION Spec
CONSTANTS
  Id = {1, 2}
  Key <- MCKey
  MacKey <- MCMacKey
  Value <- MCValue
  EmptyValue = ""
  ParseMAC <- MCParseMAC
  NoMac = NoMac
  TextRank <- MCTextRank
  Var <- MCVar
  ToLower <- MCToLower
  Metadata <- MCMetadata
  NoBytes = NoBytes
  Unmarshal <- MCUnmarshal
  Marshal <- MCMarshal
  BadJSON = BadJSON
  NilMap = NilMap
  NilLabels = NilLabels
  OtherJSON = {tmpl1}
  Failed = Failed
  Proc = {h1, r1}
  HTTPProc = {h1}
  RPCProc = {r1}
  HTTPKind <- MCEndpoints
  RPCKind = {"GroupPut", "ProfilePut", "CloudPut"}
  Query <- MCQuery
  MacLabel = "mac"
  RequestVar = "request"
  RawName <- MCRawName
  Needs <- MCNeeds
  Accepts <- MCAccepts
  Template = {tmpl0, tmpl1, tmpl2}
  tmpl0 = tmpl0
  tmpl1 = tmpl1
  tmpl2 = tmpl2
  Name <- MCNames
  Alias <- MCAlias
  Size <- MCSize
  Mixed <- MCMixed
  Hole = Hole
  NoDoc = NoDoc
  Torn = Torn
  NoFile = NoFile
  Faults = FALSE
  Tree <- MCTrees
  GroupIn <- MCGroupInBoot
  ProfileIn <- MCProfileIn
  TemplateIn <- MCTemplateIn
  GetIn <- None
  ListIn = {}
INVARIANTS
  StableGroupPreferred
  AnswersFromOneChain
  UndisturbedAnswer
PROPERTY
  EveryRequestAnswered
