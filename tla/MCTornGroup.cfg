\* A machine boots while its group is updated: which group does it get?
SPECIFICATION Spec
CONSTANTS
  Id = {1, 2}
  Key <- MCKey
  MacKey <- MCMacKey
  Value <- MCValue
  EmptyValue = ""
  ParseMAC <- MCParseMAC
  NoMac = NoMac
  TextRank <- MCTextRank
  Var <- MCVar
  ToLower <- MCToLower
  Metadata <- MCMetadata
  NoBytes = NoBytes
  Unmarshal <- MCUnmarshal
  Marshal <- MCMarshal
  BadJSON = BadJSON
  NilMap = NilMap
  NilLabels = NilLabels
  OtherJSON = {tmpl1}
  Failed = Failed
  Proc = {h1, r1}
  HTTPProc = {h1}
  RPCProc = {r1}
  HTTPKind = {"metadata"}
  RPCKind = {"GroupPut"}
  Query <- MCQuery
  MacLabel = "mac"
  RequestVar = "request"
  RawName <- MCRawName
  Needs <- MCNeeds
  Accepts <- MCAccepts
  Template = {tmpl0, tmpl1, tmpl2}
  tmpl0 = tmpl0
  tmpl1 = tmpl1
  tmpl2 = tmpl2
  Name <- MCNames
  Alias <- MCAlias
  Size <- MCSize
  Mixed <- MCMixed
  Hole = Hole
  NoDoc = NoDoc
  Torn = Torn
  NoFile = NoFile
  Faults = FALSE
  Tree <- MCTrees
  GroupIn <- MCGroupIn
  ProfileIn <- None
  TemplateIn <- None
  GetIn <- None
  ListIn = {}
INVARIANT
  MostSelectorsFirst
