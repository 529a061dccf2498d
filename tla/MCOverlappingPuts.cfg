\* Two clients update one group at the same time and nothing fails.
SPECIFICATION StoreSpec
CONSTANTS
  Id = {1}
  Key <- MCKey
  MacKey <- MCMacKey
  Value <- MCValue
  EmptyValue = ""
  ParseMAC <- MCParseMAC
  NoMac = NoMac
  TextRank <- MCTextRank
  Var <- MCVar
  ToLower <- MCToLower
  Metadata <- MCMetadata
  NoBytes = NoBytes
  Unmarshal <- MCUnmarshal
  Marshal <- MCMarshal
  BadJSON = BadJSON
  NilMap = NilMap
  NilLabels = NilLabels
  OtherJSON = {tmpl1}
  Failed = Failed
  Proc = {p1, p2}
  Template = {tmpl0, tmpl1, tmpl2}
  tmpl0 = tmpl0
  tmpl1 = tmpl1
  tmpl2 = tmpl2
  Name <- MCNames
  Alias <- MCAlias
  Size <- MCSize
  Mixed <- MCMixed
  Hole = Hole
  NoDoc = NoDoc
  Torn = Torn
  NoFile = NoFile
  Faults = FALSE
  Tree <- MCGroupTree
  GroupIn <- MCTwoGroups
  ProfileIn <- None
  TemplateIn <- None
  GetIn <- MCOneFile
  ListIn <- None
INVARIANT
  PutsLeaveDocuments
