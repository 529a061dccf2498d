\* Every tree of up to three files, every label set.
SPECIFICATION SelectionSpec
CONSTANTS
  Id = {1, 2, 3, 4, 5}
  Key <- MCKey
  MacKey <- MCMacKey
  Value <- MCValue
  EmptyValue = ""
  ParseMAC <- MCParseMAC
  NoMac = NoMac
  TextRank <- MCTextRank
  Var <- MCVar
  ToLower <- MCToLower
  Metadata <- MCMetadata
  NoBytes = NoBytes
  Unmarshal <- MCUnmarshal
  Marshal <- MCMarshal
  BadJSON = BadJSON
  NilMap = NilMap
  NilLabels = NilLabels
  Failed = Failed
  NameOf <- MCNameOf
  Part <- MCPart
  Nul = "NUL"
  OtherJSON = {ign}
  Text = {tmpl, ign}
  tmpl = tmpl
  ign = ign
  GroupIn <- MCGroupIn
  ProfileIn <- MCProfileIn
  TemplateIn <- MCTemplateIn
  ByHand <- MCByHand
  LabelsIn <- MCLabels
  MaxFiles = 3
INVARIANTS
  TreeOK
  KeptReadable
  ListComplete
  PlainPutsWork
  SelectionCorrect
  SelectionDeterministic
