SPECIFICATION FairSpec
CONSTANTS
  Bus = 2
  MaxLen = 4
  MemSize = 4
  Byte <- AllBytes
  NoByte = NoByte
  Payload <- OnePayload
  Contents <- OneContents
  Lens = {1, 2, 4}
  SubWordPartials = FALSE
  PartialBursts = FALSE
  BackToBack = TRUE
  Responses = {"OK"}
PROPERTIES
  MessageFinishes
