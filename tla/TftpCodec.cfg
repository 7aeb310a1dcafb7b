\* Packets of this program and of others, some too short, and all texts of up to four characters.
SPECIFICATION Spec
CONSTANTS OwnPackets <- MCOwn
          ForeignPackets <- MCForeign
          Texts <- MCTexts
          BlockSize = 3
          BufferSize = 8
INVARIANTS TypeOK ArrivesAsWired  ShortOrRefused TextSurvives PartialText 
\* The functions return.
CHECK_DEADLOCK FALSE
