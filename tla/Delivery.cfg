SPECIFICATION DeliverySpec
CONSTANTS
    None = None
    NoImei = NoImei
    MaxFaults = 2
    MaxTrouble = 2
    Header = 4
    ImeiEnd = 2
    PacketSize = 5
    RetryCounts = {0, 2}
    Messages <- MCMessages
    Inboxes <- MCInboxes
    Owners <- MCOwners
    Root <- MCRoot
    Outs <- MCOuts
    Writers <- MCWriters
    Rows <- MCRows
    Program <- MCProgram
    Columns <- MCColumns
    ByteTexts <- MCByteTexts
    Characters <- MCCharacters
    CSVFields <- MCCSVFields
    JsonTexts <- MCJsonTexts
CHECK_DEADLOCK FALSE
INVARIANTS
    WholeMessages
    NotifiedInTurn
    BuffersAccounted
    AppendedAsTold
    PassedOnInOrder
    ConversionsRight
PROPERTIES
    ComesBack
