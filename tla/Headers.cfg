SPECIFICATION Spec
CONSTANTS
  Types <- MCTypes
  Texts <- MCTexts
  Mailboxes <- MCMailboxes
  Groups <- MCGroups
  Addresses <- MCAddresses
  Names <- MCNames
  Words <- MCWords
  Dates <- MCDates
  Numbers <- MCNumbers
  MaxEntries = 2
  IntMax = 9999
INVARIANTS
  TypeOK
  CloneKeeps
  CacheIsCurrent
  AddressesSurvive
  TestsAgree
