\* Two endpoints, three lines, four lines of chat.
SPECIFICATION FairSpec
CONSTANTS
  Endpoints = 2
  MaxLines = 3
  MaxSaid = 4
INVARIANTS
  TypeOK
  OutboxInOrder
  PanelShowsChat
PROPERTIES
  AckStartsGui
  QuitCompletes
