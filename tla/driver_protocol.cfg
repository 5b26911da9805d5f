SPECIFICATION FairSpec
CONSTANTS
  NULL = NULL
  Handles = {h1}
  Messages <- ProtocolMessages
PROPERTY ClientServed
