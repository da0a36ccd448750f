\* One request on its way from the socket to the chunk that answers it.
CONSTANTS
  INT_MAX = 99
  BUF = 4
  Capitals <- MCCapitals
  Punctuation <- MCPunctuation
  Whitespace <- MCWhitespace
  endoftext <- MCEndoftext
  VOCAB_SIZE = 40
  Control <- MCControl
  Clients <- MCClients
SPECIFICATION Spec
INVARIANTS VocabLoaded ReadWhole FieldsAsSent EncodesAsTrained ReplyReads
PROPERTIES ReadingEnds
CHECK_DEADLOCK FALSE
