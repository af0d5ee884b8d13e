SPECIFICATION CredsFairSpec
CONSTANTS
  BufSize = 9
  StackSize = 10
  SsidSize = 2
  PasswordSize = 3
  Chars = {"a", "b", "red", "+", "%", "4", "0"}
  Escape <- Escapes
  Forms <- ShortForms
  Junk <- SomeJunk
  Flashed <- FlashedFile
INVARIANTS
  FormIsKeptAsPosted
  
PROPERTIES
  RequestsEnd
