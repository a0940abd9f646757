SPECIFICATION Spec
CONSTANTS
  MaxMessages = 3
  MaxPieces = 4
  Padded <- MCPadded
  FirstOf <- MCFirstOf
  Objects = {"{a}", "{b}"}
  Broken = {"{'x}"}
  Cut = {"{x: '"}
  Rest = "'}"
  Arguments <- MCArguments
  Replies <- MCReplies
  None = None
INVARIANTS
  TypeOK
  ConversationKept
  ErrorsFitStatus
  ThoughtsStayOut
  LoneObjectFound
CHECK_DEADLOCK FALSE
