SPECIFICATION Spec
CONSTANTS
  auth = auth
  notice = notice
  kick = kick
  Client = {c1}
  Emitter = {c1}
  NoClient = none
  Command = {auth, notice, kick}
  Name <- MCName
  Aliases <- MCAliases
  MinLevel <- MCMinLevel
  Letters <- MCLetters
  Authorizes = {auth}
  Emits = {notice}
  MaxHID = 3
INVARIANT EmitComplete
INVARIANT ListedCanBeTyped
INVARIANT TypedIsListed
 
INVARIANT AdminsOnly
PROPERTY WordsKeepMeaning
PROPERTY ImplementsEventBus
