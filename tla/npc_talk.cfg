\* Every conversation with every NPC.
SPECIFICATION Spec
CONSTANTS
  Npc <- Names
  Pages <- Calls
  Nobody = "nobody"
  Clicked <- ByClick
  Started <- ByCommand
  Asked <- ByRequest
  Greeting <- ByMap
  Mute <- MuteScripts
  Blind <- BlindScripts
  Careless <- CarelessScripts
INVARIANTS TypeOK Listening NoFreeGift NothingLost
PROPERTIES StrandedOnly Freed
