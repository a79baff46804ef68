SPECIFICATION PartsSpec
CONSTANTS
  c1 = c1
  c2 = c2
  c3 = c3
  Client <- ThreeClients
  KeepAlive = FALSE
  Name <- AmyOrPlayer1
  NoName <- Anonymous
  Default <- Defaults
  FewKinds <- OneKind
  MoreKinds <- TwoKinds
  FewerClients = 2
  MoreClients = 3
SYMMETRY AnyClient
INVARIANTS
  TypeOK
  LobbyHasOneOwner
  JackIdsUnique
  PlayersKnowAllJacks
  NoGhostJacks
  RosterAgrees
