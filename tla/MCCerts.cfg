SPECIFICATION CertsSpec
CONSTANTS
  Hosts = {host}
  Local = local
  Imported = imported
  Given <- MCGiven
  MaxIssues = 3
  MaxRemoves = 1
  MaxDeaths = 1

  
  
PROPERTIES
  ReloadCatchesUp
CHECK_DEADLOCK FALSE
