SPECIFICATION Spec
CONSTANTS
  Pages <- MCPages
  Options = {"poweroff", "cp_local", "fota_ap"}
  VpnPolls = 2
  UssdPolls = 0
  MaxCp = 2
  MaxAsked = 1
  MaxOrphans = 1
  MaxWork = 1
  Roaming = {"vpn", "account"}
INVARIANTS RefreshFitsPage BoxCoversWork AutoCloseIsOwn PollGoesOn
PROPERTIES WaitEnds LeftSessionEnds
