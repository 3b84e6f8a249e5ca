SPECIFICATION FairSpec
CONSTANTS
  r1 = r1
  r2 = r2
  r3 = r3
  NoSite = NoSite
  Requests <- Three
  Emails <- TwoAddresses
  EmailOf <- ResentAddress
  MaxFaults = 2
PROPERTIES SetupCompletes
