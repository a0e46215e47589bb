CONSTANTS
  AppDirs <- MCAppDirs
  Partitions <- MCPartitions
  SubDirs <- MCSubDirs
  Databases <- MCDatabases
  Layout <- MCLayout
  NamedCookies <- MCNamedCookies
  Sessions = {s1}
  MaxTime = 3
  NoPath = NoPath
SPECIFICATION Spec
INVARIANTS TypeOK ChoosesRecent CookiesOfOwnProfile
