CONSTANTS
  None = None
  Nodes = {n1, n2}
  AllScripts = {a, b}
  Users = {a, b}
  Channels = {a, b}
  Files = {f1, f2}
  FirstFile = f1
  MaxCalls = 2
  MaxLogins = 3
  MaxCaptchas = 3
  MaxTasks = 2
  MaxChains = 2
  MaxApps = 2
  MaxCust = 2
  MaxEdits = 1
  Logins = {a, b}
  MaxAsks = 2
SPECIFICATION Spec
SYMMETRY Sym
INVARIANTS
  PagesTypeOK PageFitsSession ExpiredIsHonest CodeAnswersThePicture
  TaskIsFollowed FinishedIsListed UploadFollowsSave
  DialogsKeepTheirScript ConfigSavedWhereRead
  NewCodeIsShown SwitchKeepsTheEdit
CHECK_DEADLOCK FALSE
