SPECIFICATION FairSpec
CHECK_DEADLOCK FALSE
CONSTANTS
 Main = Main
 m1=m1
 c1=c1
 m2=m2
 c2=c2
 Windows = {Main, m1}
 Modals = {m1}
 NoWin = NoWin
 KeepAlive = {}
 HasInit = {m1}
 HasRelease = {m1}
 HasQuery = {}
 HasGotFocus = {}
 Api = {"define","activate"}
 Ids = {1}
 MaxDepth = 7
 MaxPosted = 1
INVARIANT LoopHasWindow
