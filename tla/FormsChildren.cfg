SPECIFICATION FairSpec
CHECK_DEADLOCK FALSE
CONSTANTS
 Main = Main
 m1=m1
 c1=c1
 m2=m2
 c2=c2
 Windows = {Main, c1, c2}
 Modals = {}
 NoWin = NoWin
 KeepAlive = {}
 HasInit = {}
 HasRelease = {}
 HasQuery = {}
 HasGotFocus = {}
 Api = {"define","activate"}
 Ids = {1}
 MaxDepth = 7
 MaxPosted = 1

PROPERTY LoopEndsLast
