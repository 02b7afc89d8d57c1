SPECIFICATION FairSpec
CHECK_DEADLOCK FALSE
CONSTANTS
 Main = Main
 m1=m1
 c1=c1
 m2=m2
 c2=c2
 Windows = {Main, c1, m1}
 Modals = {m1}
 NoWin = NoWin
 KeepAlive = {}
 HasInit = {c1}
 HasRelease = {m1, Main}
 HasQuery = {m1}
 HasGotFocus = {}
 Api = {"define","activate","release","hide","show","events","nowait","multi","loop"}
 Ids = {1}
 MaxDepth = 4
 MaxPosted = 1
INVARIANTS TypeOK CountsWindows NoModalNoneDisabled
PROPERTY ReleaseHandled
