SPECIFICATION FairSpec
CHECK_DEADLOCK FALSE
CONSTANTS
 Main = Main
 m1=m1
 c1=c1
 m2=m2
 c2=c2
 Windows = {Main, c1, m1, m2}
 Modals = {m1,m2}
 NoWin = NoWin
 KeepAlive = {c1}
 HasInit = {}
 HasRelease = {m1}
 HasQuery = {m1}
 HasGotFocus = {m1}
 Api = {"define","activate"}
 Ids = {1}
 MaxDepth = 9
 MaxPosted = 1
INVARIANTS ModalChain ActiveModalUsable LoopHasWindow CloseKeepsSlot
PROPERTY LoopEndsLast ActivateReturns ImplementsDialogStack
