\* a says two lines and b one, over connections that hold a message and a half one way
\* and half a one the other; a quits, b is killed.
SPECIFICATION FairSpec
CONSTANTS Clients = {"a", "b"}
          Lines <- ATwoOne
          UpCap = 3
          DownCap = 1
          MaxRead = 3
          Quitters = {"a"}
          Killed = {"b"}
INVARIANTS TypeOK Aligned SameConversation
PROPERTIES SaidAndHeard Shown Forgotten
\* When everything has been said the processes wait in poll.
CHECK_DEADLOCK FALSE
