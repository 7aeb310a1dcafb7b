\* a types two lines at once.
SPECIFICATION FairSpec
CONSTANTS Clients = {"a"}
          Lines <- OnlyATwo
          UpCap = 8
          DownCap = 8
          MaxRead = 4
          Quitters = {}
          Killed = {}
PROPERTY SentOnAsTheyArrive
\* When everything has been said the processes wait in poll.
CHECK_DEADLOCK FALSE
